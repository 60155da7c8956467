-------------------------- MODULE DirectoryProofs ---------------------------
(***************************************************************************)
(* What Directory promises, for any number of units, users, roles,         *)
(* permissions and requests.  The properties are not inductive: IInv adds  *)
(* that references lead to rows (RefsOK), that the closure is the one of a *)
(* tree (TreeOK), what a request holds at each statement (InHand,          *)
(* RefsInHand), and what it has checked and may rely on as long as nobody  *)
(* else wrote since it arrived (Fresh).                                    *)
(*                                                                         *)
(* First come the tree of units and the closure the trigger makes of it,   *)
(* as facts about parents.  A tree is Rooted: no set of units has the      *)
(* parents of all its members, which mentions no climb and is what a move  *)
(* keeps.  Climbs and levels are recursive functions; that there are such  *)
(* functions is shown by building them one number after the other.         *)
(***************************************************************************)
EXTENDS Directory, FiniteSetTheorems, WellFoundedInduction, TLAPS

N == Cardinality(Orgs)
Parents == [Orgs -> Orgs \cup {NULL}]

\* A set of units that has the parent of each of its members is empty.
Rooted(parent) == \A S \in SUBSET Orgs : S # {} => \E o \in S : parent[o] \notin S

\* A set has the parents of its members that have one.
Upward(S, parent) == \A o \in S : parent[o] # NULL => parent[o] \in S

\* A set of numbers that is not empty has a least one.
LEMMA LeastNumber ==
  ASSUME NEW S \in SUBSET Nat, S # {}
  PROVE  \E n \in S : \A m \in S : n <= m
<1>1. \A m, n \in Nat : m < n => <<m, n>> \in OpToRel(<, Nat)
  BY DEF OpToRel
<1>2. PICK n \in S : \A m \in S : <<m, n>> \notin OpToRel(<, Nat)
  BY NatLessThanWellFounded, WFMin, Zenon
<1>3. ASSUME NEW m \in S PROVE n <= m
  <2>1. m \in Nat /\ n \in Nat
    OBVIOUS
  <2>2. ~(m < n)
    BY <1>1, <1>2, <2>1
  <2> QED  BY <2>1, <2>2
<1> QED  BY <1>3

\* Induction up to n, over a set of numbers instead of a predicate.
LEMMA Induction ==
  ASSUME NEW n \in Nat, NEW S, 0 \in S,
         \A k \in 0..n : k \in S /\ k < n => k + 1 \in S
  PROVE  0..n \subseteq S
<1> SUFFICES ASSUME NEW x \in (0..n) \ S PROVE FALSE
  OBVIOUS
<1>1. PICK k \in (0..n) \ S : \A m \in (0..n) \ S : k <= m
  <2>1. (0..n) \ S \in SUBSET Nat /\ (0..n) \ S # {}
    OBVIOUS
  <2> QED  BY <2>1, LeastNumber, Zenon
<1>2. k # 0 /\ k - 1 \in 0..n /\ k - 1 < n
  BY <1>1
<1>3. k - 1 \in S
  BY <1>1, <1>2
<1>4. (k - 1) + 1 = k
  BY <1>1
<1>5. k \in S
  BY <1>2, <1>3, <1>4
<1> QED  BY <1>1, <1>5

\* There is a number of units.
LEMMA SizeNat == N \in Nat
BY ConstantsAssumption, FS_CardinalityType DEF N

\* up[k] is the unit k steps above o, for k up to n.
Walk(up, n, o, parent) ==
  up = [k \in 0..n |-> IF k = 0 THEN o ELSE IF up[k - 1] = NULL THEN NULL ELSE parent[up[k - 1]]]

\* There is such a function: it is made longer a step at a time.
LEMMA WalkExists ==
  ASSUME NEW o, NEW parent
  PROVE  \E up : Walk(up, N, o, parent)
<1> DEFINE S == {n \in Nat : \E up : Walk(up, n, o, parent)}
<1>1. 0 \in S
  <2>1. Walk([k \in 0..0 |-> o], 0, o, parent)
    BY DEF Walk
  <2> QED  BY <2>1
<1>2. ASSUME NEW n \in 0..N, n \in S PROVE n + 1 \in S
  <2>1. n \in Nat
    BY SizeNat
  <2>2. PICK up : Walk(up, n, o, parent)
    BY <1>2
  <2>3. PICK top : top = IF up[n] = NULL THEN NULL ELSE parent[up[n]]
    OBVIOUS
  <2>4. PICK more : more = [k \in 0..(n + 1) |-> IF k = n + 1 THEN top ELSE up[k]]
    OBVIOUS
  <2>5. ASSUME NEW k \in 0..(n + 1)
        PROVE  more[k] = IF k = 0 THEN o ELSE IF more[k - 1] = NULL THEN NULL ELSE parent[more[k - 1]]
    <3>1. CASE k = n + 1
      <4>1. k - 1 = n /\ k # 0 /\ n \in 0..(n + 1) /\ n # n + 1
        BY <2>1, <3>1
      <4>2. more[k - 1] = up[n] /\ more[k] = top
        BY <2>4, <3>1, <4>1
      <4> QED  BY <2>3, <4>1, <4>2
    <3>2. CASE k # n + 1 /\ k # 0
      <4>1. k \in 0..n /\ k - 1 \in 0..(n + 1) /\ k - 1 # n + 1
        BY <2>1, <3>2
      <4>2. more[k] = up[k] /\ more[k - 1] = up[k - 1]
        BY <2>4, <3>2, <4>1
      <4>3. up[k] = IF up[k - 1] = NULL THEN NULL ELSE parent[up[k - 1]]
        BY <2>2, <3>2, <4>1 DEF Walk
      <4> QED  BY <3>2, <4>2, <4>3
    <3>3. CASE k # n + 1 /\ k = 0
      <4>1. k \in 0..n
        BY <2>1, <3>3
      <4>2. more[k] = up[k] /\ up[k] = o
        BY <2>2, <2>4, <3>3, <4>1 DEF Walk
      <4> QED  BY <3>3, <4>2
    <3> QED  BY <3>1, <3>2, <3>3
  <2>6. Walk(more, n + 1, o, parent)
    BY <2>4, <2>5 DEF Walk
  <2> QED  BY <2>1, <2>6
<1>3. 0..N \subseteq S
  <2> HIDE DEF S
  <2> QED  BY SizeNat, <1>1, <1>2, Induction
<1> QED  BY SizeNat, <1>3

\* Climb is such a function.
LEMMA ClimbDef ==
  ASSUME NEW o, NEW parent
  PROVE  Walk(Climb(o, parent), N, o, parent)
<1>1. Climb(o, parent) = CHOOSE up : Walk(up, N, o, parent)
  BY DEF Climb, N, Walk
<1> QED  BY <1>1, WalkExists, Zenon

\* The first step is at the unit, the next one at the parent of the last.
LEMMA ClimbSteps ==
  ASSUME NEW o \in Orgs, NEW parent \in Parents
  PROVE  /\ Climb(o, parent)[0] = o
         /\ \A k \in 0..N : k < N => Climb(o, parent)[k + 1] =
              IF Climb(o, parent)[k] = NULL THEN NULL ELSE parent[Climb(o, parent)[k]]
         /\ \A k \in 0..N : Climb(o, parent)[k] \in Orgs \cup {NULL}
<1> DEFINE S == {k \in 0..N : Climb(o, parent)[k] \in Orgs \cup {NULL}}
<1>1. PICK up : up = Climb(o, parent) /\ Walk(up, N, o, parent)
  BY ClimbDef
<1>2. up[0] = o
  BY <1>1, SizeNat DEF Walk
<1>3. ASSUME NEW k \in 0..N, k < N
      PROVE  up[k + 1] = IF up[k] = NULL THEN NULL ELSE parent[up[k]]
  <2>1. k + 1 \in 0..N /\ k + 1 # 0 /\ (k + 1) - 1 = k
    BY <1>3, SizeNat
  <2> QED  BY <1>1, <2>1 DEF Walk
<1>4. 0 \in S
  BY <1>1, <1>2, SizeNat
<1>5. ASSUME NEW k \in 0..N, k \in S, k < N PROVE k + 1 \in S
  <2>1. k + 1 \in 0..N
    BY <1>5, SizeNat
  <2>2. up[k + 1] \in Orgs \cup {NULL}
    BY <1>1, <1>3, <1>5 DEF Parents
  <2> QED  BY <1>1, <2>1, <2>2
<1>6. 0..N \subseteq S
  <2> HIDE DEF S
  <2> QED  BY SizeNat, <1>4, <1>5, Induction
<1> QED  BY <1>1, <1>2, <1>3, <1>6

\* What is above a unit, itself included, is what the climb passes.
LEMMA AboveHolds ==
  ASSUME NEW o \in Orgs, NEW parent \in Parents
  PROVE  /\ o \in Above(o, parent) /\ Above(o, parent) \subseteq Orgs
         /\ \A k \in 0..N : Climb(o, parent)[k] # NULL => Climb(o, parent)[k] \in Above(o, parent)
         /\ \A a \in Above(o, parent) : \E k \in 0..N : Climb(o, parent)[k] = a
<1>1. 0 \in 0..N /\ o # NULL
  BY SizeNat, IdsAssumption DEF Ids
<1> QED  BY <1>1, ClimbSteps DEF Above, N

\* What has o and is closed under parents has everything above o.
LEMMA AboveLeast ==
  ASSUME NEW o \in Orgs, NEW parent \in Parents, NEW S, o \in S, Upward(S, parent)
  PROVE  Above(o, parent) \subseteq S
<1> DEFINE T == {k \in 0..N : Climb(o, parent)[k] \in S \cup {NULL}}
<1>1. 0 \in T
  BY ClimbSteps, SizeNat
<1>2. ASSUME NEW k \in 0..N, k \in T, k < N PROVE k + 1 \in T
  <2>1. k + 1 \in 0..N
    BY <1>2, SizeNat
  <2>2. Climb(o, parent)[k + 1] = IF Climb(o, parent)[k] = NULL THEN NULL ELSE parent[Climb(o, parent)[k]]
    BY <1>2, ClimbSteps
  <2>3. Climb(o, parent)[k + 1] \in S \cup {NULL}
    BY <1>2, <2>2 DEF Upward
  <2> QED  BY <2>1, <2>3
<1>3. 0..N \subseteq T
  <2> HIDE DEF T
  <2> QED  BY SizeNat, <1>1, <1>2, Induction
<1> QED  BY <1>3 DEF Above, N

\* A walk past all the units comes by one of them twice.
LEMMA ClimbRepeats ==
  ASSUME NEW o \in Orgs, NEW parent \in Parents, Climb(o, parent)[N] # NULL
  PROVE  \E i, j \in 0..N :
           /\ i < j /\ Climb(o, parent)[i] = Climb(o, parent)[j]
           /\ \A k \in 0..N : Climb(o, parent)[k] \in Orgs
<1> DEFINE T == {k \in 0..N : Climb(o, parent)[k] # NULL => \A m \in 0..N : m <= k => Climb(o, parent)[m] # NULL}
<1>1. 0 \in T
  BY SizeNat
<1>2. ASSUME NEW k \in 0..N, k \in T, k < N PROVE k + 1 \in T
  <2>1. k + 1 \in 0..N
    BY <1>2, SizeNat
  <2>2. Climb(o, parent)[k + 1] = IF Climb(o, parent)[k] = NULL THEN NULL ELSE parent[Climb(o, parent)[k]]
    BY <1>2, ClimbSteps
  <2>3. \A m \in 0..N : m <= k + 1 => m <= k \/ m = k + 1
    BY SizeNat
  <2> QED  BY <1>2, <2>1, <2>2, <2>3
<1>3. 0..N \subseteq T
  <2> HIDE DEF T
  <2> QED  BY SizeNat, <1>1, <1>2, Induction
<1>4. \A k \in 0..N : Climb(o, parent)[k] \in Orgs
  <2>1. N \in T /\ \A k \in 0..N : k <= N
    BY <1>3, SizeNat
  <2> QED  BY <2>1, ClimbSteps
<1>5. PICK f : f = [k \in 0..N |-> Climb(o, parent)[k]]
  OBVIOUS
<1>6. f \in [0..N -> Orgs]
  BY <1>4, <1>5
<1>7. IsFiniteSet(0..N) /\ Cardinality(0..N) = N + 1
  BY SizeNat, FS_Interval
<1>8. IsFiniteSet(Orgs) /\ Cardinality(Orgs) < Cardinality(0..N)
  BY <1>7, SizeNat, ConstantsAssumption DEF N
<1>9. PICK i, j \in 0..N : i # j /\ f[i] = f[j]
  BY <1>6, <1>7, <1>8, FS_PigeonHole
<1>10. i < j \/ j < i
  BY <1>9
<1> QED  BY <1>4, <1>5, <1>9, <1>10

\* Above a unit there is the parent of each unit above it.
LEMMA AboveUpward ==
  ASSUME NEW o \in Orgs, NEW parent \in Parents
  PROVE  Upward(Above(o, parent), parent)
<1> SUFFICES ASSUME NEW a \in Above(o, parent), parent[a] # NULL
             PROVE  parent[a] \in Above(o, parent)
  BY DEF Upward
<1>1. PICK k \in 0..N : Climb(o, parent)[k] = a
  BY AboveHolds
<1>2. a \in Orgs /\ a # NULL
  BY AboveHolds, IdsAssumption DEF Ids
<1>3. CASE k < N
  <2>1. k + 1 \in 0..N
    BY <1>3, SizeNat
  <2>2. Climb(o, parent)[k + 1] = parent[a]
    BY <1>1, <1>2, <1>3, ClimbSteps
  <2> QED  BY <2>1, <2>2, AboveHolds
<1>4. CASE k = N
  <2>1. Climb(o, parent)[N] # NULL
    BY <1>1, <1>2, <1>4
  <2>2. PICK i, j \in 0..N : /\ i < j /\ Climb(o, parent)[i] = Climb(o, parent)[j]
                            /\ \A m \in 0..N : Climb(o, parent)[m] \in Orgs
    BY <2>1, ClimbRepeats
  <2>3. PICK D : D = {Climb(o, parent)[m] : m \in 0..(j - 1)}
    OBVIOUS
  <2>4. o \in D
    BY <2>2, <2>3, SizeNat, ClimbSteps
  <2>5. Upward(D, parent)
    <3>1. ASSUME NEW m \in 0..(j - 1) PROVE parent[Climb(o, parent)[m]] \in D
      <4>1. m \in 0..N /\ m < N /\ m + 1 \in 0..N
        BY <2>2, SizeNat
      <4>2. Climb(o, parent)[m] # NULL
        BY <2>2, <4>1, IdsAssumption DEF Ids
      <4>3. Climb(o, parent)[m + 1] = parent[Climb(o, parent)[m]]
        BY <4>1, <4>2, ClimbSteps
      <4>4. m + 1 \in 0..(j - 1) \/ (m + 1 = j /\ i \in 0..(j - 1))
        BY <2>2
      <4> QED  BY <2>2, <2>3, <4>3, <4>4
    <3> QED  BY <2>3, <3>1 DEF Upward
  <2>6. a \in D
    BY <2>4, <2>5, AboveLeast
  <2>7. parent[a] \in D
    BY <1>4, <2>5, <2>6 DEF Upward
  <2>8. PICK m \in 0..(j - 1) : parent[a] = Climb(o, parent)[m]
    BY <2>3, <2>7
  <2>9. m \in 0..N
    BY <2>2, SizeNat
  <2> QED  BY <2>8, <2>9, AboveHolds
<1> QED  BY <1>3, <1>4, SizeNat

\* What is above a unit is the unit, or above its parent.
LEMMA AboveParent ==
  ASSUME NEW o \in Orgs, NEW parent \in Parents, NEW a \in Above(o, parent), a # o
  PROVE  parent[o] # NULL /\ a \in Above(parent[o], parent)
<1>1. CASE parent[o] = NULL
  <2>1. Upward({o}, parent)
    BY <1>1 DEF Upward
  <2> QED  BY <2>1, AboveLeast
<1>2. CASE parent[o] # NULL
  <2>1. parent[o] \in Orgs
    BY <1>2 DEF Parents
  <2>2. Upward({o} \cup Above(parent[o], parent), parent)
    BY <2>1, AboveUpward, AboveHolds DEF Upward
  <2> QED  BY <1>2, <2>2, AboveLeast
<1> QED  BY <1>1, <1>2

\* Past the last unit of a tree there is none.
LEMMA ClimbEnds ==
  ASSUME NEW o \in Orgs, NEW parent \in Parents, Rooted(parent)
  PROVE  Climb(o, parent)[N] = NULL
<1> SUFFICES ASSUME Climb(o, parent)[N] # NULL PROVE FALSE
  OBVIOUS
<1>1. PICK i, j \in 0..N : /\ i < j /\ Climb(o, parent)[i] = Climb(o, parent)[j]
                          /\ \A m \in 0..N : Climb(o, parent)[m] \in Orgs
  BY ClimbRepeats
<1>2. PICK D : D = {Climb(o, parent)[m] : m \in i..(j - 1)}
  OBVIOUS
<1>3. D \in SUBSET Orgs /\ D # {}
  <2>1. \A m \in i..(j - 1) : m \in 0..N
    BY <1>1, SizeNat
  <2>2. i \in i..(j - 1)
    BY <1>1
  <2> QED  BY <1>1, <1>2, <2>1, <2>2
<1>4. ASSUME NEW m \in i..(j - 1) PROVE parent[Climb(o, parent)[m]] \in D
  <2>1. m \in 0..N /\ m < N /\ m + 1 \in 0..N
    BY <1>1, SizeNat
  <2>2. Climb(o, parent)[m] # NULL
    BY <1>1, <2>1, IdsAssumption DEF Ids
  <2>3. Climb(o, parent)[m + 1] = parent[Climb(o, parent)[m]]
    BY <2>1, <2>2, ClimbSteps
  <2>4. m + 1 \in i..(j - 1) \/ (m + 1 = j /\ i \in i..(j - 1))
    BY <1>1
  <2> QED  BY <1>1, <1>2, <2>3, <2>4
<1> QED  BY <1>2, <1>3, <1>4 DEF Rooted

\* In a tree no unit is above its parent,
LEMMA RootedAcyclic ==
  ASSUME NEW parent \in Parents, Rooted(parent), NEW o \in Orgs, parent[o] # NULL
  PROVE  o \notin Above(parent[o], parent)
<1> SUFFICES ASSUME o \in Above(parent[o], parent) PROVE FALSE
  OBVIOUS
<1>1. parent[o] \in Orgs
  BY DEF Parents
<1>2. PICK S : S = {a \in Above(parent[o], parent) : o \in Above(a, parent)}
  OBVIOUS
<1>3. parent[o] \in S /\ S \in SUBSET Orgs
  BY <1>1, <1>2, AboveHolds
<1>4. ASSUME NEW a \in S PROVE parent[a] \in S
  <2>1. CASE a = o
    BY <1>3, <2>1
  <2>2. CASE a # o
    <3>1. parent[a] # NULL /\ o \in Above(parent[a], parent)
      BY <1>2, <1>3, <2>2, AboveParent
    <3>2. parent[a] \in Above(parent[o], parent)
      BY <1>1, <1>2, <3>1, AboveUpward DEF Upward
    <3> QED  BY <1>2, <3>1, <3>2
  <2> QED  BY <2>1, <2>2
<1> QED  BY <1>3, <1>4 DEF Rooted

\* and where no unit is above its parent there is a tree.
LEMMA AcyclicRooted ==
  ASSUME NEW parent \in Parents,
         \A o \in Orgs : parent[o] # NULL => o \notin Above(parent[o], parent)
  PROVE  Rooted(parent)
<1> SUFFICES ASSUME NEW S \in SUBSET Orgs, NEW o \in S, \A a \in S : parent[a] \in S
             PROVE  FALSE
  BY DEF Rooted
<1>1. Upward(S, parent)
  BY DEF Upward
<1>2. Above(o, parent) \subseteq S
  BY <1>1, AboveLeast
<1>3. \A a \in S : a \in Orgs /\ a # NULL /\ parent[a] \in Orgs /\ parent[a] # NULL
  BY IdsAssumption DEF Ids
<1>4. ASSUME NEW k \in 0..N PROVE Climb(o, parent)[k] # NULL
  <2> DEFINE T == {m \in 0..N : Climb(o, parent)[m] \in S}
  <2>1. 0 \in T
    BY ClimbSteps, SizeNat
  <2>2. ASSUME NEW m \in 0..N, m \in T, m < N PROVE m + 1 \in T
    <3>1. m + 1 \in 0..N
      BY <2>2, SizeNat
    <3>2. Climb(o, parent)[m + 1] = parent[Climb(o, parent)[m]]
      BY <1>3, <2>2, ClimbSteps
    <3> QED  BY <2>2, <3>1, <3>2
  <2>3. 0..N \subseteq T
    <3> HIDE DEF T
    <3> QED  BY SizeNat, <2>1, <2>2, Induction
  <2> QED  BY <1>3, <2>3
<1>5. PICK i, j \in 0..N : i < j /\ Climb(o, parent)[i] = Climb(o, parent)[j]
  BY <1>4, SizeNat, ClimbRepeats
<1>6. PICK a : a = Climb(o, parent)[i]
  OBVIOUS
<1>7. a \in S
  BY <1>2, <1>4, <1>6, AboveHolds
<1>8. i < N /\ i + 1 \in 0..N /\ Climb(o, parent)[i + 1] = parent[a]
  <2>1. i < N /\ i + 1 \in 0..N
    BY <1>5, SizeNat
  <2> QED  BY <1>3, <1>6, <1>7, <2>1, ClimbSteps
<1>9. ASSUME NEW k \in 0..N, k >= i + 1 PROVE Climb(o, parent)[k] \in Above(parent[a], parent)
  <2> DEFINE T == {m \in 0..N : m >= i + 1 => Climb(o, parent)[m] \in Above(parent[a], parent)}
  <2>1. 0 \in T
    BY SizeNat
  <2>2. ASSUME NEW m \in 0..N, m \in T, m < N PROVE m + 1 \in T
    <3>1. m + 1 \in 0..N
      BY <2>2, SizeNat
    <3>2. CASE m + 1 < i + 1
      BY <3>1, <3>2
    <3>3. CASE m = i
      <4>1. parent[a] \in Above(parent[a], parent)
        BY <1>3, <1>7, AboveHolds
      <4> QED  BY <1>8, <3>1, <3>3, <4>1
    <3>4. CASE m >= i + 1
      <4>1. Climb(o, parent)[m] \in S
        BY <1>2, <1>4, AboveHolds
      <4>2. Climb(o, parent)[m + 1] = parent[Climb(o, parent)[m]] /\ Climb(o, parent)[m + 1] # NULL
        BY <1>3, <2>2, <4>1, ClimbSteps
      <4>3. Climb(o, parent)[m] \in Above(parent[a], parent)
        BY <2>2, <3>4
      <4>4. Climb(o, parent)[m + 1] \in Above(parent[a], parent)
        BY <1>3, <1>7, <4>2, <4>3, AboveUpward DEF Upward
      <4> QED  BY <3>1, <4>4
    <3> QED  BY <2>2, <3>2, <3>3, <3>4
  <2>3. 0..N \subseteq T
    <3> HIDE DEF T
    <3> QED  BY SizeNat, <2>1, <2>2, Induction
  <2> QED  BY <1>9, <2>3
<1>10. a \in Above(parent[a], parent)
  BY <1>5, <1>6, <1>9
<1> QED  BY <1>3, <1>7, <1>10

\* Two steps up start with the step to the parent.
LEMMA ClimbShift ==
  ASSUME NEW o \in Orgs, NEW parent \in Parents, parent[o] # NULL, NEW k \in 0..N, k < N
  PROVE  Climb(o, parent)[k + 1] = Climb(parent[o], parent)[k]
<1> DEFINE T == {m \in 0..N : m < N => Climb(o, parent)[m + 1] = Climb(parent[o], parent)[m]}
<1>1. parent[o] \in Orgs /\ o # NULL
  BY IdsAssumption DEF Parents, Ids
<1>2. 0 \in T
  <2>1. ASSUME 0 < N PROVE Climb(o, parent)[0 + 1] = Climb(parent[o], parent)[0]
    <3>1. 0 \in 0..N
      BY SizeNat
    <3>2. Climb(o, parent)[0] = o /\ Climb(parent[o], parent)[0] = parent[o]
      BY <1>1, ClimbSteps
    <3>3. Climb(o, parent)[0 + 1] = parent[o]
      BY <1>1, <2>1, <3>1, <3>2, ClimbSteps
    <3> QED  BY <3>2, <3>3
  <2> QED  BY <2>1, SizeNat
<1>3. ASSUME NEW m \in 0..N, m \in T, m < N PROVE m + 1 \in T
  <2>1. m + 1 \in 0..N
    BY <1>3, SizeNat
  <2>2. ASSUME m + 1 < N PROVE Climb(o, parent)[(m + 1) + 1] = Climb(parent[o], parent)[m + 1]
    <3>1. PICK a : a = Climb(o, parent)[m + 1] /\ a = Climb(parent[o], parent)[m]
      BY <1>3
    <3>2. Climb(o, parent)[(m + 1) + 1] = IF a = NULL THEN NULL ELSE parent[a]
      <4>1. PICK n \in 0..N : n = m + 1 /\ n < N
        BY <2>1, <2>2
      <4>2. Climb(o, parent)[n + 1] = IF Climb(o, parent)[n] = NULL THEN NULL ELSE parent[Climb(o, parent)[n]]
        BY <4>1, ClimbSteps
      <4> QED  BY <3>1, <4>1, <4>2
    <3>3. Climb(parent[o], parent)[m + 1] = IF a = NULL THEN NULL ELSE parent[a]
      BY <1>1, <1>3, <3>1, ClimbSteps
    <3> QED  BY <3>2, <3>3
  <2> QED  BY <2>1, <2>2
<1>4. 0..N \subseteq T
  <2> HIDE DEF T
  <2> QED  BY SizeNat, <1>2, <1>3, Induction
<1> QED  BY <1>4

\* A tree stays one when a unit that is not above another one comes under it.
LEMMA MoveRooted ==
  ASSUME NEW parent \in Parents, Rooted(parent), NEW id \in Orgs, NEW to \in Orgs \cup {NULL},
         to # NULL => id \notin Above(to, parent)
  PROVE  Rooted([parent EXCEPT ![id] = to])
<1> SUFFICES ASSUME NEW S \in SUBSET Orgs, S # {}, \A o \in S : [parent EXCEPT ![id] = to][o] \in S
             PROVE  FALSE
  BY DEF Rooted
<1>1. \A o \in S : o # id => parent[o] \in S
  BY DEF Parents
<1>2. CASE id \notin S
  BY <1>1, <1>2 DEF Rooted
<1>3. CASE id \in S
  <2>1. to \in S
    BY <1>3 DEF Parents
  <2>2. to \in Orgs /\ to # NULL
    BY <2>1, IdsAssumption DEF Ids
  <2>3. PICK D : D = S \cap Above(to, parent)
    OBVIOUS
  <2>4. to \in D /\ D \in SUBSET Orgs
    BY <2>1, <2>2, <2>3, AboveHolds
  <2>5. ASSUME NEW o \in D PROVE parent[o] \in D
    <3>1. o # id /\ o \in S /\ o \in Above(to, parent)
      BY <2>2, <2>3
    <3>2. parent[o] \in S /\ parent[o] # NULL
      BY <1>1, <3>1, IdsAssumption DEF Ids
    <3>3. parent[o] \in Above(to, parent)
      BY <2>2, <3>1, <3>2, AboveUpward DEF Upward
    <3> QED  BY <2>3, <3>2, <3>3
  <2> QED  BY <2>4, <2>5 DEF Rooted
<1> QED  BY <1>2, <1>3

\* No step up from the top leads anywhere.
LEMMA ClimbTop ==
  ASSUME NEW o \in Orgs, NEW parent \in Parents, parent[o] = NULL, NEW k \in 0..N, k # 0
  PROVE  Climb(o, parent)[k] = NULL
<1> DEFINE T == {m \in 0..N : m # 0 => Climb(o, parent)[m] = NULL}
<1>1. 0 \in T
  BY SizeNat
<1>2. ASSUME NEW m \in 0..N, m \in T, m < N PROVE m + 1 \in T
  <2>1. m + 1 \in 0..N
    BY <1>2, SizeNat
  <2>2. Climb(o, parent)[m + 1] = IF Climb(o, parent)[m] = NULL THEN NULL ELSE parent[Climb(o, parent)[m]]
    BY <1>2, ClimbSteps
  <2>3. Climb(o, parent)[m] \in {o, NULL}
    BY <1>2, ClimbSteps
  <2> QED  BY <2>1, <2>2, <2>3
<1>3. 0..N \subseteq T
  <2> HIDE DEF T
  <2> QED  BY SizeNat, <1>1, <1>2, Induction
<1> QED  BY <1>3

-----------------------------------------------------------------------------
(* The closure.                                                            *)

There(table) == {o \in Orgs : table[o] # NULL}

ParentsThere(table) ==
  \A o \in There(table) : table[o].parent # NULL => table[o].parent \in There(table)

NextLevel(level, k, table) ==
  UNION {{<<t[1], c, k>> : c \in {c \in There(table) : table[c].parent = t[2]}} : t \in level}

\* tree[k] is the level of depth k of the recursive query, for k up to n.
Levels(tree, n, table) ==
  tree = [k \in 0..n |-> IF k = 0 THEN {<<o, o, 0>> : o \in There(table)}
                         ELSE NextLevel(tree[k - 1], k, table)]

\* The levels can be built one after the other.
LEMMA LevelsExist ==
  ASSUME NEW table
  PROVE  \E tree : Levels(tree, N, table)
<1> DEFINE S == {n \in Nat : \E tree : Levels(tree, n, table)}
           Bottom == {<<o, o, 0>> : o \in There(table)}
<1>1. 0 \in S
  <2>1. Levels([k \in 0..0 |-> Bottom], 0, table)
    BY DEF Levels
  <2> QED  BY <2>1
<1>2. ASSUME NEW n \in 0..N, n \in S PROVE n + 1 \in S
  <2>1. n \in Nat
    BY SizeNat
  <2>2. PICK tree : Levels(tree, n, table)
    BY <1>2
  <2>3. PICK level : level = NextLevel(tree[n], n + 1, table)
    OBVIOUS
  <2>4. PICK more : more = [k \in 0..(n + 1) |-> IF k = n + 1 THEN level ELSE tree[k]]
    OBVIOUS
  <2>5. ASSUME NEW k \in 0..(n + 1)
        PROVE  more[k] = IF k = 0 THEN Bottom ELSE NextLevel(more[k - 1], k, table)
    <3>1. CASE k = n + 1
      <4>1. k - 1 = n /\ k # 0 /\ n \in 0..(n + 1) /\ n # n + 1
        BY <2>1, <3>1
      <4>2. more[k - 1] = tree[n] /\ more[k] = level
        BY <2>4, <3>1, <4>1
      <4> QED  BY <2>3, <3>1, <4>1, <4>2
    <3>2. CASE k # n + 1 /\ k # 0
      <4>1. k \in 0..n /\ k - 1 \in 0..(n + 1) /\ k - 1 # n + 1
        BY <2>1, <3>2
      <4>2. more[k] = tree[k] /\ more[k - 1] = tree[k - 1]
        BY <2>4, <3>2, <4>1
      <4>3. tree[k] = NextLevel(tree[k - 1], k, table)
        BY <2>2, <3>2, <4>1 DEF Levels
      <4> QED  BY <3>2, <4>2, <4>3
    <3>3. CASE k # n + 1 /\ k = 0
      <4>1. k \in 0..n
        BY <2>1, <3>3
      <4>2. more[k] = tree[k] /\ tree[k] = Bottom
        BY <2>2, <2>4, <3>3, <4>1 DEF Levels
      <4> QED  BY <3>3, <4>2
    <3> QED  BY <3>1, <3>2, <3>3
  <2>6. Levels(more, n + 1, table)
    BY <2>4, <2>5 DEF Levels
  <2> QED  BY <2>1, <2>6
<1>3. 0..N \subseteq S
  <2> HIDE DEF S
  <2> QED  BY SizeNat, <1>1, <1>2, Induction
<1> QED  BY SizeNat, <1>3

\* Refresh is the union of such levels.
LEMMA RefreshDef ==
  ASSUME NEW table
  PROVE  \E tree : Levels(tree, N, table) /\ Refresh(table) = UNION {tree[k] : k \in 0..N}
<1>1. PICK tree : tree = CHOOSE t : Levels(t, N, table)
  OBVIOUS
<1>2. Levels(tree, N, table)
  BY <1>1, LevelsExist, Zenon
<1>3. Refresh(table) = UNION {tree[k] : k \in 0..N}
  BY <1>1 DEF Refresh, Levels, NextLevel, There, N
<1> QED  BY <1>2, <1>3

\* The level of depth k has the pairs between which k steps up lead.
LEMMA LevelIs ==
  ASSUME NEW table, NEW parent \in Parents, ParentsThere(table),
         \A o \in There(table) : parent[o] = table[o].parent,
         NEW tree, Levels(tree, N, table), NEW k \in 0..N
  PROVE  \A t : t \in tree[k] <=>
           \E a, d \in There(table) : t = <<a, d, k>> /\ Climb(d, parent)[k] = a
<1> DEFINE Pair(t, m) == \E a, d \in There(table) : t = <<a, d, m>> /\ Climb(d, parent)[m] = a
           T == {m \in 0..N : \A t : t \in tree[m] <=> Pair(t, m)}
<1>1. \A o \in There(table) : o \in Orgs /\ o # NULL
  BY IdsAssumption DEF There, Ids
<1>2. 0 \in T
  <2>1. tree[0] = {<<o, o, 0>> : o \in There(table)}
    BY SizeNat DEF Levels
  <2>2. \A d \in There(table) : Climb(d, parent)[0] = d
    BY <1>1, ClimbSteps
  <2> QED  BY <2>1, <2>2, SizeNat
<1>3. ASSUME NEW m \in 0..N, m \in T, m < N PROVE m + 1 \in T
  <2>1. m + 1 \in 0..N /\ m + 1 # 0 /\ (m + 1) - 1 = m
    BY <1>3, SizeNat
  <2>2. tree[m + 1] = NextLevel(tree[m], m + 1, table)
    BY <2>1 DEF Levels
  <2>3. ASSUME NEW t, t \in tree[m + 1] PROVE Pair(t, m + 1)
    <3>1. PICK s \in tree[m], c \in There(table) : table[c].parent = s[2] /\ t = <<s[1], c, m + 1>>
      BY <2>2, <2>3 DEF NextLevel
    <3>2. PICK a, d \in There(table) : s = <<a, d, m>> /\ Climb(d, parent)[m] = a
      BY <1>3
    <3>3. parent[c] = d /\ d # NULL /\ t = <<a, c, m + 1>>
      BY <1>1, <3>1, <3>2
    <3>4. Climb(c, parent)[m + 1] = a
      BY <1>1, <1>3, <3>2, <3>3, ClimbShift
    <3> QED  BY <3>3, <3>4
  <2>4. ASSUME NEW t, Pair(t, m + 1) PROVE t \in tree[m + 1]
    <3>1. PICK a, c \in There(table) : t = <<a, c, m + 1>> /\ Climb(c, parent)[m + 1] = a
      BY <2>4
    <3>2. parent[c] # NULL
      BY <1>1, <2>1, <3>1, ClimbTop
    <3>3. PICK d \in There(table) : d = parent[c] /\ d = table[c].parent
      BY <3>1, <3>2 DEF ParentsThere
    <3>4. Climb(d, parent)[m] = a
      BY <1>1, <1>3, <3>1, <3>2, <3>3, ClimbShift
    <3>5. <<a, d, m>> \in tree[m]
      BY <1>3, <3>4
    <3> QED  BY <2>2, <3>1, <3>3, <3>5 DEF NextLevel
  <2> QED  BY <2>1, <2>3, <2>4
<1>4. 0..N \subseteq T
  <2> HIDE DEF T
  <2> QED  BY SizeNat, <1>2, <1>3, Induction
<1> QED  BY <1>4

\* The closure of a table holds, with their distance, the units that are above
\* one another.
ClosureOf(table, parent) ==
  {t \in Orgs \X Orgs \X (0..N) : /\ t[1] \in There(table) /\ t[2] \in There(table)
                                 /\ Climb(t[2], parent)[t[3]] = t[1]}

\* What the trigger computes is the climb, read the other way round.
LEMMA RefreshIs ==
  ASSUME NEW table, NEW parent \in Parents, ParentsThere(table),
         \A o \in There(table) : parent[o] = table[o].parent
  PROVE  Refresh(table) = ClosureOf(table, parent)
<1>1. PICK tree : Levels(tree, N, table) /\ Refresh(table) = UNION {tree[k] : k \in 0..N}
  BY RefreshDef
<1>2. ASSUME NEW t, t \in Refresh(table) PROVE t \in ClosureOf(table, parent)
  <2>1. PICK k \in 0..N : t \in tree[k]
    BY <1>1, <1>2
  <2>2. PICK a, d \in There(table) : t = <<a, d, k>> /\ Climb(d, parent)[k] = a
    BY <1>1, <2>1, LevelIs
  <2> QED  BY <2>2 DEF ClosureOf, There
<1>3. ASSUME NEW t, t \in ClosureOf(table, parent) PROVE t \in Refresh(table)
  <2>1. PICK a, d \in There(table), k \in 0..N : t = <<a, d, k>> /\ Climb(d, parent)[k] = a
    BY <1>3 DEF ClosureOf
  <2>2. t \in tree[k]
    BY <1>1, <2>1, LevelIs
  <2> QED  BY <1>1, <2>2
<1> QED  BY <1>2, <1>3

\* Tables without a cycle are those in which every climb comes to a root.
LEMMA CyclicOrRooted ==
  ASSUME NEW table, ParentsIn(table) \in Parents
  PROVE  Cyclic(table) <=> ~Rooted(ParentsIn(table))
<1>1. Rooted(ParentsIn(table)) => ~Cyclic(table)
  BY RootedAcyclic DEF Cyclic
<1>2. ~Cyclic(table) => Rooted(ParentsIn(table))
  BY AcyclicRooted DEF Cyclic
<1> QED  BY <1>1, <1>2

\* No unit is above itself.
LEMMA NotAboveItself ==
  ASSUME NEW parent \in Parents, Rooted(parent), NEW o \in Orgs, NEW k \in 1..N
  PROVE  Climb(o, parent)[k] # o
<1>1. k \in 0..N /\ k # 0 /\ k - 1 \in 0..N /\ k - 1 < N /\ (k - 1) + 1 = k
  BY SizeNat
<1>2. CASE parent[o] = NULL
  BY <1>1, <1>2, ClimbTop, IdsAssumption DEF Ids
<1>3. CASE parent[o] # NULL
  <2>1. parent[o] \in Orgs
    BY <1>3 DEF Parents
  <2>2. Climb(o, parent)[k] = Climb(parent[o], parent)[k - 1]
    BY <1>1, <1>3, ClimbShift
  <2>3. Climb(parent[o], parent)[k - 1] = o => o \in Above(parent[o], parent)
    BY <1>1, <2>1, AboveHolds, IdsAssumption DEF Ids
  <2> QED  BY <1>3, <2>2, <2>3, RootedAcyclic
<1> QED  BY <1>2, <1>3

-----------------------------------------------------------------------------
(* The inductive invariant.                                                *)

\* Rows refer to rows that are there.
RefsOK ==
  /\ ParentsThere(rows)
  /\ \A x \in Roles : Exists(x) => \A p \in rows[x].links : Exists(p)

\* The tree has no cycle, and the closure is that of the tree.
TreeOK ==
  /\ Rooted(ParentsIn(rows))
  /\ closure = ClosureOf(rows, ParentsIn(rows))

\* RightsAsGiven table by table: who has a role was given it, and what a role
\* allows it was given.
RightsOK ==
  /\ \A u \in Users \ mixed : Exists(u) => rows[u].links \subseteq given[u]
  /\ \A x \in Roles \ mixed : Exists(x) =>
       {p \in rows[x].links : Live(p)} \subseteq given[x] \cup mixed

\* What request r has in hand, by the statement it executes next.
InHand(r) ==
  LET id == job[r].id
      op == job[r].op
      asked == job[r].asked
      copy == mem[r]
  IN
  /\ pc[r] = "insert" =>
       /\ id = NULL /\ ~copy.deleted
       /\ \/ op = "org" /\ copy \in OrgRow /\ asked = UNSET
          \/ op = "user" /\ copy \in UserRow /\ copy.links = {} /\ asked \in SUBSET Roles
          \/ op = "role" /\ copy \in RoleRow /\ asked = UNSET
          \/ op = "permission" /\ copy \in PermissionRow /\ asked = UNSET
  /\ pc[r] \in {"parent", "walk"} =>
       op = "save" /\ id \in Orgs /\ copy \in OrgRow /\ copy.parent \in Orgs /\ asked = UNSET
  /\ pc[r] \in {"children", "tenants", "business"} =>
       op = "remove" /\ id \in Orgs /\ copy \in OrgRow /\ asked = UNSET
  /\ pc[r] = "org" =>
       /\ op = "save" /\ id \in Users /\ copy \in UserRow /\ copy.links = {}
       /\ asked \in (SUBSET Roles) \cup {UNSET}
  /\ pc[r] = "find" => op \in {"user", "save"} /\ id \in Users /\ asked \in SUBSET Roles
  /\ pc[r] = "roles" =>
       op = "assign" /\ id \in Users /\ copy \in UserRow /\ asked \in SUBSET Roles
  /\ pc[r] \in {"permissions", "resolve"} =>
       op = "assign" /\ id \in Roles /\ copy \in RoleRow /\ asked \in SUBSET Permissions
  /\ pc[r] = "resolve" => InClasses(asked) \subseteq asked
  /\ pc[r] \in {"load", "write"} =>
       /\ op \in {"save", "remove", "assign"} /\ id \in Ids /\ copy \in CopyOf(id)
       /\ op = "save" => asked = UNSET \/ (id \in Users /\ asked \in SUBSET Roles)
       /\ op = "assign" => /\ \/ id \in Users /\ asked \in SUBSET Roles
                              \/ id \in Roles /\ asked \in SUBSET Permissions
                           /\ copy.links \subseteq asked
       /\ op # "assign" /\ id \in Users => copy.links = {}
  /\ pc[r] = "write" => base[r] \in CopyOf(id)
  /\ pc[r] \notin {"idle", "insert"} => id \in Ids /\ Exists(id)

\* A copy refers to rows that are there, once its references are checked.
RefsInHand(r) ==
  LET id == job[r].id
      copy == mem[r]
  IN
  /\ \/ pc[r] = "insert" /\ job[r].op = "org"
     \/ pc[r] \in {"walk", "children", "tenants", "business", "load", "write"} /\ id \in Orgs
     => copy.parent = NULL \/ Exists(copy.parent)
  /\ \/ pc[r] = "insert" /\ job[r].op = "role"
     \/ pc[r] \in {"permissions", "resolve", "load", "write"} /\ id \in Roles
     => \A p \in copy.links : Exists(p)

\* What r has checked still holds when nobody wrote since it arrived.
Fresh(r) ==
  LET id == job[r].id
      op == job[r].op
      copy == mem[r]
  IN
  /\ pc[r] = "insert" =>
       /\ op = "org" => copy.parent = NULL \/ Live(copy.parent)
       /\ op = "user" => Live(copy.org)
  /\ pc[r] \in {"parent", "walk", "children", "tenants", "business", "org", "roles",
                "permissions", "resolve", "load", "write"} => Live(id)
  /\ pc[r] = "parent" => ~copy.deleted
  /\ pc[r] = "walk" => ~copy.deleted /\ Live(copy.parent)
  /\ pc[r] \in {"load", "write"} /\ id \in Orgs /\ op = "save" =>
       /\ ~copy.deleted
       /\ \/ copy.parent \in {NULL, rows[id].parent}
          \/ Live(copy.parent) /\ id \notin Above(copy.parent, LiveParents)
  /\ \/ pc[r] \in {"tenants", "business"}
     \/ pc[r] \in {"load", "write"} /\ id \in Orgs /\ op = "remove"
     => \A o \in Orgs : Live(o) => rows[o].parent # id
  /\ \/ pc[r] = "business"
     \/ pc[r] \in {"load", "write"} /\ id \in Orgs /\ op = "remove"
     => \A u \in Users : Exists(u) => rows[u].org # id
  /\ pc[r] \in {"roles", "load", "write"} /\ id \in Users =>
       job[r].unit = NULL \/ Live(job[r].unit)
  /\ pc[r] \in {"load", "write"} /\ id \in Roles /\ op # "assign" =>
       copy.links \subseteq rows[id].links
  /\ pc[r] \in {"load", "write"} /\ id \in Permissions => copy.links \subseteq Select(id).links
  /\ pc[r] = "write" =>
       base[r] = Select(id) /\ (id \in Orgs /\ op # "save" => copy.parent = rows[id].parent)
  /\ pc[r] = "hung" => mixed \cap Orgs # {}

Requested == \A r \in Requests : InHand(r) /\ RefsInHand(r) /\ (r \notin behind => Fresh(r))

IInv == TypeOK /\ RefsOK /\ TreeOK /\ RemovedIsBare /\ RightsOK /\ Requested

-----------------------------------------------------------------------------
\* Merge, table by table: what it writes is a row, with references that the row
\* or the copy has, and the copy itself when nobody wrote in between.
LEMMA MergeOrg ==
  ASSUME NEW row \in OrgRow, NEW copy \in OrgRow, NEW from \in OrgRow
  PROVE  /\ Merge(row, copy, from) \in OrgRow
         /\ Merge(row, copy, from).parent \in {row.parent, copy.parent}
         /\ from = row => Merge(row, copy, from) = copy
<1>1. DOMAIN row = {"parent", "active", "deleted"}
  BY DEF OrgRow
<1>2. PICK m : m = Merge(row, copy, from)
  OBVIOUS
<1>3. m = [parent |-> IF copy.parent # from.parent THEN copy.parent ELSE row.parent,
           active |-> IF copy.active # from.active THEN copy.active ELSE row.active,
           deleted |-> IF copy.deleted # from.deleted THEN copy.deleted ELSE row.deleted]
  BY <1>1, <1>2 DEF Merge
<1>4. m \in OrgRow /\ m.parent \in {row.parent, copy.parent}
  BY <1>3 DEF OrgRow
<1>5. from = row => m = copy
  BY <1>3 DEF OrgRow
<1> QED BY <1>2, <1>4, <1>5

LEMMA MergeUser ==
  ASSUME NEW row \in UserRow, NEW copy \in UserRow, NEW from \in UserRow
  PROVE  /\ Merge(row, copy, from) \in UserRow
         /\ Merge(row, copy, from).links \subseteq row.links \cup copy.links
         /\ from = row => Merge(row, copy, from) = copy
<1>1. DOMAIN row = {"org", "active", "deleted", "links"}
  BY DEF UserRow
<1>2. PICK m : m = Merge(row, copy, from)
  OBVIOUS
<1>3. m = [org |-> IF copy.org # from.org THEN copy.org ELSE row.org,
           active |-> IF copy.active # from.active THEN copy.active ELSE row.active,
           deleted |-> IF copy.deleted # from.deleted THEN copy.deleted ELSE row.deleted,
           links |-> (row.links \ (from.links \ copy.links)) \cup (copy.links \ from.links)]
  BY <1>1, <1>2 DEF Merge
<1>4. m \in UserRow
  BY <1>3 DEF UserRow
<1>5. m.links \subseteq row.links \cup copy.links
  BY <1>3 DEF UserRow
<1>6. from = row => m = copy
  BY <1>3 DEF UserRow
<1> QED BY <1>2, <1>4, <1>5, <1>6

LEMMA MergeRole ==
  ASSUME NEW row \in RoleRow, NEW copy \in RoleRow, NEW from \in RoleRow
  PROVE  /\ Merge(row, copy, from) \in RoleRow
         /\ Merge(row, copy, from).links \subseteq row.links \cup copy.links
         /\ from = row => Merge(row, copy, from) = copy
<1>1. DOMAIN row = {"system", "deleted", "links"}
  BY DEF RoleRow
<1>2. PICK m : m = Merge(row, copy, from)
  OBVIOUS
<1>3. m = [system |-> IF copy.system # from.system THEN copy.system ELSE row.system,
           deleted |-> IF copy.deleted # from.deleted THEN copy.deleted ELSE row.deleted,
           links |-> (row.links \ (from.links \ copy.links)) \cup (copy.links \ from.links)]
  BY <1>1, <1>2 DEF Merge
<1>4. m \in RoleRow
  BY <1>3 DEF RoleRow
<1>5. m.links \subseteq row.links \cup copy.links
  BY <1>3 DEF RoleRow
<1>6. from = row => m = copy
  BY <1>3 DEF RoleRow
<1> QED BY <1>2, <1>4, <1>5, <1>6

LEMMA MergePermission ==
  ASSUME NEW row \in PermissionCopy, NEW copy \in PermissionCopy, NEW from \in PermissionCopy
  PROVE  /\ Merge(row, copy, from) \in PermissionCopy
         /\ from = row => Merge(row, copy, from) = copy
<1>1. DOMAIN row = {"deleted", "links"}
  BY DEF PermissionCopy
<1>2. PICK m : m = Merge(row, copy, from)
  OBVIOUS
<1>3. m = [deleted |-> IF copy.deleted # from.deleted THEN copy.deleted ELSE row.deleted,
           links |-> (row.links \ (from.links \ copy.links)) \cup (copy.links \ from.links)]
  BY <1>1, <1>2 DEF Merge
<1>4. m \in PermissionCopy
  BY <1>3 DEF PermissionCopy
<1>6. from = row => m = copy
  BY <1>3 DEF PermissionCopy
<1> QED BY <1>2, <1>4, <1>6

\* An id's table, and the copies made of its rows.
LEMMA Tables ==
  /\ \A id \in Orgs : id \in Ids /\ RowOf(id) = OrgRow /\ CopyOf(id) = OrgRow /\ id \notin Permissions
                      /\ id \notin Users /\ id \notin Roles
  /\ \A id \in Users : id \in Ids /\ RowOf(id) = UserRow /\ CopyOf(id) = UserRow /\ id \notin Permissions
                      /\ id \notin Orgs /\ id \notin Roles
  /\ \A id \in Roles : id \in Ids /\ RowOf(id) = RoleRow /\ CopyOf(id) = RoleRow /\ id \notin Permissions
                      /\ id \notin Orgs /\ id \notin Users
  /\ \A id \in Permissions : /\ id \in Ids /\ RowOf(id) = PermissionRow /\ CopyOf(id) = PermissionCopy
                             /\ id \notin Orgs /\ id \notin Users /\ id \notin Roles
  /\ \A id \in Ids : id \in Orgs \/ id \in Users \/ id \in Roles \/ id \in Permissions
BY IdsAssumption DEF Ids, RowOf, CopyOf

\* What a request finds and what save selects are copies of the row.
LEMMA Selected ==
  ASSUME TypeOK, NEW id \in Ids, Exists(id)
  PROVE  /\ Select(id) \in CopyOf(id)
         /\ id \notin Permissions => Select(id) = rows[id]
         /\ id \in Permissions => /\ Select(id).deleted = rows[id].deleted
                                  /\ Select(id).links = {x \in Roles : Exists(x) /\ id \in rows[x].links}
<1>1. CASE id \in Permissions
  <2>1. rows[id] \in PermissionRow
    BY <1>1, Tables DEF TypeOK
  <2>2. rows[id].deleted \in BOOLEAN
    BY <2>1 DEF PermissionRow
  <2> QED  BY <1>1, <2>2, Tables DEF Select, PermissionCopy
<1>2. CASE id \notin Permissions
  BY <1>2 DEF Select, TypeOK, CopyOf
<1> QED  BY <1>1, <1>2

\* What findOne returns is a copy of the row, with no link the row does not have.
LEMMA Found ==
  ASSUME TypeOK, NEW id \in Ids, Exists(id)
  PROVE  /\ FindOne(id) \in CopyOf(id)
         /\ id \in Orgs => FindOne(id) = rows[id]
         /\ id \in Users => FindOne(id).links = {} /\ FindOne(id).org = rows[id].org
         /\ id \in Roles => FindOne(id).links \subseteq rows[id].links
         /\ id \in Permissions => FindOne(id).links \subseteq Select(id).links
<1>1. rows[id] \in RowOf(id)
  BY DEF TypeOK
<1>2. CASE id \in Orgs
  BY <1>1, <1>2, Tables DEF FindOne
<1>3. CASE id \in Users
  <2>1. FindOne(id) = [rows[id] EXCEPT !.links = {}] /\ rows[id] \in UserRow
    BY <1>1, <1>3, Tables DEF FindOne
  <2>2. FindOne(id) \in UserRow /\ FindOne(id).links = {} /\ FindOne(id).org = rows[id].org
    BY <2>1 DEF UserRow
  <2> QED  BY <1>3, <2>2, Tables
<1>4. CASE id \in Roles
  <2>1. FindOne(id) = [rows[id] EXCEPT !.links = {p \in @ : Live(p)}] /\ rows[id] \in RoleRow
    BY <1>1, <1>4, Tables DEF FindOne
  <2>2. FindOne(id) \in RoleRow /\ FindOne(id).links \subseteq rows[id].links
    BY <2>1 DEF RoleRow
  <2> QED  BY <1>4, <2>2, Tables
<1>5. CASE id \in Permissions
  <2>1. FindOne(id) = [deleted |-> rows[id].deleted,
                       links |-> {x \in Roles : Live(x) /\ id \in rows[x].links}]
    BY <1>5, Tables DEF FindOne
  <2>2. rows[id] \in PermissionRow
    BY <1>1, <1>5, Tables
  <2>3. FindOne(id) \in PermissionCopy
    BY <2>1, <2>2 DEF PermissionCopy, PermissionRow
  <2>4. FindOne(id).links \subseteq Select(id).links
    BY <2>1, <1>5, Selected DEF Live
  <2> QED  BY <1>5, <2>3, <2>4, Tables
<1> QED  BY <1>2, <1>3, <1>4, <1>5, Tables

\* softRemove keeps the references of the row, and of the copy the links.
LEMMA Removed ==
  ASSUME NEW id \in Ids, NEW row \in CopyOf(id), NEW copy \in CopyOf(id)
  PROVE  /\ Removal(row, copy) \in CopyOf(id)
         /\ id \in Orgs => Removal(row, copy).parent = row.parent
         /\ id \in Users => Removal(row, copy).org = row.org
         /\ id \notin Orgs => Removal(row, copy).links = copy.links
<1> PICK m : m = Removal(row, copy)
  OBVIOUS
<1>1. CASE id \in Orgs
  <2>1. row \in OrgRow /\ copy \in OrgRow
    BY <1>1, Tables
  <2>2. DOMAIN row = {"parent", "active", "deleted"}
    BY <2>1 DEF OrgRow
  <2>3. m = [c \in {"parent", "active", "deleted"} |->
               IF c = "deleted" THEN TRUE ELSE IF c = "links" THEN copy[c] ELSE row[c]]
    BY <2>2 DEF Removal
  <2>4. m.parent = row.parent /\ m.active = row.active /\ m.deleted = TRUE
    BY <2>3
  <2>5. m = [parent |-> row.parent, active |-> row.active, deleted |-> TRUE]
    BY <2>3, <2>4
  <2>6. m \in OrgRow
    BY <2>1, <2>5 DEF OrgRow
  <2> QED  BY <1>1, <2>4, <2>6, Tables
<1>2. CASE id \in Users
  <2>1. row \in UserRow /\ copy \in UserRow
    BY <1>2, Tables
  <2>2. DOMAIN row = {"org", "active", "deleted", "links"}
    BY <2>1 DEF UserRow
  <2>3. m = [c \in {"org", "active", "deleted", "links"} |->
               IF c = "deleted" THEN TRUE ELSE IF c = "links" THEN copy[c] ELSE row[c]]
    BY <2>2 DEF Removal
  <2>4. m.org = row.org /\ m.active = row.active /\ m.deleted = TRUE /\ m.links = copy.links
    BY <2>3
  <2>5. m = [org |-> row.org, active |-> row.active, deleted |-> TRUE, links |-> copy.links]
    BY <2>3, <2>4
  <2>6. m \in UserRow
    BY <2>1, <2>5 DEF UserRow
  <2> QED  BY <1>2, <2>4, <2>6, Tables
<1>3. CASE id \in Roles
  <2>1. row \in RoleRow /\ copy \in RoleRow
    BY <1>3, Tables
  <2>2. DOMAIN row = {"system", "deleted", "links"}
    BY <2>1 DEF RoleRow
  <2>3. m = [c \in {"system", "deleted", "links"} |->
               IF c = "deleted" THEN TRUE ELSE IF c = "links" THEN copy[c] ELSE row[c]]
    BY <2>2 DEF Removal
  <2>4. m.system = row.system /\ m.deleted = TRUE /\ m.links = copy.links
    BY <2>3
  <2>5. m = [system |-> row.system, deleted |-> TRUE, links |-> copy.links]
    BY <2>3, <2>4
  <2>6. m \in RoleRow
    BY <2>1, <2>5 DEF RoleRow
  <2> QED  BY <1>3, <2>4, <2>6, Tables
<1>4. CASE id \in Permissions
  <2>1. row \in PermissionCopy /\ copy \in PermissionCopy
    BY <1>4, Tables
  <2>2. DOMAIN row = {"deleted", "links"}
    BY <2>1 DEF PermissionCopy
  <2>3. m = [c \in {"deleted", "links"} |->
               IF c = "deleted" THEN TRUE ELSE IF c = "links" THEN copy[c] ELSE row[c]]
    BY <2>2 DEF Removal
  <2>4. m.deleted = TRUE /\ m.links = copy.links
    BY <2>3
  <2>5. m = [deleted |-> TRUE, links |-> copy.links]
    BY <2>3, <2>4
  <2>6. m \in PermissionCopy
    BY <2>1, <2>5 DEF PermissionCopy
  <2> QED  BY <1>4, <2>4, <2>6, Tables
<1> QED  BY <1>1, <1>2, <1>3, <1>4, Tables

\* What save writes is of the row's type, refers to what the row or the copy
\* refers to, and is the copy when nobody wrote the row since it was selected.
LEMMA Merged ==
  ASSUME NEW id \in Ids, NEW row \in CopyOf(id), NEW copy \in CopyOf(id), NEW from \in CopyOf(id)
  PROVE  /\ Merge(row, copy, from) \in CopyOf(id)
         /\ id \in Orgs => Merge(row, copy, from).parent \in {row.parent, copy.parent}
         /\ id \in Roles => Merge(row, copy, from).links \subseteq row.links \cup copy.links
         /\ from = row => Merge(row, copy, from) = copy
BY MergeOrg, MergeUser, MergeRole, MergePermission, Tables

\* Tables with rows of their types have parents.
LEMMA ParentsTyped ==
  ASSUME NEW table \in [Ids -> Row \cup {NULL}],
         \A id \in Ids : table[id] # NULL => table[id] \in RowOf(id)
  PROVE  /\ ParentsIn(table) \in Parents
         /\ \A o \in Orgs : table[o] # NULL => ParentsIn(table)[o] = table[o].parent
<1>1. ASSUME NEW o \in Orgs, table[o] # NULL PROVE table[o].parent \in Orgs \cup {NULL}
  <2>1. table[o] \in OrgRow
    BY <1>1, Tables
  <2> QED  BY <2>1 DEF OrgRow
<1> QED  BY <1>1 DEF ParentsIn, Parents

-----------------------------------------------------------------------------
(* Steps that write no table.                                              *)

Copies == Row \cup PermissionCopy \cup {NULL}

\* A step of another request: q keeps what it has in hand.
Same(q) == pc'[q] = pc[q] /\ job'[q] = job[q] /\ mem'[q] = mem[q] /\ base'[q] = base[q]

\* What r has in hand, in one word.
RequestOK(r) == InHand(r) /\ RefsInHand(r) /\ (r \notin behind => Fresh(r))

\* A step that leaves the tables alone leaves what another request relies on.
LEMMA ReadOthers ==
  ASSUME rows' = rows, mixed \subseteq mixed', NEW q \in Requests, Same(q), RequestOK(q),
         q \notin behind' => q \notin behind
  PROVE  RequestOK(q)'
<1>1. InHand(q)'
  BY DEF RequestOK, Same, InHand, Exists
<1>2. RefsInHand(q)'
  BY DEF RequestOK, Same, RefsInHand, Exists
<1>3. LiveParents' = LiveParents /\ Select(job[q].id)' = Select(job'[q].id)
  BY DEF LiveParents, Live, Exists, Select
<1>4. Fresh(q) => Fresh(q)'
  BY <1>3 DEF Same, Fresh, Exists, Live, Select
<1> QED  BY <1>1, <1>2, <1>4 DEF RequestOK

\* A request that is not at work relies on nothing.
LEMMA IdleOK ==
  ASSUME NEW q, pc[q] = "idle"
  PROVE  RequestOK(q)
BY DEF RequestOK, InHand, RefsInHand, Fresh

\* A step of r that writes no table: r itself is all there is to look at.
Quiet(r, p, j, m, b) ==
  /\ pc' = [pc EXCEPT ![r] = p] /\ job' = [job EXCEPT ![r] = j]
  /\ mem' = [mem EXCEPT ![r] = m] /\ base' = [base EXCEPT ![r] = b]
  /\ p \in Points /\ j \in Jobs /\ m \in Copies /\ b \in Copies

LEMMA QuietSets ==
  ASSUME TypeOK, NEW r \in Requests, NEW p, NEW j, NEW m, NEW b, Quiet(r, p, j, m, b)
  PROVE  /\ pc' \in [Requests -> Points] /\ job' \in [Requests -> Jobs]
         /\ mem' \in [Requests -> Copies] /\ base' \in [Requests -> Copies]
         /\ pc'[r] = p /\ job'[r] = j /\ mem'[r] = m /\ base'[r] = b
         /\ \A q \in Requests \ {r} : Same(q)
BY DEF TypeOK, Quiet, Same, Copies

\* Such a step keeps the invariant if r itself is in order after it.
LEMMA QuietStep ==
  ASSUME IInv, NEW r \in Requests, NEW p, NEW j, NEW m, NEW b, Quiet(r, p, j, m, b), Still,
         served' \in 0..MaxRequests, behind' \in {behind, behind \ {r}}, RequestOK(r)'
  PROVE  IInv'
<1>1. TypeOK /\ RefsOK /\ TreeOK /\ RemovedIsBare /\ RightsOK /\ Requested
  BY DEF IInv
<1>2. /\ rows' = rows /\ closure' = closure /\ business' = business
      /\ given' = given /\ mixed' = mixed /\ unseen' = unseen
  BY DEF Still, tables
<1>3. TypeOK'
  BY <1>1, <1>2, QuietSets DEF TypeOK, Exists, Copies
<1>4. RefsOK' /\ TreeOK'
  BY <1>1, <1>2 DEF RefsOK, ParentsThere, There, Exists, TreeOK
<1>5. RemovedIsBare' /\ RightsOK'
  BY <1>1, <1>2 DEF RemovedIsBare, RightsOK, Exists, Live
<1>6. Requested'
  <2>1. ASSUME NEW q \in Requests \ {r} PROVE RequestOK(q)'
    <3>1. Same(q) /\ RequestOK(q)
      BY <1>1, QuietSets DEF Requested, RequestOK
    <3> QED  BY <1>2, <3>1, ReadOthers
  <2> QED  BY <2>1 DEF Requested, RequestOK
<1> QED  BY <1>3, <1>4, <1>5, <1>6 DEF IInv

LEMMA AnswerSets ==
  ASSUME TypeOK, NEW r \in Requests, Answer(r)
  PROVE  Quiet(r, "idle", NoJob, NULL, NULL) /\ served' = served
BY DEF Answer, Quiet, NoJob, About, Jobs, Points, Copies

LEMMA EndStep ==
  ASSUME IInv, NEW r \in Requests, End(r)
  PROVE  IInv'
<1>1. Quiet(r, "idle", NoJob, NULL, NULL) /\ served' \in 0..MaxRequests
  BY AnswerSets DEF End, IInv, TypeOK
<1>2. RequestOK(r)'
  <2>1. pc'[r] = "idle"
    BY <1>1, QuietSets DEF IInv
  <2> QED  BY <2>1 DEF RequestOK, InHand, RefsInHand, Fresh
<1>3. Still /\ behind' = behind \ {r}
  BY DEF End
<1> QED  BY <1>1, <1>2, <1>3, QuietStep

LEMMA GotoStep ==
  ASSUME IInv, NEW r \in Requests, NEW p \in Points, Goto(r, p), Still, UNCHANGED behind,
         RequestOK(r)'
  PROVE  IInv'
<1>1. Quiet(r, p, job[r], mem[r], base[r])
  BY DEF Goto, Quiet, IInv, TypeOK, Copies
<1>2. served' \in 0..MaxRequests /\ behind' = behind
  BY DEF Goto, IInv, TypeOK
<1> QED  BY <1>1, <1>2, QuietStep

\* A request that arrives keeps the invariant if it starts in order.
LEMMA TakenUp ==
  ASSUME IInv, NEW r \in Requests, served < MaxRequests,
         NEW about \in Jobs, NEW copy \in Copies, NEW point \in Points,
         Arrival(r, about, copy, point),
         rows' = rows /\ pc'[r] = point /\ mem'[r] = copy /\ job'[r] = about => RequestOK(r)'
  PROVE  IInv'
<1>1. Quiet(r, point, about, copy, base[r])
  BY DEF Arrival, Quiet, IInv, TypeOK, Copies
<1>2. served' \in 0..MaxRequests /\ behind' = behind
  BY ConstantsAssumption DEF Arrival, IInv, TypeOK
<1>3. rows' = rows /\ Still
  BY DEF Arrival, Still, tables
<1>4. pc'[r] = point /\ mem'[r] = copy /\ job'[r] = about
  BY <1>1, QuietSets DEF IInv
<1>5. RequestOK(r)'
  BY <1>3, <1>4
<1> QED  BY <1>1, <1>2, <1>3, <1>5, QuietStep

\* Most look for no unit.
LEMMA ArrivalStep ==
  ASSUME IInv, NEW r \in Requests, served < MaxRequests,
         NEW op, NEW id, NEW asked, NEW copy \in Copies, NEW point \in Points,
         About(op, id, asked) \in Jobs,
         Arrival(r, About(op, id, asked), copy, point),
         /\ rows' = rows /\ pc'[r] = point /\ mem'[r] = copy
         /\ job'[r].op = op /\ job'[r].id = id /\ job'[r].asked = asked /\ job'[r].unit = NULL
         => RequestOK(r)'
  PROVE  IInv'
<1>1. PICK about \in Jobs : about = About(op, id, asked)
  OBVIOUS
<1>2. about.op = op /\ about.id = id /\ about.asked = asked /\ about.unit = NULL
  BY <1>1 DEF About
<1> QED  BY <1>1, <1>2, TakenUp

LEMMA ArrivalType ==
  /\ \A id \in Ids \cup {NULL}, asked \in (SUBSET Roles) \cup (SUBSET Permissions) \cup {UNSET},
        op \in {"org", "user", "role", "permission", "save", "assign", "remove"} :
        About(op, id, asked) \in Jobs
  /\ \A id \in Ids : CopyOf(id) \subseteq Copies
<1>1. \A id \in Ids : CopyOf(id) \subseteq Copies
  BY Tables DEF Copies, Row
<1> QED  BY <1>1 DEF Jobs, About

\* A row is taken as it was found, to be saved or removed.
LEMMA FoundStep ==
  ASSUME IInv, NEW r \in Requests, served < MaxRequests, NEW id \in Ids \ Orgs, Live(id),
         NEW op \in {"save", "remove"}, Arrival(r, About(op, id, UNSET), FindOne(id), "load")
  PROVE  IInv'
<1> DEFINE copy == FindOne(id)
<1>1. TypeOK /\ Exists(id)
  BY DEF IInv, Live
<1>2. /\ copy \in CopyOf(id)
      /\ id \in Users => copy.links = {} /\ copy.org = rows[id].org
      /\ id \in Roles => copy.links \subseteq rows[id].links
      /\ id \in Permissions => copy.links \subseteq Select(id).links
  BY <1>1, Found
<1>3. id \in Roles => \A p \in rows[id].links : Exists(p)
  BY <1>1 DEF IInv, RefsOK
<1> HIDE DEF copy
<1>4. ASSUME rows' = rows, pc'[r] = "load", mem'[r] = copy, job'[r].op = op, job'[r].id = id,
             job'[r].asked = UNSET, job'[r].unit = NULL
      PROVE  RequestOK(r)'
  <2>1. InHand(r)'
    BY <1>1, <1>2, <1>4 DEF InHand, Exists
  <2>2. RefsInHand(r)'
    BY <1>1, <1>2, <1>3, <1>4, Tables DEF RefsInHand, Exists
  <2>3. Fresh(r)'
    BY <1>1, <1>2, <1>4, Tables DEF Fresh, Exists, Live, Select
  <2> QED  BY <2>1, <2>2, <2>3 DEF RequestOK
<1> QED  BY <1>2, <1>4, ArrivalStep, ArrivalType DEF copy, Points

-----------------------------------------------------------------------------
(* The requests arrive.                                                    *)

\* The arrivals, one by one.
LEMMA CreateOrgStep ==
  ASSUME IInv, NEW r \in Requests, served < MaxRequests, NEW parent \in Orgs \cup {NULL},
         CreateOrg(r, parent)
  PROVE  IInv'
<1> DEFINE copy == [parent |-> parent, active |-> TRUE, deleted |-> FALSE]
<1>1. copy \in OrgRow /\ copy.parent = parent /\ ~copy.deleted /\ copy \in Copies
  BY DEF OrgRow, Copies, Row
<1>2. parent # NULL => Live(parent)
  BY DEF CreateOrg
<1>3. Arrival(r, About("org", NULL, UNSET), copy, "insert")
  BY DEF CreateOrg, Begin
<1> HIDE DEF copy
<1>4. ASSUME rows' = rows, pc'[r] = "insert", mem'[r] = copy, job'[r].op = "org",
             job'[r].id = NULL, job'[r].asked = UNSET
      PROVE  RequestOK(r)'
  <2>1. InHand(r)'
    BY <1>1, <1>4 DEF InHand
  <2>2. RefsInHand(r)' /\ Fresh(r)'
    BY <1>1, <1>2, <1>4 DEF RefsInHand, Fresh, Live, Exists
  <2> QED  BY <2>1, <2>2 DEF RequestOK
<1> QED  BY <1>1, <1>3, <1>4, ArrivalStep, ArrivalType DEF Points

LEMMA CreateUserStep ==
  ASSUME IInv, NEW r \in Requests, served < MaxRequests, NEW org \in Orgs, NEW asked \in RoleLists,
         CreateUser(r, org, asked)
  PROVE  IInv'
<1> DEFINE copy == [org |-> org, active |-> TRUE, deleted |-> FALSE, links |-> {}]
<1>1. copy \in UserRow /\ copy.org = org /\ copy.links = {} /\ ~copy.deleted /\ copy \in Copies
  BY DEF UserRow, Copies, Row
<1>2. Live(org) /\ asked \in SUBSET Roles
  BY ConstantsAssumption DEF CreateUser
<1>3. Arrival(r, About("user", NULL, asked), copy, "insert")
  BY DEF CreateUser, Begin
<1> HIDE DEF copy
<1>4. ASSUME rows' = rows, pc'[r] = "insert", mem'[r] = copy, job'[r].op = "user",
             job'[r].id = NULL, job'[r].asked = asked
      PROVE  RequestOK(r)'
  <2>1. InHand(r)'
    BY <1>1, <1>2, <1>4 DEF InHand
  <2>2. RefsInHand(r)' /\ Fresh(r)'
    BY <1>1, <1>2, <1>4 DEF RefsInHand, Fresh, Live, Exists
  <2> QED  BY <2>1, <2>2 DEF RequestOK
<1>5. About("user", NULL, asked) \in Jobs
  BY <1>2, ArrivalType
<1> QED  BY <1>1, <1>3, <1>4, <1>5, ArrivalStep DEF Points

\* A role or a permission is made of what there is.
LEMMA NewRoleStep ==
  ASSUME IInv, NEW r \in Requests, served < MaxRequests, NEW S \in SUBSET Permissions,
         \A p \in S : Live(p), NEW copy, copy = [system |-> FALSE, deleted |-> FALSE, links |-> S],
         Arrival(r, About("role", NULL, UNSET), copy, "insert")
  PROVE  IInv'
<1>1. copy \in RoleRow /\ copy.links = S /\ ~copy.deleted /\ copy \in Copies
  BY DEF RoleRow, Copies, Row
<1>2. ASSUME rows' = rows, pc'[r] = "insert", mem'[r] = copy, job'[r].op = "role",
             job'[r].id = NULL, job'[r].asked = UNSET
      PROVE  RequestOK(r)'
  <2>1. InHand(r)'
    BY <1>1, <1>2 DEF InHand
  <2>2. RefsInHand(r)' /\ Fresh(r)'
    BY <1>1, <1>2 DEF RefsInHand, Fresh, Live, Exists
  <2> QED  BY <2>1, <2>2 DEF RequestOK
<1> QED  BY <1>1, <1>2, ArrivalStep, ArrivalType DEF Points

LEMMA CreateRoleStep ==
  ASSUME IInv, NEW r \in Requests, served < MaxRequests, CreateRole(r)
  PROVE  IInv'
<1>1. Arrival(r, About("role", NULL, UNSET), [system |-> FALSE, deleted |-> FALSE, links |-> {}], "insert")
  BY DEF CreateRole, Begin
<1> QED  BY <1>1, NewRoleStep

LEMMA CreateRoleGroupStep ==
  ASSUME IInv, NEW r \in Requests, served < MaxRequests, NEW wanted, CreateRoleGroup(r, wanted)
  PROVE  IInv'
<1>1. Arrival(r, About("role", NULL, UNSET),
              [system |-> FALSE, deleted |-> FALSE, links |-> Resolved(wanted)], "insert")
  BY DEF CreateRoleGroup, Begin
<1>2. Resolved(wanted) \in SUBSET Permissions /\ \A p \in Resolved(wanted) : Live(p)
  BY DEF Resolved, InClasses
<1> QED  BY <1>1, <1>2, NewRoleStep

LEMMA CreatePermissionStep ==
  ASSUME IInv, NEW r \in Requests, served < MaxRequests, CreatePermission(r)
  PROVE  IInv'
<1> DEFINE copy == [deleted |-> FALSE]
<1>2. copy \in PermissionRow /\ ~copy.deleted /\ copy \in Copies
  BY DEF PermissionRow, Copies, Row
<1>3. Arrival(r, About("permission", NULL, UNSET), copy, "insert")
  BY DEF CreatePermission, Begin
<1> HIDE DEF copy
<1>4. ASSUME rows' = rows, pc'[r] = "insert", mem'[r] = copy, job'[r].op = "permission",
             job'[r].id = NULL, job'[r].asked = UNSET
      PROVE  RequestOK(r)'
  BY <1>2, <1>4 DEF RequestOK, InHand, RefsInHand, Fresh
<1> QED  BY <1>2, <1>3, <1>4, ArrivalStep, ArrivalType DEF Points

\* A unit is taken with another parent, or with another state.
LEMMA UpdateOrgStep ==
  ASSUME IInv, NEW r \in Requests, served < MaxRequests, NEW o \in Orgs,
         NEW parent \in Orgs \cup {NULL, UNSET}, UpdateOrg(r, o, parent)
  PROVE  IInv'
<1> DEFINE copy == IF parent = UNSET THEN rows[o] ELSE [rows[o] EXCEPT !.parent = parent]
           point == IF parent \in Orgs THEN "parent" ELSE "load"
<1>1. TypeOK /\ Live(o) /\ Exists(o) /\ o \in Ids /\ rows[o] \in OrgRow
  BY Tables DEF UpdateOrg, IInv, TypeOK, Live
<1>2. /\ copy \in OrgRow /\ copy.deleted = rows[o].deleted
      /\ copy.parent = IF parent = UNSET THEN rows[o].parent ELSE parent
  BY <1>1, IdsAssumption DEF OrgRow
<1>3. Arrival(r, About("save", o, UNSET), copy, point)
  BY DEF UpdateOrg, Begin
<1>4. rows[o].parent = NULL \/ Exists(rows[o].parent)
  BY <1>1 DEF IInv, RefsOK, ParentsThere, There, Exists
<1>5. point \in Points /\ copy \in Copies /\ About("save", o, UNSET) \in Jobs
      /\ UNSET \notin Orgs
  BY <1>1, <1>2, ArrivalType, Tables, IdsAssumption DEF Points, Ids
<1> HIDE DEF copy
<1>6. ASSUME rows' = rows, pc'[r] = point, mem'[r] = copy, job'[r].op = "save", job'[r].id = o,
             job'[r].asked = UNSET
      PROVE  RequestOK(r)'
  <2>1. CASE parent \in Orgs
    <3>1. pc'[r] = "parent" /\ copy.parent = parent
      BY <1>2, <1>5, <1>6, <2>1
    <3>2. InHand(r)'
      BY <1>1, <1>2, <1>6, <2>1, <3>1 DEF InHand, Exists
    <3>3. RefsInHand(r)' /\ Fresh(r)'
      BY <1>1, <1>2, <1>6, <3>1 DEF RefsInHand, Fresh, Live, Exists
    <3> QED  BY <3>2, <3>3 DEF RequestOK
  <2>2. CASE parent \notin Orgs
    <3>1. pc'[r] = "load" /\ copy.parent \in {NULL, rows[o].parent}
      BY <1>2, <1>6, <2>2
    <3>2. InHand(r)'
      BY <1>1, <1>2, <1>6, <3>1, Tables DEF InHand, Exists
    <3>3. RefsInHand(r)'
      BY <1>4, <1>6, <3>1, Tables DEF RefsInHand, Exists
    <3>4. Fresh(r)'
      BY <1>1, <1>2, <1>6, <3>1, Tables DEF Fresh, Live, Exists
    <3> QED  BY <3>2, <3>3, <3>4 DEF RequestOK
  <2> QED  BY <2>1, <2>2
<1> QED  BY <1>3, <1>5, <1>6, ArrivalStep

LEMMA SetActiveStep ==
  ASSUME IInv, NEW r \in Requests, served < MaxRequests, NEW o \in Orgs, NEW active \in BOOLEAN,
         SetActive(r, o, active)
  PROVE  IInv'
<1> DEFINE copy == [rows[o] EXCEPT !.active = active]
<1>1. TypeOK /\ Live(o) /\ Exists(o) /\ o \in Ids /\ rows[o] \in OrgRow
  BY Tables DEF SetActive, IInv, TypeOK, Live
<1>2. copy \in OrgRow /\ copy.deleted = rows[o].deleted /\ copy.parent = rows[o].parent
  BY <1>1 DEF OrgRow
<1>3. Arrival(r, About("save", o, UNSET), copy, "load")
  BY DEF SetActive, Begin
<1>4. rows[o].parent = NULL \/ Exists(rows[o].parent)
  BY <1>1 DEF IInv, RefsOK, ParentsThere, There, Exists
<1>5. copy \in Copies
  BY <1>2, ArrivalType, Tables
<1> HIDE DEF copy
<1>6. ASSUME rows' = rows, pc'[r] = "load", mem'[r] = copy, job'[r].op = "save", job'[r].id = o,
             job'[r].asked = UNSET
      PROVE  RequestOK(r)'
  <2>1. InHand(r)'
    BY <1>1, <1>2, <1>6, Tables DEF InHand, Exists
  <2>2. RefsInHand(r)'
    BY <1>2, <1>4, <1>6, Tables DEF RefsInHand, Exists
  <2>3. Fresh(r)'
    BY <1>1, <1>2, <1>6, Tables DEF Fresh, Live, Exists
  <2> QED  BY <2>1, <2>2, <2>3 DEF RequestOK
<1> QED  BY <1>1, <1>3, <1>5, <1>6, ArrivalStep, ArrivalType DEF Points

LEMMA RemoveOrgStep ==
  ASSUME IInv, NEW r \in Requests, served < MaxRequests, NEW o \in Orgs, RemoveOrg(r, o)
  PROVE  IInv'
<1>1. TypeOK /\ Live(o) /\ Exists(o) /\ o \in Ids /\ rows[o] \in OrgRow
  BY Tables DEF RemoveOrg, IInv, TypeOK, Live
<1>4. rows[o].parent = NULL \/ Exists(rows[o].parent)
  BY <1>1 DEF IInv, RefsOK, ParentsThere, There, Exists
<1>2. Arrival(r, About("remove", o, UNSET), rows[o], "children")
  BY DEF RemoveOrg, Begin
<1>3. ASSUME rows' = rows, pc'[r] = "children", mem'[r] = rows[o], job'[r].op = "remove",
             job'[r].id = o, job'[r].asked = UNSET
      PROVE  RequestOK(r)'
  <2>1. InHand(r)'
    BY <1>1, <1>3 DEF InHand, Exists
  <2>2. RefsInHand(r)' /\ Fresh(r)'
    BY <1>1, <1>3, <1>4, Tables DEF RefsInHand, Fresh, Live, Exists
  <2> QED  BY <2>1, <2>2 DEF RequestOK
<1> QED  BY <1>1, <1>2, <1>3, ArrivalStep, ArrivalType, Tables DEF Points

\* The unit to look for is kept apart from the one to write.
LEMMA UpdateUserStep ==
  ASSUME IInv, NEW r \in Requests, served < MaxRequests, NEW u \in Users, NEW dto \in UserPatches,
         UpdateUser(r, u, dto)
  PROVE  IInv'
<1>1. TypeOK /\ Live(u) /\ Exists(u) /\ u \in Ids
  BY Tables DEF UpdateUser, IInv, Live
<1>2. FindOne(u) \in UserRow /\ FindOne(u).links = {} /\ rows[u].org \in Orgs \cup {NULL}
  <2>1. rows[u] \in UserRow
    BY <1>1, Tables DEF TypeOK
  <2> QED  BY <1>1, <2>1, Found, Tables DEF UserRow
<1>3. /\ dto.org \in Orgs \cup {NULL, UNSET} /\ dto.department \in Orgs \cup {NULL, UNSET}
      /\ dto.active \in BOOLEAN \cup {UNSET} /\ dto.asked \in (SUBSET Roles) \cup {UNSET}
  BY ConstantsAssumption DEF UpdateUserDto
<1>4. UnitChecked(u, dto) \in Orgs \cup {NULL} /\ UnitWritten(u, dto) \in Orgs \cup {NULL}
  BY <1>2, <1>3 DEF UnitChecked, UnitWritten
<1>5. PICK unit \in Orgs \cup {NULL} : unit = UnitChecked(u, dto)
  BY <1>4
<1> DEFINE copy == [FindOne(u) EXCEPT !.org = UnitWritten(u, dto),
                                      !.active = IF dto.active = UNSET THEN @ ELSE dto.active]
           about == [About("save", u, dto.asked) EXCEPT !.unit = unit]
           point == IF unit = NULL THEN "load" ELSE "org"
<1>6. copy \in UserRow /\ copy.links = {}
  BY <1>2, <1>3, <1>4 DEF UserRow
<1>7. Arrival(r, about, copy, point)
  BY <1>5 DEF UpdateUser
<1>8. point \in Points /\ copy \in Copies
  BY <1>1, <1>6, ArrivalType, Tables DEF Points
<1>9. /\ about \in Jobs /\ about.op = "save" /\ about.id = u
      /\ about.asked = dto.asked /\ about.unit = unit
  BY <1>1, <1>3 DEF About, Jobs
<1> HIDE DEF copy, about
<1>10. ASSUME rows' = rows, pc'[r] = point, mem'[r] = copy, job'[r] = about
       PROVE  RequestOK(r)'
  <2>1. CASE unit # NULL
    <3>1. pc'[r] = "org"
      BY <1>10, <2>1
    <3>2. InHand(r)'
      BY <1>1, <1>3, <1>6, <1>9, <1>10, <3>1 DEF InHand, Exists
    <3>3. RefsInHand(r)' /\ Fresh(r)'
      BY <1>1, <1>9, <1>10, <3>1 DEF RefsInHand, Fresh, Live, Exists
    <3> QED  BY <3>2, <3>3 DEF RequestOK
  <2>2. CASE unit = NULL
    <3>1. pc'[r] = "load"
      BY <1>10, <2>2
    <3>2. InHand(r)'
      BY <1>1, <1>3, <1>6, <1>9, <1>10, <3>1, Tables DEF InHand, Exists
    <3>3. RefsInHand(r)' /\ Fresh(r)'
      BY <1>1, <1>9, <1>10, <2>2, <3>1, Tables DEF RefsInHand, Fresh, Live, Exists
    <3> QED  BY <3>2, <3>3 DEF RequestOK
  <2> QED  BY <2>1, <2>2
<1> QED  BY <1>7, <1>8, <1>9, <1>10, TakenUp

\* What is to be assigned is kept with the request.
LEMMA AssignRolesStep ==
  ASSUME IInv, NEW r \in Requests, served < MaxRequests, NEW u \in Users, NEW asked \in RoleLists,
         AssignRoles(r, u, asked)
  PROVE  IInv'
<1>1. TypeOK /\ Live(u) /\ Exists(u) /\ u \in Ids /\ asked \in SUBSET Roles
  BY Tables, ConstantsAssumption DEF AssignRoles, IInv, Live
<1>2. FindOne(u) \in UserRow /\ FindOne(u).org = rows[u].org /\ FindOne(u) \in Copies
  BY <1>1, Found, ArrivalType, Tables
<1>3. Arrival(r, About("assign", u, asked), FindOne(u), "roles")
  BY DEF AssignRoles, Begin
<1>4. ASSUME rows' = rows, pc'[r] = "roles", mem'[r] = FindOne(u), job'[r].op = "assign",
             job'[r].id = u, job'[r].asked = asked, job'[r].unit = NULL
      PROVE  RequestOK(r)'
  <2>1. InHand(r)'
    BY <1>1, <1>2, <1>4 DEF InHand, Exists
  <2>2. RefsInHand(r)' /\ Fresh(r)'
    BY <1>1, <1>2, <1>4 DEF RefsInHand, Fresh, Live, Exists
  <2> QED  BY <2>1, <2>2 DEF RequestOK
<1>5. About("assign", u, asked) \in Jobs
  BY <1>1, ArrivalType
<1> QED  BY <1>2, <1>3, <1>4, <1>5, ArrivalStep DEF Points

LEMMA UpdatePermissionsStep ==
  ASSUME IInv, NEW r \in Requests, served < MaxRequests, NEW x \in Roles, NEW asked \in SUBSET Permissions,
         Live(x), NEW point \in {"permissions", "resolve"},
         point = "resolve" => InClasses(asked) \subseteq asked,
         Arrival(r, About("assign", x, asked), FindOne(x), point)
  PROVE  IInv'
<1>1. TypeOK /\ Exists(x) /\ x \in Ids
  BY Tables DEF IInv, Live
<1>2. FindOne(x) \in RoleRow /\ FindOne(x).links \subseteq rows[x].links /\ FindOne(x) \in Copies
  BY <1>1, Found, ArrivalType, Tables
<1>3. \A p \in rows[x].links : Exists(p)
  BY <1>1 DEF IInv, RefsOK
<1>4. ASSUME rows' = rows, pc'[r] = point, mem'[r] = FindOne(x), job'[r].op = "assign",
             job'[r].id = x, job'[r].asked = asked
      PROVE  RequestOK(r)'
  <2>1. InHand(r)'
    BY <1>1, <1>2, <1>4 DEF InHand, Exists
  <2>2. RefsInHand(r)'
    BY <1>2, <1>3, <1>4, Tables DEF RefsInHand, Exists
  <2>3. Fresh(r)'
    BY <1>4 DEF Fresh, Live, Exists
  <2> QED  BY <2>1, <2>2, <2>3 DEF RequestOK
<1>5. About("assign", x, asked) \in Jobs
  BY <1>1, ArrivalType
<1> QED  BY <1>2, <1>4, <1>5, ArrivalStep DEF Points

\* A key with an action stands for all the permissions of its class.
LEMMA ClassesTwice ==
  ASSUME NEW wanted
  PROVE  InClasses(wanted) \subseteq Permissions /\ InClasses(InClasses(wanted)) \subseteq InClasses(wanted)
BY DEF InClasses

LEMMA ArriveStep ==
  ASSUME IInv, NEW r \in Requests, Arrive(r)
  PROVE  IInv'
<1>1. served < MaxRequests
  BY DEF Arrive
<1>2. CASE OrganizationController(r)
  BY <1>1, <1>2, CreateOrgStep, UpdateOrgStep, SetActiveStep, RemoveOrgStep DEF OrganizationController
<1>3. CASE UserController(r)
  <2>1. ASSUME NEW u \in Users, RemoveUser(r, u) \/ ChangePassword(r, u) PROVE IInv'
    <3>1. u \in Ids \ Orgs /\ Live(u)
      BY <2>1, Tables DEF RemoveUser, ChangePassword
    <3>2. \E op \in {"save", "remove"} : Arrival(r, About(op, u, UNSET), FindOne(u), "load")
      BY <2>1 DEF RemoveUser, ChangePassword, Begin
    <3> QED  BY <1>1, <3>1, <3>2, FoundStep
  <2> QED  BY <1>1, <1>3, <2>1, CreateUserStep, UpdateUserStep, AssignRolesStep DEF UserController
<1>4. CASE RoleController(r)
  <2>1. ASSUME NEW x \in Roles, UpdateRole(r, x) \/ RemoveRole(r, x) PROVE IInv'
    <3>1. x \in Ids \ Orgs /\ Live(x)
      BY <2>1, Tables DEF UpdateRole, RemoveRole, RoleEditable
    <3>2. \E op \in {"save", "remove"} : Arrival(r, About(op, x, UNSET), FindOne(x), "load")
      BY <2>1 DEF UpdateRole, RemoveRole, Begin
    <3> QED  BY <1>1, <3>1, <3>2, FoundStep
  <2>2. ASSUME NEW x \in Roles, NEW asked \in PermissionLists, UpdatePermissions(r, x, asked)
        PROVE  IInv'
    <3>1. asked \in SUBSET Permissions /\ Live(x)
      BY <2>2, ConstantsAssumption DEF UpdatePermissions
    <3>2. Arrival(r, About("assign", x, asked), FindOne(x), "permissions")
      BY <2>2 DEF UpdatePermissions, Begin
    <3> QED  BY <1>1, <3>1, <3>2, UpdatePermissionsStep
  <2> QED  BY <1>1, <1>4, <2>1, <2>2, CreateRoleStep DEF RoleController
<1>5. CASE RoleGroupsController(r)
  <2>1. ASSUME NEW x \in Roles, NEW wanted \in PermissionLists, PatchRoleGroup(r, x, wanted)
        PROVE  IInv'
    <3>1. Live(x)
      BY <2>1 DEF PatchRoleGroup, RoleEditable
    <3>2. Arrival(r, About("assign", x, InClasses(wanted)), FindOne(x), "resolve")
      BY <2>1 DEF PatchRoleGroup, Begin
    <3> QED  BY <1>1, <3>1, <3>2, ClassesTwice, UpdatePermissionsStep
  <2> QED  BY <1>1, <1>5, <2>1, CreateRoleGroupStep DEF RoleGroupsController
<1>6. CASE PermissionController(r)
  <2>1. ASSUME NEW p \in Permissions, UpdatePermission(r, p) \/ RemovePermission(r, p) PROVE IInv'
    <3>1. p \in Ids \ Orgs /\ Live(p)
      BY <2>1, Tables DEF UpdatePermission, RemovePermission
    <3>2. \E op \in {"save", "remove"} : Arrival(r, About(op, p, UNSET), FindOne(p), "load")
      BY <2>1 DEF UpdatePermission, RemovePermission, Begin
    <3> QED  BY <1>1, <3>1, <3>2, FoundStep
  <2> QED  BY <1>1, <1>6, <2>1, CreatePermissionStep DEF PermissionController
<1> QED  BY <1>2, <1>3, <1>4, <1>5, <1>6 DEF Arrive

-----------------------------------------------------------------------------
(* The checks of the handlers and what they read.                          *)

\* A check ends the request, or has it go on knowing what was checked.
LEMMA CheckStep ==
  ASSUME IInv, NEW r \in Requests, NEW good, NEW p \in Points, Check(r, good, p),
         good /\ rows' = rows /\ mixed' = mixed /\ behind' = behind /\ pc'[r] = p /\ job'[r] = job[r]
           /\ mem'[r] = mem[r] /\ base'[r] = base[r]
           => RequestOK(r)'
  PROVE  IInv'
<1>1. CASE good
  <2>1. Goto(r, p) /\ Still /\ behind' = behind
    BY <1>1 DEF Check
  <2>2. rows' = rows /\ mixed' = mixed
    BY <2>1 DEF Still, tables
  <2>3. pc'[r] = p /\ job'[r] = job[r] /\ mem'[r] = mem[r] /\ base'[r] = base[r]
    BY <2>1 DEF Goto, IInv, TypeOK
  <2> QED  BY <1>1, <2>1, <2>2, <2>3, GotoStep
<1>2. CASE ~good
  BY <1>2, EndStep DEF Check
<1> QED  BY <1>1, <1>2

\* The checks before a save: each leaves what the next one or the save needs.
LEMMA ChecksStep ==
  ASSUME IInv, NEW r \in Requests,
         AssertOrgExists(r) \/ AssertNoCycle(r) \/ NoChildren(r) \/ NoTenants(r) \/ NoBusiness(r)
           \/ AssertFkReferences(r)
  PROVE  IInv'
<1>1. RequestOK(r) /\ TypeOK
  BY DEF IInv, Requested, RequestOK
<1> DEFINE Kept == /\ rows' = rows /\ mixed' = mixed /\ behind' = behind
                   /\ job'[r] = job[r] /\ mem'[r] = mem[r] /\ base'[r] = base[r]
<1>2. Kept => LiveParents' = LiveParents
  BY DEF LiveParents, Live, Exists
<1>3. CASE AssertOrgExists(r)
  <2>1. pc[r] = "parent" /\ Check(r, Live(mem[r].parent), "walk")
    BY <1>3 DEF AssertOrgExists
  <2>2. ASSUME Live(mem[r].parent), Kept, pc'[r] = "walk" PROVE RequestOK(r)'
    <3>1. InHand(r)' /\ RefsInHand(r)'
      BY <1>1, <2>1, <2>2 DEF RequestOK, InHand, RefsInHand, Live, Exists
    <3>2. Fresh(r) => Fresh(r)'
      BY <2>1, <2>2 DEF Fresh, Live, Exists
    <3> QED  BY <1>1, <2>2, <3>1, <3>2 DEF RequestOK
  <2> QED  BY <2>1, <2>2, CheckStep DEF Points
<1>4. CASE AssertNoCycle(r)
  <2>1. pc[r] = "walk" /\ Check(r, job[r].id \notin Above(mem[r].parent, LiveParents), "load")
    BY <1>4 DEF AssertNoCycle
  <2>2. ASSUME job[r].id \notin Above(mem[r].parent, LiveParents), Kept, pc'[r] = "load"
        PROVE  RequestOK(r)'
    <3>1. InHand(r)' /\ RefsInHand(r)'
      BY <1>1, <2>1, <2>2, Tables DEF RequestOK, InHand, RefsInHand, Exists
    <3>2. job[r].id \in Orgs
      BY <1>1, <2>1 DEF RequestOK, InHand
    <3>3. Fresh(r) => Fresh(r)'
      BY <1>2, <2>1, <2>2, <3>2, <1>1, Tables DEF Fresh, Live, Exists, RequestOK, InHand
    <3> QED  BY <1>1, <2>2, <3>1, <3>3 DEF RequestOK
  <2> QED  BY <2>1, <2>2, CheckStep DEF Points
<1>5. CASE NoChildren(r)
  <2>1. pc[r] = "children" /\ Check(r, \A o \in Orgs : Live(o) => rows[o].parent # job[r].id, "tenants")
    BY <1>5 DEF NoChildren
  <2>2. ASSUME \A o \in Orgs : Live(o) => rows[o].parent # job[r].id, Kept, pc'[r] = "tenants"
        PROVE  RequestOK(r)'
    <3>1. InHand(r)' /\ RefsInHand(r)'
      BY <1>1, <2>1, <2>2 DEF RequestOK, InHand, RefsInHand, Exists
    <3>2. Fresh(r) => Fresh(r)'
      BY <2>1, <2>2 DEF Fresh, Live, Exists
    <3> QED  BY <1>1, <2>2, <3>1, <3>2 DEF RequestOK
  <2> QED  BY <2>1, <2>2, CheckStep DEF Points
<1>6. CASE NoTenants(r)
  <2>1. pc[r] = "tenants" /\ Check(r, \A u \in Users : Exists(u) => rows[u].org # job[r].id, "business")
    BY <1>6 DEF NoTenants
  <2>2. ASSUME \A u \in Users : Exists(u) => rows[u].org # job[r].id, Kept, pc'[r] = "business"
        PROVE  RequestOK(r)'
    <3>1. InHand(r)' /\ RefsInHand(r)'
      BY <1>1, <2>1, <2>2 DEF RequestOK, InHand, RefsInHand, Exists
    <3>2. Fresh(r) => Fresh(r)'
      BY <2>1, <2>2 DEF Fresh, Live, Exists
    <3> QED  BY <1>1, <2>2, <3>1, <3>2 DEF RequestOK
  <2> QED  BY <2>1, <2>2, CheckStep DEF Points
<1>7. CASE NoBusiness(r)
  <2>1. pc[r] = "business" /\ Check(r, job[r].id \notin business, "load")
    BY <1>7 DEF NoBusiness
  <2>2. ASSUME Kept, pc'[r] = "load" PROVE RequestOK(r)'
    <3>1. InHand(r)'
      BY <1>1, <2>1, <2>2, Tables DEF RequestOK, InHand, Exists
    <3>2. RefsInHand(r)'
      BY <1>1, <2>1, <2>2, Tables DEF RequestOK, InHand, RefsInHand, Exists
    <3>3. Fresh(r) => Fresh(r)'
      BY <1>1, <2>1, <2>2, Tables DEF Fresh, Live, Exists, RequestOK, InHand
    <3> QED  BY <1>1, <2>2, <3>1, <3>2, <3>3 DEF RequestOK
  <2> QED  BY <2>1, <2>2, CheckStep DEF Points
<1>8. CASE AssertFkReferences(r)
  <2>1. pc[r] = "org" /\ Check(r, Live(job[r].unit), "load")
    BY <1>8 DEF AssertFkReferences
  <2>2. ASSUME Live(job[r].unit), Kept, pc'[r] = "load" PROVE RequestOK(r)'
    <3>1. InHand(r)' /\ RefsInHand(r)'
      BY <1>1, <2>1, <2>2, Tables DEF RequestOK, InHand, RefsInHand, Exists
    <3>2. Fresh(r) => Fresh(r)'
      BY <1>1, <2>1, <2>2, Tables DEF Fresh, Live, Exists, RequestOK, InHand
    <3> QED  BY <1>1, <2>2, <3>1, <3>2 DEF RequestOK
  <2> QED  BY <2>1, <2>2, CheckStep DEF Points
<1> QED  BY <1>3, <1>4, <1>5, <1>6, <1>7, <1>8

LEMMA FindStep ==
  ASSUME IInv, NEW r \in Requests, Find(r)
  PROVE  IInv'
<1> DEFINE id == job[r].id
           j == About("assign", id, job[r].asked)
<1>1. TypeOK /\ InHand(r) /\ pc[r] = "find"
  BY DEF IInv, Requested, Find
<1>2. id \in Users /\ id \in Ids /\ job[r].asked \in SUBSET Roles
  BY <1>1, Tables DEF InHand
<1>3. CASE ~Live(id)
  BY <1>3, EndStep DEF Find
<1>4. CASE Live(id)
  <2>1. FindOne(id) \in UserRow /\ FindOne(id).org = rows[id].org /\ FindOne(id) \in Copies
    BY <1>1, <1>2, <1>4, Found, ArrivalType, Tables DEF Live
  <2>2. j \in Jobs /\ j.op = "assign" /\ j.id = id /\ j.asked = job[r].asked /\ j.unit = NULL
    BY <1>1, <1>2 DEF About, Jobs
  <2>3. Quiet(r, "roles", j, FindOne(id), base[r]) /\ Still
    BY <1>1, <1>4, <2>1, <2>2 DEF Find, Quiet, TypeOK, Points, Copies
  <2>4. served' \in 0..MaxRequests /\ behind' = behind /\ rows' = rows
    BY <1>1, <1>4 DEF Find, TypeOK, Still, tables
  <2>5. pc'[r] = "roles" /\ job'[r] = j /\ mem'[r] = FindOne(id)
    BY <1>1, <2>3, QuietSets
  <2> HIDE DEF id, j
  <2>6. InHand(r)'
    BY <1>2, <1>4, <2>1, <2>2, <2>4, <2>5 DEF InHand, Exists, Live
  <2>7. RefsInHand(r)' /\ Fresh(r)'
    BY <1>2, <1>4, <2>1, <2>2, <2>4, <2>5, Tables DEF RefsInHand, Fresh, Exists, Live
  <2> QED  BY <2>3, <2>4, <2>6, <2>7, QuietStep DEF RequestOK
<1> QED  BY <1>3, <1>4

\* The links of the copy are those asked for, or of them those that are found.
LEMMA LinksStep ==
  ASSUME IInv, NEW r \in Requests, pc[r] \in {"roles", "permissions", "resolve"},
         NEW S, S \subseteq job[r].asked, \A x \in S : Live(x),
         mem' = [mem EXCEPT ![r].links = S], pc' = [pc EXCEPT ![r] = "load"],
         Still, UNCHANGED <<served, job, base, behind>>
  PROVE  IInv'
<1> DEFINE id == job[r].id
           copy == [mem[r] EXCEPT !.links = S]
<1>1. TypeOK /\ RequestOK(r)
  BY DEF IInv, Requested, RequestOK
<1>2. /\ job[r].op = "assign" /\ id \in Ids /\ Exists(id) /\ mem[r] \in CopyOf(id)
      /\ \/ id \in Users /\ job[r].asked \in SUBSET Roles
         \/ id \in Roles /\ job[r].asked \in SUBSET Permissions
  BY <1>1, Tables DEF RequestOK, InHand
<1>3. copy \in CopyOf(id) /\ copy.links = S /\ (id \in Users => copy.org = mem[r].org)
  <2>1. CASE id \in Users
    <3>1. mem[r] \in UserRow /\ S \in SUBSET Roles
      BY <1>2, <2>1, Tables
    <3>2. copy \in UserRow /\ copy.links = S /\ copy.org = mem[r].org
      BY <3>1 DEF UserRow
    <3> QED  BY <2>1, <3>2, Tables
  <2>2. CASE id \in Roles
    <3>1. mem[r] \in RoleRow /\ S \in SUBSET Permissions
      BY <1>2, <2>2, Tables
    <3>2. copy \in RoleRow /\ copy.links = S
      BY <3>1 DEF RoleRow
    <3> QED  BY <2>2, <3>2, Tables
  <2> QED  BY <1>2, <2>1, <2>2
<1>4. Quiet(r, "load", job[r], copy, base[r])
  BY <1>1, <1>2, <1>3, ArrivalType DEF Quiet, TypeOK, Points, Copies
<1>5. served' \in 0..MaxRequests /\ behind' = behind /\ rows' = rows
  BY <1>1 DEF TypeOK, Still, tables
<1>6. pc'[r] = "load" /\ job'[r] = job[r] /\ mem'[r] = copy
  BY <1>1, <1>4, QuietSets
<1> HIDE DEF copy
<1>7. InHand(r)'
  BY <1>2, <1>3, <1>5, <1>6, Tables DEF InHand, Exists
<1>8. RefsInHand(r)'
  BY <1>2, <1>3, <1>5, <1>6, Tables DEF RefsInHand, Exists, Live
<1>9. Fresh(r) => Fresh(r)'
  BY <1>1, <1>2, <1>3, <1>5, <1>6, Tables DEF Fresh, Exists, Live, RequestOK, InHand
<1> QED  BY <1>1, <1>4, <1>5, <1>7, <1>8, <1>9, QuietStep DEF RequestOK

LEMMA FindAllStep ==
  ASSUME IInv, NEW r \in Requests, FindAll(r)
  PROVE  IInv'
<1>1. CASE \A x \in job[r].asked : Live(x)
  BY <1>1, LinksStep DEF FindAll
<1>2. CASE ~\A x \in job[r].asked : Live(x)
  BY <1>2, EndStep DEF FindAll
<1> QED  BY <1>1, <1>2

LEMMA ResolveStep ==
  ASSUME IInv, NEW r \in Requests, Resolve(r)
  PROVE  IInv'
<1>1. InClasses(job[r].asked) \subseteq job[r].asked
  BY DEF Resolve, IInv, Requested, InHand
<1>2. Resolved(job[r].asked) \subseteq job[r].asked /\ \A x \in Resolved(job[r].asked) : Live(x)
  BY <1>1 DEF Resolved
<1> QED  BY <1>2, LinksStep DEF Resolve

\* save selects the row it is about to write.
LEMMA SaveLoadStep ==
  ASSUME IInv, NEW r \in Requests, SaveLoad(r)
  PROVE  IInv'
<1> DEFINE id == job[r].id
           op == job[r].op
           row == Select(id)
           copy == IF op = "remove" THEN Removal(row, mem[r]) ELSE mem[r]
<1>1. TypeOK /\ RequestOK(r) /\ pc[r] = "load"
  BY DEF IInv, Requested, RequestOK, SaveLoad
<1>2. /\ id \in Ids /\ Exists(id) /\ mem[r] \in CopyOf(id) /\ op \in {"save", "remove", "assign"}
      /\ op = "assign" => id \in Users \/ id \in Roles
  BY <1>1 DEF RequestOK, InHand
<1>3. row \in CopyOf(id) /\ (id \notin Permissions => row = rows[id])
  BY <1>1, <1>2, Selected
<1>4. /\ copy \in CopyOf(id)
      /\ op # "remove" => copy = mem[r]
      /\ op = "remove" => /\ id \in Orgs => copy.parent = rows[id].parent
                          /\ id \in Users => copy.org = rows[id].org
                          /\ id \notin Orgs => copy.links = mem[r].links
  BY <1>2, <1>3, Removed, Tables
<1>5. Quiet(r, "write", job[r], copy, row) /\ Still
  BY <1>1, <1>2, <1>3, <1>4, ArrivalType DEF SaveLoad, Quiet, TypeOK, Points
<1>6. served' \in 0..MaxRequests /\ behind' = behind /\ rows' = rows
  BY <1>1 DEF SaveLoad, TypeOK, Still, tables
<1>7. pc'[r] = "write" /\ job'[r] = job[r] /\ mem'[r] = copy /\ base'[r] = row
  BY <1>1, <1>5, QuietSets
<1>8. id \in Orgs => rows[id].parent = NULL \/ Exists(rows[id].parent)
  BY <1>2 DEF IInv, RefsOK, ParentsThere, There, Exists
<1>9. LiveParents' = LiveParents /\ Select(id)' = row /\ Select(id) = row
  BY <1>6, <1>7 DEF LiveParents, Live, Exists, Select
<1> HIDE DEF copy, row
<1>10. InHand(r)'
  BY <1>1, <1>2, <1>3, <1>4, <1>6, <1>7, Tables DEF RequestOK, InHand, Exists
<1>11. RefsInHand(r)'
  BY <1>1, <1>2, <1>4, <1>6, <1>7, <1>8, Tables DEF RequestOK, RefsInHand, Exists
<1>12. Fresh(r) => Fresh(r)'
  <2>1. job'[r].id = id /\ job'[r].op = op
    BY <1>7
  <2>2. Live(id)' <=> Live(id)
    BY <1>6, <1>7 DEF Live, Exists
  <2> SUFFICES ASSUME Fresh(r) PROVE Fresh(r)'
    OBVIOUS
  <2>3. Live(id)
    BY <1>1 DEF Fresh
  <2>4. ASSUME id \in Orgs PROVE Fresh(r)'
    <3>1. CASE op = "save"
      <4>1. /\ ~mem[r].deleted
            /\ \/ mem[r].parent \in {NULL, rows[id].parent}
               \/ Live(mem[r].parent) /\ id \notin Above(mem[r].parent, LiveParents)
        BY <1>1, <2>4, <3>1 DEF Fresh
      <4>2. copy = mem[r]
        BY <1>4, <3>1
      <4> QED  BY <1>6, <1>7, <1>9, <2>1, <2>3, <2>4, <3>1, <4>1, <4>2, Tables
               DEF Fresh, Live, Exists
    <3>2. CASE op = "remove"
      BY <1>1, <1>4, <1>6, <1>7, <1>9, <2>1, <2>3, <2>4, <3>2, Tables DEF Fresh, Live, Exists
    <3> QED  BY <1>2, <2>4, <3>1, <3>2, Tables
  <2>5. ASSUME id \notin Orgs PROVE Fresh(r)'
    BY <1>1, <1>2, <1>4, <1>6, <1>7, <1>9, <2>1, <2>3, <2>5, Tables DEF Fresh, Live, Exists
  <2> QED  BY <2>4, <2>5
<1> QED  BY <1>1, <1>5, <1>6, <1>10, <1>11, <1>12, QuietStep DEF RequestOK

-----------------------------------------------------------------------------
(* What save writes, and when it never returns.                            *)

\* The tables with row id written, table by table.
LEMMA StoredRow ==
  ASSUME TypeOK, NEW id \in Ids \ Permissions, NEW m \in CopyOf(id)
  PROVE  /\ Stored(id, m) \in [Ids -> Row \cup {NULL}]
         /\ Stored(id, m)[id] = m
         /\ \A x \in Ids : x # id => Stored(id, m)[x] = rows[x]
<1>1. rows \in [Ids -> Row \cup {NULL}]
  BY DEF TypeOK
<1>2. Stored(id, m) = [rows EXCEPT ![id] = m]
  BY DEF Stored
<1>3. m \in Row
  BY Tables DEF Row
<1> QED  BY <1>1, <1>2, <1>3

\* A role with other links is a role.
LEMMA Relinked ==
  ASSUME NEW row \in RoleRow, NEW L \in SUBSET Permissions, NEW new, new = [row EXCEPT !.links = L]
  PROVE  new \in RoleRow /\ new.deleted = row.deleted /\ new.links = L
BY DEF RoleRow

\* A permission is written with its links, which are the roles' columns.
LEMMA StoredPermission ==
  ASSUME TypeOK, NEW id \in Permissions, NEW m \in PermissionCopy
  PROVE  /\ Stored(id, m) \in [Ids -> Row \cup {NULL}]
         /\ Stored(id, m)[id] \in PermissionRow /\ Stored(id, m)[id].deleted = m.deleted
         /\ \A x \in Ids : x # id /\ (x \notin Roles \/ ~Exists(x)) => Stored(id, m)[x] = rows[x]
         /\ \A x \in Roles : Exists(x) =>
              /\ Stored(id, m)[x] \in RoleRow
              /\ Stored(id, m)[x].deleted = rows[x].deleted
              /\ \A p : p \in Stored(id, m)[x].links <=> IF p = id THEN x \in m.links ELSE p \in rows[x].links
<1> DEFINE links(x) == IF x \in m.links THEN rows[x].links \cup {id} ELSE rows[x].links \ {id}
           linked(x) == [rows[x] EXCEPT !.links = IF x \in m.links THEN @ \cup {id} ELSE @ \ {id}]
<1>1. rows \in [Ids -> Row \cup {NULL}] /\ \A x \in Ids : Exists(x) => rows[x] \in RowOf(x)
  BY DEF TypeOK
<1>2. [deleted |-> m.deleted] \in PermissionRow /\ id \notin Roles /\ id \in Ids /\ Roles \subseteq Ids
  <2>1. m.deleted \in BOOLEAN
    BY DEF PermissionCopy
  <2> QED  BY <2>1, Tables DEF PermissionRow
<1>3. ASSUME NEW x \in Roles, Exists(x)
      PROVE  linked(x) \in RoleRow /\ linked(x).deleted = rows[x].deleted /\ linked(x).links = links(x)
  <2>1. rows[x] \in RoleRow
    BY <1>1, <1>3, Tables
  <2>2. links(x) \in SUBSET Permissions
    BY <2>1 DEF RoleRow
  <2>3. linked(x) = [rows[x] EXCEPT !.links = links(x)]
    BY <2>1 DEF RoleRow
  <2> QED  BY <2>1, <2>2, <2>3, Relinked
<1> HIDE DEF linked
<1>4. Stored(id, m) = [x \in Ids |-> IF x = id THEN [deleted |-> m.deleted]
                                     ELSE IF x \in Roles /\ Exists(x) THEN linked(x) ELSE rows[x]]
  BY DEF Stored, linked
<1>5. ASSUME NEW x \in Ids PROVE Stored(id, m)[x] \in Row \cup {NULL}
  BY <1>1, <1>2, <1>3, <1>4 DEF Row
<1>6. Stored(id, m) \in [Ids -> Row \cup {NULL}]
  BY <1>4, <1>5
<1>7. \A x \in Ids : x # id /\ (x \notin Roles \/ ~Exists(x)) => Stored(id, m)[x] = rows[x]
  BY <1>4
<1>8. ASSUME NEW x \in Roles, Exists(x) PROVE Stored(id, m)[x] = linked(x)
  BY <1>2, <1>4, <1>8
<1>9. Stored(id, m)[id] = [deleted |-> m.deleted]
  BY <1>2, <1>4
<1>10. Stored(id, m)[id] \in PermissionRow /\ Stored(id, m)[id].deleted = m.deleted
  BY <1>2, <1>9
<1>11. ASSUME NEW x \in Roles, Exists(x)
       PROVE  /\ Stored(id, m)[x] \in RoleRow
              /\ Stored(id, m)[x].deleted = rows[x].deleted
              /\ \A p : p \in Stored(id, m)[x].links <=> IF p = id THEN x \in m.links ELSE p \in rows[x].links
  BY <1>3, <1>8, <1>11
<1> QED  BY <1>6, <1>7, <1>10, <1>11

\* The rows stay where they are, and of their types.
LEMMA StoredTyped ==
  ASSUME TypeOK, NEW id \in Ids, Exists(id), NEW m \in CopyOf(id)
  PROVE  /\ Stored(id, m) \in [Ids -> Row \cup {NULL}]
         /\ \A x \in Ids : Stored(id, m)[x] # NULL <=> Exists(x)
         /\ \A x \in Ids : Exists(x) => Stored(id, m)[x] \in RowOf(x)
         /\ \A x \in Ids : x # id /\ x \notin Roles => Stored(id, m)[x] = rows[x]
<1> DEFINE table == Stored(id, m)
<1>1. \A x \in Ids : Exists(x) => rows[x] \in RowOf(x)
  BY DEF TypeOK
<1>2. NULL \notin Row /\ \A x \in Ids : RowOf(x) \subseteq Row
  BY IdsAssumption DEF RowOf, Row
<1>3. CASE id \in Permissions
  <2>1. m \in PermissionCopy
    BY <1>3, Tables
  <2> HIDE DEF table
  <2>2. /\ table \in [Ids -> Row \cup {NULL}] /\ table[id] \in PermissionRow
        /\ \A x \in Ids : x # id /\ (x \notin Roles \/ ~Exists(x)) => table[x] = rows[x]
        /\ \A x \in Roles : Exists(x) => table[x] \in RoleRow
    BY <1>3, <2>1, StoredPermission DEF table
  <2>3. \A x \in Ids : Exists(x) => table[x] \in RowOf(x)
    BY <1>1, <1>3, <2>2, Tables
  <2> QED  BY <1>2, <2>2, <2>3 DEF Exists, table
<1>4. CASE id \notin Permissions
  <2> HIDE DEF table
  <2>1. /\ table \in [Ids -> Row \cup {NULL}] /\ table[id] = m
        /\ \A x \in Ids : x # id => table[x] = rows[x]
    BY <1>4, StoredRow DEF table
  <2>2. m \in RowOf(id)
    BY <1>4 DEF CopyOf
  <2> QED  BY <1>1, <1>2, <2>1, <2>2 DEF Exists, table
<1> QED  BY <1>3, <1>4

\* A write changes the tree at the unit that is written, if it is a unit.
LEMMA StoredParents ==
  ASSUME TypeOK, NEW id \in Ids, Exists(id), NEW m \in CopyOf(id)
  PROVE  /\ ParentsIn(Stored(id, m)) \in Parents /\ ParentsIn(rows) \in Parents
         /\ id \notin Orgs => ParentsIn(Stored(id, m)) = ParentsIn(rows)
         /\ id \in Orgs => ParentsIn(Stored(id, m)) = [ParentsIn(rows) EXCEPT ![id] = m.parent]
<1>1. ParentsIn(Stored(id, m)) \in Parents /\ ParentsIn(rows) \in Parents
  BY StoredTyped, ParentsTyped DEF TypeOK, Exists
<1>2. \A o \in Orgs : o # id => Stored(id, m)[o] = rows[o]
  BY StoredTyped, Tables
<1>3. ASSUME id \in Orgs PROVE Stored(id, m)[id] = m /\ m # NULL
  <2>1. id \in Ids \ Permissions
    BY <1>3, Tables
  <2>2. Stored(id, m)[id] = m
    BY <2>1, StoredRow
  <2> QED  BY <2>2, StoredTyped
<1>4. CASE id \notin Orgs
  BY <1>1, <1>2, <1>4 DEF ParentsIn
<1>5. CASE id \in Orgs
  <2>1. \A o \in Orgs : ParentsIn(Stored(id, m))[o] = IF o = id THEN m.parent ELSE ParentsIn(rows)[o]
    BY <1>2, <1>3, <1>5 DEF ParentsIn
  <2> QED  BY <1>1, <1>5, <2>1 DEF Parents
<1> QED  BY <1>1, <1>4, <1>5

\* The walk of assertNoCycle, over units that are not deleted, is the walk over
\* all of them when no unit that is there is under a deleted one.
LEMMA WalkIsWhole ==
  ASSUME IInv, mixed \cap Orgs = {}, NEW o \in Orgs, Live(o)
  PROVE  Above(o, ParentsIn(rows)) \subseteq Above(o, LiveParents)
<1> DEFINE A == Above(o, LiveParents)
           S == {a \in A : Live(a)}
<1>1. TypeOK /\ RefsOK /\ RemovedIsBare
  BY DEF IInv
<1>2. ParentsIn(rows) \in Parents /\ \A a \in Orgs : Exists(a) => ParentsIn(rows)[a] = rows[a].parent
  BY <1>1, ParentsTyped DEF TypeOK, Exists
<1>3. LiveParents \in Parents /\ \A a \in Orgs : Live(a) => LiveParents[a] = rows[a].parent
  BY <1>2 DEF LiveParents, Live, Parents
<1>4. o \in A /\ A \subseteq Orgs /\ Upward(A, LiveParents)
  BY <1>3, AboveHolds, AboveUpward
<1>5. Upward(S, ParentsIn(rows))
  <2> HIDE DEF A
  <2> SUFFICES ASSUME NEW a \in S, ParentsIn(rows)[a] # NULL PROVE ParentsIn(rows)[a] \in S
    BY DEF Upward
  <2> DEFINE p == ParentsIn(rows)[a]
  <2>1. a \in Orgs /\ Live(a) /\ Exists(a) /\ p = rows[a].parent /\ LiveParents[a] = p
    BY <1>2, <1>3, <1>4 DEF Live
  <2>2. p \in A
    BY <1>4, <2>1 DEF Upward
  <2>3. Exists(p) /\ p \in Orgs
    BY <1>1, <1>4, <2>1, <2>2 DEF RefsOK, ParentsThere, There, Exists
  <2>4. ~rows[p].deleted
    BY <1>1, <2>1, <2>3 DEF RemovedIsBare
  <2> QED  BY <2>2, <2>3, <2>4 DEF Live
<1>6. o \in S
  BY <1>4
<1> HIDE DEF S
<1>7. Above(o, ParentsIn(rows)) \subseteq S
  BY <1>2, <1>5, <1>6, AboveLeast
<1> QED  BY <1>7 DEF S

\* A request that is not behind closes no cycle, where no overlap left units
\* under a deleted one.
LEMMA FreshNoCycle ==
  ASSUME IInv, NEW r \in Requests, pc[r] = "write", Fresh(r), mixed \cap Orgs = {}
  PROVE  ~Cyclic(Stored(job[r].id, Merge(Select(job[r].id), mem[r], base[r])))
<1> DEFINE id == job[r].id
           m == mem[r]
           parent == ParentsIn(rows)
<1>1. TypeOK /\ InHand(r)
  BY DEF IInv, Requested
<1>2. id \in Ids /\ Exists(id) /\ mem[r] \in CopyOf(id) /\ base[r] \in CopyOf(id)
  BY <1>1 DEF InHand
<1>3. Select(id) \in CopyOf(id) /\ base[r] = Select(id)
  BY <1>1, <1>2, Selected DEF Fresh
<1>4. Merge(Select(id), mem[r], base[r]) = m
  BY <1>2, <1>3, Merged
<1>5. /\ ParentsIn(Stored(id, m)) \in Parents /\ parent \in Parents
      /\ id \notin Orgs => ParentsIn(Stored(id, m)) = parent
      /\ id \in Orgs => ParentsIn(Stored(id, m)) = [parent EXCEPT ![id] = m.parent]
  BY <1>1, <1>2, StoredParents
<1>6. Rooted(parent)
  BY DEF IInv, TreeOK
<1>7. ASSUME id \in Orgs PROVE Rooted([parent EXCEPT ![id] = m.parent])
  <2>1. m.parent \in Orgs \cup {NULL} /\ rows[id].parent = parent[id]
    <3>1. m \in OrgRow
      BY <1>2, <1>7, Tables
    <3> QED  BY <1>2, <1>7, <3>1 DEF OrgRow, ParentsIn, Exists
  <2>2. \/ m.parent \in {NULL, rows[id].parent}
        \/ Live(m.parent) /\ id \notin Above(m.parent, LiveParents)
    BY <1>7 DEF Fresh
  <2>3. CASE m.parent = rows[id].parent
    <3>1. [parent EXCEPT ![id] = m.parent] = parent
      BY <1>5, <1>7, <2>1, <2>3 DEF Parents
    <3> QED  BY <1>6, <3>1
  <2>4. CASE m.parent = NULL
    BY <1>5, <1>6, <1>7, <2>1, <2>4, MoveRooted
  <2>5. CASE Live(m.parent) /\ id \notin Above(m.parent, LiveParents) /\ m.parent # NULL
    <3>1. id \notin Above(m.parent, parent)
      BY <2>1, <2>5, WalkIsWhole
    <3> QED  BY <1>5, <1>6, <1>7, <2>1, <3>1, MoveRooted
  <2> QED  BY <2>2, <2>3, <2>4, <2>5
<1> QED  BY <1>4, <1>5, <1>6, <1>7, CyclicOrRooted

\* So whoever hangs is behind, or such an overlap was there before him.
LEMMA SaveHangsStep ==
  ASSUME IInv, NEW r \in Requests, SaveHangs(r)
  PROVE  IInv'
<1>1. RequestOK(r) /\ pc[r] = "write"
  BY DEF IInv, Requested, RequestOK, SaveHangs
<1>2. Goto(r, "hung") /\ Still /\ behind' = behind /\ "hung" \in Points
  BY DEF SaveHangs, Points
<1>3. rows' = rows /\ mixed' = mixed /\ pc'[r] = "hung" /\ job'[r] = job[r]
  BY <1>2 DEF Still, tables, Goto, IInv, TypeOK
<1>4. Fresh(r) => mixed \cap Orgs # {}
  BY <1>1, FreshNoCycle DEF SaveHangs
<1>5. RequestOK(r)'
  BY <1>1, <1>2, <1>3, <1>4 DEF RequestOK, InHand, RefsInHand, Fresh, Exists
<1> QED  BY <1>2, <1>5, GotoStep

-----------------------------------------------------------------------------
(* Writes.                                                                 *)

\* A write of row id by r: the tables it leaves, row by row of their types, and
\* with all the rows there were.
Written(r, id, table) ==
  /\ id \in Ids
  /\ table \in [Ids -> Row \cup {NULL}]
  /\ \A x \in Ids : table[x] # NULL => table[x] \in RowOf(x)
  /\ \A x \in Ids : Exists(x) => table[x] # NULL
  /\ rows' = table
  /\ \E done : Record(r, id, table, done)
  /\ \A x \in Users \cup Roles : x # id => given'[x] = given[x]
  /\ unseen' \subseteq Users
  /\ \A u \in unseen : table[u] = rows[u] => u \in unseen'

\* What was there when a request took it up is there still.
LEMMA HandKept ==
  ASSUME NEW q \in Requests, Same(q), RequestOK(q), \A x \in Ids : Exists(x) => Exists(x)'
  PROVE  InHand(q)' /\ RefsInHand(q)'
<1>1. InHand(q)'
  BY DEF RequestOK, Same, InHand
<1>2. RefsInHand(q)'
  <2> DEFINE id == job[q].id
             copy == mem[q]
  <2>1. ASSUME \/ pc[q] = "insert" /\ job[q].op = "org"
               \/ pc[q] \in {"walk", "children", "tenants", "business", "load", "write"} /\ id \in Orgs
        PROVE  copy.parent = NULL \/ Exists(copy.parent)'
    <3>1. copy \in OrgRow
      BY <2>1, Tables DEF RequestOK, InHand
    <3>2. copy.parent \in Ids \cup {NULL}
      BY <3>1, Tables DEF OrgRow
    <3> QED  BY <2>1, <3>2 DEF RequestOK, RefsInHand, Same, Exists
  <2>2. ASSUME \/ pc[q] = "insert" /\ job[q].op = "role"
               \/ pc[q] \in {"permissions", "resolve", "load", "write"} /\ id \in Roles
        PROVE  \A p \in copy.links : Exists(p)'
    <3>1. copy \in RoleRow
      BY <2>2, Tables DEF RequestOK, InHand
    <3>2. \A p \in copy.links : p \in Ids
      BY <3>1, Tables DEF RoleRow
    <3> QED  BY <2>2, <3>2 DEF RequestOK, RefsInHand, Same, Exists
  <2> QED  BY <2>1, <2>2 DEF Same, RefsInHand
<1> QED  BY <1>1, <1>2

\* Whoever is at work when somebody writes is behind from then on.
LEMMA RecordSets ==
  ASSUME TypeOK, NEW r \in Requests, NEW id, NEW table, Written(r, id, table)
  PROVE  /\ mixed \subseteq mixed' /\ mixed' \subseteq Ids /\ behind' \subseteq Requests
         /\ \A q \in Requests : q # r /\ q \notin behind' => q \notin behind
         /\ \A q \in Requests : q # r /\ pc[q] # "idle" /\ q \notin behind' => rows' = rows
         /\ r \notin behind => mixed' = mixed
         /\ r \in behind => /\ id \in mixed'
                            /\ \A x \in Ids : table[x] # rows[x] => x \in mixed'
                            /\ \A o \in Orgs : table[o] # rows[o] => table[o].parent \in mixed' \cup {NULL}
                            /\ \A u \in Users : table[u] # rows[u] => table[u].org \in mixed' \cup {NULL}
<1> DEFINE wrote == {x \in Ids : table[x] # rows[x]}
           others == {q \in Requests \ {r} : pc[q] # "idle"}
<1>1. PICK done : Record(r, id, table, done)
  BY DEF Written
<1>2. /\ behind' = (IF wrote = {} THEN behind ELSE behind \cup others) \ (IF done THEN {r} ELSE {})
      /\ mixed' = IF r \in behind THEN mixed \cup wrote \cup {id} \cup (Named(table) \ {NULL}) ELSE mixed
  BY <1>1 DEF Record
<1>3. wrote = {} => rows' = rows
  BY DEF Written, TypeOK
<1>4. ASSUME NEW x \in Named(table) \ {NULL} PROVE x \in Ids
  <2>1. CASE \E o \in Orgs : table[o] # rows[o] /\ x = table[o].parent
    <3>1. PICK o \in Orgs : table[o] # rows[o] /\ x = table[o].parent
      BY <2>1
    <3>2. table[o] \in OrgRow
      BY <3>1, Tables DEF Written, Exists
    <3> QED  BY <1>4, <3>1, <3>2, Tables DEF OrgRow
  <2>2. CASE \E u \in Users : table[u] # rows[u] /\ x = table[u].org
    <3>1. PICK u \in Users : table[u] # rows[u] /\ x = table[u].org
      BY <2>2
    <3>2. table[u] \in UserRow
      BY <3>1, Tables DEF Written, Exists
    <3> QED  BY <1>4, <3>1, <3>2, Tables DEF UserRow
  <2> QED  BY <1>4, <2>1, <2>2 DEF Named
<1>5. behind \subseteq Requests /\ mixed \subseteq Ids /\ id \in Ids
  BY DEF TypeOK, Written
<1>6. mixed \subseteq mixed' /\ mixed' \subseteq Ids /\ behind' \subseteq Requests
  BY <1>2, <1>4, <1>5
<1>7. \A o \in Orgs : table[o] # rows[o] => table[o].parent \in Named(table)
  BY DEF Named
<1>8. \A u \in Users : table[u] # rows[u] => table[u].org \in Named(table)
  BY DEF Named
<1>9. r \in behind => /\ id \in mixed'
                      /\ \A x \in Ids : table[x] # rows[x] => x \in mixed'
                      /\ \A o \in Orgs : table[o] # rows[o] => table[o].parent \in mixed' \cup {NULL}
                      /\ \A u \in Users : table[u] # rows[u] => table[u].org \in mixed' \cup {NULL}
  BY <1>2, <1>7, <1>8
<1>10. \A q \in Requests : q # r /\ q \notin behind' => q \notin behind
  BY <1>2
<1>11. \A q \in Requests : q # r /\ pc[q] # "idle" /\ q \notin behind' => rows' = rows
  BY <1>2, <1>3
<1> QED  BY <1>2, <1>6, <1>9, <1>10, <1>11

\* So a write leaves every other request in order.
LEMMA WriteOthers ==
  ASSUME IInv, NEW r \in Requests, NEW id, NEW table, Written(r, id, table),
         NEW q \in Requests, q # r, Same(q)
  PROVE  RequestOK(q)'
<1>1. TypeOK /\ RequestOK(q)
  BY DEF IInv, Requested, RequestOK
<1>2. CASE pc[q] = "idle"
  <2>1. pc'[q] = "idle"
    BY <1>2 DEF Same
  <2> QED  BY <2>1 DEF RequestOK, InHand, RefsInHand, Fresh
<1>3. CASE pc[q] # "idle" /\ q \notin behind'
  BY <1>1, <1>3, RecordSets, ReadOthers
<1>4. CASE q \in behind'
  BY <1>1, <1>4, HandKept DEF RequestOK, Written, Exists
<1> QED  BY <1>2, <1>3, <1>4

\* What a request wrote that was behind is recorded, whatever it wrote.
LEMMA WriteBehind ==
  ASSUME IInv, NEW r \in Requests, NEW id, NEW table, Written(r, id, table), r \in behind
  PROVE  RemovedIsBare' /\ RightsOK'
<1>1. TypeOK /\ RemovedIsBare /\ RightsOK
  BY DEF IInv
<1>2. /\ mixed \subseteq mixed' /\ id \in mixed' /\ rows' = table
      /\ \A x \in Ids : table[x] # rows[x] => x \in mixed'
      /\ \A o \in Orgs : table[o] # rows[o] => table[o].parent \in mixed' \cup {NULL}
      /\ \A u \in Users : table[u] # rows[u] => table[u].org \in mixed' \cup {NULL}
      /\ \A x \in Users \cup Roles : x # id => given'[x] = given[x]
      /\ \A u \in unseen : table[u] = rows[u] => u \in unseen'
  BY <1>1, RecordSets DEF Written
<1>3. RemovedIsBare'
  <2> SUFFICES ASSUME NEW o \in Orgs, o \notin mixed', table[o] # NULL, table[o].deleted
               PROVE  /\ \A c \in Orgs : Live(c)' => table[c].parent # o
                      /\ \A u \in Users : Exists(u)' => table[u].org # o \/ u \in unseen'
    BY <1>2 DEF RemovedIsBare, Exists
  <2>1. o \in Orgs \ mixed /\ Exists(o) /\ rows[o].deleted /\ o # NULL
    BY <1>2, Tables, IdsAssumption DEF Exists
  <2>2. ASSUME NEW c \in Orgs, Live(c)' PROVE table[c].parent # o
    <3>1. CASE table[c] = rows[c]
      BY <1>1, <1>2, <2>1, <2>2, <3>1 DEF RemovedIsBare, Live, Exists
    <3>2. CASE table[c] # rows[c]
      BY <1>2, <2>1, <3>2
    <3> QED  BY <3>1, <3>2
  <2>3. ASSUME NEW u \in Users, Exists(u)' PROVE table[u].org # o \/ u \in unseen'
    <3>1. CASE table[u] = rows[u]
      BY <1>1, <1>2, <2>1, <2>3, <3>1 DEF RemovedIsBare, Exists
    <3>2. CASE table[u] # rows[u]
      BY <1>2, <2>1, <3>2
    <3> QED  BY <3>1, <3>2
  <2> QED  BY <2>2, <2>3
<1>4. RightsOK'
  <2>1. ASSUME NEW u \in Users, u \notin mixed', Exists(u)' PROVE table[u].links \subseteq given'[u]
    <3>1. u \in Users \ mixed /\ Exists(u) /\ table[u] = rows[u] /\ given'[u] = given[u]
      BY <1>2, <2>1, Tables DEF Exists
    <3> QED  BY <1>1, <3>1 DEF RightsOK
  <2>2. ASSUME NEW x \in Roles, x \notin mixed', Exists(x)', NEW p \in table[x].links, Live(p)'
        PROVE  p \in given'[x] \cup mixed'
    <3>1. x \in Roles \ mixed /\ Exists(x) /\ table[x] = rows[x] /\ given'[x] = given[x]
      BY <1>2, <2>2, Tables DEF Exists
    <3>2. p \in Ids
      <4>1. rows[x] \in RoleRow
        BY <1>1, <3>1, Tables DEF TypeOK
      <4> QED  BY <2>2, <3>1, <4>1, Tables DEF RoleRow
    <3>3. CASE table[p] = rows[p]
      <4>1. Live(p)
        BY <1>2, <2>2, <3>3 DEF Live, Exists
      <4> QED  BY <1>1, <1>2, <2>2, <3>1, <4>1 DEF RightsOK
    <3>4. CASE table[p] # rows[p]
      BY <1>2, <3>2, <3>4
    <3> QED  BY <3>3, <3>4
  <2> QED  BY <1>2, <2>1, <2>2 DEF RightsOK
<1> QED  BY <1>3, <1>4

\* What there is to show of a write, beside what it records.
LEMMA WrittenStep ==
  ASSUME IInv, NEW r \in Requests, NEW id, NEW table, Written(r, id, table),
         NEW p, NEW j, NEW m, NEW b, Quiet(r, p, j, m, b),
         served' = served, business' = business,
         closure' = IF id \in Orgs THEN Refresh(table) ELSE closure,
         given' \in [Users \cup Roles -> (SUBSET Roles) \cup (SUBSET Permissions)],
         ParentsThere(table), Rooted(ParentsIn(table)),
         id \notin Orgs => ParentsIn(table) = ParentsIn(rows) /\ There(table) = There(rows),
         \A x \in Roles : table[x] # NULL => \A t \in table[x].links : table[t] # NULL,
         r \notin behind => RemovedIsBare' /\ RightsOK',
         RequestOK(r)'
  PROVE  IInv'
<1>1. TypeOK /\ rows' = table
  BY DEF IInv, Written
<1>2. /\ table \in [Ids -> Row \cup {NULL}]
      /\ \A x \in Ids : table[x] # NULL => table[x] \in RowOf(x)
  BY DEF Written
<1>3. ParentsIn(table) \in Parents /\ \A o \in There(table) : ParentsIn(table)[o] = table[o].parent
  BY <1>2, ParentsTyped DEF There
<1>4. closure' = ClosureOf(table, ParentsIn(table))
  <2>1. CASE id \in Orgs
    BY <1>3, <2>1, RefreshIs
  <2>2. CASE id \notin Orgs
    BY <2>2 DEF IInv, TreeOK, ClosureOf
  <2> QED  BY <2>1, <2>2
<1>5. TypeOK'
  <2>1. closure' \subseteq Orgs \X Orgs \X (0..Cardinality(Orgs))
    BY <1>4 DEF ClosureOf, N
  <2>2. mixed' \subseteq Ids /\ behind' \subseteq Requests /\ unseen' \subseteq Users
    BY <1>1, RecordSets DEF Written
  <2>3. /\ pc' \in [Requests -> Points] /\ job' \in [Requests -> Jobs]
        /\ mem' \in [Requests -> Copies] /\ base' \in [Requests -> Copies]
    BY <1>1, QuietSets
  <2> QED  BY <1>1, <1>2, <2>1, <2>2, <2>3 DEF TypeOK, Exists, Copies
<1>6. RefsOK'
  BY <1>1 DEF RefsOK, Exists
<1>7. TreeOK'
  BY <1>1, <1>4 DEF TreeOK
<1>8. RemovedIsBare' /\ RightsOK'
  BY WriteBehind
<1>9. Requested'
  <2>1. ASSUME NEW q \in Requests, q # r PROVE RequestOK(q)'
    BY <1>1, <2>1, QuietSets, WriteOthers
  <2> QED  BY <2>1 DEF Requested, RequestOK
<1> QED  BY <1>5, <1>6, <1>7, <1>8, <1>9 DEF IInv

\* The new row, of the kind the request makes.
Made(r, id) ==
  \/ id \in Orgs /\ job[r].op = "org" /\ mem[r] \in OrgRow
  \/ id \in Users /\ job[r].op = "user" /\ mem[r] \in UserRow /\ mem[r].links = {}
  \/ id \in Roles /\ job[r].op = "role" /\ mem[r] \in RoleRow
  \/ id \in Permissions /\ job[r].op = "permission" /\ mem[r] \in PermissionRow

\* An insert, with the two ways it may go on.
LEMMA InsertIs ==
  ASSUME IInv, NEW r \in Requests, Insert(r)
  PROVE  \E id \in Ids :
           /\ Made(r, id) /\ ~Exists(id) /\ ~mem[r].deleted /\ pc[r] = "insert"
           /\ rows' = [rows EXCEPT ![id] = mem[r]]
           /\ closure' = IF id \in Orgs THEN Refresh(rows') ELSE closure
           /\ business' = business /\ served' = served /\ unseen' = unseen
           /\ given' = IF id \in Users \cup Roles THEN [given EXCEPT ![id] = mem[r].links] ELSE given
           /\ \E done : Record(r, id, rows', done)
           /\ \/ Quiet(r, "idle", NoJob, NULL, NULL)
              \/ /\ id \in Users /\ job[r].op = "user" /\ job[r].asked \in SUBSET Roles
                 /\ Quiet(r, "find", [job[r] EXCEPT !.id = id], mem[r], base[r])
<1> DEFINE kind == CASE job[r].op = "org" -> Orgs [] job[r].op = "user" -> Users
                     [] job[r].op = "role" -> Roles [] OTHER -> Permissions
           more == job[r].asked \notin {UNSET, {}}
<1>1. TypeOK /\ InHand(r) /\ pc[r] = "insert"
  BY DEF IInv, Requested, Insert
<1>2. PICK id \in kind :
        LET table == [rows EXCEPT ![id] = mem[r]] IN
        /\ ~Exists(id) /\ rows' = table
        /\ closure' = IF id \in Orgs THEN Refresh(table) ELSE closure
        /\ given' = IF id \in DOMAIN given THEN [given EXCEPT ![id] = mem[r].links] ELSE given
        /\ Record(r, id, table, ~more)
        /\ IF more
           THEN /\ job' = [job EXCEPT ![r].id = id]
                /\ pc' = [pc EXCEPT ![r] = "find"]
                /\ UNCHANGED <<served, mem, base>>
           ELSE Answer(r)
  BY DEF Insert
<1>3. Made(r, id) /\ ~mem[r].deleted /\ id \in Ids
      /\ (more => job[r].op = "user" /\ job[r].asked \in SUBSET Roles)
  BY <1>1, Tables DEF InHand, Made
<1>4. DOMAIN given = Users \cup Roles
  BY <1>1 DEF TypeOK
<1>5. business' = business /\ unseen' = unseen
  BY DEF Insert
<1>6. CASE more
  <2>1. id \in Users
    BY <1>3, <1>6
  <2>2. [job[r] EXCEPT !.id = id] \in Jobs
    BY <1>1, <1>3 DEF TypeOK, Jobs
  <2>3. Quiet(r, "find", [job[r] EXCEPT !.id = id], mem[r], base[r]) /\ served' = served
    BY <1>1, <1>2, <1>6, <2>2 DEF Quiet, TypeOK, Points, Copies
  <2> QED  BY <1>1, <1>2, <1>3, <1>4, <1>5, <1>6, <2>1, <2>3
<1>7. CASE ~more
  <2>1. Quiet(r, "idle", NoJob, NULL, NULL) /\ served' = served
    BY <1>1, <1>2, <1>7, AnswerSets
  <2> QED  BY <1>1, <1>2, <1>3, <1>4, <1>5, <2>1
<1> QED  BY <1>6, <1>7

\* A new row is referred to by nobody and refers to what was checked.
LEMMA InsertStep ==
  ASSUME IInv, NEW r \in Requests, Insert(r)
  PROVE  IInv'
<1> DEFINE m == mem[r]
           parent == ParentsIn(rows)
<1>1. PICK id \in Ids :
        /\ Made(r, id) /\ ~Exists(id) /\ ~m.deleted /\ pc[r] = "insert"
        /\ rows' = [rows EXCEPT ![id] = m]
        /\ closure' = IF id \in Orgs THEN Refresh(rows') ELSE closure
        /\ business' = business /\ served' = served /\ unseen' = unseen
        /\ given' = IF id \in Users \cup Roles THEN [given EXCEPT ![id] = m.links] ELSE given
        /\ \E done : Record(r, id, rows', done)
        /\ \/ Quiet(r, "idle", NoJob, NULL, NULL)
           \/ /\ id \in Users /\ job[r].op = "user" /\ job[r].asked \in SUBSET Roles
              /\ Quiet(r, "find", [job[r] EXCEPT !.id = id], m, base[r])
  BY InsertIs
<1>2. TypeOK /\ RefsOK /\ TreeOK /\ RemovedIsBare /\ RightsOK /\ RequestOK(r)
  BY DEF IInv, Requested, RequestOK
<1> DEFINE table == [rows EXCEPT ![id] = m]
<1>3. m \in RowOf(id) /\ m \in Row /\ NULL \notin Row
  BY <1>1, Tables, IdsAssumption DEF Made, Row
<1>4. /\ table \in [Ids -> Row \cup {NULL}] /\ table[id] = m /\ m # NULL
      /\ \A x \in Ids : x # id => table[x] = rows[x]
  BY <1>2, <1>3 DEF TypeOK
<1> HIDE DEF table
<1>5. rows' = table
  BY <1>1 DEF table
<1>6. Written(r, id, table)
  BY <1>1, <1>2, <1>3, <1>4, <1>5 DEF Written, TypeOK, Exists
<1>7. given' \in [Users \cup Roles -> (SUBSET Roles) \cup (SUBSET Permissions)]
  <2>1. id \in Users \cup Roles => m.links \in (SUBSET Roles) \cup (SUBSET Permissions)
    BY <1>1, Tables DEF Made, UserRow, RoleRow
  <2> QED  BY <1>1, <1>2, <2>1 DEF TypeOK
<1>8. id \in Orgs => m \in OrgRow /\ m.parent \in Orgs \cup {NULL} /\ (m.parent = NULL \/ Exists(m.parent))
  <2>1. id \in Orgs => m \in OrgRow /\ (m.parent = NULL \/ Exists(m.parent))
    BY <1>1, <1>2, Tables DEF Made, RequestOK, RefsInHand
  <2> QED  BY <2>1 DEF OrgRow
<1>9. /\ parent \in Parents
      /\ \A o \in Orgs : Exists(o) => parent[o] = rows[o].parent
      /\ \A o \in Orgs : ~Exists(o) => parent[o] = NULL
      /\ \A o \in Orgs : parent[o] # NULL => parent[o] \in Orgs /\ Exists(parent[o])
  <2>1. parent \in Parents /\ \A o \in Orgs : Exists(o) => parent[o] = rows[o].parent
    BY <1>2, ParentsTyped DEF TypeOK, Exists
  <2>2. \A o \in Orgs : ~Exists(o) => parent[o] = NULL
    BY DEF ParentsIn, Exists
  <2> QED  BY <1>2, <2>1, <2>2 DEF RefsOK, ParentsThere, There, Exists
<1>10. ParentsThere(table)
  <2> SUFFICES ASSUME NEW o \in Orgs, table[o] # NULL, table[o].parent # NULL
               PROVE  table[o].parent \in Orgs /\ table[table[o].parent] # NULL
    BY DEF ParentsThere, There
  <2>1. Orgs \subseteq Ids
    BY Tables
  <2>2. CASE o = id
    BY <1>4, <1>8, <2>1, <2>2 DEF Exists
  <2>3. CASE o # id
    BY <1>4, <1>9, <2>1, <2>3 DEF Exists
  <2> QED  BY <2>2, <2>3
<1>11. id \notin Orgs => ParentsIn(table) = parent /\ There(table) = There(rows)
  BY <1>4, Tables DEF ParentsIn, There
<1>12. Rooted(ParentsIn(table))
  <2>1. CASE id \notin Orgs
    BY <1>2, <1>11, <2>1 DEF TreeOK
  <2>2. CASE id \in Orgs
    <3>1. \A o \in Orgs : ParentsIn(table)[o] = IF o = id THEN m.parent ELSE parent[o]
      BY <1>4, <2>2, Tables DEF ParentsIn
    <3>2. ParentsIn(table) = [parent EXCEPT ![id] = m.parent]
      <4>1. ParentsIn(table) \in [Orgs -> {ParentsIn(table)[o] : o \in Orgs}]
        BY DEF ParentsIn
      <4> QED  BY <1>9, <2>2, <3>1, <4>1 DEF Parents
    <3>3. Upward(Orgs \ {id}, parent)
      BY <1>1, <1>9 DEF Upward
    <3>4. m.parent # NULL => m.parent \in Orgs \ {id}
      BY <1>1, <1>8, <2>2
    <3>5. m.parent # NULL => id \notin Above(m.parent, parent)
      BY <1>9, <3>3, <3>4, AboveLeast
    <3> QED  BY <1>2, <1>8, <1>9, <2>2, <3>2, <3>5, MoveRooted DEF TreeOK
  <2> QED  BY <2>1, <2>2
<1>13. ASSUME NEW x \in Roles, table[x] # NULL, NEW t \in table[x].links PROVE table[t] # NULL
  <2>1. x \in Ids /\ Permissions \subseteq Ids
    BY Tables
  <2>2. table[x] \in RoleRow
    BY <1>6, <1>13, <2>1, Tables DEF Written
  <2>3. t \in Permissions
    BY <1>13, <2>2 DEF RoleRow
  <2>4. Exists(t)
    <3>1. CASE x = id
      BY <1>1, <1>2, <1>4, <1>13, <3>1, Tables DEF Made, RequestOK, RefsInHand
    <3>2. CASE x # id
      BY <1>2, <1>4, <1>13, <2>1, <3>2 DEF RefsOK, Exists
    <3> QED  BY <3>1, <3>2
  <2> QED  BY <1>6, <2>1, <2>3, <2>4 DEF Written
<1>14. ASSUME r \notin behind PROVE RemovedIsBare' /\ RightsOK'
  <2>1. mixed' = mixed /\ Fresh(r)
    BY <1>2, <1>6, <1>14, RecordSets DEF RequestOK
  <2>2. RemovedIsBare'
    <3> SUFFICES ASSUME NEW o \in Orgs, o \notin mixed, table[o] # NULL, table[o].deleted
                 PROVE  /\ \A c \in Orgs : Live(c)' => table[c].parent # o
                        /\ \A u \in Users : Exists(u)' => table[u].org # o \/ u \in unseen'
      BY <1>5, <2>1 DEF RemovedIsBare, Exists
    <3>1. o # id /\ o \in Ids /\ Exists(o) /\ rows[o].deleted /\ ~Live(o) /\ o # NULL
      BY <1>1, <1>4, Tables, IdsAssumption DEF Exists, Live
    <3>2. ASSUME NEW c \in Orgs, Live(c)' PROVE table[c].parent # o
      <4>1. CASE c = id
        BY <1>1, <1>4, <2>1, <3>1, <4>1, Tables DEF Fresh, Made
      <4>2. CASE c # id
        BY <1>2, <1>4, <1>5, <3>1, <3>2, <4>2, Tables DEF RemovedIsBare, Live, Exists
      <4> QED  BY <4>1, <4>2
    <3>3. ASSUME NEW u \in Users, Exists(u)' PROVE table[u].org # o \/ u \in unseen'
      <4>1. CASE u = id
        BY <1>1, <1>4, <2>1, <3>1, <4>1, Tables DEF Fresh, Made
      <4>2. CASE u # id
        <5>1. table[u] = rows[u] /\ table[o] = rows[o] /\ Exists(u) /\ unseen' = unseen
          BY <1>1, <1>4, <1>5, <3>1, <3>3, <4>2, Tables DEF Exists
        <5> QED  BY <1>2, <3>1, <5>1, <2>1 DEF RemovedIsBare
      <4> QED  BY <4>1, <4>2
    <3> QED  BY <3>2, <3>3
  <2>3. RightsOK'
    <3>1. ASSUME NEW u \in Users, u \notin mixed, Exists(u)' PROVE table[u].links \subseteq given'[u]
      <4>1. CASE u = id
        BY <1>1, <1>4, <4>1, Tables DEF Made
      <4>2. CASE u # id
        <5>1. Exists(u) /\ table[u] = rows[u] /\ given'[u] = given[u]
          BY <1>4, <1>5, <1>6, <3>1, <4>2, Tables DEF Written, Exists
        <5> QED  BY <1>2, <3>1, <5>1 DEF RightsOK
      <4> QED  BY <4>1, <4>2
    <3>2. ASSUME NEW x \in Roles, x \notin mixed, Exists(x)', NEW p \in table[x].links, Live(p)'
          PROVE  p \in given'[x] \cup mixed
      <4>1. CASE x = id
        BY <1>1, <1>2, <1>4, <3>2, <4>1 DEF TypeOK
      <4>2. CASE x # id
        <5>1. Exists(x) /\ table[x] = rows[x] /\ given'[x] = given[x]
          BY <1>4, <1>5, <1>6, <3>2, <4>2, Tables DEF Written, Exists
        <5>2. Exists(p)
          BY <1>2, <3>2, <5>1 DEF RefsOK
        <5>3. p \in Permissions
          <6>1. rows[x] \in RoleRow
            BY <1>2, <5>1, Tables DEF TypeOK
          <6> QED  BY <3>2, <5>1, <6>1 DEF RoleRow
        <5>4. Live(p)
          BY <1>1, <1>4, <1>5, <3>2, <5>2, <5>3, Tables DEF Live, Exists
        <5> QED  BY <1>2, <3>2, <5>1, <5>4 DEF RightsOK
      <4> QED  BY <4>1, <4>2
    <3> QED  BY <1>5, <2>1, <3>1, <3>2 DEF RightsOK
  <2> QED  BY <2>2, <2>3
<1>15. CASE Quiet(r, "idle", NoJob, NULL, NULL)
  <2>1. pc'[r] = "idle"
    BY <1>2, <1>15, QuietSets
  <2>2. RequestOK(r)'
    BY <2>1 DEF RequestOK, InHand, RefsInHand, Fresh
  <2> QED  BY <1>1, <1>5, <1>6, <1>7, <1>10, <1>11, <1>12, <1>13, <1>14, <1>15, <2>2, WrittenStep
<1>16. CASE /\ id \in Users /\ job[r].op = "user" /\ job[r].asked \in SUBSET Roles
            /\ Quiet(r, "find", [job[r] EXCEPT !.id = id], m, base[r])
  <2>1. pc'[r] = "find" /\ job'[r] = [job[r] EXCEPT !.id = id]
    BY <1>2, <1>16, QuietSets
  <2>2. job'[r].id = id /\ job'[r].op = "user" /\ job'[r].asked \in SUBSET Roles
    BY <1>2, <1>16, <2>1 DEF TypeOK, Jobs
  <2>3. RequestOK(r)'
    BY <1>4, <1>5, <1>16, <2>1, <2>2 DEF RequestOK, InHand, RefsInHand, Fresh, Exists
  <2> QED  BY <1>1, <1>5, <1>6, <1>7, <1>10, <1>11, <1>12, <1>13, <1>14, <1>16, <2>3, WrittenStep
<1> QED  BY <1>1, <1>15, <1>16

\* What the write of r records of the unit of its account.
UnitSeen(r, table) ==
  LET id == job[r].id IN
  unseen' = IF id \notin Users \/ table[id].org = rows[id].org THEN unseen
            ELSE IF table[id].org = job[r].unit THEN unseen \ {id} ELSE unseen \cup {id}

\* What a request writes that is not behind: the rows under the units it
\* removes, and the roles and permissions it gives, are those it has checked.
LEMMA FreshSave ==
  ASSUME IInv, NEW r \in Requests, pc[r] = "write", Fresh(r),
         rows' = Stored(job[r].id, mem[r]), mixed' = mixed,
         given' = IF job[r].op = "assign" THEN [given EXCEPT ![job[r].id] = job[r].asked] ELSE given,
         UnitSeen(r, rows')
  PROVE  RemovedIsBare' /\ RightsOK'
<1> DEFINE id == job[r].id
           op == job[r].op
           asked == job[r].asked
           m == mem[r]
           table == Stored(id, m)
<1>1. TypeOK /\ RefsOK /\ RemovedIsBare /\ RightsOK /\ InHand(r)
  BY DEF IInv, Requested
<1>2. /\ op \in {"save", "remove", "assign"} /\ id \in Ids /\ Exists(id) /\ m \in CopyOf(id)
      /\ op = "assign" => /\ \/ id \in Users /\ asked \in SUBSET Roles
                             \/ id \in Roles /\ asked \in SUBSET Permissions
                          /\ m.links \subseteq asked
      /\ op # "assign" /\ id \in Users => m.links = {}
  BY <1>1 DEF InHand
<1>3. /\ \A x \in Ids : table[x] # NULL <=> Exists(x)
      /\ \A x \in Ids : x # id /\ x \notin Roles => table[x] = rows[x]
      /\ id \notin Permissions => table[id] = m /\ \A x \in Ids : x # id => table[x] = rows[x]
  BY <1>1, <1>2, StoredTyped, StoredRow
<1>4. id \in Permissions =>
        \A x \in Roles : Exists(x) =>
          \A p : p \in table[x].links <=> IF p = id THEN x \in m.links ELSE p \in rows[x].links
  BY <1>1, <1>2, StoredPermission, Tables
<1> HIDE DEF table
<1>5. rows' = table
  BY DEF table
<1>6. RemovedIsBare'
  <2> SUFFICES ASSUME NEW o \in Orgs, o \notin mixed, table[o] # NULL, table[o].deleted
               PROVE  /\ \A c \in Orgs : Live(c)' => table[c].parent # o
                      /\ \A u \in Users : Exists(u)' => table[u].org # o \/ u \in unseen'
    BY <1>5 DEF RemovedIsBare, Exists
  <2>1. o \in Ids /\ Exists(o) /\ o \in Orgs \ mixed /\ o # NULL
    BY <1>3, Tables, IdsAssumption
  <2>2. CASE id \notin Orgs
    <3>1. table[o] = rows[o] /\ \A c \in Orgs : table[c] = rows[c]
      BY <1>3, <2>2, Tables
    <3>2. ASSUME NEW u \in Users, Exists(u)' PROVE table[u].org # o \/ u \in unseen'
      <4>1. Exists(u)
        BY <1>3, <1>5, <3>2, Tables DEF Exists
      <4>2. CASE u = id
        <5>1. job[r].unit = NULL \/ Live(job[r].unit)
          BY <4>2 DEF Fresh
        <5>2. CASE table[u].org = rows[u].org
          BY <1>1, <1>5, <2>1, <3>1, <4>1, <4>2, <5>2 DEF RemovedIsBare, UnitSeen
        <5>3. CASE table[u].org # rows[u].org /\ table[u].org = job[r].unit
          BY <2>1, <3>1, <5>1, <5>3 DEF Live
        <5>4. CASE table[u].org # rows[u].org /\ table[u].org # job[r].unit
          BY <1>5, <4>2, <5>4 DEF UnitSeen
        <5> QED  BY <5>2, <5>3, <5>4
      <4>3. CASE u # id
        <5>1. table[u] = rows[u]
          BY <1>3, <4>3, Tables
        <5>2. u \in unseen => u \in unseen'
          BY <1>5, <4>3 DEF UnitSeen
        <5> QED  BY <1>1, <2>1, <3>1, <4>1, <5>1, <5>2 DEF RemovedIsBare
      <4> QED  BY <4>2, <4>3
    <3> QED  BY <1>1, <1>5, <2>1, <3>1, <3>2 DEF RemovedIsBare, Live, Exists
  <2>3. CASE id \in Orgs
    <3>1. /\ table[id] = m /\ \A u \in Users : table[u] = rows[u]
          /\ \A c \in Orgs : c # id => table[c] = rows[c]
          /\ unseen' = unseen
      BY <1>3, <2>3, Tables DEF UnitSeen
    <3>2. CASE op = "save"
      <4>1. /\ ~m.deleted /\ Live(id)
            /\ m.parent \in {NULL, rows[id].parent} \/ Live(m.parent)
        BY <2>3, <3>2 DEF Fresh
      <4>2. o # id /\ rows[o].deleted
        BY <3>1, <4>1
      <4> QED  BY <1>1, <1>5, <2>1, <3>1, <4>1, <4>2 DEF RemovedIsBare, Live, Exists
    <3>3. CASE op = "remove"
      <4>1. /\ \A c \in Orgs : Live(c) => rows[c].parent # id
            /\ \A u \in Users : Exists(u) => rows[u].org # id
            /\ m.parent = rows[id].parent /\ Live(id)
        BY <2>3, <3>3 DEF Fresh
      <4>2. CASE o = id
        BY <1>5, <3>1, <4>1, <4>2 DEF Live, Exists
      <4>3. CASE o # id
        BY <1>1, <1>5, <2>1, <3>1, <4>1, <4>3 DEF RemovedIsBare, Live, Exists
      <4> QED  BY <4>2, <4>3
    <3> QED  BY <1>2, <2>3, <3>2, <3>3, Tables
  <2> QED  BY <2>2, <2>3
<1>7. ASSUME NEW u \in Users, u \notin mixed, Exists(u)' PROVE table[u].links \subseteq given'[u]
  <2>1. Exists(u)
    BY <1>3, <1>5, <1>7, Tables DEF Exists
  <2>2. CASE u = id
    <3>1. table[u] = m
      BY <1>3, <2>2, Tables
    <3> QED  BY <1>1, <1>2, <2>2, <3>1 DEF TypeOK
  <2>3. CASE u # id
    <3>1. table[u] = rows[u]
      BY <1>3, <2>3, Tables
    <3>2. given'[u] = given[u]
      BY <1>1, <2>3 DEF TypeOK
    <3> QED  BY <1>1, <1>7, <2>1, <3>1, <3>2 DEF RightsOK
  <2> QED  BY <2>2, <2>3
<1>8. ASSUME NEW x \in Roles, x \notin mixed, Exists(x)', NEW p \in table[x].links, Live(p)'
      PROVE  p \in given'[x] \cup mixed
  <2>1. Exists(x)
    BY <1>3, <1>5, <1>8, Tables DEF Exists
  <2>2. \A t \in rows[x].links : t \in Permissions
    <3>1. rows[x] \in RoleRow
      BY <1>1, <2>1, Tables DEF TypeOK
    <3> QED  BY <3>1 DEF RoleRow
  <2>3. \A t \in rows[x].links : Live(t) => t \in given[x] \cup mixed
    BY <1>1, <1>8, <2>1 DEF RightsOK
  <2>4. \A t \in Permissions : t # id => table[t] = rows[t]
    BY <1>3, Tables
  <2>5. CASE x = id /\ op = "assign"
    <3>1. table[x] = m
      BY <1>3, <2>5, Tables
    <3> QED  BY <1>1, <1>2, <1>8, <2>5, <3>1 DEF TypeOK
  <2>6. CASE x = id /\ op # "assign"
    <3>1. table[x] = m /\ m.links \subseteq rows[x].links
      BY <1>3, <2>6, Tables DEF Fresh
    <3>2. p # id /\ p \in rows[x].links
      BY <1>8, <2>2, <2>6, <3>1, Tables
    <3> QED  BY <1>5, <1>8, <2>2, <2>3, <2>4, <2>6, <3>2 DEF Live, Exists
  <2>7. CASE x # id
    <3>1. given'[x] = given[x]
      BY <1>1, <2>7 DEF TypeOK
    <3>2. CASE id \notin Permissions
      <4>1. table[x] = rows[x]
        BY <1>3, <2>7, <3>2, Tables
      <4>2. p \in rows[x].links /\ p # id
        BY <1>8, <2>2, <3>2, <4>1
      <4> QED  BY <1>5, <1>8, <2>2, <2>3, <2>4, <3>1, <4>2 DEF Live, Exists
    <3>3. CASE id \in Permissions /\ p # id
      <4>1. p \in rows[x].links
        BY <1>4, <1>8, <2>1, <3>3
      <4> QED  BY <1>5, <1>8, <2>2, <2>3, <2>4, <3>1, <3>3, <4>1 DEF Live, Exists
    <3>4. CASE id \in Permissions /\ p = id
      <4>1. x \in m.links
        BY <1>4, <1>8, <2>1, <3>4
      <4>2. m.links \subseteq Select(id).links /\ Live(id)
        BY <3>4 DEF Fresh
      <4>3. id \in rows[x].links
        BY <1>1, <1>2, <3>4, <4>1, <4>2, Selected
      <4> QED  BY <2>3, <3>1, <3>4, <4>2, <4>3
    <3> QED  BY <3>2, <3>3, <3>4
  <2> QED  BY <2>5, <2>6, <2>7
<1> QED  BY <1>5, <1>6, <1>7, <1>8 DEF RightsOK

\* The write of a save.
LEMMA SaveWriteStep ==
  ASSUME IInv, NEW r \in Requests, SaveWrite(r)
  PROVE  IInv'
<1> DEFINE id == job[r].id
           op == job[r].op
           asked == job[r].asked
           m == Merge(Select(id), mem[r], base[r])
           table == Stored(id, m)
           more == op = "save" /\ asked # UNSET
<1>1. TypeOK /\ RefsOK /\ TreeOK /\ RequestOK(r) /\ pc[r] = "write"
  BY DEF IInv, Requested, RequestOK, SaveWrite
<1>2. /\ op \in {"save", "remove", "assign"} /\ id \in Ids /\ Exists(id)
      /\ mem[r] \in CopyOf(id) /\ base[r] \in CopyOf(id)
      /\ op = "save" => asked = UNSET \/ (id \in Users /\ asked \in SUBSET Roles)
      /\ op = "assign" => \/ id \in Users /\ asked \in SUBSET Roles
                          \/ id \in Roles /\ asked \in SUBSET Permissions
  BY <1>1 DEF RequestOK, InHand
<1>3. Select(id) \in CopyOf(id) /\ (id \notin Permissions => Select(id) = rows[id])
  BY <1>1, <1>2, Selected
<1>4. /\ m \in CopyOf(id)
      /\ id \in Orgs => m.parent \in {rows[id].parent, mem[r].parent}
      /\ id \in Roles => m.links \subseteq rows[id].links \cup mem[r].links
      /\ base[r] = Select(id) => m = mem[r]
  BY <1>2, <1>3, Merged, Tables
<1>5. ~Cyclic(table) /\ rows' = table /\ business' = business /\ UnitSeen(r, table)
      /\ closure' = (IF id \in Orgs THEN Refresh(table) ELSE closure)
      /\ given' = (IF op = "assign" THEN [given EXCEPT ![id] = asked] ELSE given)
      /\ Record(r, id, table, ~more)
      /\ IF more THEN Goto(r, "find") ELSE Answer(r)
  BY DEF SaveWrite, UnitSeen
<1> HIDE DEF m
<1>6. /\ table \in [Ids -> Row \cup {NULL}]
      /\ \A x \in Ids : table[x] # NULL <=> Exists(x)
      /\ \A x \in Ids : Exists(x) => table[x] \in RowOf(x)
      /\ \A x \in Ids : x # id /\ x \notin Roles => table[x] = rows[x]
      /\ id \notin Permissions => table[id] = m /\ \A x \in Ids : x # id => table[x] = rows[x]
  BY <1>1, <1>2, <1>4, StoredTyped, StoredRow
<1>7. /\ ParentsIn(table) \in Parents
      /\ id \notin Orgs => ParentsIn(table) = ParentsIn(rows)
  BY <1>1, <1>2, <1>4, StoredParents
<1>8. id \in Permissions =>
        \A x \in Roles : Exists(x) =>
          \A p : p \in table[x].links <=> IF p = id THEN x \in m.links ELSE p \in rows[x].links
  BY <1>1, <1>2, <1>4, StoredPermission, Tables
<1> HIDE DEF table
<1>9. Rooted(ParentsIn(table))
  BY <1>5, <1>7, CyclicOrRooted
<1>10. given' \in [Users \cup Roles -> (SUBSET Roles) \cup (SUBSET Permissions)]
  BY <1>1, <1>2, <1>5 DEF TypeOK
<1>11. \A x \in Users \cup Roles : x # id => given'[x] = given[x]
  BY <1>1, <1>5 DEF TypeOK
<1>12. Written(r, id, table)
  <2>1. unseen' \subseteq Users /\ \A u \in unseen : table[u] = rows[u] => u \in unseen'
    BY <1>1, <1>5 DEF UnitSeen, TypeOK
  <2> QED  BY <1>2, <1>5, <1>6, <1>11, <2>1 DEF Written
<1>13. There(table) = There(rows)
  BY <1>6, Tables DEF There, Exists
<1>14. ParentsThere(table)
  <2> SUFFICES ASSUME NEW o \in Orgs, table[o] # NULL, table[o].parent # NULL
               PROVE  table[o].parent \in There(rows)
    BY <1>13 DEF ParentsThere, There
  <2>1. o \in There(rows) /\ table[o] \in OrgRow
    BY <1>6, <1>13, Tables DEF There, Exists
  <2>2. CASE o = id
    <3>1. table[o].parent \in {rows[id].parent, mem[r].parent}
      BY <1>4, <1>6, <2>2, Tables
    <3>2. mem[r].parent = NULL \/ Exists(mem[r].parent)
      BY <1>1, <2>2 DEF RequestOK, RefsInHand
    <3>3. table[o].parent \in Orgs
      BY <2>1 DEF OrgRow
    <3> QED  BY <1>1, <2>1, <2>2, <3>1, <3>2, <3>3 DEF RefsOK, ParentsThere, There, Exists
  <2>3. CASE o # id
    <3>1. table[o] = rows[o]
      BY <1>6, <2>3, Tables
    <3> QED  BY <1>1, <2>1, <3>1 DEF RefsOK, ParentsThere
  <2> QED  BY <2>2, <2>3
<1>15. ASSUME NEW x \in Roles, table[x] # NULL, NEW t \in table[x].links PROVE table[t] # NULL
  <2>1. x \in Ids /\ Permissions \subseteq Ids /\ Exists(x)
    BY <1>6, <1>15, Tables
  <2>2. table[x] \in RoleRow
    BY <1>6, <2>1, Tables
  <2>3. t \in Permissions
    BY <1>15, <2>2 DEF RoleRow
  <2>4. Exists(t)
    <3>1. CASE id \in Permissions
      BY <1>1, <1>2, <1>8, <1>15, <2>1, <3>1 DEF RefsOK
    <3>2. CASE id \notin Permissions /\ x = id
      <4>1. \A p \in mem[r].links : Exists(p)
        BY <1>1, <3>2 DEF RequestOK, RefsInHand
      <4> QED  BY <1>1, <1>4, <1>6, <1>15, <2>1, <3>2, <4>1 DEF RefsOK
    <3>3. CASE id \notin Permissions /\ x # id
      BY <1>1, <1>6, <1>15, <2>1, <3>3 DEF RefsOK
    <3> QED  BY <3>1, <3>2, <3>3
  <2> QED  BY <1>6, <2>1, <2>3, <2>4
<1>16. ASSUME r \notin behind PROVE RemovedIsBare' /\ RightsOK'
  <2>1. Fresh(r) /\ mixed' = mixed
    BY <1>1, <1>12, <1>16, RecordSets DEF RequestOK
  <2>2. m = mem[r]
    BY <1>1, <1>4, <2>1 DEF Fresh
  <2>3. rows' = Stored(job[r].id, mem[r]) /\ UnitSeen(r, rows')
    BY <1>5, <2>2 DEF table
  <2> QED  BY <1>1, <1>5, <2>1, <2>3, FreshSave
<1>17. CASE more
  <2>1. Quiet(r, "find", job[r], mem[r], base[r]) /\ served' = served
    BY <1>1, <1>5, <1>17 DEF Goto, Quiet, TypeOK, Points, Copies
  <2>2. pc'[r] = "find" /\ job'[r] = job[r]
    BY <1>1, <2>1, QuietSets
  <2>3. Exists(id)'
    BY <1>2, <1>5, <1>6, <2>2 DEF Exists
  <2>4. RequestOK(r)'
    BY <1>2, <1>17, <2>2, <2>3 DEF RequestOK, InHand, RefsInHand, Fresh
  <2> QED  BY <1>5, <1>7, <1>9, <1>10, <1>12, <1>13, <1>14, <1>15, <1>16, <2>1, <2>4, WrittenStep
<1>18. CASE ~more
  <2>1. Quiet(r, "idle", NoJob, NULL, NULL) /\ served' = served
    BY <1>1, <1>5, <1>18, AnswerSets
  <2>2. pc'[r] = "idle"
    BY <1>1, <2>1, QuietSets
  <2>3. RequestOK(r)'
    BY <2>2 DEF RequestOK, InHand, RefsInHand, Fresh
  <2> QED  BY <1>5, <1>7, <1>9, <1>10, <1>12, <1>13, <1>14, <1>15, <1>16, <2>1, <2>3, WrittenStep
<1> QED  BY <1>17, <1>18

-----------------------------------------------------------------------------
(* The seeder, a report, and the whole.                                    *)

\* The seeder runs alone, over permissions that are all there.
LEMMA SeedRoleStep ==
  ASSUME IInv, NEW x \in DOMAIN SeededRoles, SeedRole(x)
  PROVE  IInv'
<1>1. TypeOK /\ RefsOK /\ TreeOK /\ RemovedIsBare /\ RightsOK
  BY DEF IInv
<1> DEFINE S == SeededRoles[x]
           table == [rows EXCEPT ![x].links = S]
<1>2. /\ x \in Roles /\ x \in Ids /\ S \in SUBSET Permissions /\ Live(x) /\ Exists(x)
      /\ \A p \in S : Live(p)
      /\ rows' = table /\ given' = [given EXCEPT ![x] = S] /\ mixed' = mixed \ {x}
      /\ \A r \in Requests : pc'[r] = "idle"
      /\ UNCHANGED <<closure, business, served, pc, job, mem, base, behind, unseen>>
  BY ConstantsAssumption, Tables DEF SeedRole, Live, control
<1>3. rows \in [Ids -> Row \cup {NULL}] /\ rows[x] \in RoleRow
  BY <1>1, <1>2, Tables DEF TypeOK
<1>4. table[x] \in RoleRow /\ table[x].links = S /\ table[x].deleted = rows[x].deleted
  <2>1. table[x] = [rows[x] EXCEPT !.links = S]
    BY <1>2, <1>3
  <2> HIDE DEF table
  <2> QED  BY <1>2, <1>3, <2>1, Relinked
<1>5. \A y \in Ids : y # x => table[y] = rows[y]
  BY <1>3
<1>6. table \in [Ids -> Row \cup {NULL}]
  <2>1. [rows[x] EXCEPT !.links = S] \in Row
    BY <1>2, <1>3, Relinked DEF Row
  <2> QED  BY <1>3, <2>1
<1> HIDE DEF table
<1>7. \A y \in Ids : table[y] # NULL <=> Exists(y)
  <2>1. NULL \notin RoleRow
    BY IdsAssumption DEF Row
  <2> QED  BY <1>2, <1>4, <1>5, <2>1 DEF Exists
<1>8. TypeOK'
  <2>1. \A y \in Ids : table[y] # NULL => table[y] \in RowOf(y)
    BY <1>1, <1>2, <1>4, <1>5, <1>7, Tables DEF TypeOK
  <2>2. given' \in [Users \cup Roles -> (SUBSET Roles) \cup (SUBSET Permissions)]
    BY <1>1, <1>2 DEF TypeOK
  <2> QED  BY <1>1, <1>2, <1>6, <2>1, <2>2 DEF TypeOK, Exists
<1>9. /\ \A o \in Orgs : table[o] = rows[o]
      /\ \A u \in Users : table[u] = rows[u]
      /\ \A p \in Permissions : table[p] = rows[p]
  BY <1>2, <1>5, Tables
<1>10. ParentsIn(table) = ParentsIn(rows) /\ There(table) = There(rows)
  BY <1>9 DEF ParentsIn, There
<1>11. RefsOK'
  <2>1. ParentsThere(table)
    BY <1>1, <1>9, <1>10 DEF RefsOK, ParentsThere, There
  <2>2. ASSUME NEW y \in Roles, table[y] # NULL, NEW p \in table[y].links PROVE table[p] # NULL
    <3>1. p \in Ids /\ Exists(p)
      <4>1. CASE y = x
        BY <1>2, <1>4, <2>2, <4>1, Tables DEF Live
      <4>2. CASE y # x
        <5>1. table[y] = rows[y] /\ Exists(y) /\ rows[y] \in RoleRow
          BY <1>1, <1>5, <1>7, <2>2, <4>2, Tables DEF TypeOK
        <5> QED  BY <1>1, <2>2, <5>1, Tables DEF RefsOK, RoleRow
      <4> QED  BY <4>1, <4>2
    <3> QED  BY <1>7, <3>1
  <2> QED  BY <1>2, <2>1, <2>2 DEF RefsOK, Exists
<1>12. TreeOK'
  BY <1>1, <1>2, <1>10 DEF TreeOK, ClosureOf
<1>13. RemovedIsBare'
  BY <1>1, <1>2, <1>9, Tables DEF RemovedIsBare, Live, Exists
<1>14. RightsOK'
  <2>1. ASSUME NEW u \in Users \ mixed', table[u] # NULL PROVE table[u].links \subseteq given'[u]
    <3>1. u # x /\ u \in Users \ mixed
      BY <1>2, <2>1, Tables
    <3>2. given'[u] = given[u]
      BY <1>1, <1>2, <3>1 DEF TypeOK
    <3> QED  BY <1>1, <1>9, <2>1, <3>1, <3>2 DEF RightsOK, Exists
  <2>2. ASSUME NEW y \in Roles \ mixed', table[y] # NULL, NEW p \in table[y].links, Live(p)'
        PROVE  p \in given'[y] \cup mixed'
    <3>1. CASE y = x
      BY <1>1, <1>2, <1>4, <2>2, <3>1 DEF TypeOK
    <3>2. CASE y # x
      <4>1. table[y] = rows[y] /\ Exists(y) /\ rows[y] \in RoleRow /\ given'[y] = given[y]
        BY <1>1, <1>2, <1>5, <1>7, <2>2, <3>2, Tables DEF TypeOK
      <4>2. p \in Permissions /\ p # x
        BY <1>2, <2>2, <4>1, Tables DEF RoleRow
      <4>3. Live(p)
        BY <1>2, <1>9, <2>2, <4>2 DEF Live, Exists
      <4> QED  BY <1>1, <1>2, <2>2, <3>2, <4>1, <4>2, <4>3 DEF RightsOK
    <3> QED  BY <3>1, <3>2
  <2> QED  BY <1>2, <2>1, <2>2 DEF RightsOK, Exists
<1>15. Requested'
  BY <1>2 DEF Requested, InHand, RefsInHand, Fresh
<1> QED  BY <1>8, <1>11, <1>12, <1>13, <1>14, <1>15 DEF IInv

LEMMA DispatchStep ==
  ASSUME IInv, NEW o \in Reporting, Dispatch(o)
  PROVE  IInv'
<1>1. business' \subseteq Orgs
  BY ConstantsAssumption DEF Dispatch, IInv, TypeOK
<1>2. UNCHANGED <<rows, closure, served, pc, job, mem, base, given, behind, mixed, unseen>>
  BY DEF Dispatch, control, history
<1>3. TypeOK'
  BY <1>1, <1>2 DEF IInv, TypeOK, Exists
<1>4. RefsOK' /\ TreeOK' /\ RemovedIsBare' /\ RightsOK'
  BY <1>2 DEF IInv, RefsOK, TreeOK, RemovedIsBare, RightsOK, Live, Exists
<1>5. Requested'
  <2>1. ASSUME NEW q \in Requests PROVE RequestOK(q)'
    BY <1>2, ReadOthers DEF IInv, Requested, RequestOK, Same
  <2> QED  BY <2>1 DEF Requested, RequestOK
<1> QED  BY <1>3, <1>4, <1>5 DEF IInv

LEMMA StillStep ==
  ASSUME IInv, UNCHANGED vars
  PROVE  IInv'
<1>1. UNCHANGED <<rows, closure, business, served, pc, job, mem, base, given, behind, mixed, unseen>>
  BY DEF vars, tables, control, history
<1>2. TypeOK'
  BY <1>1 DEF IInv, TypeOK, Exists
<1>3. RefsOK' /\ TreeOK' /\ RemovedIsBare' /\ RightsOK'
  BY <1>1 DEF IInv, RefsOK, TreeOK, RemovedIsBare, RightsOK, Live, Exists
<1>4. Requested'
  <2>1. ASSUME NEW q \in Requests PROVE RequestOK(q)'
    BY <1>1, ReadOthers DEF IInv, Requested, RequestOK, Same
  <2> QED  BY <2>1 DEF Requested, RequestOK
<1> QED  BY <1>2, <1>3, <1>4 DEF IInv

\* IInv is inductive.
LEMMA NextStep ==
  ASSUME IInv, [Next]_vars
  PROVE  IInv'
<1>1. ASSUME NEW r \in Requests, Statement(r) PROVE IInv'
  <2>1. CASE \/ AssertOrgExists(r) \/ AssertNoCycle(r) \/ NoChildren(r) \/ NoTenants(r)
             \/ NoBusiness(r) \/ AssertFkReferences(r)
    BY <2>1, ChecksStep
  <2>2. CASE Find(r) \/ FindAll(r) \/ Resolve(r)
    BY <2>2, FindStep, FindAllStep, ResolveStep
  <2>3. CASE Insert(r) \/ SaveLoad(r) \/ SaveWrite(r) \/ SaveHangs(r)
    BY <2>3, InsertStep, SaveLoadStep, SaveWriteStep, SaveHangsStep
  <2>4. CASE SaveRefused(r)
    BY <2>4, EndStep DEF SaveRefused
  <2> QED  BY <1>1, <2>1, <2>2, <2>3, <2>4 DEF Statement
<1>2. ASSUME NEW r \in Requests, Die(r) PROVE IInv'
  BY <1>2, EndStep DEF Die
<1>3. ASSUME NEW r \in Requests, Arrive(r) PROVE IInv'
  BY <1>3, ArriveStep
<1>4. CASE UNCHANGED vars
  BY <1>4, StillStep
<1> QED  BY <1>1, <1>2, <1>3, <1>4, DispatchStep, SeedRoleStep DEF Next

\* What the migrations leave behind is in order, and no request is at work.
LEMMA InitOK ==
  ASSUME Init
  PROVE  IInv
<1>1. /\ rows = SeedRows /\ closure = Refresh(SeedRows)
      /\ \A r \in Requests : pc[r] = "idle"
  BY DEF Init
<1>2. ParentsIn(rows) \in Parents /\ \A o \in There(rows) : ParentsIn(rows)[o] = rows[o].parent
  BY <1>1, SeedAssumption, ParentsTyped DEF There
<1>3. ParentsThere(rows)
  BY <1>1, <1>2, SeedAssumption DEF ParentsThere, There, Parents
<1>4. Rooted(ParentsIn(rows))
  BY <1>1, <1>2, SeedAssumption, CyclicOrRooted
<1>5. closure = ClosureOf(rows, ParentsIn(rows))
  BY <1>1, <1>2, <1>3, RefreshIs
<1>6. given = [id \in Users \cup Roles |-> IF SeedRows[id] = NULL THEN {} ELSE SeedRows[id].links]
  BY DEF Init
<1>7. TypeOK
  <2>1. closure \subseteq Orgs \X Orgs \X (0..Cardinality(Orgs))
    BY <1>5 DEF ClosureOf, N
  <2>2. ASSUME NEW id \in Users \cup Roles
        PROVE  given[id] \in (SUBSET Roles) \cup (SUBSET Permissions)
    <3>1. CASE SeedRows[id] = NULL
      BY <1>6, <3>1
    <3>2. CASE SeedRows[id] # NULL /\ id \in Users
      <4>1. SeedRows[id] \in UserRow
        BY <3>2, SeedAssumption, Tables
      <4> QED  BY <1>6, <3>2, <4>1 DEF UserRow
    <3>3. CASE SeedRows[id] # NULL /\ id \in Roles
      <4>1. SeedRows[id] \in RoleRow
        BY <3>3, SeedAssumption, Tables
      <4> QED  BY <1>6, <3>3, <4>1 DEF RoleRow
    <3> QED  BY <3>1, <3>2, <3>3
  <2>3. given \in [Users \cup Roles -> (SUBSET Roles) \cup (SUBSET Permissions)]
    BY <1>6, <2>2
  <2>4. /\ served \in 0..MaxRequests /\ business \subseteq Orgs
        /\ behind \subseteq Requests /\ mixed \subseteq Ids /\ unseen \subseteq Users
    BY ConstantsAssumption DEF Init
  <2>5. /\ pc \in [Requests -> Points] /\ job \in [Requests -> Jobs]
        /\ mem \in [Requests -> Row \cup PermissionCopy \cup {NULL}]
        /\ base \in [Requests -> Row \cup PermissionCopy \cup {NULL}]
    BY DEF Init, Points, Jobs, NoJob, About
  <2> QED  BY <1>1, <2>1, <2>3, <2>4, <2>5, SeedAssumption DEF TypeOK, Exists
<1>8. RefsOK /\ TreeOK
  BY <1>1, <1>3, <1>4, <1>5, SeedAssumption DEF RefsOK, TreeOK, Exists
<1>9. RemovedIsBare
  BY <1>1, SeedAssumption, Tables DEF RemovedIsBare, Exists
<1>10. RightsOK
  BY <1>1, <1>6, Tables DEF RightsOK, Exists
<1>11. Requested
  BY <1>1 DEF Requested, InHand, RefsInHand, Fresh
<1> QED  BY <1>7, <1>8, <1>9, <1>10, <1>11 DEF IInv
-----------------------------------------------------------------------------
\* The rows refer to rows that are there, the organization is a tree and the
\* closure its own, and what a request relies on holds until somebody writes.
THEOREM DirectoryInvariant == Spec => []IInv
<1>1. Init => IInv
  BY InitOK
<1>2. IInv /\ [Next]_vars => IInv'
  BY NextStep
<1> QED  BY <1>1, <1>2, PTL DEF Spec

\* The closure of a tree answers as the tree does.
LEMMA TreeAnswers ==
  ASSUME TypeOK, TreeOK
  PROVE  ClosureIsTree
<1> DEFINE parent == ParentsIn(rows)
<1>1. parent \in Parents /\ Rooted(parent) /\ closure = ClosureOf(rows, parent)
  BY ParentsTyped DEF TypeOK, TreeOK, Exists
<1>2. \A o \in Orgs : Climb(o, parent)[Cardinality(Orgs)] = NULL
  BY <1>1, ClimbEnds DEF N
<1>3. \A t \in closure : Climb(t[2], parent)[t[3]] = t[1]
  BY <1>1 DEF ClosureOf
<1> HIDE DEF parent
\* Of units that are there, the closure has the pairs of which one is above the other.
<1>4. ASSUME NEW a \in Orgs, NEW d \in Orgs, Live(a), Live(d)
      PROVE  (\E k \in 1..N : <<a, d, k>> \in closure) <=> a # d /\ a \in Above(d, parent)
  <2>1. \A k \in 1..N : <<a, d, k>> \in closure <=> Climb(d, parent)[k] = a
    <3>1. ASSUME NEW k \in 1..N PROVE <<a, d, k>> \in closure <=> Climb(d, parent)[k] = a
      <4>1. <<a, d, k>> \in Orgs \X Orgs \X (0..N)
        BY SizeNat
      <4> QED  BY <1>1, <1>4, <4>1 DEF ClosureOf, There, Live, Exists
    <3> QED  BY <3>1
  <2>2. ASSUME NEW k \in 1..N, Climb(d, parent)[k] = a PROVE a # d /\ a \in Above(d, parent)
    BY <1>1, <2>2, SizeNat, NotAboveItself, AboveHolds, IdsAssumption, Tables
  <2>3. ASSUME a # d, a \in Above(d, parent) PROVE \E k \in 1..N : Climb(d, parent)[k] = a
    <3>1. PICK k \in 0..N : Climb(d, parent)[k] = a
      BY <1>1, <2>3, AboveHolds
    <3>2. k # 0
      BY <1>1, <2>3, <3>1, ClimbSteps
    <3> QED  BY <3>1, <3>2, SizeNat
  <2> QED  BY <2>1, <2>2, <2>3
<1>5. ASSUME NEW o \in Orgs, Live(o)
      PROVE  /\ GetAncestors(o) = {a \in Above(o, parent) \ {o} : Live(a)}
             /\ GetDescendants(o) = {d \in Orgs \ {o} : Live(d) /\ o \in Above(d, parent)}
  <2>1. Above(o, parent) \subseteq Orgs
    BY <1>1, AboveHolds
  <2>2. \A a \in Orgs : a \in GetAncestors(o) <=> Live(a) /\ a # o /\ a \in Above(o, parent)
    BY <1>4, <1>5 DEF GetAncestors, N
  <2>3. \A d \in Orgs : d \in GetDescendants(o) <=> Live(d) /\ o # d /\ o \in Above(d, parent)
    BY <1>4, <1>5 DEF GetDescendants, N
  <2>4. GetAncestors(o) \subseteq Orgs /\ GetDescendants(o) \subseteq Orgs
    BY DEF GetAncestors, GetDescendants
  <2> QED  BY <2>1, <2>2, <2>3, <2>4
<1> QED  BY <1>2, <1>3, <1>5 DEF ClosureIsTree, parent

\* Every row, copy and link has the shape of its table.
THEOREM TypeCorrect == Spec => []TypeOK
<1>1. IInv => TypeOK
  BY DEF IInv
<1> QED  BY <1>1, DirectoryInvariant, PTL

\* However units are made, moved and removed, the parents lead to a root and
\* the closure answers as they do (refresh_organization_closure, getAncestors,
\* getDescendants).
THEOREM TreeIsTree == Spec => []ClosureIsTree
<1>1. IInv => ClosureIsTree
  BY TreeAnswers DEF IInv
<1> QED  BY <1>1, DirectoryInvariant, PTL

\* A deleted unit has no unit under it and no account, but for overlaps and for
\* accounts whose unit an update wrote that had looked at another one or at none
\* (OrganizationService.remove, create and update of units and users).
THEOREM RemovedStaysBare == Spec => []RemovedIsBare
<1>1. IInv => RemovedIsBare
  BY DEF IInv
<1> QED  BY <1>1, DirectoryInvariant, PTL

\* assertNoCycle lets a move that closes a cycle past it only in an overlap.
THEOREM OneNeverHangs == Spec => []HangsTakeTwo
<1>1. IInv => HangsTakeTwo
  BY DEF IInv, Requested, Fresh, HangsTakeTwo
<1> QED  BY <1>1, DirectoryInvariant, PTL

\* Rights are what two tables of links say, each of which is as given.
LEMMA RightsFollow ==
  ASSUME TypeOK, RightsOK
  PROVE  RightsAsGiven
<1> SUFFICES ASSUME NEW u \in Users \ mixed, Exists(u), NEW x \in rows[u].links \ mixed, Live(x)
             PROVE  x \in given[u] /\ {p \in rows[x].links : Live(p)} \subseteq given[x] \cup mixed
  BY DEF RightsAsGiven
<1>1. rows[u] \in UserRow
  BY Tables DEF TypeOK
<1>2. x \in Roles \ mixed /\ Exists(x)
  BY <1>1 DEF UserRow, Live
<1> QED  BY <1>2 DEF RightsOK

\* Nobody has a right that his roles, as last given to him and as last defined,
\* do not give him (assignRoles, updatePermissions, patchRoleGroup, the seeder).
THEOREM RightsStayGiven == Spec => []RightsAsGiven
<1>1. IInv => RightsAsGiven
  BY RightsFollow DEF IInv
<1> QED  BY <1>1, DirectoryInvariant, PTL

=============================================================================
