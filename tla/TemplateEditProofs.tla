------------------------ MODULE TemplateEditProofs -------------------------
(***************************************************************************)
(* The invariant of TemplateDesign, and why the requests that edit a form, *)
(* its rows, overrides, rules and lists keep it, for any number of forms,  *)
(* rows, units and requests.  The properties are not inductive: IInv adds  *)
(* that the tables refer to rows of the same form (TablesOK), what each    *)
(* request holds between its statements (InHand), and what it has checked  *)
(* and may rely on as long as no other request got in between (Walked,     *)
(* Alone, Locked).                                                         *)
(***************************************************************************)
EXTENDS TemplateDesign, FunctionTheorems, FiniteSetTheorems, SequenceTheorems,
        WellFoundedInduction, TLAPS

-----------------------------------------------------------------------------
(* Numbers and finite sets.                                                *)

\* A set of numbers that is not empty has a least one.
LEMMA LeastNumber ==
  ASSUME NEW S \in SUBSET Nat, S # {}
  PROVE  \E n \in S : \A m \in S : n <= m
<1>1. \A m, n \in Nat : m < n => <<m, n>> \in OpToRel(<, Nat)
  BY DEF OpToRel
<1>2. PICK n \in S : \A m \in S : <<m, n>> \notin OpToRel(<, Nat)
  BY NatLessThanWellFounded, WFMin, Zenon
<1>3. ASSUME NEW m \in S PROVE n <= m
  <2>1. m \in Nat /\ n \in Nat
    OBVIOUS
  <2>2. ~(m < n)
    BY <1>1, <1>2, <2>1
  <2> QED  BY <2>1, <2>2
<1> QED  BY <1>3

\* Induction up to n, over a set of numbers instead of a predicate.
LEMMA Induction ==
  ASSUME NEW n \in Nat, NEW S, 0 \in S,
         \A k \in 0..n : k \in S /\ k < n => k + 1 \in S
  PROVE  0..n \subseteq S
<1> SUFFICES ASSUME NEW x \in (0..n) \ S PROVE FALSE
  OBVIOUS
<1>1. PICK k \in (0..n) \ S : \A m \in (0..n) \ S : k <= m
  <2>1. (0..n) \ S \in SUBSET Nat /\ (0..n) \ S # {}
    OBVIOUS
  <2> QED  BY <2>1, LeastNumber, Zenon
<1>2. k # 0 /\ k - 1 \in 0..n /\ k - 1 < n
  BY <1>1
<1>3. k - 1 \in S
  BY <1>1, <1>2
<1>4. (k - 1) + 1 = k
  BY <1>1
<1>5. k \in S
  BY <1>2, <1>3, <1>4
<1> QED  BY <1>1, <1>5

-----------------------------------------------------------------------------
\* R orders the elements of S one after the other.
LinearOn(R, S) ==
  /\ \A x \in S : <<x, x>> \notin R
  /\ \A x, y \in S : x = y \/ <<x, y>> \in R \/ <<y, x>> \in R
  /\ \A x, y, z \in S : <<x, y>> \in R /\ <<y, z>> \in R => <<x, z>> \in R

\* How many elements of S come before x.
Place(x, R, S) == Cardinality({y \in S : <<y, x>> \in R})

\* The place of x is a number from 0 to the size of the set.
LEMMA PlaceType ==
  ASSUME NEW S, IsFiniteSet(S), NEW R, NEW x
  PROVE  /\ IsFiniteSet({y \in S : <<y, x>> \in R})
         /\ Place(x, R, S) \in 0..Cardinality(S)
<1>1. {y \in S : <<y, x>> \in R} \in SUBSET S
  OBVIOUS
<1>2. /\ IsFiniteSet({y \in S : <<y, x>> \in R})
      /\ Cardinality({y \in S : <<y, x>> \in R}) <= Cardinality(S)
  BY <1>1, FS_Subset
<1>3. Cardinality(S) \in Nat /\ Cardinality({y \in S : <<y, x>> \in R}) \in Nat
  BY <1>2, FS_CardinalityType
<1> QED  BY <1>2, <1>3 DEF Place

\* What comes later has a later place.
LEMMA PlaceGrows ==
  ASSUME NEW S, IsFiniteSet(S), NEW R, LinearOn(R, S), NEW x \in S, NEW y \in S, <<x, y>> \in R
  PROVE  Place(x, R, S) < Place(y, R, S)
<1> DEFINE A == {z \in S : <<z, x>> \in R}
           B == {z \in S : <<z, y>> \in R}
<1>1. A \in SUBSET B /\ x \in B /\ x \notin A
  BY DEF LinearOn
<1>2. IsFiniteSet(A) /\ IsFiniteSet(B) /\ Place(x, R, S) = Cardinality(A) /\ Place(y, R, S) = Cardinality(B)
  BY PlaceType DEF Place
<1> HIDE DEF A, B
<1>3. Cardinality(A) <= Cardinality(B) /\ Cardinality(A) # Cardinality(B)
  BY <1>1, <1>2, FS_Subset
<1>4. Cardinality(A) \in Nat /\ Cardinality(B) \in Nat
  BY <1>2, FS_CardinalityType
<1> QED  BY <1>2, <1>3, <1>4

\* The places are the numbers from zero on, one for each element.
LEMMA Places ==
  ASSUME NEW S, IsFiniteSet(S), NEW R, LinearOn(R, S)
  PROVE  /\ \A x \in S : Place(x, R, S) \in 0..(Cardinality(S) - 1)
         /\ \A x, y \in S : Place(x, R, S) = Place(y, R, S) => x = y
         /\ \A k \in 0..(Cardinality(S) - 1) : \E x \in S : Place(x, R, S) = k
<1> DEFINE n == Cardinality(S)
           P == [x \in S |-> Place(x, R, S)]
<1>1. n \in Nat
  BY FS_CardinalityType
<1>2. ASSUME NEW x \in S PROVE Place(x, R, S) \in 0..(n - 1)
  <2> DEFINE A == {z \in S : <<z, x>> \in R}
  <2>1. A \in SUBSET S /\ x \notin A
    BY DEF LinearOn
  <2>2. IsFiniteSet(A) /\ Place(x, R, S) = Cardinality(A)
    BY PlaceType DEF Place
  <2> HIDE DEF A
  <2>3. Cardinality(A) <= n /\ Cardinality(A) # n
    BY <2>1, FS_Subset
  <2>4. Cardinality(A) \in Nat
    BY <2>2, FS_CardinalityType
  <2> QED  BY <1>1, <2>2, <2>3, <2>4
<1>3. ASSUME NEW x \in S, NEW y \in S, Place(x, R, S) = Place(y, R, S) PROVE x = y
  <2>1. Place(x, R, S) \in Nat
    BY <1>1, <1>2
  <2>2. <<x, y>> \notin R
    BY <1>3, <2>1, PlaceGrows
  <2>3. <<y, x>> \notin R
    BY <1>3, <2>1, PlaceGrows
  <2> QED  BY <2>2, <2>3 DEF LinearOn
<1>4. P \in Injection(S, 0..(n - 1))
  <2>1. P \in [S -> 0..(n - 1)]
    BY <1>2
  <2>2. \A a, b \in S : P[a] = P[b] => a = b
    BY <1>3
  <2> QED  BY <2>1, <2>2, Fun_IsInj
<1>5. IsFiniteSet(0..(n - 1)) /\ Cardinality(0..(n - 1)) = n
  BY <1>1, FS_Interval
<1>6. P \in Surjection(S, 0..(n - 1))
  <2> HIDE DEF P
  <2> QED  BY <1>4, <1>5, FS_Injection
<1>7. \A k \in 0..(n - 1) : \E x \in S : P[x] = k
  <2> HIDE DEF P
  <2> QED  BY <1>6, Fun_SurjectionProperties
<1> QED  BY <1>2, <1>3, <1>7

\* The numbers of a set in their order.
Less(S) == {p \in S \X S : p[1] < p[2]}

\* Numbers are ordered by size, and the members before x are the smaller ones.
LEMMA NumbersOrder ==
  ASSUME NEW S \in SUBSET Int
  PROVE  /\ LinearOn(Less(S), S)
         /\ \A x \in S : {y \in S : <<y, x>> \in Less(S)} = {y \in S : y < x}
BY DEF LinearOn, Less

\* A finite set of numbers that is not empty has a greatest one.
LEMMA GreatestNumber ==
  ASSUME NEW S \in SUBSET Int, IsFiniteSet(S), S # {}
  PROVE  \E n \in S : \A m \in S : m <= n
<1> DEFINE top == Cardinality(S) - 1
<1>1. top \in 0..top
  <2>1. Cardinality(S) \in Nat /\ Cardinality(S) # 0
    BY FS_CardinalityType, FS_EmptySet
  <2> QED  BY <2>1
<1>2. LinearOn(Less(S), S)
  BY NumbersOrder
<1>3. /\ \A x \in S : Place(x, Less(S), S) \in 0..top
      /\ \A k \in 0..top : \E x \in S : Place(x, Less(S), S) = k
  BY <1>2, Places
<1>4. PICK n \in S : Place(n, Less(S), S) = top
  BY <1>1, <1>3
<1>5. ASSUME NEW m \in S, n < m PROVE FALSE
  <2>1. <<n, m>> \in Less(S)
    BY <1>5 DEF Less
  <2>2. Place(n, Less(S), S) < Place(m, Less(S), S)
    BY <1>2, <2>1, PlaceGrows
  <2>3. Place(m, Less(S), S) \in 0..top
    BY <1>3
  <2> QED  BY <1>1, <1>4, <2>2, <2>3
<1>6. \A m \in S : m \in Int /\ n \in Int
  OBVIOUS
<1>7. \A m \in S : m <= n
  BY <1>5, <1>6
<1> QED  BY <1>7

-----------------------------------------------------------------------------
(* The inductive invariant: the tables.                                    *)

\* The ids given to rows of form f, in table S.
Ids(f, S) == {n \in S : born[n] = f}

\* A row is of a form that is there, and its parent a row of its form and table.
RowsOK ==
  /\ \A n \in Nodes : born[n] # NULL => forms[born[n]] # NULL
  /\ \A n \in Nodes : nodes[n] # NULL =>
       nodes[n].parent \in Of(nodes[n].form, Side(n)) \cup {NULL}

\* An override is of a row and a column of one form; a formula closes the cell.
CellsOK ==
  \A c \in Cells : cells[c] # NULL =>
    /\ nodes[c[1]] # NULL /\ nodes[c[2]] # NULL /\ nodes[c[1]].form = nodes[c[2]].form
    /\ cells[c].formula # NULL => ~cells[c].editable

\* A rule is of a row that is there.
RulesOK == \A p \in Orgs \X Indicators : rules[p] # NULL => nodes[p[2]] # NULL

\* A form with campaigns was not removed, unless an edit was under way.
CampaignsOK ==
  \A f \in Forms : campaigns[f] # NULL =>
    /\ forms[f] # NULL
    /\ f \notin surprised => ~forms[f].deleted

\* Forests, but where moves overlapped.
ForestsOK ==
  \A f \in Forms \ crossed, T \in {Indicators, Attributes} :
    \A S \in (SUBSET Of(f, T)) \ {{}} : Rooted(S)

TablesOK == RowsOK /\ CellsOK /\ RulesOK /\ CampaignsOK /\ ForestsOK /\ OneUnitPerIndicator

-----------------------------------------------------------------------------
(* The inductive invariant: the requests.  What is in hand has its type,   *)
(* and the ids in it were given for rows of the request's form.            *)

WithoutForm == {"idle", "newForm", "listLoad", "listWrite", "listDrop"}

FormInHand(r) ==
  /\ pc[r] \notin WithoutForm => job[r].form \in Forms /\ forms[job[r].form] # NULL
  /\ pc[r] = "idle" <=> job[r].op = "none"
  /\ pc[r] \in {"idle", "newForm"} => job[r].form = NULL
  /\ pc[r] \in {"newForm", "copyTree", "formLoad", "formWrite"} => copy[r] \in FormRow
  /\ pc[r] \in {"formLoad", "formWrite"} => ~copy[r].deleted
  /\ pc[r] = "formWrite" => base[r] \in FormRow

\* The rows a copy will be made of are trees, as they were when they were read.
TreeInHand(r) ==
  pc[r] = "copyTree" =>
    LET rows == work[r]
    IN  /\ DOMAIN rows \subseteq Nodes
        /\ \A n \in DOMAIN rows : /\ rows[n] \in RowOf(n)
                                  /\ rows[n].parent \in (DOMAIN rows \cap Side(n)) \cup {NULL}
        /\ job[r].form \notin crossed =>
             \A S \in (SUBSET DOMAIN rows) \ {{}} : \E n \in S : rows[n].parent \notin S

RowInHand(r) ==
  LET f == job[r].form
      n == job[r].node
      row == copy[r]
  IN
  /\ pc[r] = "insert" =>
       /\ row \in IndicatorRow \cup AttributeRow /\ row.form = f
       /\ row.parent \in Ids(f, Target(r)) \cup {NULL}
  /\ pc[r] \in {"walk", "saveLoad", "saveWrite"} =>
       /\ n \in Ids(f, Nodes) /\ row \in RowOf(n) /\ row.form = f
       /\ row.parent \in Ids(f, Side(n)) \cup {NULL}
       /\ ~Importing(r) => work[r] \in [cursor : Nodes \cup {NULL, UNSET}]
  /\ pc[r] = "walk" => work[r].cursor \in Ids(f, Side(n))
  /\ pc[r] = "saveWrite" => base[r] = NULL \/ (base[r] \in RowOf(n) /\ base[r].form = f)
  /\ pc[r] = "delete" => n \in Ids(f, Nodes)

OrderInHand(r) ==
  pc[r] = "reorder" =>
    LET rows == work[r].rows
        items == work[r].items
    IN  /\ DOMAIN rows \in (SUBSET Ids(job[r].form, Indicators)) \cup SUBSET Ids(job[r].form, Attributes)
        /\ \A n \in DOMAIN rows : /\ rows[n] \in RowOf(n)
                                  /\ rows[n].parent \in DOMAIN rows \cup {NULL}
        /\ items \in Seq(ReorderItemDto) /\ Acceptable(rows, items)

CellsInHand(r) ==
  /\ pc[r] = "cells" =>
       /\ DOMAIN work[r] \subseteq Cells
       /\ \A c \in DOMAIN work[r] : /\ work[r][c] \in CellItemDto
                                    /\ born[c[1]] = job[r].form /\ born[c[2]] = job[r].form
  /\ pc[r] = "cellsOff" => work[r] \subseteq Cells /\ \A c \in work[r] : born[c[1]] = job[r].form

RulesInHand(r) ==
  /\ pc[r] \in {"rulesOff", "rulesOn"} =>
       /\ work[r] \in [items : SUBSET (Orgs \X Indicators), seen : SUBSET (Orgs \X Indicators)]
       /\ \A p \in work[r].items \cup work[r].seen : born[p[2]] = job[r].form
  /\ pc[r] = "rulesErase" =>
       work[r] \subseteq Orgs \X Indicators /\ \A p \in work[r] : born[p[2]] = job[r].form

ListInHand(r) ==
  /\ pc[r] \in {"listLoad", "listWrite", "listDrop"} => job[r].node \in Entries \cup Categories
  /\ pc[r] \in {"listLoad", "listWrite"} => copy[r] \in [status : {"active", "inactive"}]

ImportWork ==
  [book : Sheets, side : {Indicators, Attributes}, rows : Seq(ExcelRow),
   head : ExcelRow \cup {NULL}, ids : Seq(Codes \X Nodes), links : Seq(ExcelRow),
   cursor : Nodes \cup {NULL}, failed : BOOLEAN]

ImportInHand(r) ==
  /\ pc[r] \in {"importRow", "importLink"} => Importing(r)
  /\ Importing(r) =>
       /\ pc[r] \in {"importRow", "insert", "importLink", "walk", "saveLoad", "saveWrite"}
       /\ work[r] \in ImportWork
       /\ pc[r] = "insert" => work[r].head \in ExcelRow

InHand(r) ==
  /\ FormInHand(r) /\ TreeInHand(r) /\ RowInHand(r) /\ OrderInHand(r)
  /\ CellsInHand(r) /\ RulesInHand(r) /\ ListInHand(r) /\ ImportInHand(r)

\* What has been seen above a new parent: rows whose parents are among them, but for
\* the one the walk is at.  The row to be moved is not one of them.
Above(A, n, f, tops) ==
  /\ A \subseteq Ids(f, Side(n)) /\ n \notin A
  /\ \A a \in A : nodes[a] # NULL => nodes[a].parent \in A \cup tops

\* What r has found out about the trees holds as long as its moves and those of others
\* do not overlap.
Walked(r) ==
  LET f == job[r].form
      n == job[r].node
      parent == copy[r].parent
  IN  f \notin crossed =>
  /\ pc[r] = "walk" =>
       \E A : parent \in A \cup {work[r].cursor} /\ Above(A, n, f, {work[r].cursor, NULL})
  /\ pc[r] \in {"saveLoad", "saveWrite"} /\ parent # NULL =>
       \E A : parent \in A /\ Above(A, n, f, {NULL})
  /\ pc[r] = "reorder" =>
       LET rows == work[r].rows
       IN  /\ \A m \in DOMAIN rows : nodes[m] # NULL => nodes[m].parent \in {rows[m].parent, NULL}
           /\ \A S \in (SUBSET DOMAIN rows) \ {{}} : \E m \in S : Effective(rows, work[r].items, m) \notin S

\* The rules r is about to store give an indicator of a UNIQUE form to one unit, and
\* those in force are among the ones it switches off.
Alone(r) ==
  LET f == job[r].form
  IN  f \notin loosened =>
  /\ pc[r] \in {"rulesOff", "rulesOn"} /\ forms[f].type = "UNIQUE" =>
       \A p, q \in work[r].items : p[2] = q[2] => p = q
  /\ pc[r] = "rulesOn" => TemplateScopes(f) \subseteq work[r].seen

\* Whoever works on a form with campaigns has not got past a check of its structure.
Locked(r) ==
  LET f == job[r].form
  IN  f \in Forms /\ campaigns[f] # NULL /\ f \notin surprised =>
  /\ pc[r] \in {"importRow", "importLink", "copyTree", "formLoad", "formWrite"}
  /\ pc[r] \in {"formLoad", "formWrite"} => copy[r].type = forms[f].type

RequestOK(r) == InHand(r) /\ Walked(r) /\ Alone(r) /\ Locked(r)

RequestsOK == \A r \in Requests : RequestOK(r)

IInv == TypeOK /\ TablesOK /\ RequestsOK

-----------------------------------------------------------------------------
\* The two tables.
LEMMA Sides ==
  /\ \A n \in Indicators : n \in Nodes /\ n \notin Attributes /\ Side(n) = Indicators /\ RowOf(n) = IndicatorRow
  /\ \A n \in Attributes : n \in Nodes /\ n \notin Indicators /\ Side(n) = Attributes /\ RowOf(n) = AttributeRow
  /\ \A n \in Nodes : n \in Side(n) /\ Side(n) \in {Indicators, Attributes} /\ n \in Nat
                      /\ Side(n) \subseteq Nodes
                      /\ \A m \in Side(n) : m \in Nodes /\ Side(m) = Side(n) /\ RowOf(m) = RowOf(n)
BY IdsAssumption DEF Nodes, Side, RowOf

\* What the types of the rows say of their fields.
LEMMA Rows ==
  /\ \A row \in IndicatorRow \cup AttributeRow :
       /\ row.form \in Forms /\ row.form # NULL /\ row.sort \in Nat
       /\ row.parent \in Nodes \cup {NULL} /\ row.entry \in Entries \cup {NULL}
  /\ \A row \in IndicatorRow : row.code # NULL /\ row.parent \in Indicators \cup {NULL}
  /\ \A row \in AttributeRow : row.code = NULL /\ row.parent \in Attributes \cup {NULL}
  /\ NULL \notin IndicatorRow /\ NULL \notin AttributeRow /\ NULL \notin FormRow /\ NULL \notin Nodes
BY NullAssumption DEF IndicatorRow, AttributeRow, Nodes

\* A row of a table, and the table it is of.
LEMMA RowTable ==
  ASSUME TableTypes, NEW n \in Nodes, nodes[n] # NULL
  PROVE  /\ nodes[n] \in RowOf(n) /\ nodes[n] \in IndicatorRow \cup AttributeRow
         /\ nodes[n].form = born[n] /\ born[n] \in Forms /\ born[n] # NULL
         /\ nodes[n].sort \in Nat /\ nodes[n].parent \in Side(n) \cup {NULL}
BY Sides, Rows DEF TableTypes, RowOf, Side

\* Nothing in hand.
LEMMA IdleOK ==
  ASSUME NEW q, pc[q] = "idle", job[q] = NoJob
  PROVE  RequestOK(q)
<1>1. InHand(q)
  BY DEF NoJob, InHand, FormInHand, WithoutForm, TreeInHand, RowInHand, OrderInHand, CellsInHand,
         RulesInHand, ListInHand, ImportInHand, Importing
<1>2. Walked(q) /\ Alone(q)
  BY DEF Walked, Alone
<1>3. Locked(q)
  BY NullAssumption DEF Locked, NoJob
<1> QED  BY <1>1, <1>2, <1>3 DEF RequestOK

\* Request q is where it was, but for what it is known to have had for itself.
Same(q) ==
  /\ pc'[q] = pc[q] /\ copy'[q] = copy[q] /\ base'[q] = base[q] /\ work'[q] = work[q]
  /\ job'[q].op = job[q].op /\ job'[q].form = job[q].form /\ job'[q].node = job[q].node

\* Ids stay with their forms, forms stay, and what happened has happened.
Grown ==
  /\ \A n \in Nodes : born[n] # NULL => born'[n] = born[n]
  /\ \A f \in Forms : forms[f] # NULL => forms'[f] # NULL
  /\ crossed \subseteq crossed' /\ surprised \subseteq surprised' /\ loosened \subseteq loosened'

\* An id given for a form stays that form's.
LEMMA IdsGrow ==
  ASSUME Grown, NEW f \in Forms, NEW S \in SUBSET Nodes
  PROVE  Ids(f, S) \subseteq Ids(f, S)'
BY NullAssumption DEF Grown, Ids

\* What a request has in hand keeps its type while others add ids.
LEMMA InHandKept ==
  ASSUME NEW q \in Requests, InHand(q), Same(q), Grown
  PROVE  InHand(q)'
<1> PICK f : f = job[q].form
  OBVIOUS
<1>1. FormInHand(q)'
  BY DEF InHand, FormInHand, Same, Grown, WithoutForm
<1>2. pc[q] \notin WithoutForm => f \in Forms
  BY DEF InHand, FormInHand
<1>3. \A n \in Nodes : f \in Forms /\ born[n] = f => born'[n] = f
  BY NullAssumption DEF Grown
<1>4. TreeInHand(q)'
  BY <1>2 DEF InHand, TreeInHand, Same, Grown
<1>5. RowInHand(q)'
  <2>1. \A S \in SUBSET Nodes : f \in Forms => Ids(f, S) \subseteq Ids(f, S)'
    BY IdsGrow
  <2>2. Target(q) \subseteq Nodes /\ Target(q)' = Target(q) /\ (Importing(q)' <=> Importing(q))
    BY DEF Target, Same, Nodes, Importing
  <2>3. pc[q] \in {"insert", "walk", "saveLoad", "saveWrite", "delete"} => f \in Forms
    BY <1>2 DEF WithoutForm
  <2>4. ASSUME pc[q] = "insert"
        PROVE  /\ copy'[q] \in IndicatorRow \cup AttributeRow /\ copy'[q].form = job'[q].form
               /\ copy'[q].parent \in Ids(job[q].form, Target(q))' \cup {NULL}
    BY <2>1, <2>2, <2>3, <2>4 DEF InHand, RowInHand, Same, Ids
  <2>5. ASSUME pc[q] \in {"walk", "saveLoad", "saveWrite", "delete"}
        PROVE  job[q].node \in Ids(f, Nodes)' /\ Side(job[q].node) \subseteq Nodes
    BY <2>1, <2>3, <2>5, Sides DEF InHand, RowInHand, Ids
  <2>6. ASSUME pc[q] \in {"walk", "saveLoad", "saveWrite"}
        PROVE  Ids(f, Side(job[q].node)) \subseteq Ids(f, Side(job[q].node))'
    <3> PICK n : n = job[q].node
      OBVIOUS
    <3>1. Side(n) \subseteq Nodes /\ f \in Forms
      BY <2>3, <2>5, <2>6
    <3>2. Ids(f, Side(n)) \subseteq Ids(f, Side(n))'
      BY <2>1, <3>1
    <3> QED  BY <3>2 DEF Same, Ids
  <2> QED  BY <2>2, <2>4, <2>5, <2>6 DEF InHand, RowInHand, Same, Ids
<1>6. OrderInHand(q)'
  <2> SUFFICES ASSUME pc[q] = "reorder" PROVE OrderInHand(q)'
    BY DEF OrderInHand, Same
  <2>1. f \in Forms
    BY <1>2 DEF WithoutForm
  <2>2. Ids(f, Indicators) \subseteq Ids(f, Indicators)' /\ Ids(f, Attributes) \subseteq Ids(f, Attributes)'
    BY <2>1, IdsGrow DEF Nodes
  <2>3. DOMAIN work[q].rows \in (SUBSET Ids(f, Indicators)') \cup SUBSET Ids(f, Attributes)'
    BY <2>2 DEF InHand, OrderInHand
  <2> QED  BY <2>3 DEF InHand, OrderInHand, Same, Ids
<1>7. CellsInHand(q)'
  <2>1. \A c \in Cells : c[1] \in Nodes /\ c[2] \in Nodes
    BY DEF Cells, Nodes
  <2> QED  BY <1>2, <1>3, <2>1 DEF InHand, CellsInHand, Same, WithoutForm
<1>8. RulesInHand(q)'
  <2>1. \A p \in Orgs \X Indicators : p[2] \in Nodes
    BY DEF Nodes
  <2>2. pc[q] \in {"rulesOff", "rulesOn", "rulesErase"} => f \in Forms
    BY <1>2 DEF WithoutForm
  <2> QED  BY <1>3, <2>1, <2>2 DEF InHand, RulesInHand, Same
<1>9. ListInHand(q)' /\ ImportInHand(q)'
  BY DEF InHand, ListInHand, ImportInHand, Importing, Same
<1> QED  BY <1>1, <1>4, <1>5, <1>6, <1>7, <1>8, <1>9 DEF InHand

\* No row of form f has got another parent, or is there again.
Calm(f) ==
  \A n \in Nodes : born[n] = f /\ nodes'[n] # NULL =>
    nodes[n] # NULL /\ nodes'[n].parent \in {nodes[n].parent, NULL}

\* What a walk has seen above a parent stays true as long as no row of the form moves.
LEMMA AboveKept ==
  ASSUME NEW f \in Forms, Grown, Calm(f), NEW n \in Nodes, NEW tops, NULL \in tops, NEW A,
         Above(A, n, f, tops)
  PROVE  Above(A, n, f, tops)'
<1>1. A \subseteq Nodes /\ \A a \in A : born[a] = f
  BY Sides DEF Above, Ids
<1>2. A \subseteq Ids(f, Side(n))'
  BY <1>1, NullAssumption DEF Above, Ids, Grown
<1> QED  BY <1>1, <1>2 DEF Above, Calm

\* What a request needs to be calm.
OnParents(r) == pc[r] \in {"walk", "saveLoad", "saveWrite", "reorder"}

\* What a request has found out about the trees stays true as long as no row of its form
\* moves, or the form is set aside as crossed.
LEMMA WalkedKept ==
  ASSUME NEW q \in Requests, InHand(q), Walked(q), Same(q), Grown,
         OnParents(q) /\ job[q].form \notin crossed' => Calm(job[q].form)
  PROVE  Walked(q)'
<1> PICK f : f = job[q].form
  OBVIOUS
<1> PICK n : n = job[q].node
  OBVIOUS
<1> SUFFICES ASSUME f \notin crossed', OnParents(q) PROVE Walked(q)'
  BY DEF Walked, Same, OnParents
<1>1. f \in Forms /\ f \notin crossed /\ Calm(f) /\ job'[q].form = f /\ job'[q].node = n
  BY DEF Same, InHand, FormInHand, OnParents, WithoutForm, Grown
<1>2. CASE pc[q] = "walk"
  <2>1. n \in Nodes
    BY <1>2 DEF InHand, RowInHand, Ids
  <2> PICK top : top = work[q].cursor
    OBVIOUS
  <2>2. PICK A : copy[q].parent \in A \cup {top} /\ Above(A, n, f, {top, NULL})
    BY <1>1, <1>2 DEF Walked
  <2>3. Above(A, n, f, {top, NULL})'
    BY <1>1, <2>1, <2>2, AboveKept
  <2> QED  BY <1>2, <2>2, <2>3 DEF Walked, Same, Above, Ids
<1>3. CASE pc[q] \in {"saveLoad", "saveWrite"}
  <2>1. n \in Nodes
    BY <1>3 DEF InHand, RowInHand, Ids
  <2>2. CASE copy[q].parent # NULL
    <3>1. PICK A : copy[q].parent \in A /\ Above(A, n, f, {NULL})
      BY <1>1, <1>3, <2>2 DEF Walked
    <3>2. Above(A, n, f, {NULL})'
      BY <1>1, <2>1, <3>1, AboveKept
    <3> QED  BY <1>3, <3>1, <3>2 DEF Walked, Same, Above, Ids
  <2>3. CASE copy[q].parent = NULL
    BY <1>3, <2>3 DEF Walked, Same
  <2> QED  BY <2>2, <2>3
<1>4. CASE pc[q] = "reorder"
  <2> PICK rows : rows = work[q].rows
    OBVIOUS
  <2>1. DOMAIN rows \in (SUBSET Ids(f, Indicators)) \cup SUBSET Ids(f, Attributes)
    BY <1>4 DEF InHand, OrderInHand
  <2>a. \A m \in DOMAIN rows : m \in Nodes /\ born[m] = f
    BY <2>1 DEF Ids, Nodes
  <2>2. \A m \in DOMAIN rows : nodes'[m] # NULL => nodes'[m].parent \in {rows[m].parent, NULL}
    BY <1>1, <1>4, <2>a DEF Walked, Calm
  <2>3. \A S \in (SUBSET DOMAIN rows) \ {{}} : \E m \in S : Effective(rows, work[q].items, m) \notin S
    BY <1>1, <1>4 DEF Walked
  <2> QED  BY <1>4, <2>2, <2>3 DEF Walked, Same
<1> QED  BY <1>2, <1>3, <1>4 DEF OnParents

\* What a request that stores rules relies on stays true as long as its form keeps its type
\* and gets no rules, or the form is set aside as loosened.
LEMMA AloneKept ==
  ASSUME NEW q \in Requests, InHand(q), Alone(q), Same(q), Grown, NEW f, job[q].form = f,
         pc[q] \in {"rulesOff", "rulesOn"} /\ f \notin loosened' =>
           forms'[f].type = forms[f].type /\ TemplateScopes(f)' \subseteq TemplateScopes(f)
  PROVE  Alone(q)'
<1> SUFFICES ASSUME f \notin loosened', pc[q] \in {"rulesOff", "rulesOn"} PROVE Alone(q)'
  BY DEF Alone, Same
<1>1. f \notin loosened
  BY DEF Grown
<1>2. forms'[f].type = forms[f].type /\ TemplateScopes(f)' \subseteq TemplateScopes(f)
  OBVIOUS
<1>3. forms'[f].type = "UNIQUE" => \A p, s \in work[q].items : p[2] = s[2] => p = s
  BY <1>1, <1>2 DEF Alone
<1>4. pc[q] = "rulesOn" => TemplateScopes(f)' \subseteq work[q].seen
  BY <1>1, <1>2 DEF Alone
<1> QED  BY <1>3, <1>4 DEF Alone, Same, TemplateScopes, RuleAt, Of

\* What a request relies on because it has seen no campaign stays true until one is made.
LEMMA LockedKept ==
  ASSUME NEW q \in Requests, InHand(q), Locked(q), Same(q), Grown,
         job[q].form \in Forms => campaigns'[job[q].form] = NULL <=> campaigns[job[q].form] = NULL,
         job[q].form \in Forms /\ campaigns[job[q].form] # NULL /\ job[q].form \notin surprised' =>
           forms'[job[q].form].type = forms[job[q].form].type
  PROVE  Locked(q)'
BY DEF Locked, Same, Grown

-----------------------------------------------------------------------------
(* A step of one request.                                                  *)

\* Only r's memory changes, and everything stays of its type.
Moves(r) == RequestTypes' /\ \A q \in Requests \ {r} : Same(q)

\* No form another request walks in has got a cycle by this step ...
OthersCalm(r) ==
  \A f \in Forms \ crossed' : (\E q \in Requests \ {r} : OnParents(q) /\ job[q].form = f) => Calm(f)

\* ... no form another request stores rules for has got rules or another type ...
OthersAlone(r) ==
  \A f \in Forms \ loosened' :
    (\E q \in Requests \ {r} : pc[q] \in {"rulesOff", "rulesOn"} /\ job[q].form = f) =>
    forms'[f].type = forms[f].type /\ TemplateScopes(f)' \subseteq TemplateScopes(f)

\* ... and no form with campaigns has changed its type.
TypesStay ==
  \A f \in Forms : /\ campaigns'[f] = NULL <=> campaigns[f] = NULL
                   /\ campaigns[f] # NULL /\ f \notin surprised' => forms'[f].type = forms[f].type

\* A step of one request keeps the invariant when it keeps its own part of it and the
\* tables', and leaves the others what they rely on.
LEMMA StepOK ==
  ASSUME IInv, NEW r \in Requests, Moves(r), Grown, TableTypes', TablesOK', RequestOK(r)',
         OthersCalm(r), OthersAlone(r), TypesStay
  PROVE  IInv'
<1>1. TypeOK'
  BY DEF TypeOK, Moves
<1>2. ASSUME NEW q \in Requests \ {r} PROVE RequestOK(q)'
  <2>1. InHand(q) /\ Walked(q) /\ Alone(q) /\ Locked(q) /\ Same(q)
    BY DEF IInv, RequestsOK, RequestOK, Moves
  <2>2. InHand(q)'
    BY <2>1, InHandKept
  <2> PICK f : f = job[q].form
    OBVIOUS
  <2>a. OnParents(q) \/ pc[q] \in {"rulesOff", "rulesOn"} => f \in Forms
    BY <2>1 DEF InHand, FormInHand, WithoutForm, OnParents
  <2>3. Walked(q)'
    BY <2>1, <2>a, WalkedKept DEF OthersCalm
  <2>4. Alone(q)'
    BY <2>1, <2>a, AloneKept DEF OthersAlone
  <2>5. Locked(q)'
    BY <2>1, LockedKept DEF TypesStay
  <2> QED  BY <2>2, <2>3, <2>4, <2>5 DEF RequestOK
<1> QED  BY <1>1, <1>2 DEF IInv, RequestsOK

\* The tables are as they were.
Still == tables' = tables /\ history' = history /\ served' \in 0..MaxRequests

\* A step that writes no table leaves the tables, and what everybody relies on, as they were.
LEMMA StillOK ==
  ASSUME IInv, Still
  PROVE  /\ Grown /\ TableTypes' /\ TablesOK' /\ TypesStay /\ \A f : Calm(f)
         /\ \A f : TemplateScopes(f)' = TemplateScopes(f)
         /\ forms' = forms /\ nodes' = nodes /\ born' = born /\ cells' = cells /\ rules' = rules
         /\ lists' = lists /\ campaigns' = campaigns
         /\ crossed' = crossed /\ surprised' = surprised /\ loosened' = loosened
<1>1. /\ forms' = forms /\ nodes' = nodes /\ born' = born /\ cells' = cells /\ rules' = rules
      /\ lists' = lists /\ campaigns' = campaigns
      /\ crossed' = crossed /\ surprised' = surprised /\ loosened' = loosened
  BY DEF Still, tables, history
<1>2. Grown /\ TypesStay
  BY <1>1 DEF Grown, TypesStay
<1>3. \A f : Calm(f) /\ TemplateScopes(f)' = TemplateScopes(f)
  BY <1>1 DEF Calm, TemplateScopes, RuleAt, Of
<1>4. TableTypes'
  BY <1>1 DEF IInv, TypeOK, TableTypes, Still
<1>5. RowsOK' /\ CellsOK' /\ RulesOK' /\ CampaignsOK'
  BY <1>1 DEF IInv, TablesOK, RowsOK, CellsOK, RulesOK, CampaignsOK, Of
<1>6. ForestsOK' /\ OneUnitPerIndicator'
  BY <1>1 DEF IInv, TablesOK, ForestsOK, OneUnitPerIndicator, TemplateScopes, RuleAt, Of, Rooted
<1> QED  BY <1>1, <1>2, <1>3, <1>4, <1>5, <1>6 DEF TablesOK

\* A step that writes no table only has its own part of the invariant to keep.
LEMMA QuietStep ==
  ASSUME IInv, NEW r \in Requests, Moves(r), Still, RequestOK(r)'
  PROVE  IInv'
<1>1. Grown /\ TableTypes' /\ TablesOK' /\ TypesStay
  BY StillOK
<1>2. OthersCalm(r)
  BY StillOK DEF OthersCalm
<1>3. OthersAlone(r)
  BY StillOK DEF OthersAlone
<1> QED  BY <1>1, <1>2, <1>3, StepOK

\* A request that ends holds nothing.
LEMMA EndMoves ==
  ASSUME TypeOK, NEW r \in Requests, End(r)
  PROVE  Moves(r) /\ RequestOK(r)' /\ pc'[r] = "idle" /\ job'[r] = NoJob
<1>1. /\ pc'[r] = "idle" /\ job'[r] = NoJob
      /\ \A q \in Requests \ {r} : Same(q) /\ job'[q] = job[q]
      /\ DOMAIN copy' = Requests /\ DOMAIN base' = Requests /\ DOMAIN work' = Requests
  BY DEF End, Goto, Same, TypeOK, RequestTypes
<1>2. pc' \in [Requests -> Statements]
  BY DEF End, Goto, TypeOK, RequestTypes, Statements
<1>3. job' \in [Requests -> Job]
  <2>1. NoJob \in Job
    BY DEF NoJob, Job
  <2> QED  BY <2>1 DEF End, TypeOK, RequestTypes
<1>4. \A q \in Requests : pc'[q] = "idle" <=> job'[q].op = "none"
  BY <1>1 DEF Same, TypeOK, RequestTypes, NoJob
<1>5. Moves(r)
  BY <1>1, <1>2, <1>3, <1>4 DEF Moves, RequestTypes
<1>6. RequestOK(r)'
  <2>1. InHand(r)'
    BY <1>1 DEF NoJob, InHand, FormInHand, WithoutForm, TreeInHand, RowInHand, OrderInHand, CellsInHand,
           RulesInHand, ListInHand, ImportInHand, Importing
  <2>2. Walked(r)' /\ Alone(r)' /\ Locked(r)'
    BY <1>1, NullAssumption DEF Walked, Alone, Locked, NoJob
  <2> QED  BY <2>1, <2>2 DEF RequestOK
<1> QED  BY <1>1, <1>5, <1>6

\* A request that ends and writes nothing, a refusal or a crash, keeps the invariant.
LEMMA EndStep ==
  ASSUME IInv, NEW r \in Requests, End(r), UNCHANGED <<tables, served, history>>
  PROVE  IInv'
<1>1. Moves(r) /\ RequestOK(r)'
  BY EndMoves DEF IInv
<1>2. Still
  BY DEF Still, IInv, TypeOK, TableTypes
<1> QED  BY <1>1, <1>2, QuietStep

\* r goes on with the next statement; job, copy, base and work stay in place.
LEMMA GoesOn ==
  ASSUME IInv, NEW r \in Requests, NEW label \in Statements \ {"idle"}, Goto(r, label), pc[r] # "idle",
         \/ job' = job
         \/ \E n \in Nodes : job' = [job EXCEPT ![r].node = n],
         \/ copy' = copy \/ \E e : copy' = [copy EXCEPT ![r] = e],
         \/ base' = base \/ \E e : base' = [base EXCEPT ![r] = e],
         \/ work' = work \/ \E w : work' = [work EXCEPT ![r] = w]
  PROVE  Moves(r) /\ pc'[r] = label /\ job'[r].op = job[r].op /\ job'[r].form = job[r].form
<1>1. RequestTypes /\ job[r].op # "none"
  BY DEF IInv, TypeOK, RequestsOK, RequestOK, InHand, FormInHand
<1>2. /\ pc' \in [Requests -> Statements] /\ pc'[r] = label
      /\ \A q \in Requests \ {r} : pc'[q] = pc[q]
  BY <1>1 DEF Goto, RequestTypes
<1>3. /\ job' \in [Requests -> Job]
      /\ job'[r].op = job[r].op /\ job'[r].form = job[r].form
      /\ \A q \in Requests \ {r} : job'[q] = job[q]
  BY <1>1 DEF RequestTypes, Job
<1>4. /\ DOMAIN copy' = Requests /\ DOMAIN base' = Requests /\ DOMAIN work' = Requests
      /\ \A q \in Requests \ {r} : copy'[q] = copy[q] /\ base'[q] = base[q] /\ work'[q] = work[q]
  BY <1>1 DEF RequestTypes
<1>5. \A q \in Requests : pc'[q] = "idle" <=> job'[q].op = "none"
  BY <1>1, <1>2, <1>3 DEF RequestTypes
<1> QED  BY <1>2, <1>3, <1>4, <1>5 DEF Moves, RequestTypes, Same

\* A request that arrives.
LEMMA Arrives ==
  ASSUME IInv, NEW r \in Requests, NEW label \in Statements \ {"idle"}, NEW op \in Handlers,
         NEW f \in Forms \cup {NULL}, NEW n \in Nodes \cup Entries \cup Categories \cup {NULL},
         NEW e, NEW w, Take(r, label, op, f, n), Hold(r, e, w)
  PROVE  /\ Moves(r) /\ Still
         /\ pc'[r] = label /\ job'[r].op = op /\ job'[r].form = f /\ job'[r].node = n
         /\ copy'[r] = e /\ work'[r] = w
<1>1. RequestTypes /\ served \in 0..MaxRequests /\ served < MaxRequests
  BY DEF IInv, TypeOK, TableTypes, Take
<1>2. /\ pc' \in [Requests -> Statements] /\ pc'[r] = label
      /\ \A q \in Requests \ {r} : pc'[q] = pc[q]
  BY <1>1 DEF Take, Goto, RequestTypes
<1>3. /\ job'[r].op = op /\ job'[r].form = f /\ job'[r].node = n /\ job'[r] \in Job
      /\ job' = [q \in Requests |-> job'[q]]
  BY DEF Take, Job, Handlers
<1>4. ASSUME NEW q \in Requests \ {r}
      PROVE  /\ job'[q] \in Job /\ job'[q].op = job[q].op /\ job'[q].form = job[q].form
             /\ job'[q].node = job[q].node
  BY <1>1 DEF Take, RequestTypes, Job
<1>5. job' \in [Requests -> Job]
  BY <1>3, <1>4
<1>6. /\ DOMAIN copy' = Requests /\ DOMAIN base' = Requests /\ DOMAIN work' = Requests
      /\ copy'[r] = e /\ work'[r] = w
      /\ \A q \in Requests \ {r} : copy'[q] = copy[q] /\ base'[q] = base[q] /\ work'[q] = work[q]
  BY <1>1 DEF Hold, RequestTypes
<1>7. \A q \in Requests : pc'[q] = "idle" <=> job'[q].op = "none"
  BY <1>1, <1>2, <1>3, <1>4 DEF RequestTypes, Handlers
<1>8. Moves(r)
  BY <1>2, <1>4, <1>5, <1>6, <1>7 DEF Moves, RequestTypes, Same
<1>9. Still
  BY <1>1, BoundsAssumption DEF Still, Take
<1> QED  BY <1>2, <1>3, <1>6, <1>8, <1>9

-----------------------------------------------------------------------------
(* Arrivals.                                                               *)

\* An arrival that starts with a statement on a form, or on a list.
LEMMA Arrival ==
  ASSUME IInv, NEW r \in Requests, NEW label \in Statements \ {"idle", "importRow", "importLink"},
         NEW op \in Handlers \ {"import"},
         NEW f \in Forms \cup {NULL}, NEW n \in Nodes \cup Entries \cup Categories \cup {NULL},
         NEW e, NEW w, Take(r, label, op, f, n), Hold(r, e, w),
         label \notin WithoutForm => f \in Forms /\ forms[f] # NULL, label = "newForm" => f = NULL,
         f \in Forms => campaigns[f] = NULL \/ label = "copyTree"
                        \/ (label = "formLoad" /\ e.type = forms[f].type),
         label \in {"newForm", "copyTree", "formLoad"} => e \in FormRow,
         label = "formLoad" => ~e.deleted,
         label \notin {"formWrite", "saveWrite", "rulesOn"},
         (TreeInHand(r) /\ RowInHand(r) /\ OrderInHand(r) /\ CellsInHand(r) /\ RulesInHand(r)
           /\ ListInHand(r) /\ Walked(r))',
         label = "rulesOff" /\ f \notin loosened /\ forms[f].type = "UNIQUE" =>
           \A p, q \in w.items : p[2] = q[2] => p = q
  PROVE  IInv'
<1>1. /\ Moves(r) /\ Still
      /\ pc'[r] = label /\ job'[r].op = op /\ job'[r].form = f /\ job'[r].node = n
      /\ copy'[r] = e /\ work'[r] = w
  BY Arrives
<1>2. /\ forms' = forms /\ campaigns' = campaigns /\ surprised' = surprised /\ loosened' = loosened
  BY <1>1, StillOK
<1>3. FormInHand(r)'
  BY <1>1, <1>2 DEF FormInHand, WithoutForm, Handlers
<1>4. ImportInHand(r)'
  BY <1>1 DEF ImportInHand, Importing
<1>5. Alone(r)'
  BY <1>1, <1>2 DEF Alone
<1>6. Locked(r)'
  BY <1>1, <1>2 DEF Locked
<1>7. RequestOK(r)'
  BY <1>3, <1>4, <1>5, <1>6 DEF RequestOK, InHand
<1> QED  BY <1>1, <1>7, QuietStep

\* What an arrival has not in its hands.
LEMMA NotInHand ==
  ASSUME NEW r
  PROVE  /\ pc'[r] # "copyTree" => TreeInHand(r)'
         /\ pc'[r] \notin {"insert", "walk", "saveLoad", "saveWrite", "delete"} => RowInHand(r)'
         /\ pc'[r] # "reorder" => OrderInHand(r)'
         /\ pc'[r] \notin {"cells", "cellsOff"} => CellsInHand(r)'
         /\ pc'[r] \notin {"rulesOff", "rulesOn", "rulesErase"} => RulesInHand(r)'
         /\ pc'[r] \notin {"listLoad", "listWrite", "listDrop"} => ListInHand(r)'
         /\ pc'[r] \notin {"walk", "saveLoad", "saveWrite", "reorder"} => Walked(r)'
BY DEF TreeInHand, RowInHand, OrderInHand, CellsInHand, RulesInHand, ListInHand, Walked

\* The trees of a form, as an arrival reads them.
LEMMA TreesRead ==
  ASSUME TypeOK, TablesOK, NEW f \in Forms, NEW T \in {Nodes, Indicators, Attributes}
  PROVE  LET rows == [n \in Of(f, T) |-> nodes[n]]
         IN  /\ DOMAIN rows \subseteq Ids(f, T)
             /\ \A n \in DOMAIN rows : /\ rows[n] \in RowOf(n)
                                       /\ rows[n].parent \in (DOMAIN rows \cap Side(n)) \cup {NULL}
             /\ f \notin crossed =>
                  \A S \in (SUBSET DOMAIN rows) \ {{}} : \E n \in S : rows[n].parent \notin S
<1> DEFINE rows == [n \in Of(f, T) |-> nodes[n]]
<1>1. DOMAIN rows = Of(f, T) /\ \A n \in Of(f, T) : rows[n] = nodes[n] /\ nodes[n] # NULL /\ nodes[n].form = f
  BY DEF Of
<1> HIDE DEF rows
<1>2. T \subseteq Nodes
  BY DEF Nodes
<1>3. \A n \in DOMAIN rows : n \in Nodes /\ rows[n] \in RowOf(n) /\ born[n] = f
  BY <1>1, <1>2, RowTable DEF Of, TypeOK
<1>4. ASSUME NEW n \in DOMAIN rows PROVE rows[n].parent \in (DOMAIN rows \cap Side(n)) \cup {NULL}
  <2>1. nodes[n].parent \in Of(f, Side(n)) \cup {NULL}
    BY <1>1, <1>3 DEF TablesOK, RowsOK
  <2>2. Of(f, Side(n)) \subseteq Of(f, T)
    BY <1>1, <1>3, Sides DEF Of, Nodes
  <2> QED  BY <1>1, <2>1, <2>2 DEF Of
<1>5. ASSUME f \notin crossed, NEW S \in (SUBSET DOMAIN rows) \ {{}}
      PROVE  \E n \in S : rows[n].parent \notin S
  <2> PICK x : x \in S
    OBVIOUS
  <2> DEFINE A == S \cap Side(x)
  <2>1. x \in Side(x) /\ Side(x) \in {Indicators, Attributes}
    BY <1>3, Sides
  <2>2. A \in (SUBSET Of(f, Side(x))) \ {{}}
    BY <1>1, <1>2, <2>1 DEF Of
  <2>3. PICK n \in A : nodes[n].parent \notin A
    BY <1>5, <2>1, <2>2 DEF TablesOK, ForestsOK, Rooted
  <2>4. Side(n) = Side(x) /\ NULL \notin S
    BY <1>3, <2>3, Sides, Rows
  <2> QED  BY <1>1, <1>4, <2>3, <2>4
<1>6. DOMAIN rows \subseteq Ids(f, T)
  BY <1>1, <1>3 DEF Ids, Of
<1>7. \A n \in DOMAIN rows : /\ rows[n] \in RowOf(n)
                             /\ rows[n].parent \in (DOMAIN rows \cap Side(n)) \cup {NULL}
  BY <1>3, <1>4
<1>8. f \notin crossed => \A S \in (SUBSET DOMAIN rows) \ {{}} : \E n \in S : rows[n].parent \notin S
  BY <1>5
<1> QED  BY <1>6, <1>7, <1>8 DEF rows

\* The handlers of forms.
LEMMA FormArrivals ==
  ASSUME IInv, NEW r \in Requests, FormsController(r)
  PROVE  IInv'
<1>a. /\ forms \in [Forms -> FormRow \cup {NULL}] /\ NULL \notin FormRow
      /\ \A f \in Forms : Live(f) => forms[f] \in FormRow /\ ~forms[f].deleted
  BY Rows DEF IInv, TypeOK, TableTypes, Live
<1>b. \A f \in Forms : Editable(f) => Live(f) /\ campaigns[f] = NULL
  BY DEF Editable, HasCampaignOrAssignment
<1>1. ASSUME NEW d \in CreateFormDto, CreateForm(r, d) PROVE IInv'
  <2> DEFINE e == [status |-> "DRAFT", type |-> d.type, category |-> d.category, deleted |-> FALSE]
  <2>1. Take(r, "newForm", "createForm", NULL, NULL) /\ Hold(r, e, NULL)
    BY <1>1 DEF CreateForm
  <2>2. e \in FormRow
    BY DEF FormRow, CreateFormDto
  <2> HIDE DEF e
  <2>3. pc'[r] = "newForm"
    BY <2>1, Arrives DEF Statements, Handlers
  <2> QED  BY <2>1, <2>2, <2>3, NotInHand, Arrival, NullAssumption DEF Statements, Handlers, WithoutForm
<1>2. ASSUME NEW f \in Forms, NEW e, NEW op \in Handlers \ {"import"}, Live(f),
             Take(r, "formLoad", op, f, NULL), Hold(r, e, NULL), e \in FormRow, ~e.deleted,
             campaigns[f] = NULL \/ e.type = forms[f].type
      PROVE  IInv'
  <2>1. pc'[r] = "formLoad"
    BY <1>2, Arrives DEF Statements
  <2> QED  BY <1>2, <2>1, NotInHand, Arrival DEF Statements, Live
<1>3. ASSUME NEW f \in Forms, NEW d \in PatchFormDto, PatchForm(r, f, d) PROVE IInv'
  <2> DEFINE e == [c \in DOMAIN forms[f] |->
                     IF c \in DOMAIN d /\ d[c] # UNSET THEN d[c] ELSE forms[f][c]]
  <2>1. /\ Live(f) /\ Take(r, "formLoad", "patchForm", f, NULL) /\ Hold(r, e, NULL)
        /\ d.type # UNSET /\ d.type # forms[f].type => campaigns[f] = NULL
    BY <1>3 DEF PatchForm, HasCampaignOrAssignment
  <2>2. /\ forms[f] \in FormRow /\ ~forms[f].deleted /\ DOMAIN d = {"type", "category"}
        /\ DOMAIN forms[f] = {"status", "type", "category", "deleted"}
    BY <1>a, <2>1 DEF PatchFormDto, FormRow
  <2>3. e = [status |-> forms[f].status, type |-> IF d.type # UNSET THEN d.type ELSE forms[f].type,
             category |-> IF d.category # UNSET THEN d.category ELSE forms[f].category,
             deleted |-> forms[f].deleted]
    BY <2>2
  <2>4. e \in FormRow /\ ~e.deleted /\ (campaigns[f] = NULL \/ e.type = forms[f].type)
    <3> HIDE DEF e
    <3> QED  BY <2>1, <2>2, <2>3 DEF FormRow, PatchFormDto
  <2> HIDE DEF e
  <2> QED  BY <2>1, <2>4, <1>2 DEF Handlers
<1>4. ASSUME NEW f \in Forms, SetOther(r, f) PROVE IInv'
  BY <1>4, <1>a, <1>2 DEF SetOther, Handlers
<1>5. ASSUME NEW f \in Forms, MarkFormReady(r, f) PROVE IInv'
  <2> DEFINE e == [forms[f] EXCEPT !.status = "READY"]
  <2>1. Live(f) /\ Take(r, "formLoad", "markFormReady", f, NULL) /\ Hold(r, e, NULL)
    BY <1>5 DEF MarkFormReady
  <2>2. e \in FormRow /\ ~e.deleted /\ e.type = forms[f].type
    BY <1>a, <2>1 DEF FormRow
  <2> HIDE DEF e
  <2> QED  BY <2>1, <2>2, <1>2 DEF Handlers
<1>6. ASSUME NEW f \in Forms, ArchiveForm(r, f) PROVE IInv'
  <2> DEFINE e == [forms[f] EXCEPT !.status = "ARCHIVED"]
  <2>1. Live(f) /\ Take(r, "formLoad", "archiveForm", f, NULL) /\ Hold(r, e, NULL)
    BY <1>6 DEF ArchiveForm
  <2>2. e \in FormRow /\ ~e.deleted /\ e.type = forms[f].type
    BY <1>a, <2>1 DEF FormRow
  <2> HIDE DEF e
  <2> QED  BY <2>1, <2>2, <1>2 DEF Handlers
<1>7. ASSUME NEW f \in Forms, RemoveForm(r, f) PROVE IInv'
  <2>1. Editable(f) /\ Take(r, "dropForm", "removeForm", f, NULL) /\ Hold(r, NULL, NULL)
    BY <1>7 DEF RemoveForm
  <2>2. pc'[r] = "dropForm"
    BY <2>1, Arrives DEF Statements, Handlers
  <2> QED  BY <1>b, <2>1, <2>2, NotInHand, Arrival DEF Statements, Handlers, Live
<1>8. ASSUME NEW f \in Forms, NEW d \in CopyFormDto, CopyForm(r, f, d) PROVE IInv'
  <2> DEFINE k == IF d.category = UNSET THEN forms[f].category ELSE d.category
             e == [status |-> "DRAFT", type |-> "AGGREGATE", category |-> k, deleted |-> FALSE]
             rows == [n \in Of(f, Nodes) |-> nodes[n]]
  <2>1. Live(f) /\ Take(r, "copyTree", "copyForm", f, NULL) /\ Hold(r, e, rows)
    BY <1>8 DEF CopyForm
  <2>2. e \in FormRow
    BY <1>a, <2>1 DEF FormRow, CopyFormDto
  <2>3. /\ DOMAIN rows \subseteq Nodes
        /\ \A n \in DOMAIN rows : /\ rows[n] \in RowOf(n)
                                  /\ rows[n].parent \in (DOMAIN rows \cap Side(n)) \cup {NULL}
        /\ f \notin crossed =>
             \A S \in (SUBSET DOMAIN rows) \ {{}} : \E n \in S : rows[n].parent \notin S
    BY TreesRead DEF IInv, Ids
  <2> HIDE DEF e, rows
  <2>4. pc'[r] = "copyTree" /\ work'[r] = rows /\ job'[r].form = f /\ crossed' = crossed
    BY <2>1, Arrives, StillOK DEF Statements, Handlers
  <2>5. TreeInHand(r)'
    BY <2>3, <2>4 DEF TreeInHand
  <2> QED  BY <2>1, <2>2, <2>4, <2>5, NotInHand, Arrival DEF Statements, Handlers, Live
<1> QED  BY <1>1, <1>3, <1>4, <1>5, <1>6, <1>7, <1>8 DEF FormsController

-----------------------------------------------------------------------------
(* Walks up.                                                               *)

\* up[k] is the row k + 1 steps above m, for k up to n.
Climbs(up, n, rows, items, m) ==
  up = [k \in 0..n |-> IF k = 0 THEN Effective(rows, items, m)
                       ELSE IF up[k - 1] = NULL THEN NULL
                       ELSE Effective(rows, items, up[k - 1])]

\* There is such a function: it is made longer a step at a time.
LEMMA ClimbsExists ==
  ASSUME NEW rows, NEW items, NEW m, NEW last \in Nat
  PROVE  \E up : Climbs(up, last, rows, items, m)
<1> DEFINE S == {n \in Nat : \E up : Climbs(up, n, rows, items, m)}
<1>1. 0 \in S
  <2>1. Climbs([k \in 0..0 |-> Effective(rows, items, m)], 0, rows, items, m)
    BY DEF Climbs
  <2> QED  BY <2>1
<1>2. ASSUME NEW n \in 0..last, n \in S PROVE n + 1 \in S
  <2>1. n \in Nat
    OBVIOUS
  <2>2. PICK up : Climbs(up, n, rows, items, m)
    BY <1>2
  <2>3. PICK top : top = IF up[n] = NULL THEN NULL ELSE Effective(rows, items, up[n])
    OBVIOUS
  <2>4. PICK more : more = [k \in 0..(n + 1) |-> IF k = n + 1 THEN top ELSE up[k]]
    OBVIOUS
  <2>5. ASSUME NEW k \in 0..(n + 1)
        PROVE  more[k] = IF k = 0 THEN Effective(rows, items, m)
                         ELSE IF more[k - 1] = NULL THEN NULL ELSE Effective(rows, items, more[k - 1])
    <3>1. CASE k = n + 1
      <4>1. k - 1 = n /\ k # 0 /\ n \in 0..(n + 1) /\ n # n + 1
        BY <2>1, <3>1
      <4>2. more[k - 1] = up[n] /\ more[k] = top
        BY <2>4, <3>1, <4>1
      <4> QED  BY <2>3, <4>1, <4>2
    <3>2. CASE k # n + 1 /\ k # 0
      <4>1. k \in 0..n /\ k - 1 \in 0..(n + 1) /\ k - 1 # n + 1
        BY <2>1, <3>2
      <4>2. more[k] = up[k] /\ more[k - 1] = up[k - 1]
        BY <2>4, <3>2, <4>1
      <4>3. up[k] = IF up[k - 1] = NULL THEN NULL ELSE Effective(rows, items, up[k - 1])
        BY <2>2, <3>2, <4>1 DEF Climbs
      <4> QED  BY <3>2, <4>2, <4>3
    <3>3. CASE k # n + 1 /\ k = 0
      <4>1. k \in 0..n
        BY <2>1, <3>3
      <4>2. more[k] = up[k] /\ up[k] = Effective(rows, items, m)
        BY <2>2, <2>4, <3>3, <4>1 DEF Climbs
      <4> QED  BY <3>3, <4>2
    <3> QED  BY <3>1, <3>2, <3>3
  <2>6. Climbs(more, n + 1, rows, items, m)
    BY <2>4, <2>5 DEF Climbs
  <2> QED  BY <2>1, <2>6
<1>3. 0..last \subseteq S
  <2> HIDE DEF S
  <2> QED  BY <1>1, <1>2, Induction
<1> QED  BY <1>3

\* A row from which isCycle finds a root is in no set that is closed upwards.
LEMMA ClimbsOut ==
  ASSUME NEW rows, IsFiniteSet(DOMAIN rows), NEW items, NEW S, NEW m \in S,
         \A x \in S : Effective(rows, items, x) \in S, NULL \notin S
  PROVE  Loops(rows, items, m)
<1> DEFINE last == Cardinality(DOMAIN rows)
<1>1. last \in Nat
  BY FS_CardinalityType
<1>2. Loops(rows, items, m) <=> (CHOOSE up : Climbs(up, last, rows, items, m))[last] # NULL
  BY DEF Loops, Climbs
<1> HIDE DEF last
<1>3. PICK up : up = (CHOOSE g : Climbs(g, last, rows, items, m)) /\ Climbs(up, last, rows, items, m)
  BY <1>1, ClimbsExists
<1> DEFINE K == {k \in 0..last : up[k] \in S}
<1>4. 0 \in K
  BY <1>1, <1>3 DEF Climbs
<1>5. ASSUME NEW k \in 0..last, k \in K, k < last PROVE k + 1 \in K
  <2> PICK j : j = k + 1
    OBVIOUS
  <2>1. j \in 0..last /\ j # 0 /\ j - 1 = k
    BY <1>1, <1>5
  <2>2. up[j] = IF up[j - 1] = NULL THEN NULL ELSE Effective(rows, items, up[j - 1])
    BY <1>3, <2>1 DEF Climbs
  <2> QED  BY <1>5, <2>1, <2>2
<1>6. 0..last \subseteq K
  <2> HIDE DEF K
  <2> QED  BY <1>1, <1>4, <1>5, Induction
<1> QED  BY <1>1, <1>2, <1>3, <1>6

\* The rows are finitely many.
LEMMA FiniteRows ==
  ASSUME NEW S \in SUBSET Nodes
  PROVE  IsFiniteSet(S) /\ Cardinality(S) \in Nat
<1>1. IsFiniteSet(Nodes)
  BY IdsAssumption, FS_Union DEF Nodes
<1> QED  BY <1>1, FS_Subset, FS_CardinalityType

\* The order a request asks for, over trees, leaves trees.
LEMMA AcceptableRooted ==
  ASSUME NEW rows, DOMAIN rows \subseteq Nodes, NEW items, Acceptable(rows, items),
         \A S \in (SUBSET DOMAIN rows) \ {{}} : \E n \in S : rows[n].parent \notin S
  PROVE  \A S \in (SUBSET DOMAIN rows) \ {{}} : \E n \in S : Effective(rows, items, n) \notin S
<1> SUFFICES ASSUME NEW S \in (SUBSET DOMAIN rows) \ {{}},
                    \A n \in S : Effective(rows, items, n) \in S
             PROVE  FALSE
  OBVIOUS
<1>1. NULL \notin S
  BY Rows
<1>2. CASE \E i \in DOMAIN items : items[i].id \in S
  <2> PICK i \in DOMAIN items : items[i].id \in S
    BY <1>2
  <2>1. Loops(rows, items, items[i].id)
    BY <1>1, FiniteRows, ClimbsOut
  <2> QED  BY <2>1 DEF Acceptable
<1>3. CASE \A i \in DOMAIN items : items[i].id \notin S
  <2>1. \A n \in S : Effective(rows, items, n) = rows[n].parent
    BY <1>3 DEF Effective, Listed
  <2> QED  BY <2>1
<1> QED  BY <1>2, <1>3

\* In a forest no row is above itself.
LEMMA NotAboveItself ==
  ASSUME TypeOK, TablesOK, NEW n \in Nodes, nodes[n] # NULL, nodes[n].parent # NULL,
         nodes[n].form \notin crossed
  PROVE  \E A : nodes[n].parent \in A /\ Above(A, n, nodes[n].form, {NULL})
<1> PICK f : f = nodes[n].form
  OBVIOUS
<1> PICK T : T = Side(n)
  OBVIOUS
<1>1. /\ f \in Forms /\ born[n] = f /\ T \in {Indicators, Attributes} /\ n \in T /\ T \subseteq Nodes
      /\ n \in Of(f, T) /\ nodes[n].parent \in Of(f, T)
  BY RowTable, Sides DEF TypeOK, TablesOK, RowsOK, Of
<1>2. \A x \in Of(f, T) : /\ x \in Ids(f, T) /\ nodes[x] # NULL
                          /\ nodes[x].parent \in Of(f, T) \cup {NULL}
  <2>1. \A x \in Of(f, T) : x \in Nodes /\ nodes[x] # NULL /\ nodes[x].form = f /\ Side(x) = T
    BY <1>1, Sides DEF Of
  <2> QED  BY <2>1, RowTable DEF TypeOK, TablesOK, RowsOK, Of, Ids
<1> DEFINE Up(x) == \E A : x \in A /\ Above(A, n, f, {NULL})
           U == {x \in Of(f, T) : ~Up(x)}
<1> SUFFICES ASSUME ~Up(nodes[n].parent) PROVE FALSE
  OBVIOUS
<1>3. U \in (SUBSET Of(f, T)) \ {{}}
  BY <1>1
<1>4. PICK x \in U : nodes[x].parent \notin U
  BY <1>1, <1>3 DEF TablesOK, ForestsOK, Rooted
<1>5. x # n
  BY <1>1, <1>4
<1>6. PICK A : nodes[x].parent \in A \cup {NULL} /\ Above(A, n, f, {NULL})
  <2>1. CASE nodes[x].parent = NULL
    <3>1. Above({}, n, f, {NULL})
      BY DEF Above
    <3> QED  BY <2>1, <3>1
  <2>2. CASE nodes[x].parent # NULL
    BY <1>2, <1>4, <2>2
  <2> QED  BY <2>1, <2>2
<1>7. Above(A \cup {x}, n, f, {NULL})
  BY <1>1, <1>2, <1>4, <1>5, <1>6 DEF Above
<1> QED  BY <1>4, <1>7

\* The rows of a form are rows of its ids.
LEMMA OfIds ==
  ASSUME TypeOK, NEW f, NEW S \in SUBSET Nodes
  PROVE  /\ Of(f, S) \subseteq Ids(f, S) /\ Of(f, S) \subseteq S
         /\ \A n \in Of(f, S) : nodes[n] # NULL /\ nodes[n].form = f
BY RowTable DEF Of, Ids, TypeOK

\* The number of a new row.
LEMMA NextNumber ==
  ASSUME TypeOK, NEW f, NEW S \in SUBSET Nodes, NEW parent
  PROVE  NextSortOrder(f, S, parent) \in Nat
<1> DEFINE B == {m \in Of(f, S) : nodes[m].parent = parent}
           C == {nodes[n].sort : n \in B}
           D == {-1} \cup C
<1>1. \A n \in B : nodes[n].sort \in Nat
  BY RowTable DEF Of, TypeOK
<1>2. IsFiniteSet(B)
  <2>1. B \in SUBSET S
    BY DEF Of
  <2> QED  BY <2>1, FiniteRows, FS_Subset
<1>3. IsFiniteSet(C)
  <2> DEFINE g == [n \in B |-> nodes[n].sort]
  <2> HIDE DEF B
  <2>1. IsFiniteSet({g[n] : n \in B})
    <3> DEFINE E == {g[n] : n \in B}
    <3>1. g \in [B -> E] /\ \A e \in E : \E n \in B : g[n] = e
      OBVIOUS
    <3> HIDE DEF g, E
    <3>2. g \in Surjection(B, E)
      BY <3>1, Fun_IsSurj
    <3>3. IsFiniteSet(E)
      BY <1>2, <3>2, FS_Surjection
    <3> QED  BY <3>3 DEF E
  <2>2. C = {g[n] : n \in B}
    OBVIOUS
  <2> QED  BY <2>1, <2>2
<1>4. IsFiniteSet(D) /\ D \in SUBSET Int /\ -1 \in D
  <2>1. IsFiniteSet({-1})
    BY FS_Singleton
  <2>2. IsFiniteSet(D)
    <3> HIDE DEF C
    <3> QED  BY <1>3, <2>1, FS_Union
  <2> QED  BY <1>1, <2>2
<1> HIDE DEF D
<1>5. PICK x \in D : \A y \in D : y <= x
  BY <1>4, GreatestNumber
<1>6. MaxOf(D) \in D /\ \A y \in D : y <= MaxOf(D)
  BY <1>5 DEF MaxOf
<1>7. MaxOf(D) + 1 \in Nat
  <2> PICK m : m = MaxOf(D)
    OBVIOUS
  <2>1. m \in Int /\ -1 <= m
    BY <1>4, <1>6
  <2> QED  BY <2>1
<1> QED  BY <1>7 DEF NextSortOrder, D

\* A create that was accepted holds a row for its form whose parent is a row of the form.
LEMMA InsertArrival ==
  ASSUME IInv, NEW r \in Requests, NEW op \in {"createAttribute", "createIndicator"},
         NEW f \in Forms, Editable(f), NEW row, row.form = f,
         \/ row \in AttributeRow /\ row.parent \in Of(f, Attributes) \cup {NULL}
         \/ row \in IndicatorRow /\ row.parent \in Of(f, Indicators) \cup {NULL},
         Take(r, "insert", op, f, NULL), Hold(r, row, NULL)
  PROVE  IInv'
<1>1. /\ Still /\ pc'[r] = "insert" /\ job'[r].op = op /\ job'[r].form = f /\ copy'[r] = row
      /\ born' = born
  BY Arrives, StillOK DEF Statements, Handlers
<1>2. row.parent \in Ids(f, IF row.code = NULL THEN Attributes ELSE Indicators) \cup {NULL}
  BY OfIds, Rows DEF IInv, Nodes
<1>3. RowInHand(r)'
  BY <1>1, <1>2 DEF RowInHand, Target, Ids
<1> QED  BY <1>1, <1>3, NotInHand, Arrival DEF Statements, Handlers, WithoutForm, Editable, Live,
            HasCampaignOrAssignment

\* An update that was accepted holds the row it will save, and where it moves the row the
\* walk up starts at the new parent with nothing seen yet.
LEMMA ReviseArrival ==
  ASSUME IInv, NEW r \in Requests, NEW f \in Forms, Editable(f), NEW n \in Of(f, Nodes),
         NEW parent \in Of(f, Side(n)) \cup {NULL, UNSET}, NEW row \in RowOf(n), row.form = f,
         row.parent = IF parent = UNSET THEN nodes[n].parent ELSE parent,
         Revise(r, f, n, row, parent)
  PROVE  IInv'
<1> PICK label : label = IF parent \in {NULL, UNSET} THEN "saveLoad" ELSE "walk"
  OBVIOUS
<1> DEFINE w == [cursor |-> parent]
<1>1. Take(r, label, "patch", f, n) /\ Hold(r, row, w)
  BY DEF Revise
<1>2. /\ n \in Nodes /\ nodes[n] # NULL /\ nodes[n].form = f /\ n \in Ids(f, Nodes) /\ Side(n) \subseteq Nodes
      /\ Of(f, Side(n)) \subseteq Ids(f, Side(n)) /\ Of(f, Side(n)) \subseteq Nodes
  BY OfIds, Sides DEF Of, IInv
<1>3. /\ Still /\ pc'[r] = label /\ job'[r].op = "patch" /\ job'[r].form = f /\ copy'[r] = row
      /\ job'[r].node = n /\ work'[r] = w /\ born' = born /\ nodes' = nodes /\ crossed' = crossed
  <2>1. label \in Statements \ {"idle"} /\ "patch" \in Handlers
    BY DEF Statements, Handlers
  <2> HIDE DEF w
  <2>2. /\ Still /\ pc'[r] = label /\ job'[r].op = "patch" /\ job'[r].form = f /\ copy'[r] = row
        /\ job'[r].node = n /\ work'[r] = w
    BY <1>1, <1>2, <2>1, Arrives
  <2> QED  BY <2>2, StillOK
<1>4. row.parent \in Ids(f, Side(n)) \cup {NULL}
  BY <1>2 DEF IInv, TablesOK, RowsOK
<1>5. w \in [cursor : Nodes \cup {NULL, UNSET}] /\ w.cursor = parent
  BY <1>2
<1> HIDE DEF w
<1>6. RowInHand(r)'
  BY <1>2, <1>3, <1>4, <1>5 DEF RowInHand, Importing, Ids
<1>7. ASSUME f \notin crossed PROVE Walked(r)'
  <2>1. CASE label = "walk"
    <3>1. row.parent = parent /\ Above({}, n, f, {parent, NULL})'
      BY <2>1 DEF Above
    <3>2. /\ copy'[r].parent \in {} \cup {work'[r].cursor}
          /\ work'[r].cursor = parent
      BY <1>3, <1>5, <3>1
    <3>3. \E A : /\ copy'[r].parent \in A \cup {work'[r].cursor}
                 /\ Above(A, n, f, {parent, NULL})'
      BY <3>1, <3>2
    <3> QED  BY <1>3, <2>1, <3>2, <3>3 DEF Walked, Above, Ids
  <2>2. CASE label = "saveLoad" /\ row.parent # NULL
    <3>1. parent = UNSET /\ row.parent = nodes[n].parent
      BY <2>2, <1>2, NullAssumption
    <3>2. PICK A : row.parent \in A /\ Above(A, n, f, {NULL})
      BY <1>2, <1>7, <2>2, <3>1, NotAboveItself DEF IInv
    <3>3. Above(A, n, f, {NULL})'
      BY <1>3, <3>2 DEF Above, Ids
    <3> QED  BY <1>3, <2>2, <3>2, <3>3 DEF Walked, Above, Ids
  <2>3. CASE label = "saveLoad" /\ row.parent = NULL
    BY <1>3, <2>3 DEF Walked
  <2> QED  BY <2>1, <2>2, <2>3
<1>8. Walked(r)'
  BY <1>3, <1>7 DEF Walked
<1> QED  BY <1>1, <1>2, <1>3, <1>6, <1>8, NotInHand, Arrival DEF Statements, Handlers, WithoutForm, Editable,
            Live, HasCampaignOrAssignment

\* A removal that was accepted holds the id of a row of its form.
LEMMA RemoveArrival ==
  ASSUME IInv, NEW r \in Requests, NEW op \in {"removeAttribute", "removeIndicator"},
         NEW f \in Forms, Editable(f), NEW n \in Of(f, Nodes),
         Take(r, "delete", op, f, n), Hold(r, NULL, NULL)
  PROVE  IInv'
<1>1. n \in Nodes /\ n \in Ids(f, Nodes)
  BY OfIds DEF Of, IInv
<1>2. /\ Still /\ pc'[r] = "delete" /\ job'[r].op = op /\ job'[r].form = f /\ job'[r].node = n
      /\ born' = born
  <2>1. "delete" \in Statements \ {"idle"} /\ op \in Handlers
    BY DEF Statements, Handlers
  <2>2. /\ Still /\ pc'[r] = "delete" /\ job'[r].op = op /\ job'[r].form = f /\ job'[r].node = n
    BY <1>1, <2>1, Arrives
  <2> QED  BY <2>2, StillOK
<1>3. RowInHand(r)'
  BY <1>1, <1>2 DEF RowInHand, Ids
<1> QED  BY <1>1, <1>2, <1>3, NotInHand, Arrival DEF Statements, Handlers, WithoutForm, Editable, Live,
            HasCampaignOrAssignment

\* A reorder that was accepted holds rows of one table of its form, and a list that makes
\* trees of them.
LEMMA ReorderArrival ==
  ASSUME IInv, NEW r \in Requests, NEW f \in Forms, NEW S \in {Indicators, Attributes}, NEW items \in Orders,
         Reorder(r, f, S, items)
  PROVE  IInv'
<1> DEFINE rows == [n \in Of(f, S) |-> nodes[n]]
           w == [rows |-> rows, items |-> items]
<1>1. Editable(f) /\ Acceptable(rows, items) /\ Take(r, "reorder", "reorder", f, NULL) /\ Hold(r, NULL, w)
  BY DEF Reorder
<1>2. /\ DOMAIN rows \subseteq Ids(f, S)
      /\ \A n \in DOMAIN rows : /\ rows[n] \in RowOf(n)
                                /\ rows[n].parent \in (DOMAIN rows \cap Side(n)) \cup {NULL}
      /\ f \notin crossed =>
           \A Q \in (SUBSET DOMAIN rows) \ {{}} : \E n \in Q : rows[n].parent \notin Q
  BY TreesRead DEF IInv
<1>3. \A n \in DOMAIN rows : rows[n] = nodes[n] /\ n \in Nodes
  BY DEF Of, Nodes
<1> HIDE DEF rows
<1>4. w.rows = rows /\ w.items = items /\ items \in Seq(ReorderItemDto)
  BY InputsAssumption
<1> HIDE DEF w
<1>5. /\ Still /\ pc'[r] = "reorder" /\ job'[r].form = f /\ work'[r] = w
      /\ born' = born /\ nodes' = nodes /\ crossed' = crossed
  BY <1>1, Arrives, StillOK DEF Statements, Handlers
<1>6. OrderInHand(r)'
  BY <1>1, <1>2, <1>4, <1>5 DEF OrderInHand, Ids
<1>7. ASSUME f \notin crossed PROVE Walked(r)'
  <2>1. \A Q \in (SUBSET DOMAIN rows) \ {{}} : \E n \in Q : Effective(rows, items, n) \notin Q
    BY <1>1, <1>2, <1>3, <1>7, AcceptableRooted
  <2> QED  BY <1>3, <1>4, <1>5, <2>1 DEF Walked
<1>8. Walked(r)'
  BY <1>5, <1>7 DEF Walked
<1> QED  BY <1>1, <1>5, <1>6, <1>8, NotInHand, Arrival DEF Statements, Handlers, WithoutForm, Editable,
            Live, HasCampaignOrAssignment

\* The handlers of attributes.
LEMMA AttributeArrivals ==
  ASSUME IInv, NEW r \in Requests, FormAttributesController(r)
  PROVE  IInv'
<1> PICK f \in Forms :
      \/ \E p \in Attributes \cup {NULL} : CreateAttribute(r, f, p)
      \/ \E n \in Attributes, p \in Attributes \cup {NULL, UNSET} : PatchAttribute(r, f, n, p)
      \/ \E n \in Attributes : RemoveAttribute(r, f, n)
      \/ \E items \in Orders : ReorderAttributes(r, f, items)
  BY DEF FormAttributesController
<1>1. ASSUME NEW p \in Attributes \cup {NULL}, CreateAttribute(r, f, p) PROVE IInv'
  <2> DEFINE row == [form |-> f, parent |-> p, sort |-> NextSortOrder(f, Attributes, p),
                     code |-> NULL, kind |-> "PLAIN", entry |-> NULL]
  <2>1. /\ Editable(f) /\ p \in Of(f, Attributes) \cup {NULL}
        /\ Take(r, "insert", "createAttribute", f, NULL) /\ Hold(r, row, NULL)
    BY <1>1 DEF CreateAttribute, ParentInForm
  <2>2. NextSortOrder(f, Attributes, p) \in Nat
    BY NextNumber DEF IInv, Nodes
  <2>3. row \in AttributeRow /\ row.form = f /\ row.parent = p
    BY <2>2 DEF AttributeRow
  <2> HIDE DEF row
  <2> QED  BY <2>1, <2>3, InsertArrival
<1>2. ASSUME NEW n \in Attributes, NEW p \in Attributes \cup {NULL, UNSET}, PatchAttribute(r, f, n, p) PROVE IInv'
  <2> DEFINE row == [nodes[n] EXCEPT !.parent = IF p = UNSET THEN @ ELSE p]
  <2>1. /\ Editable(f) /\ n \in Of(f, Attributes) /\ p \in Of(f, Attributes) \cup {NULL, UNSET}
        /\ Revise(r, f, n, row, p)
    BY <1>2 DEF PatchAttribute, ParentInForm
  <2>2. n \in Of(f, Nodes) /\ Side(n) = Attributes /\ RowOf(n) = AttributeRow /\ nodes[n] \in AttributeRow
        /\ nodes[n].form = f
    BY <2>1, Sides, RowTable DEF Of, Nodes, IInv, TypeOK
  <2>3. row \in AttributeRow /\ row.form = f /\ row.parent = IF p = UNSET THEN nodes[n].parent ELSE p
    BY <2>2 DEF AttributeRow
  <2> HIDE DEF row
  <2> QED  BY <2>1, <2>2, <2>3, ReviseArrival
<1>3. ASSUME NEW n \in Attributes, RemoveAttribute(r, f, n) PROVE IInv'
  BY <1>3, RemoveArrival DEF RemoveAttribute, Of, Nodes
<1>4. ASSUME NEW items \in Orders, ReorderAttributes(r, f, items) PROVE IInv'
  BY <1>4, ReorderArrival DEF ReorderAttributes
<1> QED  BY <1>1, <1>2, <1>3, <1>4

\* The handlers of indicators.
LEMMA IndicatorArrivals ==
  ASSUME IInv, NEW r \in Requests, FormIndicatorsController(r)
  PROVE  IInv'
<1> PICK f \in Forms :
      \/ \E d \in Drafts : CreateIndicator(r, f, d)
      \/ \E n \in Indicators, p \in Patches : PatchIndicator(r, f, n, p)
      \/ \E n \in Indicators : RemoveIndicator(r, f, n)
      \/ \E items \in Orders : ReorderIndicators(r, f, items)
  BY DEF FormIndicatorsController
<1>1. ASSUME NEW d \in Drafts, CreateIndicator(r, f, d) PROVE IInv'
  <2> DEFINE row == [form |-> f, parent |-> d.parent, code |-> d.code, kind |-> d.kind, entry |-> d.entry,
                     sort |-> IF d.sort = UNSET THEN NextSortOrder(f, Indicators, d.parent) ELSE d.sort]
  <2>1. /\ Editable(f) /\ d.parent \in Of(f, Indicators) \cup {NULL}
        /\ Take(r, "insert", "createIndicator", f, NULL) /\ Hold(r, row, NULL)
    BY <1>1 DEF CreateIndicator, ParentInForm
  <2>2. NextSortOrder(f, Indicators, d.parent) \in Nat
    BY NextNumber DEF IInv, Nodes
  <2>3. d \in CreateIndicatorDto /\ Of(f, Indicators) \subseteq Indicators
    BY InputsAssumption DEF Of
  <2>4. row \in IndicatorRow /\ row.form = f /\ row.parent = d.parent
    BY <2>1, <2>2, <2>3 DEF IndicatorRow, CreateIndicatorDto
  <2> HIDE DEF row
  <2> QED  BY <2>1, <2>4, InsertArrival
<1>2. ASSUME NEW n \in Indicators, NEW p \in Patches, PatchIndicator(r, f, n, p) PROVE IInv'
  <2> DEFINE row == [c \in DOMAIN nodes[n] |->
                       IF c \in DOMAIN p /\ p[c] # UNSET THEN p[c] ELSE nodes[n][c]]
  <2>1. /\ Editable(f) /\ n \in Of(f, Indicators) /\ p.parent \in Of(f, Indicators) \cup {NULL, UNSET}
        /\ Revise(r, f, n, row, p.parent)
    BY <1>2 DEF PatchIndicator, ParentInForm
  <2>2. n \in Of(f, Nodes) /\ Side(n) = Indicators /\ RowOf(n) = IndicatorRow /\ nodes[n] \in IndicatorRow
        /\ nodes[n].form = f /\ Of(f, Indicators) \subseteq Indicators
    BY <2>1, Sides, RowTable DEF Of, Nodes, IInv, TypeOK
  <2>3. p \in PatchIndicatorDto
    BY InputsAssumption
  <2>4. /\ DOMAIN p = {"parent", "code", "kind", "entry"}
        /\ DOMAIN nodes[n] = {"form", "parent", "sort", "code", "kind", "entry"}
    BY <2>2, <2>3 DEF PatchIndicatorDto, IndicatorRow
  <2>5. row = [form |-> nodes[n].form, parent |-> IF p.parent # UNSET THEN p.parent ELSE nodes[n].parent,
               sort |-> nodes[n].sort, code |-> IF p.code # UNSET THEN p.code ELSE nodes[n].code,
               kind |-> IF p.kind # UNSET THEN p.kind ELSE nodes[n].kind,
               entry |-> IF p.entry # UNSET THEN p.entry ELSE nodes[n].entry]
    BY <2>4
  <2> HIDE DEF row
  <2>6. row \in IndicatorRow /\ row.form = f /\ row.parent = IF p.parent = UNSET THEN nodes[n].parent ELSE p.parent
    BY <2>1, <2>2, <2>3, <2>5 DEF IndicatorRow, PatchIndicatorDto
  <2> QED  BY <2>1, <2>2, <2>6, ReviseArrival
<1>3. ASSUME NEW n \in Indicators, RemoveIndicator(r, f, n) PROVE IInv'
  BY <1>3, RemoveArrival DEF RemoveIndicator, Of, Nodes
<1>4. ASSUME NEW items \in Orders, ReorderIndicators(r, f, items) PROVE IInv'
  BY <1>4, ReorderArrival DEF ReorderIndicators
<1> QED  BY <1>1, <1>2, <1>3, <1>4

\* The handlers of overrides.
LEMMA CellArrivals ==
  ASSUME IInv, NEW r \in Requests, FormCellConfigsController(r)
  PROVE  IInv'
<1> PICK f \in Forms, items \in Changes : UpsertCellConfigs(r, f, items) \/ DeleteCellConfigs(r, f, DOMAIN items)
  BY DEF FormCellConfigsController
<1>a. /\ DOMAIN items \subseteq Cells /\ \A c \in DOMAIN items : items[c] \in CellItemDto
      /\ \A c \in Cells : c[1] \in Indicators /\ c[2] \in Attributes
  BY InputsAssumption DEF Cells
<1>b. /\ \A n \in Of(f, Indicators) \cup Of(f, Attributes) : born[n] = f
  BY OfIds DEF IInv, Ids, Nodes
<1>1. CASE UpsertCellConfigs(r, f, items)
  <2>1. /\ Editable(f) /\ Take(r, "cells", "upsertCellConfigs", f, NULL) /\ Hold(r, NULL, items)
        /\ \A c \in DOMAIN items : c[1] \in Of(f, Indicators) /\ c[2] \in Of(f, Attributes)
    BY <1>1 DEF UpsertCellConfigs
  <2>2. Still /\ pc'[r] = "cells" /\ job'[r].form = f /\ work'[r] = items /\ born' = born
    BY <2>1, Arrives, StillOK DEF Statements, Handlers
  <2>3. CellsInHand(r)'
    BY <1>a, <1>b, <2>1, <2>2 DEF CellsInHand
  <2> QED  BY <2>1, <2>2, <2>3, NotInHand, Arrival DEF Statements, Handlers, WithoutForm, Editable, Live,
              HasCampaignOrAssignment
<1>2. CASE DeleteCellConfigs(r, f, DOMAIN items)
  <2> DEFINE w == {c \in DOMAIN items : c[1] \in Of(f, Indicators)}
  <2>1. /\ Editable(f) /\ Take(r, "cellsOff", "deleteCellConfigs", f, NULL) /\ Hold(r, NULL, w)
    BY <1>2 DEF DeleteCellConfigs
  <2>2. w \subseteq Cells /\ \A c \in w : born[c[1]] = f
    BY <1>a, <1>b
  <2> HIDE DEF w
  <2>3. Still /\ pc'[r] = "cellsOff" /\ job'[r].form = f /\ work'[r] = w /\ born' = born
    BY <2>1, Arrives, StillOK DEF Statements, Handlers
  <2>4. CellsInHand(r)'
    BY <2>2, <2>3 DEF CellsInHand
  <2> QED  BY <2>1, <2>3, <2>4, NotInHand, Arrival DEF Statements, Handlers, WithoutForm, Editable, Live,
              HasCampaignOrAssignment
<1> QED  BY <1>1, <1>2

\* The handlers of rules.
LEMMA RuleArrivals ==
  ASSUME IInv, NEW r \in Requests, TemplateScopeController(r)
  PROVE  IInv'
<1> PICK f \in Forms, items \in Rules : UpsertTemplateScopes(r, f, items) \/ DeleteTemplateScopes(r, f, items)
  BY DEF TemplateScopeController
<1>a. items \in SUBSET (Orgs \X Indicators)
  BY InputsAssumption DEF UpsertTemplateScopesDto
<1>b. \A n \in Of(f, Indicators) : born[n] = f
  BY OfIds DEF IInv, Ids, Nodes
<1>1. CASE UpsertTemplateScopes(r, f, items)
  <2> DEFINE w == [items |-> items, seen |-> {}]
  <2>1. /\ Editable(f) /\ Take(r, "rulesOff", "upsertTemplateScopes", f, NULL) /\ Hold(r, NULL, w)
        /\ \A p \in items : p[2] \in Of(f, Indicators)
        /\ forms[f].type = "UNIQUE" => \A p, q \in items : p[2] = q[2] => p = q
    BY <1>1 DEF UpsertTemplateScopes, OneOrg
  <2>2. w.items = items /\ w.seen = {} /\ w \in [items : SUBSET (Orgs \X Indicators), seen : SUBSET (Orgs \X Indicators)]
    BY <1>a
  <2> HIDE DEF w
  <2>3. Still /\ pc'[r] = "rulesOff" /\ job'[r].form = f /\ work'[r] = w /\ born' = born
    BY <2>1, Arrives, StillOK DEF Statements, Handlers
  <2>4. RulesInHand(r)'
    BY <1>b, <2>1, <2>2, <2>3 DEF RulesInHand
  <2> QED  BY <2>1, <2>2, <2>3, <2>4, NotInHand, Arrival DEF Statements, Handlers, WithoutForm, Editable, Live,
              HasCampaignOrAssignment
<1>2. CASE DeleteTemplateScopes(r, f, items)
  <2> DEFINE w == {p \in items : p[2] \in Of(f, Indicators)}
  <2>1. Editable(f) /\ Take(r, "rulesErase", "deleteTemplateScopes", f, NULL) /\ Hold(r, NULL, w)
    BY <1>2 DEF DeleteTemplateScopes
  <2>2. w \subseteq Orgs \X Indicators /\ \A p \in w : born[p[2]] = f
    BY <1>a, <1>b
  <2> HIDE DEF w
  <2>3. Still /\ pc'[r] = "rulesErase" /\ job'[r].form = f /\ work'[r] = w /\ born' = born
    BY <2>1, Arrives, StillOK DEF Statements, Handlers
  <2>4. RulesInHand(r)'
    BY <2>2, <2>3 DEF RulesInHand
  <2> QED  BY <2>1, <2>3, <2>4, NotInHand, Arrival DEF Statements, Handlers, WithoutForm, Editable, Live,
              HasCampaignOrAssignment
<1> QED  BY <1>1, <1>2

\* The handlers of the catalog and of the categories.
LEMMA ListArrivals ==
  ASSUME IInv, NEW r \in Requests, IndicatorCatalogController(r) \/ FieldCategoriesController(r)
  PROVE  IInv'
<1> PICK k \in Entries \cup Categories, status \in {"active", "inactive"} :
      CreateListEntry(r, k) \/ PatchListEntry(r, k, status) \/ RemoveListEntry(r, k)
  BY DEF IndicatorCatalogController, FieldCategoriesController
<1>a. NULL \notin Forms
  BY NullAssumption
<1>1. ASSUME NEW label \in {"listLoad", "listWrite", "listDrop"}, NEW op \in Handlers \ {"import"}, NEW e,
             label # "listDrop" => e \in [status : {"active", "inactive"}],
             Take(r, label, op, NULL, k), Hold(r, e, NULL)
      PROVE  IInv'
  <2>1. label \in Statements \ {"idle", "importRow", "importLink"} /\ label \in WithoutForm
    BY DEF Statements, WithoutForm
  <2>2. pc'[r] = label /\ job'[r].node = k /\ copy'[r] = e
    BY <1>1, <2>1, Arrives
  <2>3. ListInHand(r)'
    BY <1>1, <2>2 DEF ListInHand
  <2> QED  BY <1>1, <1>a, <2>1, <2>2, <2>3, NotInHand, Arrival
<1>2. CASE CreateListEntry(r, k)
  BY <1>1, <1>2 DEF CreateListEntry, Handlers
<1>3. CASE PatchListEntry(r, k, status)
  BY <1>1, <1>3 DEF PatchListEntry, Handlers
<1>4. CASE RemoveListEntry(r, k)
  BY <1>1, <1>4 DEF RemoveListEntry, Handlers
<1> QED  BY <1>2, <1>3, <1>4

\* The import.
LEMMA OpenedType ==
  ASSUME NEW book \in Sheets, NEW S \in {Indicators, Attributes}, NEW failed \in BOOLEAN
  PROVE  Opened(book, S, failed) \in ImportWork
<1>1. RowsOf(book, S) \in Seq(ExcelRow)
  BY InputsAssumption DEF RowsOf
<1> QED  BY <1>1 DEF Opened, ImportWork

\* An import that was accepted starts with the rows of the first sheet.
LEMMA ImportArrivals ==
  ASSUME IInv, NEW r \in Requests, ImportController(r)
  PROVE  IInv'
<1> PICK f \in Forms, book \in Sheets : Import(r, f, book)
  BY DEF ImportController
<1> DEFINE w == Opened(book, Indicators, FALSE)
<1>1. Live(f) /\ Take(r, "importRow", "import", f, NULL) /\ Hold(r, NULL, w)
  BY DEF Import
<1>2. w \in ImportWork
  BY OpenedType
<1> HIDE DEF w
<1>3. /\ Moves(r) /\ Still /\ pc'[r] = "importRow" /\ job'[r].op = "import" /\ job'[r].form = f
      /\ work'[r] = w /\ forms' = forms
  BY <1>1, Arrives, StillOK DEF Statements, Handlers
<1>4. InHand(r)'
  BY <1>1, <1>2, <1>3, NotInHand DEF InHand, FormInHand, WithoutForm, Live, ImportInHand, Importing
<1>5. Walked(r)' /\ Alone(r)' /\ Locked(r)'
  BY <1>3 DEF Walked, Alone, Locked
<1> QED  BY <1>3, <1>4, <1>5, QuietStep DEF RequestOK

\* Whatever request arrives, the invariant is kept.
LEMMA RequestedOK ==
  ASSUME IInv, NEW r \in Requests, Requested(r)
  PROVE  IInv'
BY FormArrivals, AttributeArrivals, IndicatorArrivals, CellArrivals, RuleArrivals, ListArrivals,
   ImportArrivals DEF Requested

-----------------------------------------------------------------------------
(* What the steps of a request leave as it was.                            *)

\* A last statement keeps the invariant when it keeps the tables' part and leaves the others
\* what they rely on.
LEMMA EndsOK ==
  ASSUME IInv, NEW r \in Requests, End(r), Grown, TableTypes', TablesOK', OthersCalm(r), OthersAlone(r),
         TypesStay
  PROVE  IInv'
BY EndMoves, StepOK DEF IInv

\* Rows lose parents or are lost: a forest stays one.
LEMMA ForestKept ==
  ASSUME TableTypes, TableTypes', ForestsOK, NEW f \in Forms \ crossed,
         \A n \in Nodes : born'[n] = f /\ nodes'[n] # NULL =>
           nodes[n] # NULL /\ nodes[n].form = f /\ nodes'[n].parent \in {nodes[n].parent, NULL},
         NEW T \in {Indicators, Attributes}, NEW S \in (SUBSET Of(f, T)') \ {{}}
  PROVE  Rooted(S)'
<1>1. T \subseteq Nodes
  BY DEF Nodes
<1>2. \A n \in S : n \in T /\ nodes'[n] # NULL /\ nodes'[n].form = f /\ born'[n] = f
  BY <1>1 DEF Of, TableTypes
<1>3. \A n \in S : nodes[n] # NULL /\ nodes[n].form = f /\ nodes'[n].parent \in {nodes[n].parent, NULL}
  BY <1>1, <1>2
<1>4. S \in (SUBSET Of(f, T)) \ {{}}
  BY <1>2, <1>3 DEF Of
<1>5. PICK n \in S : nodes[n].parent \notin S
  BY <1>4 DEF ForestsOK, Rooted
<1>6. NULL \notin S
  BY <1>1, <1>2, Rows
<1> QED  BY <1>3, <1>5, <1>6 DEF Rooted

\* No row is there again, and none has another parent.
Pruned ==
  \A n \in Nodes : nodes'[n] # NULL => nodes[n] # NULL /\ nodes'[n].parent \in {nodes[n].parent, NULL}

\* Rows that are lost, or lose their parents, leave forests, and nobody's walk is disturbed.
LEMMA PrunedOK ==
  ASSUME IInv, TableTypes', Grown, Pruned
  PROVE  ForestsOK' /\ \A f : Calm(f)
<1>1. \A f : Calm(f)
  BY DEF Calm, Pruned
<1>2. \A n \in Nodes : nodes'[n] # NULL => nodes[n] # NULL /\ nodes[n].form = born'[n]
  BY RowTable DEF Pruned, Grown, IInv, TypeOK
<1>3. ASSUME NEW f \in Forms \ crossed', NEW T \in {Indicators, Attributes},
             NEW S \in (SUBSET Of(f, T)') \ {{}}
      PROVE  Rooted(S)'
  <2>1. f \in Forms \ crossed
    BY DEF Grown
  <2> QED  BY <1>2, <2>1, ForestKept DEF IInv, TypeOK, TablesOK, Pruned
<1> QED  BY <1>1, <1>3 DEF ForestsOK

\* No rule of the form is in force that was not.
LEMMA ScopesShrink ==
  ASSUME IInv, TableTypes', Grown, NEW f,
         \A p \in Orgs \X Indicators : rules'[p] = TRUE /\ born'[p[2]] = f => rules[p] = TRUE
  PROVE  TemplateScopes(f)' \subseteq TemplateScopes(f)
<1> SUFFICES ASSUME NEW p \in TemplateScopes(f)' PROVE p \in TemplateScopes(f)
  OBVIOUS
<1>1. p \in Orgs \X Indicators /\ DOMAIN rules = Orgs \X Indicators
  BY DEF TemplateScopes, RuleAt, IInv, TypeOK, TableTypes
<1>2. p[2] \in Indicators /\ p[2] \in Nodes /\ rules'[p] = TRUE
  BY <1>1, Zenon DEF TemplateScopes, RuleAt, Nodes
<1>3. nodes'[p[2]] # NULL /\ nodes'[p[2]].form = f
  BY DEF TemplateScopes, RuleAt, Of
<1>4. born'[p[2]] = f
  BY <1>2, <1>3 DEF TableTypes
<1>5. rules[p] = TRUE /\ rules[p] # NULL
  BY <1>1, <1>2, <1>4, NullAssumption
<1>6. nodes[p[2]] # NULL
  BY <1>1, <1>5 DEF IInv, TablesOK, RulesOK
<1>7. nodes[p[2]].form = born[p[2]] /\ born[p[2]] # NULL
  BY <1>2, <1>6, RowTable DEF IInv, TypeOK
<1>8. nodes[p[2]].form = f
  BY <1>2, <1>4, <1>7 DEF Grown
<1>9. p \in RuleAt(f) /\ rules[p] = TRUE
  BY <1>1, <1>2, <1>5, <1>6, <1>8 DEF RuleAt, Of
<1> QED  BY <1>9, Zenon DEF TemplateScopes

\* ... and no form is UNIQUE that was not.
LEMMA UnitsKept ==
  ASSUME IInv, TableTypes', Grown, \A p \in Orgs \X Indicators : rules'[p] # NULL => rules'[p] = rules[p],
         \A f \in Forms : forms[f] # NULL => forms'[f].type = forms[f].type
  PROVE  OneUnitPerIndicator' /\ \A r \in Requests : OthersAlone(r)
<1>a. \A p \in Orgs \X Indicators : rules'[p] = TRUE => rules[p] = TRUE
  BY NullAssumption
<1>1. \A f : TemplateScopes(f)' \subseteq TemplateScopes(f)
  BY <1>a, ScopesShrink
<1>2. ASSUME NEW f \in Forms, forms[f] = NULL PROVE TemplateScopes(f) = {}
  <2>1. \A n \in Indicators : nodes[n] # NULL => nodes[n].form # f
    BY <1>2, RowTable DEF IInv, TypeOK, TablesOK, RowsOK, Nodes
  <2> QED  BY <2>1 DEF TemplateScopes, RuleAt, Of
<1>3. OneUnitPerIndicator'
  <2> SUFFICES ASSUME NEW f \in Forms \ loosened', forms'[f] # NULL, forms'[f].type = "UNIQUE",
                      NEW p \in TemplateScopes(f)', NEW q \in TemplateScopes(f)', p[2] = q[2]
               PROVE  p = q
    BY DEF OneUnitPerIndicator
  <2>1. p \in TemplateScopes(f) /\ q \in TemplateScopes(f) /\ f \in Forms \ loosened
    BY <1>1 DEF Grown
  <2>2. forms[f] # NULL /\ forms[f].type = "UNIQUE"
    BY <1>2, <2>1
  <2> QED  BY <2>1, <2>2 DEF IInv, TablesOK, OneUnitPerIndicator
<1>4. ASSUME NEW r \in Requests PROVE OthersAlone(r)
  <2> SUFFICES ASSUME NEW f \in Forms \ loosened', NEW q \in Requests \ {r},
                      pc[q] \in {"rulesOff", "rulesOn"}, job[q].form = f
               PROVE  forms'[f].type = forms[f].type /\ TemplateScopes(f)' \subseteq TemplateScopes(f)
    BY DEF OthersAlone
  <2>1. forms[f] # NULL
    BY DEF IInv, RequestsOK, RequestOK, InHand, FormInHand, WithoutForm
  <2> QED  BY <1>1, <2>1
<1> QED  BY <1>3, <1>4

\* The trees are as they were.
LEMMA TreesSame ==
  ASSUME IInv, TableTypes', Grown, UNCHANGED <<nodes, born>>
  PROVE  RowsOK' /\ ForestsOK' /\ \A r \in Requests : OthersCalm(r)
<1>1. Pruned
  BY DEF Pruned
<1>2. RowsOK'
  BY DEF IInv, TablesOK, RowsOK, Grown, Of, TypeOK, TableTypes
<1> QED  BY <1>1, <1>2, PrunedOK DEF OthersCalm

-----------------------------------------------------------------------------
(* Statements on forms, overrides, rules and lists.                        *)

\* Rules are erased: nobody relies on there being one.
LEMMA EraseRulesOK ==
  ASSUME IInv, NEW r \in Requests, EraseRules(r)
  PROVE  IInv'
<1>1. /\ End(r)
      /\ rules' = [p \in DOMAIN rules |-> IF p \in work[r] THEN NULL ELSE rules[p]]
      /\ UNCHANGED <<forms, nodes, born, cells, lists, campaigns, served, crossed, surprised, loosened>>
  BY DEF EraseRules, history
<1>2. DOMAIN rules = Orgs \X Indicators /\ rules \in [Orgs \X Indicators -> RuleState]
  BY DEF IInv, TypeOK, TableTypes
<1>3. Grown /\ TypesStay
  BY <1>1 DEF Grown, TypesStay
<1>4. TableTypes'
  <2>1. rules' \in [Orgs \X Indicators -> RuleState]
    BY <1>1, <1>2 DEF RuleState
  <2> QED  BY <1>1, <2>1 DEF IInv, TypeOK, TableTypes
<1>5. \A p \in Orgs \X Indicators : rules'[p] # NULL => rules'[p] = rules[p]
  BY <1>1, <1>2
<1>6. CellsOK' /\ CampaignsOK' /\ RulesOK'
  BY <1>1, <1>5 DEF IInv, TablesOK, CellsOK, CampaignsOK, RulesOK
<1>7. OneUnitPerIndicator' /\ OthersAlone(r)
  BY <1>1, <1>3, <1>4, <1>5, UnitsKept
<1> QED  BY <1>1, <1>3, <1>4, <1>6, <1>7, TreesSame, EndsOK DEF TablesOK

\* The effective override of a cell.
LEMMA NormalizedType ==
  ASSUME NEW item \in CellItemDto, NEW old \in CellConfig
  PROVE  /\ Normalized(item, old) \in CellConfig
         /\ Normalized(item, old).formula # NULL => ~Normalized(item, old).editable
<1> DEFINE formula == IF item.formula # UNSET THEN item.formula ELSE old.formula
           type == IF item.type # UNSET THEN item.type ELSE old.type
           required == IF item.required # UNSET THEN item.required ELSE old.required
           editable == formula = NULL /\ IF item.readOnly # UNSET THEN ~item.readOnly ELSE old.editable
<1>1. Normalized(item, old) = [type |-> type, required |-> required, editable |-> editable, formula |-> formula]
  BY DEF Normalized
<1>2. formula \in {NULL, "f"} /\ type \in {"text", "number"}
  BY DEF CellItemDto, CellConfig
<1>3. required \in BOOLEAN
  <2>1. item.required \in {TRUE, FALSE, UNSET} /\ old.required \in BOOLEAN
    BY DEF CellItemDto, CellConfig
  <2> QED  BY <2>1, Zenon
<1>4. editable \in BOOLEAN /\ (formula # NULL => ~editable)
  BY Zenon
<1> HIDE DEF formula, type, required, editable
<1>5. Normalized(item, old) \in CellConfig
  BY <1>1, <1>2, <1>3, <1>4 DEF CellConfig
<1>6. Normalized(item, old).formula = formula /\ (Normalized(item, old).editable <=> editable)
  BY <1>1
<1> QED  BY <1>4, <1>5, <1>6

\* A write to the overrides alone keeps the invariant when they stay overrides of rows.
LEMMA CellsStep ==
  ASSUME IInv, NEW r \in Requests, End(r), UNCHANGED <<forms, nodes, born, rules, lists, campaigns, served, history>>,
         cells' \in [Cells -> CellConfig \cup {NULL}], CellsOK'
  PROVE  IInv'
<1>1. UNCHANGED <<forms, nodes, born, rules, lists, campaigns, served, crossed, surprised, loosened>>
  BY DEF history
<1>2. Grown /\ TypesStay
  BY <1>1 DEF Grown, TypesStay
<1>3. TableTypes'
  BY <1>1 DEF IInv, TypeOK, TableTypes
<1>4. CampaignsOK' /\ RulesOK'
  BY <1>1 DEF IInv, TablesOK, CampaignsOK, RulesOK
<1>5. OneUnitPerIndicator' /\ OthersAlone(r)
  BY <1>1, <1>2, <1>3, UnitsKept
<1> QED  BY <1>1, <1>2, <1>3, <1>4, <1>5, TreesSame, EndsOK DEF TablesOK

\* The overrides asked for are written, each for a row and a column that are still there.
LEMMA WriteCellsOK ==
  ASSUME IInv, NEW r \in Requests, WriteCells(r)
  PROVE  IInv'
<1> DEFINE items == work[r]
           new(c) == Normalized(items[c], IF cells[c] = NULL THEN BaseConfig ELSE cells[c])
<1>1. /\ End(r) /\ UNCHANGED <<forms, nodes, born, rules, lists, campaigns, served, history>>
      /\ cells' = IF \E c \in DOMAIN items : nodes[c[1]] = NULL \/ nodes[c[2]] = NULL
                  THEN cells
                  ELSE [c \in Cells |-> IF c \notin DOMAIN items THEN cells[c]
                                        ELSE IF new(c) = BaseConfig THEN NULL ELSE new(c)]
  BY DEF WriteCells
<1>2. cells \in [Cells -> CellConfig \cup {NULL}] /\ BaseConfig \in CellConfig
  BY DEF IInv, TypeOK, TableTypes, BaseConfig, CellConfig
<1>3. /\ DOMAIN items \subseteq Cells
      /\ \A c \in DOMAIN items : /\ items[c] \in CellItemDto
                                 /\ born[c[1]] = job[r].form /\ born[c[2]] = job[r].form
  BY DEF WriteCells, IInv, RequestsOK, RequestOK, InHand, CellsInHand
<1>4. \A c \in DOMAIN items : new(c) \in CellConfig /\ (new(c).formula # NULL => ~new(c).editable)
  BY <1>2, <1>3, NormalizedType
<1>5. ASSUME NEW c \in Cells, cells'[c] # cells[c]
      PROVE  /\ c \in DOMAIN items /\ cells'[c] \in {NULL, new(c)}
             /\ nodes[c[1]] # NULL /\ nodes[c[2]] # NULL
  BY <1>1, <1>5
<1>6. cells' \in [Cells -> CellConfig \cup {NULL}]
  <2> HIDE DEF new
  <2> QED  BY <1>1, <1>2, <1>4
<1>7. \A c \in Cells : /\ c[1] \in Nodes /\ c[2] \in Nodes
  BY DEF Cells, Nodes
<1>8. nodes' = nodes
  BY <1>1
<1>9. ASSUME NEW c \in Cells, cells'[c] # NULL
      PROVE  /\ nodes'[c[1]] # NULL /\ nodes'[c[2]] # NULL /\ nodes'[c[1]].form = nodes'[c[2]].form
             /\ cells'[c].formula # NULL => ~cells'[c].editable
  <2> HIDE DEF new
  <2>1. CASE cells'[c] = cells[c]
    BY <1>8, <1>9, <2>1 DEF IInv, TablesOK, CellsOK
  <2>2. CASE cells'[c] # cells[c]
    BY <1>3, <1>4, <1>5, <1>7, <1>8, <1>9, <2>2, RowTable DEF IInv, TypeOK
  <2> QED  BY <2>1, <2>2
<1> HIDE DEF new, items
<1>10. CellsOK'
  BY <1>9 DEF CellsOK
<1> QED  BY <1>1, <1>6, <1>10, CellsStep

\* Overrides are erased.
LEMMA EraseCellsOK ==
  ASSUME IInv, NEW r \in Requests, EraseCells(r)
  PROVE  IInv'
<1>1. /\ End(r) /\ UNCHANGED <<forms, nodes, born, rules, lists, campaigns, served, history>>
      /\ cells' = [c \in Cells |-> IF c \in work[r] THEN NULL ELSE cells[c]]
  BY DEF EraseCells
<1>2. cells' \in [Cells -> CellConfig \cup {NULL}]
  BY <1>1 DEF IInv, TypeOK, TableTypes
<1>3. CellsOK'
  BY <1>1 DEF IInv, TablesOK, CellsOK
<1> QED  BY <1>1, <1>2, <1>3, CellsStep

\* A write to the lists alone keeps the invariant.
LEMMA ListStep ==
  ASSUME IInv, NEW r \in Requests, End(r), UNCHANGED <<forms, nodes, born, cells, rules, campaigns, served, history>>,
         lists' \in [Entries \cup Categories -> ListState]
  PROVE  IInv'
<1>1. UNCHANGED <<forms, nodes, born, cells, rules, campaigns, served, crossed, surprised, loosened>>
  BY DEF history
<1>2. Grown /\ TypesStay
  BY <1>1 DEF Grown, TypesStay
<1>3. TableTypes'
  BY <1>1 DEF IInv, TypeOK, TableTypes
<1>4. CampaignsOK' /\ RulesOK' /\ CellsOK'
  BY <1>1 DEF IInv, TablesOK, CampaignsOK, RulesOK, CellsOK
<1>5. OneUnitPerIndicator' /\ OthersAlone(r)
  BY <1>1, <1>2, <1>3, UnitsKept
<1> QED  BY <1>1, <1>2, <1>3, <1>4, <1>5, TreesSame, EndsOK DEF TablesOK

\* The entry or category is written.
LEMMA ListWriteOK ==
  ASSUME IInv, NEW r \in Requests, ListWrite(r)
  PROVE  IInv'
<1>1. copy[r] \in [status : {"active", "inactive"}]
  BY DEF ListWrite, IInv, RequestsOK, RequestOK, InHand, ListInHand
<1>2. copy[r].status \in ListState
  BY <1>1 DEF ListState
<1>3. lists' \in [Entries \cup Categories -> ListState]
  BY <1>2 DEF ListWrite, IInv, TypeOK, TableTypes
<1> QED  BY <1>3, ListStep DEF ListWrite

\* The entry or category is loaded for the write to come.
LEMMA ListLoadOK ==
  ASSUME IInv, NEW r \in Requests, ListLoad(r)
  PROVE  IInv'
<1>1. /\ pc[r] = "listLoad" /\ Goto(r, "listWrite") /\ job' = job /\ copy' = copy /\ work' = work
      /\ base' = [base EXCEPT ![r] = [status |-> lists[job[r].node]]] /\ Still
  BY DEF ListLoad, Still, IInv, TypeOK, TableTypes
<1>2. Moves(r) /\ pc'[r] = "listWrite"
  BY <1>1, GoesOn DEF Statements
<1>3. InHand(r)'
  BY <1>1, <1>2 DEF InHand, IInv, RequestsOK, RequestOK, FormInHand, WithoutForm, TreeInHand, RowInHand,
     OrderInHand, CellsInHand, RulesInHand, ListInHand, ImportInHand, Importing
<1>4. Walked(r)' /\ Alone(r)'
  BY <1>2 DEF Walked, Alone
<1>5. Locked(r)'
  BY <1>1, <1>2, StillOK DEF Locked, IInv, RequestsOK, RequestOK
<1> QED  BY <1>1, <1>2, <1>3, <1>4, <1>5, QuietStep DEF RequestOK

\* The entry or category goes: what uses it loses it.
LEMMA ListDropOK ==
  ASSUME IInv, NEW r \in Requests, ListDrop(r)
  PROVE  IInv'
<1> PICK k : k = job[r].node
  OBVIOUS
<1>1. /\ End(r) /\ Forget(k)
      /\ lists' = [lists EXCEPT ![k] = IF Kept(k) THEN "gone" ELSE @]
      /\ UNCHANGED <<born, cells, rules, campaigns, served, crossed, surprised, loosened>>
  BY DEF ListDrop, history
<1>2. TableTypes
  BY DEF IInv, TypeOK
<1>3. ASSUME NEW n \in Nodes
      PROVE  /\ nodes[n] = NULL => nodes'[n] = NULL
             /\ nodes[n] # NULL => /\ nodes'[n] \in RowOf(n) /\ nodes'[n] # NULL
                                   /\ nodes'[n].form = nodes[n].form /\ nodes'[n].parent = nodes[n].parent
  <2>1. CASE nodes[n] = NULL
    BY <1>1, <2>1 DEF Forget
  <2>2. CASE nodes[n] # NULL
    <3> DEFINE row == [nodes[n] EXCEPT !.entry = IF @ = k THEN NULL ELSE @]
    <3>1. nodes'[n] = row
      BY <1>1, <2>2 DEF Forget
    <3>2. nodes[n] \in RowOf(n)
      BY <1>2, <2>2 DEF TableTypes
    <3>3. row \in RowOf(n) /\ row.form = nodes[n].form /\ row.parent = nodes[n].parent
      BY <3>2 DEF RowOf, IndicatorRow, AttributeRow
    <3>4. row # NULL
      BY <3>3, Rows DEF RowOf
    <3> QED  BY <2>2, <3>1, <3>3, <3>4
  <2> QED  BY <2>1, <2>2
<1>4. ASSUME NEW f \in Forms
      PROVE  /\ forms[f] = NULL => forms'[f] = NULL
             /\ forms[f] # NULL => /\ forms'[f] \in FormRow /\ forms'[f] # NULL
                                   /\ forms'[f].type = forms[f].type /\ forms'[f].deleted = forms[f].deleted
  <2>1. CASE forms[f] = NULL
    BY <1>1, <2>1 DEF Forget
  <2>2. CASE forms[f] # NULL
    <3> DEFINE row == [forms[f] EXCEPT !.category = IF @ = k THEN NULL ELSE @]
    <3>1. forms'[f] = row
      BY <1>1, <2>2 DEF Forget
    <3>2. forms[f] \in FormRow
      BY <1>2, <2>2 DEF TableTypes
    <3>3. row \in FormRow /\ row.type = forms[f].type /\ row.deleted = forms[f].deleted
      BY <3>2 DEF FormRow
    <3>4. row # NULL
      BY <3>3, Rows
    <3> QED  BY <2>2, <3>1, <3>3, <3>4
  <2> QED  BY <2>1, <2>2
<1>5. Grown /\ TypesStay
  BY <1>1, <1>4 DEF Grown, TypesStay
<1>6. TableTypes'
  <2>1. forms' \in [Forms -> FormRow \cup {NULL}]
    BY <1>1, <1>4 DEF Forget
  <2>2. nodes' \in [Nodes -> IndicatorRow \cup AttributeRow \cup {NULL}]
    <3>1. nodes' = [n \in Nodes |-> nodes'[n]]
      BY <1>1 DEF Forget
    <3>2. \A n \in Nodes : nodes'[n] \in IndicatorRow \cup AttributeRow \cup {NULL}
      BY <1>3 DEF RowOf
    <3> QED  BY <3>1, <3>2
  <2>3. \A n \in Nodes : nodes'[n] # NULL => nodes'[n] \in RowOf(n) /\ nodes'[n].form = born'[n]
    BY <1>1, <1>2, <1>3 DEF TableTypes
  <2>4. lists' \in [Entries \cup Categories -> ListState]
    BY <1>1, <1>2 DEF TableTypes, ListState
  <2> QED  BY <1>1, <1>2, <2>1, <2>2, <2>3, <2>4 DEF TableTypes
<1>7. Pruned
  BY <1>3 DEF Pruned
<1>8. ForestsOK' /\ OthersCalm(r)
  BY <1>5, <1>6, <1>7, PrunedOK DEF OthersCalm
<1>9. RowsOK'
  <2>1. \A f \in Forms : \A n \in Nodes : Of(f, Side(n)) \subseteq Of(f, Side(n))'
    BY <1>3, Sides DEF Of
  <2>2. \A n \in Nodes : nodes'[n] # NULL => (nodes[n].parent \in Of(nodes[n].form, Side(n)) \cup {NULL})'
    BY <1>2, <1>3, <2>1, RowTable DEF IInv, TablesOK, RowsOK
  <2>3. \A n \in Nodes : born'[n] # NULL => forms'[born'[n]] # NULL
    BY <1>1, <1>2, <1>4 DEF IInv, TablesOK, RowsOK, TableTypes
  <2> QED  BY <2>2, <2>3 DEF RowsOK, Of
<1>10. CellsOK'
  BY <1>1, <1>3 DEF IInv, TablesOK, CellsOK, Cells, Nodes
<1>11. RulesOK'
  BY <1>1, <1>3 DEF IInv, TablesOK, RulesOK, Nodes
<1>12. CampaignsOK'
  BY <1>1, <1>4 DEF IInv, TablesOK, CampaignsOK
<1>13. OneUnitPerIndicator' /\ OthersAlone(r)
  BY <1>1, <1>4, <1>5, <1>6, UnitsKept
<1> QED  BY <1>1, <1>5, <1>6, <1>8, <1>9, <1>10, <1>11, <1>12, <1>13, EndsOK DEF TablesOK

\* A row goes: its children become roots, its overrides and rules go with it.
LEMMA DeleteOK ==
  ASSUME IInv, NEW r \in Requests, Delete(r)
  PROVE  IInv'
<1> PICK d : d = job[r].node
  OBVIOUS
<1>1. /\ End(r)
      /\ UNCHANGED <<forms, born, lists, campaigns, served, crossed, surprised, loosened>>
      /\ UNCHANGED <<nodes, cells, rules>> \/ Unlink(d)
  BY DEF Delete, history
<1>2. TableTypes
  BY DEF IInv, TypeOK
<1>3. CASE UNCHANGED <<nodes, cells, rules>>
  <2>1. UNCHANGED <<tables, served, history>>
    BY <1>1, <1>3 DEF tables, history
  <2> QED  BY <1>1, <2>1, EndStep
<1>4. CASE Unlink(d)
  <2>1. ASSUME NEW n \in Nodes
        PROVE  /\ nodes[n] = NULL \/ n = d => nodes'[n] = NULL
               /\ nodes[n] # NULL /\ n # d =>
                    /\ nodes'[n] \in RowOf(n) /\ nodes'[n] # NULL /\ nodes'[n].form = nodes[n].form
                    /\ nodes'[n].parent = IF nodes[n].parent = d THEN NULL ELSE nodes[n].parent
    <3>1. CASE nodes[n] = NULL \/ n = d
      BY <1>4, <3>1 DEF Unlink
    <3>2. CASE nodes[n] # NULL /\ n # d
      <4> DEFINE row == [nodes[n] EXCEPT !.parent = IF @ = d THEN NULL ELSE @]
      <4>1. nodes'[n] = row
        BY <1>4, <3>2 DEF Unlink
      <4>2. nodes[n] \in RowOf(n)
        BY <1>2, <3>2 DEF TableTypes
      <4>3. /\ row \in RowOf(n) /\ row.form = nodes[n].form
            /\ row.parent = IF nodes[n].parent = d THEN NULL ELSE nodes[n].parent
        BY <4>2 DEF RowOf, IndicatorRow, AttributeRow
      <4>4. row # NULL
        BY <4>3, Rows DEF RowOf
      <4> QED  BY <3>2, <4>1, <4>3, <4>4
    <3> QED  BY <3>1, <3>2
  <2>2. Grown /\ TypesStay
    BY <1>1 DEF Grown, TypesStay
  <2>3. \A p \in Orgs \X Indicators : rules'[p] # NULL => rules'[p] = rules[p] /\ p[2] # d
    BY <1>2, <1>4 DEF Unlink, TableTypes
  <2>4. \A c \in Cells : cells'[c] # NULL => cells'[c] = cells[c] /\ c[1] # d /\ c[2] # d
    BY <1>4 DEF Unlink
  <2>5. TableTypes'
    <3>1. nodes' \in [Nodes -> IndicatorRow \cup AttributeRow \cup {NULL}]
      <4>1. nodes' = [n \in Nodes |-> nodes'[n]]
        BY <1>4 DEF Unlink
      <4>2. \A n \in Nodes : nodes'[n] \in IndicatorRow \cup AttributeRow \cup {NULL}
        BY <2>1 DEF RowOf
      <4> QED  BY <4>1, <4>2
    <3>2. \A n \in Nodes : nodes'[n] # NULL => nodes'[n] \in RowOf(n) /\ nodes'[n].form = born'[n]
      BY <1>1, <1>2, <2>1 DEF TableTypes
    <3>3. cells' \in [Cells -> CellConfig \cup {NULL}]
      BY <1>2, <1>4 DEF Unlink, TableTypes
    <3>4. rules' \in [Orgs \X Indicators -> RuleState]
      BY <1>2, <1>4 DEF Unlink, TableTypes, RuleState
    <3> QED  BY <1>1, <1>2, <3>1, <3>2, <3>3, <3>4 DEF TableTypes
  <2>6. Pruned
    BY <2>1 DEF Pruned
  <2>7. ForestsOK' /\ OthersCalm(r)
    BY <2>2, <2>5, <2>6, PrunedOK DEF OthersCalm
  <2>8. RowsOK'
    <3>1. ASSUME NEW n \in Nodes, nodes'[n] # NULL, nodes'[n].parent # NULL
          PROVE  (nodes[n].parent \in Of(nodes[n].form, Side(n)))'
      <4>1. /\ nodes[n] # NULL /\ nodes'[n].form = nodes[n].form /\ nodes'[n].parent = nodes[n].parent
            /\ nodes'[n].parent # d
        BY <2>1, <3>1
      <4>2. nodes[n].parent \in Of(nodes[n].form, Side(n))
        BY <3>1, <4>1 DEF IInv, TablesOK, RowsOK
      <4>3. nodes[n].parent \in Nodes
        BY <4>2, Sides DEF Of
      <4> QED  BY <2>1, <4>1, <4>2, <4>3 DEF Of
    <3>2. \A n \in Nodes : born'[n] # NULL => forms'[born'[n]] # NULL
      BY <1>1 DEF IInv, TablesOK, RowsOK
    <3> QED  BY <3>1, <3>2 DEF RowsOK, Of
  <2>9. CellsOK'
    BY <2>1, <2>4 DEF IInv, TablesOK, CellsOK, Cells, Nodes
  <2>10. RulesOK'
    BY <2>1, <2>3 DEF IInv, TablesOK, RulesOK, Nodes
  <2>11. CampaignsOK'
    BY <1>1 DEF IInv, TablesOK, CampaignsOK
  <2>12. OneUnitPerIndicator' /\ OthersAlone(r)
    BY <1>1, <2>2, <2>3, <2>5, UnitsKept
  <2> QED  BY <1>1, <2>2, <2>5, <2>7, <2>8, <2>9, <2>10, <2>11, <2>12, EndsOK DEF TablesOK
<1> QED  BY <1>1, <1>3, <1>4

\* Only forms change.
LEMMA FormsStep ==
  ASSUME IInv, NEW r \in Requests, End(r),
         UNCHANGED <<nodes, born, cells, rules, lists, campaigns, served, crossed, surprised>>,
         forms' \in [Forms -> FormRow \cup {NULL}], loosened \subseteq loosened', loosened' \subseteq Forms,
         \A f \in Forms : forms[f] # NULL => forms'[f] # NULL,
         CampaignsOK', OneUnitPerIndicator', OthersAlone(r), TypesStay
  PROVE  IInv'
<1>1. Grown
  BY DEF Grown
<1>2. TableTypes'
  BY DEF IInv, TypeOK, TableTypes
<1>3. RulesOK' /\ CellsOK'
  BY DEF IInv, TablesOK, RulesOK, CellsOK
<1> QED  BY <1>1, <1>2, <1>3, TreesSame, EndsOK DEF TablesOK

\* The form is marked as deleted; its rows stay.
LEMMA DropFormOK ==
  ASSUME IInv, NEW r \in Requests, DropForm(r)
  PROVE  IInv'
<1> PICK f : f = job[r].form
  OBVIOUS
<1>1. /\ pc[r] = "dropForm" /\ End(r) /\ forms' = [forms EXCEPT ![f].deleted = TRUE]
      /\ UNCHANGED <<nodes, born, cells, rules, lists, campaigns, served, crossed, surprised, loosened>>
  BY DEF DropForm, history
<1>2. f \in Forms /\ forms[f] # NULL /\ (campaigns[f] # NULL => f \in surprised)
  BY <1>1 DEF IInv, RequestsOK, RequestOK, InHand, FormInHand, WithoutForm, Locked
<1>3. forms \in [Forms -> FormRow \cup {NULL}] /\ forms[f] \in FormRow /\ NULL \notin FormRow
  BY <1>2, Rows DEF IInv, TypeOK, TableTypes
<1> DEFINE row == [forms[f] EXCEPT !.deleted = TRUE]
<1>4. row \in FormRow /\ row.type = forms[f].type
  BY <1>3 DEF FormRow
<1>5. forms' = [forms EXCEPT ![f] = row]
  BY <1>1
<1> HIDE DEF row
<1>6. /\ forms' \in [Forms -> FormRow \cup {NULL}]
      /\ \A g \in Forms : /\ forms[g] # NULL => forms'[g] # NULL /\ forms'[g].type = forms[g].type
                          /\ g # f => forms'[g] = forms[g]
  BY <1>3, <1>4, <1>5
<1>7. CampaignsOK'
  BY <1>1, <1>2, <1>6 DEF IInv, TablesOK, CampaignsOK
<1>8. Grown /\ TableTypes'
  BY <1>1, <1>6 DEF Grown, IInv, TypeOK, TableTypes
<1>9. OneUnitPerIndicator' /\ OthersAlone(r)
  BY <1>1, <1>6, <1>8, UnitsKept
<1>10. TypesStay
  BY <1>1, <1>6 DEF TypesStay, IInv, TablesOK, CampaignsOK
<1>11. loosened' \subseteq Forms
  BY <1>1 DEF IInv, TypeOK, TableTypes
<1> QED  BY <1>1, <1>6, <1>7, <1>9, <1>10, <1>11, FormsStep

\* The row a save would write has the type of a template.
LEMMA MergeForm ==
  ASSUME NEW row \in FormRow, NEW old, NEW new \in FormRow
  PROVE  /\ Merge(row, old, new) \in FormRow
         /\ Merge(row, old, new).type \in {row.type, new.type}
         /\ ~row.deleted /\ ~new.deleted => ~Merge(row, old, new).deleted
<1>1. DOMAIN row = {"status", "type", "category", "deleted"}
  BY DEF FormRow
<1> DEFINE pick(c) == IF new[c] # old[c] THEN new[c] ELSE row[c]
<1>2. Merge(row, old, new) = [c \in DOMAIN row |-> pick(c)]
  BY DEF Merge
<1>3. \A c \in DOMAIN row : pick(c) \in {new[c], row[c]}
  OBVIOUS
<1> HIDE DEF pick
<1>4. Merge(row, old, new) = [status |-> pick("status"), type |-> pick("type"),
                              category |-> pick("category"), deleted |-> pick("deleted")]
  BY <1>1, <1>2
<1>5. /\ pick("status") \in {new.status, row.status} /\ pick("type") \in {new.type, row.type}
      /\ pick("category") \in {new.category, row.category} /\ pick("deleted") \in {new.deleted, row.deleted}
  BY <1>1, <1>3
<1>6. pick("deleted") \in BOOLEAN /\ (~row.deleted /\ ~new.deleted => ~pick("deleted"))
  <2>1. row.deleted \in BOOLEAN /\ new.deleted \in BOOLEAN
    BY DEF FormRow
  <2> QED  BY <1>5, <2>1
<1>7. Merge(row, old, new) \in FormRow
  BY <1>4, <1>5, <1>6 DEF FormRow
<1>8. Merge(row, old, new).type = pick("type") /\ Merge(row, old, new).deleted = pick("deleted")
  BY <1>4
<1> QED  BY <1>5, <1>6, <1>7, <1>8

\* The form is loaded for the save to come.
LEMMA FormLoadOK ==
  ASSUME IInv, NEW r \in Requests, FormLoad(r)
  PROVE  IInv'
<1>1. /\ pc[r] = "formLoad" /\ Goto(r, "formWrite") /\ job' = job /\ copy' = copy /\ work' = work
      /\ base' = [base EXCEPT ![r] = forms[job[r].form]] /\ Still
  BY DEF FormLoad, Still, IInv, TypeOK, TableTypes
<1>2. Moves(r) /\ pc'[r] = "formWrite"
  BY <1>1, GoesOn DEF Statements
<1>3. DOMAIN base = Requests /\ InHand(r)
  BY DEF IInv, TypeOK, RequestTypes, RequestsOK, RequestOK
<1>4. base'[r] \in FormRow /\ forms' = forms
  BY <1>1, <1>3, StillOK DEF FormInHand, InHand, WithoutForm, IInv, TypeOK, TableTypes
<1>5. InHand(r)'
  BY <1>1, <1>2, <1>3, <1>4 DEF InHand, FormInHand, WithoutForm, TreeInHand, RowInHand,
     OrderInHand, CellsInHand, RulesInHand, ListInHand, ImportInHand, Importing
<1>6. Walked(r)' /\ Alone(r)'
  BY <1>2 DEF Walked, Alone
<1>7. Locked(r)'
  BY <1>1, <1>2, StillOK DEF Locked, IInv, RequestsOK, RequestOK
<1> QED  BY <1>1, <1>2, <1>5, <1>6, <1>7, QuietStep DEF RequestOK

\* A form whose type is changed over rules, or while rules are stored, is set aside.
LEMMA FormWriteOK ==
  ASSUME IInv, NEW r \in Requests, FormWrite(r)
  PROVE  IInv'
<1> PICK f : f = job[r].form
  OBVIOUS
<1> PICK row : row = Merge(forms[f], base[r], copy[r])
  OBVIOUS
<1>1. /\ pc[r] = "formWrite" /\ End(r)
      /\ forms' = [forms EXCEPT ![f] = IF Named(Categories, row.category) THEN row ELSE @]
      /\ loosened' = loosened \cup IF forms'[f].type # forms[f].type THEN RulesLoose(f) ELSE {}
      /\ UNCHANGED <<nodes, born, cells, rules, lists, campaigns, served, crossed, surprised>>
  BY DEF FormWrite
<1>2. /\ f \in Forms /\ forms[f] # NULL /\ copy[r] \in FormRow /\ ~copy[r].deleted
      /\ campaigns[f] # NULL /\ f \notin surprised => copy[r].type = forms[f].type
  BY <1>1 DEF IInv, RequestsOK, RequestOK, InHand, FormInHand, WithoutForm, Locked
<1>3. forms \in [Forms -> FormRow \cup {NULL}] /\ forms[f] \in FormRow /\ NULL \notin FormRow
  BY <1>2, Rows DEF IInv, TypeOK, TableTypes
<1>4. /\ row \in FormRow /\ row.type \in {forms[f].type, copy[r].type}
      /\ ~forms[f].deleted => ~row.deleted
  BY <1>2, <1>3, MergeForm
<1>5. /\ forms' \in [Forms -> FormRow \cup {NULL}]
      /\ \A g \in Forms : /\ forms[g] # NULL => forms'[g] # NULL
                          /\ g # f => forms'[g] = forms[g]
      /\ forms'[f] \in {row, forms[f]}
  BY <1>1, <1>2, <1>3, <1>4
<1>6. CampaignsOK'
  BY <1>1, <1>2, <1>4, <1>5 DEF IInv, TablesOK, CampaignsOK
<1>7. TypesStay
  BY <1>1, <1>2, <1>4, <1>5 DEF TypesStay
<1>8. loosened \subseteq loosened' /\ loosened' \subseteq Forms
  BY <1>1, <1>2 DEF IInv, TypeOK, TableTypes, RulesLoose
<1>9. \A g : TemplateScopes(g)' = TemplateScopes(g)
  BY <1>1 DEF TemplateScopes, RuleAt, Of
<1>10. ASSUME f \notin loosened', forms'[f].type # forms[f].type
       PROVE  /\ \A p, q \in TemplateScopes(f) : p[2] = q[2] => p = q
              /\ ~ \E q \in Requests : job[q].form = f /\ pc[q] \in {"rulesOff", "rulesOn"}
  <2> DEFINE enabled == {p \in DOMAIN rules : rules[p] = TRUE /\ nodes[p[2]].form = f}
  <2>1. f \notin RulesLoose(f)
    BY <1>1, <1>10
  <2>2. ~ \/ \E p, q \in enabled : p[2] = q[2] /\ p # q
          \/ \E q \in Requests : job[q].form = f /\ pc[q] \in {"rulesOff", "rulesOn"}
    BY <2>1 DEF RulesLoose
  <2>3. TemplateScopes(f) \subseteq enabled
    <3>1. \A p \in TemplateScopes(f) : p \in RuleAt(f) /\ rules[p] = TRUE
      <4>1. rules \in [Orgs \X Indicators -> RuleState]
        BY DEF IInv, TypeOK, TableTypes
      <4>2. \A p \in RuleAt(f) : p \in Orgs \X Indicators /\ rules[p] # NULL
        BY <4>1 DEF RuleAt
      <4>3. \A p \in RuleAt(f) : rules[p] \in BOOLEAN
        BY <4>1, <4>2 DEF RuleState
      <4> QED  BY <4>3, Zenon DEF TemplateScopes
    <3> QED  BY <3>1 DEF RuleAt, Of
  <2> HIDE DEF enabled
  <2> QED  BY <2>2, <2>3
<1>11. OneUnitPerIndicator'
  <2> SUFFICES ASSUME NEW g \in Forms \ loosened', forms'[g] # NULL, forms'[g].type = "UNIQUE",
                      NEW p \in TemplateScopes(g)', NEW q \in TemplateScopes(g)', p[2] = q[2]
               PROVE  p = q
    BY DEF OneUnitPerIndicator
  <2>1. p \in TemplateScopes(g) /\ q \in TemplateScopes(g) /\ g \notin loosened
    BY <1>8, <1>9
  <2>2. CASE g = f /\ forms'[f].type # forms[f].type
    BY <1>10, <2>1, <2>2
  <2>3. CASE g # f \/ forms'[f].type = forms[f].type
    <3>1. forms[g] # NULL /\ forms[g].type = "UNIQUE"
      BY <1>2, <1>5, <2>3
    <3> QED  BY <2>1, <3>1 DEF IInv, TablesOK, OneUnitPerIndicator
  <2> QED  BY <2>2, <2>3
<1>12. OthersAlone(r)
  BY <1>5, <1>9, <1>10 DEF OthersAlone
<1> QED  BY <1>1, <1>5, <1>6, <1>7, <1>8, <1>11, <1>12, FormsStep

\* The rules the form has are seen: they are put out of force with the statement that follows.
LEMMA RulesOffOK ==
  ASSUME IInv, NEW r \in Requests, RulesOff(r)
  PROVE  IInv'
<1> PICK f : f = job[r].form
  OBVIOUS
<1> DEFINE w == [work[r] EXCEPT !.seen = RuleAt(f)]
<1>1. /\ pc[r] = "rulesOff" /\ Goto(r, "rulesOn") /\ job' = job /\ copy' = copy /\ base' = base
      /\ work' = [work EXCEPT ![r].seen = RuleAt(f)] /\ Still
  BY DEF RulesOff, Still, IInv, TypeOK, TableTypes
<1>2. work' = [work EXCEPT ![r] = w]
  BY <1>1
<1>3. /\ InHand(r) /\ Locked(r) /\ Alone(r) /\ DOMAIN work = Requests
      /\ work[r] \in [items : SUBSET (Orgs \X Indicators), seen : SUBSET (Orgs \X Indicators)]
      /\ \A p \in work[r].items : born[p[2]] = f
  BY <1>1 DEF IInv, RequestsOK, RequestOK, InHand, RulesInHand, TypeOK, RequestTypes
<1>4. RuleAt(f) \subseteq Orgs \X Indicators /\ \A p \in RuleAt(f) : born[p[2]] = f
  BY RowTable DEF RuleAt, Of, IInv, TypeOK, TableTypes, Nodes
<1>5. /\ w.items = work[r].items /\ w.seen = RuleAt(f)
      /\ w \in [items : SUBSET (Orgs \X Indicators), seen : SUBSET (Orgs \X Indicators)]
  BY <1>3, <1>4
<1> HIDE DEF w
<1>6. Moves(r) /\ pc'[r] = "rulesOn"
  BY <1>1, <1>2, GoesOn DEF Statements
<1>7. work'[r] = w
  BY <1>2, <1>3
<1>8. /\ forms' = forms /\ born' = born /\ \A g : TemplateScopes(g)' = TemplateScopes(g)
      /\ loosened' = loosened /\ surprised' = surprised /\ campaigns' = campaigns
  BY <1>1, StillOK
<1>9. RulesInHand(r)'
  BY <1>1, <1>3, <1>4, <1>5, <1>6, <1>7, <1>8 DEF RulesInHand
<1>10. InHand(r)'
  BY <1>1, <1>3, <1>6, <1>8, <1>9 DEF InHand, FormInHand, WithoutForm, TreeInHand, RowInHand,
     OrderInHand, CellsInHand, RulesInHand, ListInHand, ImportInHand, Importing
<1>11. Alone(r)'
  <2>1. TemplateScopes(f) \subseteq RuleAt(f)
    BY DEF TemplateScopes
  <2>2. TemplateScopes(f)' \subseteq RuleAt(f)
    BY <1>8, <2>1
  <2>3. f \notin loosened' /\ forms'[f].type = "UNIQUE" => \A p, q \in w.items : p[2] = q[2] => p = q
    BY <1>1, <1>3, <1>5, <1>8 DEF Alone
  <2> QED  BY <1>1, <1>5, <1>6, <1>7, <2>2, <2>3 DEF Alone, TemplateScopes, RuleAt, Of
<1>12. Walked(r)'
  BY <1>6 DEF Walked
<1>13. Locked(r)'
  BY <1>1, <1>3, <1>8 DEF Locked
<1> QED  BY <1>1, <1>6, <1>10, <1>11, <1>12, <1>13, QuietStep DEF RequestOK

\* The rules asked for are in force, and those seen are not; nobody else stores rules of
\* the form, or it is set aside.
LEMMA RulesOnOK ==
  ASSUME IInv, NEW r \in Requests, RulesOn(r)
  PROVE  IInv'
<1> PICK f : f = job[r].form
  OBVIOUS
<1> PICK items : items = work[r].items
  OBVIOUS
<1> PICK seen : seen = work[r].seen
  OBVIOUS
<1>1. /\ pc[r] = "rulesOn" /\ End(r)
      /\ UNCHANGED <<forms, nodes, born, cells, lists, campaigns, served, crossed, surprised>>
      /\ loosened' = loosened \cup {g \in {f} :
           \E q \in Requests \ {r} : job[q].form = g /\ pc[q] \in {"rulesOff", "rulesOn"}}
  BY DEF RulesOn
<1>2. \/ /\ \A p \in items : nodes[p[2]] # NULL
         /\ rules' = [p \in DOMAIN rules |->
                        IF p \in items THEN TRUE
                        ELSE IF p \in seen /\ rules[p] # NULL THEN FALSE ELSE rules[p]]
      \/ rules' = rules
  BY DEF RulesOn
<1>3. /\ f \in Forms /\ items \subseteq Orgs \X Indicators
      /\ \A p \in items : born[p[2]] = f
      /\ f \notin loosened => /\ TemplateScopes(f) \subseteq seen
                              /\ forms[f].type = "UNIQUE" => \A p, q \in items : p[2] = q[2] => p = q
  <2>1. InHand(r) /\ Alone(r)
    BY DEF IInv, RequestsOK, RequestOK
  <2>2. f \in Forms
    BY <1>1, <2>1 DEF InHand, FormInHand, WithoutForm
  <2>3. work[r] \in [items : SUBSET (Orgs \X Indicators), seen : SUBSET (Orgs \X Indicators)]
        /\ \A p \in items : born[p[2]] = f
    BY <1>1, <2>1 DEF InHand, RulesInHand
  <2> QED  BY <1>1, <2>1, <2>2, <2>3 DEF Alone
<1>4. rules \in [Orgs \X Indicators -> RuleState] /\ DOMAIN rules = Orgs \X Indicators
  BY DEF IInv, TypeOK, TableTypes
<1>5. Grown /\ TypesStay
  BY <1>1 DEF Grown, TypesStay
<1>6. ASSUME NEW p \in Orgs \X Indicators
      PROVE  /\ rules'[p] \in RuleState
             /\ rules'[p] = rules[p] \/ (rules'[p] = FALSE /\ rules[p] # NULL)
                \/ (p \in items /\ rules'[p] = TRUE /\ nodes[p[2]] # NULL)
  BY <1>2, <1>4, Zenon DEF RuleState
<1>7. TableTypes'
  <2>1. rules' \in [Orgs \X Indicators -> RuleState]
    <3>1. rules' = [p \in Orgs \X Indicators |-> rules'[p]]
      BY <1>2, <1>4
    <3> QED  BY <1>6, <3>1
  <2>2. loosened' \subseteq Forms
    BY <1>1, <1>3 DEF IInv, TypeOK, TableTypes
  <2> QED  BY <1>1, <2>1, <2>2 DEF IInv, TypeOK, TableTypes
<1>8. RulesOK'
  <2>1. nodes' = nodes
    BY <1>1
  <2> QED  BY <1>6, <2>1 DEF IInv, TablesOK, RulesOK
<1>9. CellsOK' /\ CampaignsOK'
  BY <1>1 DEF IInv, TablesOK, CellsOK, CampaignsOK
\* In another form no rule has come into force.
<1>10. ASSUME NEW g \in Forms, g # f PROVE TemplateScopes(g)' \subseteq TemplateScopes(g)
  <2>1. ASSUME NEW p \in Orgs \X Indicators, rules'[p] = TRUE, born'[p[2]] = g PROVE rules[p] = TRUE
    <3>1. p \notin items
      BY <1>1, <1>3, <1>10, <2>1
    <3>2. rules'[p] = rules[p] \/ rules'[p] = FALSE
      BY <1>6, <3>1
    <3> QED  BY <2>1, <3>2
  <2> QED  BY <1>5, <1>7, <2>1, ScopesShrink
\* In this one, those asked for have.
<1>11. ASSUME f \notin loosened
       PROVE  rules' = rules \/ TemplateScopes(f)' \subseteq items
  <2> SUFFICES ASSUME rules' # rules, NEW p \in TemplateScopes(f)', p \notin items PROVE FALSE
    OBVIOUS
  <2>1. rules' = [q \in DOMAIN rules |->
                    IF q \in items THEN TRUE
                    ELSE IF q \in seen /\ rules[q] # NULL THEN FALSE ELSE rules[q]]
    BY <1>2
  <2>2. DOMAIN rules' = Orgs \X Indicators
    BY <1>4, <2>1
  <2>3. p \in Orgs \X Indicators /\ rules'[p] # NULL /\ p[2] \in Of(f, Indicators)'
    BY <2>2 DEF TemplateScopes, RuleAt
  <2>4. rules'[p] \in BOOLEAN
    BY <1>6, <2>3 DEF RuleState
  <2>5. rules'[p] = TRUE
    BY <2>4, Zenon DEF TemplateScopes
  <2>6. rules'[p] = IF p \in seen /\ rules[p] # NULL THEN FALSE ELSE rules[p]
    BY <1>4, <2>1, <2>3
  <2>7. rules[p] = TRUE /\ (p \notin seen \/ rules[p] = NULL)
    BY <2>5, <2>6
  <2>8. p \in TemplateScopes(f)
    <3>1. p[2] \in Of(f, Indicators)
      BY <1>1, <2>3 DEF Of
    <3>2. p \in RuleAt(f)
      BY <1>4, <2>3, <2>7, <3>1, NullAssumption DEF RuleAt
    <3> QED  BY <2>7, <3>2, Zenon DEF TemplateScopes
  <2> QED  BY <1>3, <1>11, <2>7, <2>8, NullAssumption
<1>12. rules' = rules => \A g : TemplateScopes(g)' = TemplateScopes(g)
  BY <1>1 DEF TemplateScopes, RuleAt, Of
<1>13. OneUnitPerIndicator'
  <2> SUFFICES ASSUME NEW g \in Forms \ loosened', forms'[g] # NULL, forms'[g].type = "UNIQUE",
                      NEW p \in TemplateScopes(g)', NEW q \in TemplateScopes(g)', p[2] = q[2]
               PROVE  p = q
    BY DEF OneUnitPerIndicator
  <2>1. forms[g] # NULL /\ forms[g].type = "UNIQUE" /\ g \notin loosened
    BY <1>1, <1>5 DEF Grown
  <2>2. CASE p \in TemplateScopes(g) /\ q \in TemplateScopes(g)
    BY <2>1, <2>2 DEF IInv, TablesOK, OneUnitPerIndicator
  <2>3. CASE g = f /\ TemplateScopes(f)' \subseteq items
    BY <1>3, <2>1, <2>3
  <2> QED  BY <1>10, <1>11, <1>12, <2>1, <2>2, <2>3
<1>14. OthersAlone(r)
  <2> SUFFICES ASSUME NEW g \in Forms \ loosened',
                      \E q \in Requests \ {r} : pc[q] \in {"rulesOff", "rulesOn"} /\ job[q].form = g
               PROVE  TemplateScopes(g)' \subseteq TemplateScopes(g)
    BY <1>1 DEF OthersAlone
  <2>1. g # f
    BY <1>1
  <2> QED  BY <1>10, <2>1
<1> QED  BY <1>1, <1>5, <1>7, <1>8, <1>9, <1>13, <1>14, TreesSame, EndsOK DEF TablesOK

-----------------------------------------------------------------------------
(* New rows.                                                               *)

\* A form that is not there has nothing.
LEMMA NothingOf ==
  ASSUME IInv, NEW f \in Forms, forms[f] = NULL
  PROVE  /\ \A n \in Nodes : born[n] # f /\ (nodes[n] # NULL => nodes[n].form # f)
         /\ campaigns[f] = NULL
         /\ \A r \in Requests : job[r].form = f => pc[r] \in WithoutForm
<1>1. \A n \in Nodes : born[n] # f
  BY NullAssumption DEF IInv, TablesOK, RowsOK
<1>2. \A n \in Nodes : nodes[n] # NULL => nodes[n].form # f
  BY <1>1 DEF IInv, TypeOK, TableTypes
<1>3. campaigns[f] = NULL
  BY DEF IInv, TablesOK, CampaignsOK
<1>4. \A r \in Requests : job[r].form = f => pc[r] \in WithoutForm
  BY DEF IInv, RequestsOK, RequestOK, InHand, FormInHand
<1> QED  BY <1>1, <1>2, <1>3, <1>4

\* As long as no row is lost, overrides and rules stay with theirs.
LEMMA RowsStay ==
  ASSUME IInv, TableTypes', Grown, UNCHANGED <<cells, rules, campaigns, loosened, surprised>>,
         \A n \in Nodes : nodes[n] # NULL => nodes'[n] # NULL,
         \A f \in Forms : forms[f] # NULL => forms'[f] = forms[f]
  PROVE  /\ CellsOK' /\ RulesOK' /\ CampaignsOK' /\ OneUnitPerIndicator' /\ TypesStay
         /\ \A r \in Requests : OthersAlone(r)
         /\ \A n \in Nodes : nodes[n] # NULL => nodes'[n].form = nodes[n].form
<1>0. \A n \in Nodes : nodes[n] # NULL => nodes'[n].form = nodes[n].form
  BY RowTable DEF TableTypes, Grown, IInv, TypeOK
<1>1. CellsOK'
  <2>1. \A c \in Cells : c[1] \in Nodes /\ c[2] \in Nodes
    BY DEF Cells, Nodes
  <2> QED  BY <1>0, <2>1 DEF IInv, TablesOK, CellsOK
<1>2. RulesOK'
  <2>1. \A p \in Orgs \X Indicators : p[2] \in Nodes
    BY DEF Nodes
  <2> QED  BY <2>1 DEF IInv, TablesOK, RulesOK
<1>3. CampaignsOK' /\ TypesStay
  BY DEF IInv, TablesOK, CampaignsOK, TypesStay
<1>4. OneUnitPerIndicator' /\ \A r \in Requests : OthersAlone(r)
  BY UnitsKept
<1> QED  BY <1>0, <1>1, <1>2, <1>3, <1>4

\* A template comes with two attributes, which are roots.
LEMMA NewFormOK ==
  ASSUME IInv, NEW r \in Requests, NewForm(r)
  PROVE  IInv'
<1> DEFINE ids == Fresh(Attributes)
           row(f, n) == [form |-> f, parent |-> NULL, sort |-> n, code |-> NULL,
                         kind |-> "SYSTEM", entry |-> NULL]
           good == /\ Named(Categories, copy[r].category)
                   /\ Cardinality(ids) >= 2
                   /\ \E f \in Forms : forms[f] = NULL
<1> PICK f : f = CHOOSE g \in Forms : forms[g] = NULL
  OBVIOUS
<1> PICK a : a = CHOOSE n \in ids : TRUE
  OBVIOUS
<1> PICK b : b = CHOOSE n \in ids \ {a} : TRUE
  OBVIOUS
<1>1. /\ pc[r] = "newForm" /\ End(r)
      /\ UNCHANGED <<cells, rules, lists, campaigns, served, crossed, surprised, loosened>>
      /\ IF good
         THEN /\ forms' = [forms EXCEPT ![f] = copy[r]]
              /\ nodes' = [nodes EXCEPT ![a] = row(f, 0), ![b] = row(f, 1)]
              /\ born' = [born EXCEPT ![a] = f, ![b] = f]
         ELSE UNCHANGED <<forms, nodes, born>>
  BY DEF NewForm, history
<1>2. CASE ~good
  <2>1. UNCHANGED <<tables, served, history>>
    BY <1>1, <1>2 DEF tables, history
  <2> QED  BY <1>1, <2>1, EndStep
<1>3. CASE good
  <2>1. f \in Forms /\ forms[f] = NULL
    BY <1>3
  <2>2. a \in ids /\ b \in ids /\ a # b
    <3>1. ids \in SUBSET Nodes
      BY DEF Fresh, Nodes
    <3>2. IsFiniteSet(ids) /\ Cardinality(ids) >= 2
      BY <1>3, <3>1, FiniteRows
    <3> HIDE DEF ids
    <3>3. ids # {}
      BY <3>2, FS_EmptySet
    <3>4. a \in ids
      BY <3>3
    <3>5. ids # {a}
      <4>1. Cardinality({a}) = 1
        BY FS_Singleton
      <4> QED  BY <3>2, <4>1
    <3> QED  BY <3>4, <3>5
  <2>3. /\ a \in Attributes /\ b \in Attributes /\ born[a] = NULL /\ born[b] = NULL
        /\ nodes[a] = NULL /\ nodes[b] = NULL /\ a \in Nodes /\ b \in Nodes
    BY <2>2, RowTable, NullAssumption DEF Fresh, Nodes, IInv, TypeOK
  <2>4. TableTypes
    BY DEF IInv, TypeOK
  <2>5. /\ row(f, 0) \in AttributeRow /\ row(f, 0).form = f /\ row(f, 0).parent = NULL /\ row(f, 0) # NULL
        /\ row(f, 1) \in AttributeRow /\ row(f, 1).form = f /\ row(f, 1).parent = NULL /\ row(f, 1) # NULL
    <3>1. row(f, 0) \in AttributeRow /\ row(f, 1) \in AttributeRow
      BY <2>1 DEF AttributeRow
    <3> QED  BY <3>1, Rows
  <2> HIDE DEF row, ids
  <2>6. /\ nodes'[a] = row(f, 0) /\ nodes'[b] = row(f, 1)
        /\ \A n \in Nodes \ {a, b} : nodes'[n] = nodes[n] /\ born'[n] = born[n]
        /\ born'[a] = f /\ born'[b] = f
        /\ nodes' = [n \in Nodes |-> nodes'[n]] /\ born' \in [Nodes -> Forms \cup {NULL}]
    BY <1>1, <1>3, <2>1, <2>2, <2>3, <2>4 DEF TableTypes
  <2>7. /\ \A g \in Forms \ {f} : forms'[g] = forms[g]
        /\ forms'[f] \in FormRow /\ forms'[f] # NULL /\ forms' \in [Forms -> FormRow \cup {NULL}]
    <3>1. copy[r] \in FormRow /\ copy[r] # NULL
      BY <1>1, Rows DEF IInv, RequestsOK, RequestOK, InHand, FormInHand
    <3> QED  BY <1>1, <1>3, <2>1, <2>4, <3>1 DEF TableTypes
  <2>8. Grown
    BY <1>1, <2>1, <2>3, <2>6, <2>7 DEF Grown
  <2>9. TableTypes'
    <3>1. ASSUME NEW n \in Nodes, nodes'[n] # NULL
          PROVE  nodes'[n] \in RowOf(n) /\ nodes'[n].form = born'[n]
      <4>1. CASE n \in {a, b}
        <5>1. RowOf(n) = AttributeRow
          BY <2>3, <4>1, Sides
        <5> QED  BY <2>5, <2>6, <4>1, <5>1
      <4>2. CASE n \notin {a, b}
        <5>1. nodes'[n] = nodes[n] /\ born'[n] = born[n]
          BY <2>6, <4>2
        <5> QED  BY <2>4, <3>1, <5>1 DEF TableTypes
      <4> QED  BY <4>1, <4>2
    <3>2. nodes' \in [Nodes -> IndicatorRow \cup AttributeRow \cup {NULL}]
      BY <2>6, <3>1 DEF RowOf
    <3> QED  BY <1>1, <2>4, <2>6, <2>7, <3>1, <3>2 DEF TableTypes
  <2>10. \A n \in Nodes : nodes[n] # NULL => nodes'[n] = nodes[n] /\ nodes[n].form # f
    BY <2>1, <2>3, <2>6, NothingOf
  <2>11. CellsOK' /\ RulesOK' /\ CampaignsOK' /\ OneUnitPerIndicator' /\ TypesStay /\ OthersAlone(r)
    BY <1>1, <2>1, <2>7, <2>8, <2>9, <2>10, RowsStay
  <2>12. RowsOK'
    <3>1. \A n \in Nodes : born'[n] # NULL => forms'[born'[n]] # NULL
      <4>1. \A n \in Nodes : born'[n] \in {born[n], f}
        BY <2>6
      <4>2. \A n \in Nodes : born[n] # NULL => born[n] \in Forms /\ forms[born[n]] # NULL
        BY <2>4 DEF IInv, TablesOK, RowsOK, TableTypes
      <4> QED  BY <2>1, <2>7, <4>1, <4>2
    <3>2. ASSUME NEW n \in Nodes, nodes'[n] # NULL
          PROVE  (nodes[n].parent \in Of(nodes[n].form, Side(n)) \cup {NULL})'
      <4>1. CASE n \in {a, b}
        BY <2>5, <2>6, <4>1
      <4>2. CASE n \notin {a, b}
        <5>1. nodes'[n] = nodes[n] /\ nodes[n] # NULL
          BY <2>6, <3>2, <4>2
        <5>2. nodes[n].parent \in Of(nodes[n].form, Side(n)) \cup {NULL}
          BY <5>1 DEF IInv, TablesOK, RowsOK
        <5>3. Side(n) \subseteq Nodes
          BY Sides
        <5> QED  BY <2>10, <5>1, <5>2, <5>3 DEF Of
      <4> QED  BY <4>1, <4>2
    <3> QED  BY <3>1, <3>2 DEF RowsOK, Of
  <2>13. ForestsOK'
    <3> SUFFICES ASSUME NEW g \in Forms \ crossed', NEW T \in {Indicators, Attributes},
                        NEW S \in (SUBSET Of(g, T)') \ {{}}
                 PROVE  Rooted(S)'
      BY DEF ForestsOK
    <3>1. CASE g = f
      <4> PICK n : n \in S
        OBVIOUS
      <4>1. T \subseteq Nodes
        BY DEF Nodes
      <4>2. n \in Nodes /\ nodes'[n] # NULL /\ nodes'[n].form = f
        BY <3>1, <4>1 DEF Of
      <4>3. n \in {a, b}
        BY <2>6, <2>10, <4>2
      <4>4. nodes'[n].parent = NULL /\ NULL \notin S
        BY <2>5, <2>6, <4>1, <4>3, Rows DEF Of
      <4> QED  BY <4>4 DEF Rooted
    <3>2. CASE g # f
      <4>1. \A n \in Nodes : born'[n] = g /\ nodes'[n] # NULL =>
              nodes[n] # NULL /\ nodes[n].form = g /\ nodes'[n].parent \in {nodes[n].parent, NULL}
        BY <2>4, <2>6, <3>2, RowTable
      <4>2. g \in Forms \ crossed
        BY <1>1
      <4> QED  BY <2>4, <2>9, <4>1, <4>2, ForestKept DEF IInv, TablesOK
    <3> QED  BY <3>1, <3>2
  <2>14. OthersCalm(r)
    <3> SUFFICES ASSUME NEW g \in Forms, NEW q \in Requests, OnParents(q), job[q].form = g PROVE Calm(g)
      BY DEF OthersCalm
    <3>1. g # f
      BY <2>1, NothingOf DEF OnParents, WithoutForm
    <3>2. \A n \in Nodes : born[n] = g => n \notin {a, b}
      BY <2>3, NullAssumption
    <3> QED  BY <2>6, <3>2 DEF Calm
  <2> QED  BY <1>1, <2>8, <2>9, <2>11, <2>12, <2>13, <2>14, EndsOK DEF TablesOK
<1> QED  BY <1>2, <1>3

\* A campaign is made: whoever is past a check of the form is surprised.
LEMMA MakeCampaignOK ==
  ASSUME IInv, NEW f \in Forms, MakeCampaign(f)
  PROVE  IInv'
<1> DEFINE given == {p[2] : p \in TemplateScopes(f)}
           known == IF campaigns[f] = NULL THEN {} ELSE campaigns[f]
<1>1. /\ Live(f)
      /\ \/ /\ campaigns' = [campaigns EXCEPT ![f] = known \cup given]
            /\ forms' = [forms EXCEPT ![f].status = "IN_USE"]
         \/ /\ campaigns' = [campaigns EXCEPT ![f] = known]
            /\ UNCHANGED forms
      /\ surprised' = IF campaigns[f] = NULL /\ \E r \in Requests : Holding(r, f)
                      THEN surprised \cup {f} ELSE surprised
      /\ UNCHANGED <<nodes, born, cells, rules, lists, pc, job, copy, base, work, served, crossed, loosened>>
  BY DEF MakeCampaign, memory
<1>2. TypeOK /\ TableTypes /\ forms[f] \in FormRow /\ NULL \notin FormRow /\ ~forms[f].deleted /\ forms[f] # NULL
  BY <1>1, Rows DEF IInv, TypeOK, TableTypes, Live
<1>4. given \subseteq Indicators /\ known \subseteq Indicators
  <2>1. \A p \in TemplateScopes(f) : p[2] \in Indicators
    BY DEF TemplateScopes, RuleAt, Of
  <2>2. campaigns[f] \in (SUBSET Indicators) \cup {NULL}
    BY <1>2 DEF TableTypes
  <2> QED  BY <2>1, <2>2
<1>5. /\ forms' \in [Forms -> FormRow \cup {NULL}]
      /\ \A g \in Forms : /\ forms[g] # NULL => /\ forms'[g] # NULL /\ forms'[g].type = forms[g].type
                                                /\ forms'[g].deleted = forms[g].deleted
                          /\ forms[g] = NULL => forms'[g] = NULL
  <2> DEFINE row == [forms[f] EXCEPT !.status = "IN_USE"]
  <2>1. row \in FormRow /\ row.type = forms[f].type /\ row.deleted = forms[f].deleted
    BY <1>2 DEF FormRow
  <2>2. forms' = [forms EXCEPT ![f] = row] \/ forms' = forms
    BY <1>1
  <2> HIDE DEF row
  <2> QED  BY <1>2, <2>1, <2>2 DEF TableTypes
<1>6. /\ campaigns' \in [Forms -> (SUBSET Indicators) \cup {NULL}]
      /\ \A g \in Forms \ {f} : campaigns'[g] = campaigns[g]
  <2> HIDE DEF given, known
  <2> QED  BY <1>1, <1>2, <1>4 DEF TableTypes
<1>7. surprised \subseteq surprised' /\ surprised' \subseteq Forms
  BY <1>1, <1>2 DEF TableTypes
<1>8. Grown
  BY <1>1, <1>5, <1>7 DEF Grown
<1>9. TableTypes'
  BY <1>1, <1>2, <1>5, <1>6, <1>7 DEF TableTypes
<1>10. RequestTypes'
  BY <1>1, <1>2 DEF TypeOK, RequestTypes
<1>11. RowsOK' /\ ForestsOK'
  BY <1>1, <1>8, <1>9, TreesSame
<1>12. CellsOK' /\ RulesOK'
  BY <1>1 DEF IInv, TablesOK, CellsOK, RulesOK
<1>13. CampaignsOK'
  BY <1>2, <1>5, <1>6, <1>7 DEF IInv, TablesOK, CampaignsOK
<1>14. OneUnitPerIndicator'
  BY <1>1, <1>5, <1>8, <1>9, UnitsKept
<1>15. ASSUME NEW q \in Requests PROVE RequestOK(q)'
  <2> PICK g : g = job[q].form
    OBVIOUS
  <2>1. Same(q) /\ InHand(q) /\ Walked(q) /\ Alone(q) /\ Locked(q)
    BY <1>1 DEF Same, IInv, RequestsOK, RequestOK
  <2>2. InHand(q)'
    BY <1>8, <2>1, InHandKept
  <2>3. Walked(q)'
    <3>1. \A h : Calm(h)
      BY <1>1 DEF Calm
    <3> QED  BY <1>8, <2>1, <3>1, WalkedKept
  <2>4. Alone(q)'
    <3>1. TemplateScopes(g)' = TemplateScopes(g)
      BY <1>1 DEF TemplateScopes, RuleAt, Of
    <3>2. pc[q] \in {"rulesOff", "rulesOn"} => forms'[g].type = forms[g].type
      BY <1>5, <2>1 DEF InHand, FormInHand, WithoutForm
    <3> QED  BY <1>8, <2>1, <3>1, <3>2, AloneKept
  <2>5. Locked(q)'
    <3> SUFFICES ASSUME g \in Forms, campaigns'[g] # NULL, g \notin surprised'
                 PROVE  /\ pc[q] \in {"importRow", "importLink", "copyTree", "formLoad", "formWrite"}
                        /\ pc[q] \in {"formLoad", "formWrite"} => copy[q].type = forms'[g].type
      BY <1>1 DEF Locked
    <3>1. CASE campaigns[g] # NULL
      <4>1. forms[g] # NULL
        BY <3>1 DEF IInv, TablesOK, CampaignsOK
      <4> QED  BY <1>5, <1>7, <2>1, <3>1, <4>1 DEF Locked
    <3>2. CASE campaigns[g] = NULL
      <4>1. g = f /\ ~Holding(q, f)
        BY <1>1, <1>6, <3>2
      <4>2. pc[q] \in {"idle", "importRow", "importLink", "copyTree", "newForm"}
        BY <4>1 DEF Holding
      <4>3. pc[q] \notin {"idle", "newForm"}
        BY <2>1, NullAssumption DEF InHand, FormInHand
      <4> QED  BY <4>2, <4>3
    <3> QED  BY <3>1, <3>2
  <2> QED  BY <2>2, <2>3, <2>4, <2>5 DEF RequestOK
<1> QED  BY <1>9, <1>10, <1>11, <1>12, <1>13, <1>14, <1>15 DEF IInv, TypeOK, TablesOK, RequestsOK

-----------------------------------------------------------------------------
(* The update of one row.                                                  *)

\* A row of an import fails, or does not.
LEMMA ImportFails ==
  ASSUME NEW w \in ImportWork, NEW failed \in BOOLEAN
  PROVE  [w EXCEPT !.failed = failed] \in ImportWork
BY DEF ImportWork

\* A request that imports goes on, any other answers.
LEMMA AnswerMoves ==
  ASSUME IInv, NEW r \in Requests, pc[r] \notin WithoutForm, NEW failed, Answer(r, "importLink", failed), Grown
  PROVE  Moves(r) /\ RequestOK(r)'
<1>1. CASE ~Importing(r)
  BY <1>1, EndMoves DEF Answer, IInv
<1>2. CASE Importing(r)
  <2> DEFINE w == [work[r] EXCEPT !.failed = @ \/ failed]
  <2>1. /\ Goto(r, "importLink") /\ UNCHANGED <<job, copy, base>>
        /\ work' = [work EXCEPT ![r] = w]
    BY <1>2 DEF Answer
  <2>2. w \in ImportWork
    <3>1. work[r] \in ImportWork
      BY <1>2 DEF IInv, RequestsOK, RequestOK, InHand, ImportInHand
    <3>2. (work[r].failed \/ failed) \in BOOLEAN
      BY Zenon
    <3> QED  BY <3>1, <3>2, ImportFails
  <2> HIDE DEF w
  <2>3. Moves(r) /\ pc'[r] = "importLink" /\ job' = job /\ work'[r] = w
    <3>1. DOMAIN work = Requests /\ pc[r] # "idle"
      BY DEF IInv, TypeOK, RequestTypes, WithoutForm
    <3>2. Moves(r) /\ pc'[r] = "importLink"
      BY <2>1, <3>1, GoesOn DEF Statements
    <3> QED  BY <2>1, <3>1, <3>2
  <2>4. job[r].form \in Forms /\ forms[job[r].form] # NULL /\ job[r].op = "import"
    BY <1>2 DEF IInv, RequestsOK, RequestOK, InHand, FormInHand, Importing
  <2>5. InHand(r)'
    BY <2>2, <2>3, <2>4 DEF Grown, InHand, FormInHand, WithoutForm, TreeInHand, RowInHand,
       OrderInHand, CellsInHand, RulesInHand, ListInHand, ImportInHand, Importing
  <2>6. Walked(r)' /\ Alone(r)' /\ Locked(r)'
    BY <2>3 DEF Walked, Alone, Locked
  <2> QED  BY <2>3, <2>5, <2>6 DEF RequestOK
<1> QED  BY <1>1, <1>2

\* The walk up from the new parent meets the row, goes on above, or has come to a root.
LEMMA WalkOK ==
  ASSUME IInv, NEW r \in Requests, Walk(r)
  PROVE  IInv'
<1> PICK f : f = job[r].form
  OBVIOUS
<1> PICK n : n = job[r].node
  OBVIOUS
<1> PICK c : c = work[r].cursor
  OBVIOUS
<1> PICK p : p = nodes[c].parent
  OBVIOUS
<1>1. /\ pc[r] = "walk" /\ Still
      /\ \/ Answer(r, "importLink", TRUE)
         \/ /\ c # n /\ c \in Of(f, Side(n)) /\ p # NULL
            /\ work' = [work EXCEPT ![r].cursor = p]
            /\ UNCHANGED <<pc, job, copy, base>>
         \/ /\ c # n /\ ~(c \in Of(f, Side(n)) /\ p # NULL)
            /\ Goto(r, "saveLoad") /\ UNCHANGED <<job, copy, base, work>>
  BY DEF Walk, Still, IInv, TypeOK, TableTypes, memory
<1>2. InHand(r) /\ Walked(r) /\ Alone(r) /\ Locked(r) /\ TypeOK
  BY DEF IInv, RequestsOK, RequestOK
<1>3. /\ f \in Forms /\ forms[f] # NULL /\ n \in Nodes /\ n \in Ids(f, Nodes)
      /\ copy[r] \in RowOf(n) /\ copy[r].form = f /\ copy[r].parent \in Ids(f, Side(n)) \cup {NULL}
      /\ ~Importing(r) => work[r] \in [cursor : Nodes \cup {NULL, UNSET}]
      /\ Importing(r) => work[r] \in ImportWork
      /\ c \in Ids(f, Side(n)) /\ Side(n) \subseteq Nodes
  BY <1>1, <1>2, Sides DEF InHand, FormInHand, WithoutForm, RowInHand, ImportInHand, Ids
<1>4. f \notin crossed => \E A : copy[r].parent \in A \cup {c} /\ Above(A, n, f, {c, NULL})
  BY <1>1, <1>2 DEF Walked
<1>5. campaigns[f] # NULL => f \in surprised
  BY <1>1, <1>2, <1>3 DEF Locked
<1>6. CASE Answer(r, "importLink", TRUE)
  <2>1. Grown
    BY <1>1, StillOK
  <2>2. pc[r] \notin WithoutForm
    BY <1>1 DEF WithoutForm
  <2> QED  BY <1>1, <1>6, <2>1, <2>2, AnswerMoves, QuietStep
<1>7. CASE /\ c # n /\ c \in Of(f, Side(n)) /\ p # NULL
           /\ work' = [work EXCEPT ![r].cursor = p]
           /\ UNCHANGED <<pc, job, copy, base>>
  <2> DEFINE w == [work[r] EXCEPT !.cursor = p]
  <2>1. work' = [work EXCEPT ![r] = w]
    BY <1>7
  <2>2. p \in Ids(f, Side(n)) /\ p \in Nodes
    <3>1. nodes[c] # NULL /\ nodes[c].form = f /\ c \in Side(n) /\ c \in Nodes /\ Side(c) = Side(n)
      BY <1>3, <1>7, Sides DEF Of
    <3>2. p \in Of(f, Side(n))
      BY <1>7, <3>1 DEF IInv, TablesOK, RowsOK
    <3> QED  BY <1>2, <1>3, <3>2, OfIds
  <2>3. /\ w.cursor = p
        /\ ~Importing(r) => w \in [cursor : Nodes \cup {NULL, UNSET}]
        /\ Importing(r) => w \in ImportWork
    BY <1>3, <2>2 DEF ImportWork
  <2> HIDE DEF w
  <2>4. Goto(r, "walk") /\ DOMAIN work = Requests
    BY <1>1, <1>2, <1>7 DEF Goto, TypeOK, RequestTypes
  <2>5. Moves(r) /\ pc'[r] = "walk" /\ work'[r] = w
    BY <1>1, <1>7, <2>1, <2>4, GoesOn DEF Statements
  <2>6. InHand(r)'
    BY <1>1, <1>2, <1>3, <1>7, <2>2, <2>3, <2>5, StillOK DEF InHand, FormInHand, WithoutForm, TreeInHand, RowInHand,
       OrderInHand, CellsInHand, RulesInHand, ListInHand, ImportInHand, Importing, Ids
  <2>7. ASSUME f \notin crossed
        PROVE  \E A : copy[r].parent \in A \cup {p} /\ Above(A, n, f, {p, NULL})
    <3> PICK A : copy[r].parent \in A \cup {c} /\ Above(A, n, f, {c, NULL})
      BY <1>4, <2>7
    <3>1. Above(A \cup {c}, n, f, {p, NULL})
      BY <1>3, <1>7 DEF Above
    <3> QED  BY <3>1
  <2>8. Walked(r)'
    <3>1. nodes' = nodes /\ born' = born /\ crossed' = crossed
      BY <1>1, StillOK
    <3>2. f \notin crossed => \E A : copy[r].parent \in A \cup {p} /\ Above(A, n, f, {p, NULL})'
      BY <2>7, <3>1 DEF Above, Ids
    <3> QED  BY <1>7, <2>3, <2>5, <3>1, <3>2 DEF Walked, Above, Ids
  <2>9. Alone(r)' /\ Locked(r)'
    BY <1>1, <1>5, <1>7, <2>5, StillOK DEF Alone, Locked
  <2> QED  BY <1>1, <2>5, <2>6, <2>8, <2>9, QuietStep DEF RequestOK
<1>8. CASE /\ c # n /\ ~(c \in Of(f, Side(n)) /\ p # NULL)
           /\ Goto(r, "saveLoad") /\ UNCHANGED <<job, copy, base, work>>
  <2>1. Moves(r) /\ pc'[r] = "saveLoad"
    BY <1>1, <1>8, GoesOn DEF Statements
  <2>2. InHand(r)'
    BY <1>1, <1>2, <1>3, <1>8, <2>1, StillOK DEF InHand, FormInHand, WithoutForm, TreeInHand, RowInHand,
       OrderInHand, CellsInHand, RulesInHand, ListInHand, ImportInHand, Importing, Ids
  <2>3. ASSUME f \notin crossed PROVE \E A : copy[r].parent \in A /\ Above(A, n, f, {NULL})
    <3> PICK A : copy[r].parent \in A \cup {c} /\ Above(A, n, f, {c, NULL})
      BY <1>4, <2>3
    <3>1. nodes[c] # NULL => nodes[c].parent = NULL
      BY <1>2, <1>3, <1>8, RowTable DEF Of, Ids, TypeOK
    <3>2. Above(A \cup {c}, n, f, {NULL})
      BY <1>3, <1>8, <3>1 DEF Above
    <3> QED  BY <3>2
  <2>4. Walked(r)'
    <3>1. nodes' = nodes /\ born' = born /\ crossed' = crossed
      BY <1>1, StillOK
    <3>2. f \notin crossed => \E A : copy[r].parent \in A /\ Above(A, n, f, {NULL})'
      BY <2>3, <3>1 DEF Above, Ids
    <3> QED  BY <1>8, <2>1, <3>1, <3>2 DEF Walked, Above, Ids
  <2>5. Alone(r)' /\ Locked(r)'
    BY <1>1, <1>5, <1>8, <2>1, StillOK DEF Alone, Locked
  <2> QED  BY <1>1, <2>1, <2>2, <2>4, <2>5, QuietStep DEF RequestOK
<1> QED  BY <1>1, <1>6, <1>7, <1>8

\* The row is read again.
LEMMA SaveLoadOK ==
  ASSUME IInv, NEW r \in Requests, SaveLoad(r)
  PROVE  IInv'
<1> PICK f : f = job[r].form
  OBVIOUS
<1> PICK n : n = job[r].node
  OBVIOUS
<1>1. /\ pc[r] = "saveLoad" /\ Goto(r, "saveWrite") /\ job' = job /\ copy' = copy /\ work' = work
      /\ base' = [base EXCEPT ![r] = nodes[n]] /\ Still
  BY DEF SaveLoad, Still, IInv, TypeOK, TableTypes
<1>2. InHand(r) /\ Walked(r) /\ Alone(r) /\ Locked(r) /\ TypeOK
  BY DEF IInv, RequestsOK, RequestOK
<1>3. f \in Forms /\ n \in Nodes /\ n \in Ids(f, Nodes)
  BY <1>1, <1>2 DEF InHand, FormInHand, WithoutForm, RowInHand, Ids
<1>4. Moves(r) /\ pc'[r] = "saveWrite"
  BY <1>1, GoesOn DEF Statements
<1>5. base'[r] = nodes[n] /\ (nodes[n] = NULL \/ (nodes[n] \in RowOf(n) /\ nodes[n].form = f))
  BY <1>1, <1>2, <1>3, RowTable DEF TypeOK, RequestTypes, Ids
<1>6. InHand(r)'
  BY <1>1, <1>2, <1>3, <1>4, <1>5, StillOK DEF InHand, FormInHand, WithoutForm, TreeInHand, RowInHand,
       OrderInHand, CellsInHand, RulesInHand, ListInHand, ImportInHand, Importing, Ids
<1>7. Walked(r)'
  <2>1. nodes' = nodes /\ born' = born /\ crossed' = crossed
    BY <1>1, StillOK
  <2>2. ASSUME f \notin crossed, copy[r].parent # NULL
        PROVE  \E A : copy[r].parent \in A /\ Above(A, n, f, {NULL})'
    <3> PICK A : copy[r].parent \in A /\ Above(A, n, f, {NULL})
      BY <1>1, <1>2, <2>2 DEF Walked
    <3> QED  BY <2>1 DEF Above, Ids
  <2> QED  BY <1>1, <1>4, <2>1, <2>2 DEF Walked, Above, Ids
<1>8. Alone(r)' /\ Locked(r)'
  BY <1>1, <1>2, <1>4, StillOK DEF Alone, Locked
<1> QED  BY <1>1, <1>4, <1>6, <1>7, <1>8, QuietStep DEF RequestOK

\* The row a save would write has the type of its table, and each field of the copy or
\* of the row that is there.
LEMMA MergeRow ==
  ASSUME NEW n \in Nodes, NEW row \in RowOf(n), NEW old, NEW new \in RowOf(n)
  PROVE  /\ Merge(row, old, new) \in RowOf(n)
         /\ Merge(row, old, new).parent \in {row.parent, new.parent}
         /\ Merge(row, old, new).form \in {row.form, new.form}
<1>1. DOMAIN row = {"form", "parent", "sort", "code", "kind", "entry"}
  BY DEF RowOf, IndicatorRow, AttributeRow
<1> DEFINE pick(c) == IF new[c] # old[c] THEN new[c] ELSE row[c]
<1>2. Merge(row, old, new) = [c \in DOMAIN row |-> pick(c)]
  BY DEF Merge
<1>3. \A c \in DOMAIN row : pick(c) \in {new[c], row[c]}
  OBVIOUS
<1> HIDE DEF pick
<1>4. Merge(row, old, new) = [form |-> pick("form"), parent |-> pick("parent"), sort |-> pick("sort"),
                              code |-> pick("code"), kind |-> pick("kind"), entry |-> pick("entry")]
  BY <1>1, <1>2
<1>5. /\ pick("form") \in {new.form, row.form} /\ pick("parent") \in {new.parent, row.parent}
      /\ pick("sort") \in {new.sort, row.sort} /\ pick("code") \in {new.code, row.code}
      /\ pick("kind") \in {new.kind, row.kind} /\ pick("entry") \in {new.entry, row.entry}
  BY <1>1, <1>3
<1>6. Merge(row, old, new) \in RowOf(n)
  <2>1. CASE n \in Indicators
    BY <1>4, <1>5, <2>1 DEF RowOf, IndicatorRow
  <2>2. CASE n \notin Indicators
    BY <1>4, <1>5, <2>2 DEF RowOf, AttributeRow
  <2> QED  BY <2>1, <2>2
<1>7. Merge(row, old, new).parent = pick("parent") /\ Merge(row, old, new).form = pick("form")
  BY <1>4
<1> QED  BY <1>5, <1>6, <1>7

\* Where a step moves parents under another request, the form is set aside.
LEMMA CrossCalm ==
  ASSUME IInv, TableTypes', Grown, NEW r \in Requests, Cross(r)
  PROVE  OthersCalm(r) /\ crossed' \subseteq Forms
<1>1. crossed' \subseteq Forms
  BY DEF Cross, IInv, TypeOK, TableTypes
<1>2. ASSUME NEW f \in Forms \ crossed', NEW q \in Requests \ {r}, OnParents(q), job[q].form = f,
             NEW n \in Nodes, born[n] = f, nodes'[n] # NULL
      PROVE  nodes[n] # NULL /\ nodes'[n].parent \in {nodes[n].parent, NULL}
  <2>1. HoldingParents(q, f)
    BY <1>2 DEF HoldingParents, Holding, OnParents
  <2>2. nodes'[n].form = f
    BY <1>2, NullAssumption DEF TableTypes, Grown
  <2> QED  BY <1>2, <2>1, <2>2 DEF Cross
<1>3. OthersCalm(r)
  BY <1>2 DEF OthersCalm, Calm
<1> QED  BY <1>1, <1>3

\* The parent of a row that is saved is a row of the form that is not below it.
LEMMA SaveWriteOK ==
  ASSUME IInv, NEW r \in Requests, SaveWrite(r)
  PROVE  IInv'
<1> PICK f : f = job[r].form
  OBVIOUS
<1> PICK n : n = job[r].node
  OBVIOUS
<1> DEFINE row == IF base[r] = NULL THEN copy[r] ELSE Merge(nodes[n], base[r], copy[r])
           done == (base[r] = NULL <=> nodes[n] = NULL) /\ Admissible(n, row)
<1>1. /\ pc[r] = "saveWrite" /\ Cross(r)
      /\ UNCHANGED <<forms, born, cells, rules, lists, campaigns, served, surprised, loosened>>
      /\ nodes' = IF done THEN [nodes EXCEPT ![n] = row] ELSE nodes
      /\ Answer(r, "importLink", ~done /\ (nodes[n] = NULL => base[r] = NULL))
  BY DEF SaveWrite
<1>2. InHand(r) /\ Walked(r) /\ TypeOK /\ TableTypes
  BY DEF IInv, RequestsOK, RequestOK, TypeOK
<1> PICK T : T = Side(n)
  OBVIOUS
<1>3. /\ f \in Forms /\ n \in Nodes /\ born[n] = f /\ T \in {Indicators, Attributes} /\ T \subseteq Nodes
      /\ n \in T /\ \A m \in T : Side(m) = T /\ RowOf(m) = RowOf(n)
      /\ copy[r] \in RowOf(n) /\ copy[r].form = f /\ copy[r].parent \in Ids(f, T) \cup {NULL}
  BY <1>1, <1>2, Sides DEF InHand, FormInHand, WithoutForm, RowInHand, Ids
<1>4. crossed \subseteq crossed'
  BY <1>1 DEF Cross
<1>5. Grown
  BY <1>1, <1>4 DEF Grown
<1>6. Moves(r) /\ RequestOK(r)'
  BY <1>1, <1>5, AnswerMoves DEF WithoutForm
<1>7. nodes[n] # NULL => nodes[n] \in RowOf(n) /\ nodes[n].form = f
  BY <1>2, <1>3, RowTable
\* What is written.
<1>8. ASSUME done
      PROVE  /\ row \in RowOf(n) /\ row # NULL /\ row.form = f
             /\ nodes'[n] = row /\ \A m \in Nodes \ {n} : nodes'[m] = nodes[m]
             /\ row.parent # NULL => row.parent \in Ids(f, T) /\ nodes'[row.parent] # NULL
             /\ row.parent = copy[r].parent \/ (nodes[n] # NULL /\ row.parent = nodes[n].parent)
  <2>1. /\ row \in RowOf(n) /\ row.form = f
        /\ row.parent = copy[r].parent \/ (nodes[n] # NULL /\ row.parent = nodes[n].parent)
    <3>1. CASE base[r] = NULL
      BY <1>3, <3>1
    <3>2. CASE base[r] # NULL
      <4>1. nodes[n] # NULL
        BY <1>8, <3>2
      <4>2. /\ Merge(nodes[n], base[r], copy[r]) \in RowOf(n)
            /\ Merge(nodes[n], base[r], copy[r]).parent \in {nodes[n].parent, copy[r].parent}
            /\ Merge(nodes[n], base[r], copy[r]).form = f
        BY <1>3, <1>7, <4>1, MergeRow
      <4> QED  BY <3>2, <4>1, <4>2
    <3> QED  BY <3>1, <3>2
  <2> HIDE DEF row
  <2>2. row # NULL
    BY <2>1, Rows DEF RowOf
  <2>3. nodes'[n] = row /\ \A m \in Nodes \ {n} : nodes'[m] = nodes[m]
    BY <1>1, <1>2, <1>3, <1>8 DEF TableTypes
  <2>4. ASSUME row.parent # NULL PROVE row.parent \in Ids(f, T) /\ nodes'[row.parent] # NULL
    <3>1. row.parent \in Side(n) /\ nodes[row.parent] # NULL
      BY <1>8, <2>4 DEF Admissible
    <3>2. row.parent \in Ids(f, T)
      <4>1. CASE row.parent = copy[r].parent
        BY <1>3, <2>4, <4>1
      <4>2. CASE nodes[n] # NULL /\ row.parent = nodes[n].parent
        <5>1. nodes[n].parent \in Of(f, T)
          BY <1>3, <1>7, <2>4, <4>2 DEF IInv, TablesOK, RowsOK
        <5> QED  BY <1>2, <1>3, <4>2, <5>1, OfIds
      <4> QED  BY <2>1, <4>1, <4>2
    <3>3. row.parent \in Nodes
      BY <1>3, <3>1
    <3> QED  BY <2>2, <2>3, <3>1, <3>2, <3>3
  <2> QED  BY <2>1, <2>2, <2>3, <2>4
<1> HIDE DEF row, done
<1>9. TableTypes'
  <2>1. nodes' \in [Nodes -> IndicatorRow \cup AttributeRow \cup {NULL}]
    <3>1. done => row \in IndicatorRow \cup AttributeRow
      BY <1>8 DEF RowOf
    <3> QED  BY <1>1, <1>2, <3>1 DEF TableTypes
  <2>2. \A m \in Nodes : nodes'[m] # NULL => nodes'[m] \in RowOf(m) /\ nodes'[m].form = born'[m]
    <3>1. CASE done
      BY <1>1, <1>2, <1>3, <1>8, <3>1 DEF TableTypes
    <3>2. CASE ~done
      BY <1>1, <1>2, <3>2 DEF TableTypes
    <3> QED  BY <3>1, <3>2
  <2>3. crossed' \subseteq Forms
    BY <1>1, <1>2 DEF Cross, TableTypes
  <2> QED  BY <1>1, <1>2, <2>1, <2>2, <2>3 DEF TableTypes
<1>10. OthersCalm(r)
  BY <1>1, <1>5, <1>9, CrossCalm
<1>11. \A m \in Nodes : nodes[m] # NULL => nodes'[m] # NULL
  BY <1>1, <1>8
<1>12. CellsOK' /\ RulesOK' /\ CampaignsOK' /\ OneUnitPerIndicator' /\ TypesStay /\ OthersAlone(r)
  BY <1>1, <1>5, <1>9, <1>11, RowsStay
<1>13. RowsOK'
  <2>1. \A m \in Nodes : born'[m] # NULL => forms'[born'[m]] # NULL
    BY <1>1 DEF IInv, TablesOK, RowsOK
  <2>2. ASSUME NEW m \in Nodes, nodes'[m] # NULL, nodes'[m].parent # NULL
        PROVE  (nodes[m].parent \in Of(nodes[m].form, Side(m)))'
    <3>1. CASE done /\ m = n
      <4>1. row.parent \in T /\ row.parent \in Nodes /\ nodes'[row.parent] # NULL /\ born'[row.parent] = f
        BY <1>1, <1>3, <1>8, <2>2, <3>1 DEF Ids
      <4>2. nodes'[row.parent].form = f
        BY <1>9, <4>1 DEF TableTypes
      <4> QED  BY <1>8, <3>1, <4>1, <4>2 DEF Of
    <3>2. CASE ~done \/ m # n
      <4>1. nodes'[m] = nodes[m]
        BY <1>1, <1>8, <3>2
      <4>2. nodes[m].parent \in Of(nodes[m].form, Side(m))
        BY <2>2, <4>1 DEF IInv, TablesOK, RowsOK
      <4>3. nodes[m].parent \in Nodes /\ nodes[nodes[m].parent] # NULL
            /\ nodes[nodes[m].parent].form = nodes[m].form
        BY <4>2, Sides DEF Of
      <4>4. nodes'[nodes[m].parent] # NULL /\ nodes'[nodes[m].parent].form = nodes[m].form
        BY <1>1, <1>5, <1>9, <1>11, <4>3, RowsStay
      <4> QED  BY <4>1, <4>2, <4>3, <4>4 DEF Of
    <3> QED  BY <3>1, <3>2
  <2> QED  BY <2>1, <2>2 DEF RowsOK, Of
<1>14. ForestsOK'
  <2> SUFFICES ASSUME NEW g \in Forms \ crossed', NEW U \in {Indicators, Attributes},
                      NEW S \in (SUBSET Of(g, U)') \ {{}}, ~Rooted(S)'
               PROVE  FALSE
    BY DEF ForestsOK
  <2>1. g \in Forms \ crossed /\ U \subseteq Nodes
    BY <1>4 DEF Nodes
  <2>2. \A m \in S : m \in U /\ m \in Nodes /\ nodes'[m] # NULL /\ nodes'[m].form = g /\ nodes'[m].parent \in S
    BY <2>1 DEF Of, Rooted
  <2>3. NULL \notin S
    BY <2>2, Rows
  <2>4. CASE ~done \/ n \notin S \/ (nodes[n] # NULL /\ nodes'[n].parent = nodes[n].parent)
    <3>1. ASSUME NEW m \in S
          PROVE  nodes[m] # NULL /\ nodes[m].form = g /\ nodes[m].parent = nodes'[m].parent
      <4>1. CASE nodes'[m] = nodes[m]
        BY <2>2, <4>1
      <4>2. CASE nodes'[m] # nodes[m]
        BY <1>1, <1>7, <1>8, <2>2, <2>4, <4>2
      <4> QED  BY <4>1, <4>2
    <3>2. S \in (SUBSET Of(g, U)) \ {{}}
      BY <2>2, <3>1 DEF Of
    <3>3. Rooted(S)
      BY <2>1, <3>2 DEF IInv, TablesOK, ForestsOK
    <3> QED  BY <2>2, <3>1, <3>3 DEF Rooted
  <2>5. CASE done /\ n \in S /\ ~(nodes[n] # NULL /\ nodes'[n].parent = nodes[n].parent)
    <3>1. /\ g = f /\ U = T /\ nodes'[n] = row /\ row.parent = copy[r].parent
          /\ copy[r].parent \in S
      <4>1. nodes'[n] = row /\ row.form = f /\ row.parent = copy[r].parent
        BY <1>8, <2>5
      <4>2. g = f /\ copy[r].parent \in S
        BY <2>2, <2>5, <4>1
      <4>3. n \in U
        BY <2>2, <2>5
      <4>4. U = T
        BY <1>3, <4>3, IdsAssumption
      <4> QED  BY <4>1, <4>2, <4>4
    <3>2. PICK A : copy[r].parent \in A /\ Above(A, n, f, {NULL})
      BY <1>1, <1>2, <2>1, <2>3, <3>1 DEF Walked
    <3> DEFINE B == S \cap A
    <3>3. n \notin A /\ B # {}
      BY <3>1, <3>2 DEF Above
    <3>4. \A m \in B : nodes[m] = nodes'[m] /\ nodes[m] # NULL /\ m \in Of(f, T)
      BY <1>8, <2>2, <2>5, <3>1, <3>3 DEF Of
    <3>5. \A m \in B : nodes[m].parent \in A \cup {NULL}
      BY <3>2, <3>4 DEF Above
    <3>6. \A m \in B : nodes[m].parent \in B
      BY <2>2, <2>3, <3>4, <3>5
    <3>7. Rooted(B)
      BY <1>3, <2>1, <3>1, <3>3, <3>4 DEF IInv, TablesOK, ForestsOK
    <3> QED  BY <3>6, <3>7 DEF Rooted
  <2> QED  BY <2>4, <2>5
<1> QED  BY <1>5, <1>6, <1>9, <1>10, <1>12, <1>13, <1>14, StepOK DEF TablesOK

=============================================================================
