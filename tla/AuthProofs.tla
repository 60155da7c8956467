----------------------------- MODULE AuthProofs -----------------------------
(***************************************************************************)
(* AuthSessions proved, for any number of users, requests and passwords.   *)
(* TypeOK is not inductive: a statement in the middle of a handler relies on*)
(* what the ones before it left (InHand), and a session or a reset is stored*)
(* under the number of the request that made it, so numbers must not be used*)
(* twice (NumbersOK).  Then what it promises of sessions, resets and locked*)
(* accounts: each property gets an inductive invariant of its own beside   *)
(* TypeInv, and most steps keep it for one reason, which is a lemma.       *)
(***************************************************************************)
EXTENDS AuthSessions, TLAPS

\* What request r has in hand, by the statement it executes next.
InHand(r) ==
  LET j == job[r] IN
  /\ pc[r] = "idle" => j = NoJob
  /\ pc[r] # "idle" => j.no \in 1..served /\ j.user \in Users
  /\ pc[r] \in {"count", "recount", "lock", "clear"} => j.op = "login"
  /\ pc[r] = "issue" => j.op \in {"login", "refresh"}
  /\ pc[r] = "rotate" => j.op = "refresh"
  /\ pc[r] = "revoke" => j.op \in {"logout", "change", "reset"}
  /\ pc[r] = "compare" => j.op = "change"
  /\ pc[r] = "find" => j.op \in {"change", "reset"}
  /\ pc[r] \in {"load", "write"} => j.op \in {"change", "reset", "admin"}
  /\ pc[r] = "use" => j.op = "reset"
  /\ j.op = "login" => j.token = 0 /\ seen[r] \in UserRow
  /\ j.op = "refresh" => /\ j.token \in Numbers
                         /\ tokens[j.token] # NULL /\ tokens[j.token].user = j.user
  /\ j.op = "logout" /\ j.token # 0 => tokens[j.token] # NULL
  /\ j.op \in {"change", "reset"} => j.password \in Passwords
  /\ j.op = "reset" => /\ j.reset \in Numbers
                       /\ resets[j.reset] # NULL /\ resets[j.reset].user = j.user
  /\ pc[r] \in {"load", "write"} => mem[r] \in UserRow /\ seen[r] \in UserRow
  /\ pc[r] = "write" => base[r] \in UserRow

InHandOK == \A r \in Requests : InHand(r)

\* The numbers of the requests at work are their own, and nothing is stored under
\* them yet; what is stored under a number is a session or a reset, not both.
NumbersOK ==
  /\ \A n \in Numbers : tokens[n] # NULL \/ resets[n] # NULL => n <= served
  /\ \A n \in Numbers : tokens[n] = NULL \/ resets[n] = NULL
  /\ \A r \in Requests : pc[r] # "idle" =>
       tokens[job[r].no] = NULL /\ resets[job[r].no] = NULL
  /\ \A r, q \in Requests : pc[r] # "idle" /\ pc[q] # "idle" /\ r # q =>
       job[r].no # job[q].no

TypeInv == TypeOK /\ InHandOK /\ NumbersOK

\* A step of r leaves the memory of every other request alone.
OthersUntouched(r) ==
  \A q \in Requests \ {r} :
    /\ pc'[q] = pc[q] /\ job'[q] = job[q]
    /\ seen'[q] = seen[q] /\ mem'[q] = mem[q] /\ base'[q] = base[q]

\* No step takes a session or a reset away from its user, or a number back.
Kept ==
  /\ served <= served'
  /\ \A n \in Numbers : tokens[n] # NULL =>
       tokens'[n] # NULL /\ tokens'[n].user = tokens[n].user
  /\ \A n \in Numbers : resets[n] # NULL =>
       resets'[n] # NULL /\ resets'[n].user = resets[n].user

\* The tables hold nothing new.
NothingNew ==
  /\ served' = served
  /\ \A n \in Numbers : tokens'[n] = NULL <=> tokens[n] = NULL
  /\ \A n \in Numbers : resets'[n] = NULL <=> resets[n] = NULL

TablesOK ==
  /\ users \in [Users -> UserRow]
  /\ tokens \in [Numbers -> RefreshToken \cup {NULL}]
  /\ resets \in [Numbers -> PasswordReset \cup {NULL}]
  /\ now \in Nat /\ served \in 0..MaxRequests

RequestsOK ==
  /\ pc \in [Requests -> Points]
  /\ job \in [Requests -> Jobs]
  /\ seen \in [Requests -> UserRow \cup {NULL}]
  /\ mem \in [Requests -> UserRow \cup {NULL}]
  /\ base \in [Requests -> UserRow \cup {NULL}]

HistoryOK ==
  /\ spent \in [Numbers -> Nat]
  /\ raced \subseteq Numbers
  /\ late \subseteq Requests
  /\ past \in [Users -> SUBSET (Numbers \cup {0})]
  /\ ended \in [Users -> SUBSET (Numbers \cup {0})]
  /\ reverted \subseteq Users
  /\ shaken \subseteq Users
  /\ failedAt \in [Users -> Nat]

LEMMA TypeParts == TypeOK <=> TablesOK /\ RequestsOK /\ HistoryOK
BY DEF TypeOK, TablesOK, RequestsOK, HistoryOK

\* What the requests other than r have in hand stays there.
LEMMA OthersInHand ==
  ASSUME TablesOK, RequestsOK, InHandOK, NEW r \in Requests, OthersUntouched(r), Kept,
         served' \in 0..MaxRequests, InHand(r)'
  PROVE  InHandOK'
<1> SUFFICES ASSUME NEW q \in Requests, q # r PROVE InHand(q)'
  BY DEF InHandOK
<1>1. InHand(q)
  BY DEF InHandOK
<1>2. /\ pc'[q] = pc[q] /\ job'[q] = job[q] /\ seen'[q] = seen[q]
      /\ mem'[q] = mem[q] /\ base'[q] = base[q]
  BY DEF OthersUntouched
<1>3. job[q] \in Jobs
  BY DEF RequestsOK
<1>4. job[q].no \in 1..served => job[q].no \in 1..served'
  BY DEF Kept, TablesOK
<1>5. job[q].op = "logout" /\ job[q].token # 0 => job[q].token \in Numbers
  BY <1>3 DEF Jobs
<1> QED  BY <1>1, <1>2, <1>4, <1>5 DEF InHand, Kept

\* Numbers stay apart in a step that stores nothing new and after which r is idle
\* or goes on under its number.
LEMMA NumbersStay ==
  ASSUME NumbersOK, NEW r \in Requests, OthersUntouched(r), NothingNew,
         InHandOK, RequestsOK, TablesOK,
         pc'[r] = "idle" \/ (pc[r] # "idle" /\ job'[r].no = job[r].no)
  PROVE  NumbersOK'
<1>1. \A q \in Requests : pc'[q] # "idle" => pc[q] # "idle" /\ job'[q].no = job[q].no
  BY DEF OthersUntouched
<1>2. \A q \in Requests : pc[q] # "idle" => job[q].no \in Numbers
  BY ConstantsAssumption DEF InHandOK, InHand, TablesOK, Numbers
<1> QED  BY <1>1, <1>2 DEF NumbersOK, NothingNew

\* And when r is taken up under the next number.
LEMMA NumbersGrow ==
  ASSUME NumbersOK, NEW r \in Requests, OthersUntouched(r), UNCHANGED <<tokens, resets>>,
         InHandOK, RequestsOK, TablesOK, served < MaxRequests, pc[r] = "idle",
         served' = served + 1, job'[r].no = served + 1
  PROVE  NumbersOK'
<1>1. served + 1 \in Numbers /\ served \in Nat
  BY ConstantsAssumption DEF TablesOK, Numbers
<1>2. tokens[served + 1] = NULL /\ resets[served + 1] = NULL
  BY <1>1 DEF NumbersOK
<1>3. \A q \in Requests \ {r} : /\ pc'[q] = pc[q] /\ job'[q] = job[q]
                                /\ pc[q] # "idle" => job[q].no \in 1..served
  BY DEF OthersUntouched, InHandOK, InHand
<1>4. \A n \in Numbers : tokens'[n] # NULL \/ resets'[n] # NULL => n <= served'
  BY <1>1 DEF NumbersOK, Numbers
<1>5. ASSUME NEW q \in Requests, pc'[q] # "idle"
      PROVE  tokens'[job'[q].no] = NULL /\ resets'[job'[q].no] = NULL
  BY <1>2, <1>3, <1>5 DEF NumbersOK
<1>6. ASSUME NEW p \in Requests, NEW q \in Requests, p # q, pc'[p] # "idle", pc'[q] # "idle"
      PROVE  job'[p].no # job'[q].no
  <2>1. CASE p # r /\ q # r
    BY <1>3, <1>6, <2>1 DEF NumbersOK
  <2>2. CASE p = r
    BY <1>1, <1>3, <1>6, <2>2
  <2>3. CASE q = r
    BY <1>1, <1>3, <1>6, <2>3
  <2> QED  BY <2>1, <2>2, <2>3
<1> QED  BY <1>4, <1>5, <1>6 DEF NumbersOK

-----------------------------------------------------------------------------
(* How a request goes on.                                                  *)

\* What has to be shown of a step of r.
LEMMA StepTyped ==
  ASSUME TypeInv, NEW r \in Requests, OthersUntouched(r), Kept,
         TablesOK', RequestsOK', HistoryOK', NumbersOK', InHand(r)'
  PROVE  TypeInv'
<1>1. InHandOK'
  BY OthersInHand, TypeParts DEF TypeInv, TablesOK
<1>2. TypeOK'
  BY DEF TypeOK, TablesOK, RequestsOK, HistoryOK
<1> QED  BY <1>1, <1>2 DEF TypeInv

\* A request that ends.
LEMMA AnswerTyped ==
  ASSUME TypeInv, NEW r \in Requests, Answer(r)
  PROVE  /\ RequestsOK' /\ OthersUntouched(r) /\ InHand(r)'
         /\ pc'[r] = "idle" /\ job'[r] = NoJob /\ served' = served
<1>1. NoJob \in Jobs
  BY DEF NoJob, Jobs
<1>2. RequestsOK' /\ OthersUntouched(r)
  BY <1>1, TypeParts DEF TypeInv, RequestsOK, OthersUntouched, Answer, Points
<1>3. pc'[r] = "idle" /\ job'[r] = NoJob /\ served' = served
  BY TypeParts DEF TypeInv, RequestsOK, Answer
<1>4. InHand(r)'
  BY <1>3 DEF InHand, NoJob
<1> QED  BY <1>2, <1>3, <1>4

\* A request that goes on to its next statement.
LEMMA GotoTyped ==
  ASSUME TypeInv, NEW r \in Requests, NEW point \in Points, Goto(r, point)
  PROVE  /\ RequestsOK' /\ OthersUntouched(r)
         /\ pc'[r] = point /\ job' = job /\ seen' = seen /\ mem' = mem /\ base' = base
         /\ served' = served
BY TypeParts DEF TypeInv, RequestsOK, OthersUntouched, Goto

\* A request that is taken up.
LEMMA BeginTyped ==
  ASSUME TypeInv, NEW r \in Requests, NEW op \in Jobs, NEW u \in Users,
         NEW point \in Points \ {"idle"}, NEW row \in UserRow \cup {NULL},
         Begin(r, op, u, point, row), UNCHANGED <<tokens, resets>>
  PROVE  /\ RequestsOK' /\ OthersUntouched(r) /\ NumbersOK' /\ Kept
         /\ served' = served + 1 /\ served' \in 0..MaxRequests
         /\ pc'[r] = point /\ job'[r].no = served' /\ job'[r].no \in 1..served'
         /\ job'[r].user = u
         /\ job'[r].op = op.op /\ job'[r].token = op.token
         /\ job'[r].reset = op.reset /\ job'[r].password = op.password
         /\ seen'[r] = row /\ mem'[r] = row
<1> USE TypeParts DEF TypeInv
<1>1. served \in 0..MaxRequests /\ served < MaxRequests /\ served' = served + 1
  BY DEF TablesOK, Begin
<1>2. /\ served + 1 \in Numbers /\ served' \in 0..MaxRequests /\ served <= served'
      /\ served' \in 1..served'
  BY <1>1, ConstantsAssumption DEF Numbers
<1>3. PICK j : j = [op EXCEPT !.no = served + 1, !.user = u]
  OBVIOUS
<1>4. /\ j \in Jobs /\ j.no = served + 1 /\ j.user = u /\ j.op = op.op /\ j.token = op.token
      /\ j.reset = op.reset /\ j.password = op.password
  BY <1>2, <1>3 DEF Jobs
<1>5. /\ pc' = [pc EXCEPT ![r] = point] /\ job' = [job EXCEPT ![r] = j]
      /\ seen' = [seen EXCEPT ![r] = row] /\ mem' = [mem EXCEPT ![r] = row] /\ base' = base
  BY <1>3 DEF Begin
<1>6. RequestsOK' /\ OthersUntouched(r)
  BY <1>4, <1>5 DEF RequestsOK, OthersUntouched
<1>7. pc'[r] = point /\ job'[r] = j /\ seen'[r] = row /\ mem'[r] = row
  BY <1>5 DEF RequestsOK
<1>8. NumbersOK'
  BY <1>1, <1>4, <1>6, <1>7, NumbersGrow DEF Begin
<1>9. Kept
  BY <1>2 DEF Kept
<1> QED  BY <1>1, <1>2, <1>4, <1>6, <1>7, <1>8, <1>9

-----------------------------------------------------------------------------
(* One lemma for each kind of action.                                      *)

\* The requests that are taken up and write nothing yet.
LEMMA LoginTyped ==
  ASSUME TypeInv, NEW r \in Requests, NEW u \in Users, NEW password \in Passwords,
         Login(r, u, password)
  PROVE  TypeInv'
<1>1. PICK point \in {"clear", "count"} : Begin(r, About("login"), u, point, users[u])
  BY DEF Login
<1>2. users[u] \in UserRow
  BY DEF TypeInv, TypeOK
<1>3. PICK op : op = About("login")
  OBVIOUS
<1>4. op \in Jobs /\ op.op = "login" /\ op.token = 0
  BY <1>3 DEF About, NoJob, Jobs
<1>5. UNCHANGED <<tables, now, history>>
  BY DEF Login
<1>6. /\ RequestsOK' /\ OthersUntouched(r) /\ NumbersOK' /\ Kept
      /\ served' = served + 1 /\ served' \in 0..MaxRequests
      /\ pc'[r] = point /\ job'[r].no \in 1..served' /\ job'[r].user = u
      /\ job'[r].op = "login" /\ job'[r].token = 0 /\ seen'[r] = users[u]
  BY <1>1, <1>2, <1>3, <1>4, <1>5, BeginTyped DEF tables, Points
<1>7. InHand(r)'
  BY <1>2, <1>6, ConstantsAssumption DEF InHand, TypeInv, TypeOK
<1>8. TablesOK' /\ HistoryOK'
  BY <1>5, <1>6, TypeParts DEF TypeInv, TablesOK, HistoryOK, tables, history
<1> QED  BY <1>6, <1>7, <1>8, StepTyped

LEMMA RefreshTyped ==
  ASSUME TypeInv, NEW r \in Requests, NEW n \in Numbers, RefreshToken_(r, n)
  PROVE  TypeInv'
<1>1. PICK u : u = tokens[n].user
  OBVIOUS
<1>2. tokens[n] # NULL /\ u \in Users /\ users[u] \in UserRow
  BY <1>1 DEF RefreshToken_, Usable, TypeInv, TypeOK, RefreshToken
<1>3. PICK op : op = [About("refresh") EXCEPT !.token = n]
  OBVIOUS
<1>4. op \in Jobs /\ op.op = "refresh" /\ op.token = n
  BY <1>3 DEF About, NoJob, Jobs
<1>5. Begin(r, op, u, "rotate", users[u])
  BY <1>1, <1>3 DEF RefreshToken_
<1>6. UNCHANGED <<tables, now, spent, late, past, ended, reverted, shaken, failedAt>>
  BY DEF RefreshToken_
<1>7. /\ RequestsOK' /\ OthersUntouched(r) /\ NumbersOK' /\ Kept
      /\ served' = served + 1 /\ served' \in 0..MaxRequests
      /\ pc'[r] = "rotate" /\ job'[r].no \in 1..served' /\ job'[r].user = u
      /\ job'[r].op = "refresh" /\ job'[r].token = n
  BY <1>2, <1>4, <1>5, <1>6, BeginTyped DEF tables, Points
<1>8. InHand(r)'
  BY <1>1, <1>2, <1>6, <1>7, ConstantsAssumption DEF InHand, tables
<1>9. raced' \subseteq Numbers
  BY DEF RefreshToken_, Hold, TypeInv, TypeOK
<1>10. TablesOK' /\ HistoryOK'
  BY <1>6, <1>7, <1>9, TypeParts DEF TypeInv, TablesOK, HistoryOK, tables
<1> QED  BY <1>7, <1>8, <1>10, StepTyped

LEMMA LogoutTyped ==
  ASSUME TypeInv, NEW r \in Requests, NEW u \in Users, NEW n \in Numbers \cup {0},
         Logout(r, u, n)
  PROVE  TypeInv'
<1>1. PICK op : op = [About("logout") EXCEPT !.token = n]
  OBVIOUS
<1>2. op \in Jobs /\ op.op = "logout" /\ op.token = n
  BY <1>1 DEF About, NoJob, Jobs
<1>3. Begin(r, op, u, "revoke", NULL) /\ UNCHANGED <<tables, now, history>>
  BY <1>1 DEF Logout
<1>4. /\ RequestsOK' /\ OthersUntouched(r) /\ NumbersOK' /\ Kept
      /\ served' = served + 1 /\ served' \in 0..MaxRequests
      /\ pc'[r] = "revoke" /\ job'[r].no \in 1..served' /\ job'[r].user = u
      /\ job'[r].op = "logout" /\ job'[r].token = n
  BY <1>2, <1>3, BeginTyped DEF tables, Points
<1>5. n # 0 => tokens'[n] # NULL
  BY <1>3 DEF Logout, tables
<1>6. InHand(r)'
  BY <1>4, <1>5, ConstantsAssumption DEF InHand
<1>7. TablesOK' /\ HistoryOK'
  BY <1>3, <1>4, TypeParts DEF TypeInv, TablesOK, HistoryOK, tables, history
<1> QED  BY <1>4, <1>6, <1>7, StepTyped

LEMMA ChangeTyped ==
  ASSUME TypeInv, NEW r \in Requests, NEW u \in Users, NEW new \in Passwords,
         ChangePassword(r, u, new)
  PROVE  TypeInv'
<1>1. PICK op : op = [About("change") EXCEPT !.password = new]
  OBVIOUS
<1>2. op \in Jobs /\ op.op = "change" /\ op.password = new
  BY <1>1 DEF About, NoJob, Jobs
<1>3. Begin(r, op, u, "compare", NULL) /\ UNCHANGED <<tables, now, history>>
  BY <1>1 DEF ChangePassword
<1>4. /\ RequestsOK' /\ OthersUntouched(r) /\ NumbersOK' /\ Kept
      /\ served' = served + 1 /\ served' \in 0..MaxRequests
      /\ pc'[r] = "compare" /\ job'[r].no \in 1..served' /\ job'[r].user = u
      /\ job'[r].op = "change" /\ job'[r].password = new
  BY <1>2, <1>3, BeginTyped DEF tables, Points
<1>5. InHand(r)'
  BY <1>4, ConstantsAssumption DEF InHand
<1>6. TablesOK' /\ HistoryOK'
  BY <1>3, <1>4, TypeParts DEF TypeInv, TablesOK, HistoryOK, tables, history
<1> QED  BY <1>4, <1>5, <1>6, StepTyped

LEMMA ResetTyped ==
  ASSUME TypeInv, NEW r \in Requests, NEW n \in Numbers, NEW new \in Passwords,
         ResetPassword(r, n, new)
  PROVE  TypeInv'
<1>1. PICK u : u = resets[n].user
  OBVIOUS
<1>2. resets[n] # NULL /\ u \in Users
  BY <1>1 DEF ResetPassword, TypeInv, TypeOK, PasswordReset
<1>3. PICK op : op = [About("reset") EXCEPT !.reset = n, !.password = new]
  OBVIOUS
<1>4. op \in Jobs /\ op.op = "reset" /\ op.reset = n /\ op.password = new
  BY <1>3 DEF About, NoJob, Jobs
<1>5. Begin(r, op, u, "find", NULL)
  BY <1>1, <1>3 DEF ResetPassword
<1>6. UNCHANGED <<tables, now, spent, late, past, ended, reverted, shaken, failedAt>>
  BY DEF ResetPassword
<1>7. /\ RequestsOK' /\ OthersUntouched(r) /\ NumbersOK' /\ Kept
      /\ served' = served + 1 /\ served' \in 0..MaxRequests
      /\ pc'[r] = "find" /\ job'[r].no \in 1..served' /\ job'[r].user = u
      /\ job'[r].op = "reset" /\ job'[r].reset = n /\ job'[r].password = new
  BY <1>2, <1>4, <1>5, <1>6, BeginTyped DEF tables, Points
<1>8. InHand(r)'
  BY <1>1, <1>2, <1>6, <1>7, ConstantsAssumption DEF InHand, tables
<1>9. raced' \subseteq Numbers
  BY DEF ResetPassword, Hold, TypeInv, TypeOK
<1>10. TablesOK' /\ HistoryOK'
  BY <1>6, <1>7, <1>9, TypeParts DEF TypeInv, TablesOK, HistoryOK, tables
<1> QED  BY <1>7, <1>8, <1>10, StepTyped

\* forgotPassword stores a reset under a number of its own.
LEMMA ForgotTyped ==
  ASSUME TypeInv, NEW r \in Requests, NEW u \in Users, ForgotPassword(r, u)
  PROVE  TypeInv'
<1> USE TypeParts DEF TypeInv
<1>1. PICK n : n = served + 1
  OBVIOUS
<1>2. n \in Numbers /\ served' = n /\ served' \in 0..MaxRequests /\ served \in Nat
  BY <1>1, ConstantsAssumption DEF ForgotPassword, TablesOK, Numbers
<1>3. PICK reset : reset = [user |-> u, expires |-> now + ResetTime, used |-> FALSE]
  OBVIOUS
<1>4. reset \in PasswordReset /\ reset # NULL
  <2>1. now + ResetTime \in Nat
    BY ConstantsAssumption DEF TablesOK
  <2>2. reset \in PasswordReset
    BY <1>3, <2>1 DEF PasswordReset
  <2> QED  BY <2>2, NullAssumption
<1>5. resets' = [resets EXCEPT ![n] = reset]
  BY <1>1, <1>3 DEF ForgotPassword
<1>6. UNCHANGED <<users, tokens, now, pc, job, seen, mem, base, history>>
  BY DEF ForgotPassword
<1>7. resets'[n] = reset /\ \A m \in Numbers \ {n} : resets'[m] = resets[m]
  BY <1>2, <1>5 DEF TablesOK
<1>8. TablesOK' /\ RequestsOK' /\ HistoryOK'
  BY <1>2, <1>4, <1>5, <1>6 DEF TablesOK, RequestsOK, HistoryOK, history
<1>9. resets[n] = NULL /\ tokens[n] = NULL
  BY <1>1, <1>2 DEF NumbersOK
<1>10. Kept
  BY <1>1, <1>2, <1>6, <1>7, <1>9 DEF Kept
<1>11. \A q \in Requests : pc[q] # "idle" => job[q].no \in 1..served
  BY DEF InHandOK, InHand
<1>12. NumbersOK'
  <2>1. \A m \in Numbers : tokens'[m] # NULL \/ resets'[m] # NULL => m <= served'
    BY <1>1, <1>2, <1>6, <1>7 DEF NumbersOK, Numbers
  <2>2. \A m \in Numbers : tokens'[m] = NULL \/ resets'[m] = NULL
    BY <1>6, <1>7, <1>9 DEF NumbersOK
  <2>3. \A q \in Requests : pc[q] # "idle" => job[q].no \in Numbers \ {n}
    BY <1>1, <1>2, <1>11, ConstantsAssumption DEF Numbers, TablesOK
  <2>4. \A q \in Requests : pc'[q] # "idle" =>
          tokens'[job'[q].no] = NULL /\ resets'[job'[q].no] = NULL
    BY <1>6, <1>7, <2>3 DEF NumbersOK
  <2>5. \A p, q \in Requests : pc'[p] # "idle" /\ pc'[q] # "idle" /\ p # q =>
          job'[p].no # job'[q].no
    BY <1>6 DEF NumbersOK
  <2> QED  BY <2>1, <2>2, <2>4, <2>5 DEF NumbersOK
<1>13. OthersUntouched(r)
  BY <1>6 DEF OthersUntouched
<1>14. InHand(r)'
  BY <1>6 DEF InHand, ForgotPassword, NoJob, InHandOK
<1> QED  BY <1>8, <1>10, <1>12, <1>13, <1>14, StepTyped

-----------------------------------------------------------------------------
(* The statements that write the account and go on, or end the request.    *)

\* A step that leaves sessions and resets alone and after which the request goes on
\* at another statement with the same job.
LEMMA GoesOn ==
  ASSUME TypeInv, NEW r \in Requests, pc[r] # "idle", NEW point \in Points \ {"idle"},
         Goto(r, point), UNCHANGED <<tokens, resets>>, TablesOK', HistoryOK', InHand(r)'
  PROVE  TypeInv'
<1>1. /\ RequestsOK' /\ OthersUntouched(r) /\ served' = served /\ job' = job
  BY GotoTyped
<1>2. NothingNew /\ Kept
  BY <1>1, TypeParts DEF NothingNew, Kept, TypeInv, TablesOK
<1>3. NumbersOK'
  BY <1>1, <1>2, NumbersStay, TypeParts DEF TypeInv
<1> QED  BY <1>1, <1>2, <1>3, StepTyped

\* A step that ends the request and stores nothing new.
LEMMA Ends ==
  ASSUME TypeInv, NEW r \in Requests, Answer(r), NothingNew, Kept, TablesOK', HistoryOK'
  PROVE  TypeInv'
<1>1. RequestsOK' /\ OthersUntouched(r) /\ InHand(r)' /\ pc'[r] = "idle"
  BY AnswerTyped
<1>2. NumbersOK'
  BY <1>1, NumbersStay, TypeParts DEF TypeInv
<1> QED  BY <1>1, <1>2, StepTyped

\* One that leaves the tables alone.
LEMMA Refuses ==
  ASSUME TypeInv, NEW r \in Requests, End(r),
         UNCHANGED <<tables, now, spent, past, ended, reverted, failedAt>>,
         raced' \subseteq Numbers, shaken' \subseteq Users
  PROVE  TypeInv'
<1>1. Answer(r) /\ late' \subseteq Requests /\ served' = served
  BY TypeParts DEF End, TypeInv, HistoryOK, Answer
<1>2. NothingNew /\ Kept /\ TablesOK' /\ HistoryOK'
  BY <1>1, TypeParts DEF NothingNew, Kept, TypeInv, TablesOK, HistoryOK, tables
<1> QED  BY <1>1, <1>2, Ends

LEMMA CountTyped ==
  ASSUME TypeInv, NEW r \in Requests, Count(r)
  PROVE  TypeInv'
<1> USE TypeParts DEF TypeInv
<1>1. InHand(r) /\ pc[r] = "count"
  BY DEF InHandOK, Count
<1>2. PICK u \in Users : u = job[r].user
  BY <1>1 DEF InHand
<1>3. users[u] \in UserRow
  BY DEF TablesOK
<1>4. PICK row : row = [users[u] EXCEPT !.failed = @ + 1]
  OBVIOUS
<1>5. row \in UserRow
  BY <1>3, <1>4 DEF UserRow
<1>6. users' = [users EXCEPT ![u] = row]
  BY <1>2, <1>4 DEF Count
<1>7. /\ Goto(r, "recount") /\ failedAt' = [failedAt EXCEPT ![u] = now]
      /\ UNCHANGED <<tokens, resets, now, spent, raced, late, past, ended, reverted, shaken>>
  BY <1>2 DEF Count
<1>8. TablesOK' /\ HistoryOK'
  BY <1>5, <1>6, <1>7 DEF TablesOK, HistoryOK, Goto
<1>9. pc'[r] = "recount" /\ job' = job /\ seen' = seen /\ served' = served
  BY <1>7, GotoTyped DEF Points
<1>10. InHand(r)'
  BY <1>1, <1>7, <1>9 DEF InHand
<1> QED  BY <1>1, <1>7, <1>8, <1>10, GoesOn DEF Points

LEMMA RecountTyped ==
  ASSUME TypeInv, NEW r \in Requests, Recount(r)
  PROVE  TypeInv'
<1> USE TypeParts DEF TypeInv
<1>1. InHand(r) /\ pc[r] = "recount"
  BY DEF InHandOK, Recount
<1>2. UNCHANGED <<tables, now, spent, raced, past, ended, reverted, shaken, failedAt>>
  BY DEF Recount
<1>3. CASE End(r)
  BY <1>2, <1>3, Refuses DEF HistoryOK
<1>4. CASE Goto(r, "lock") /\ UNCHANGED late
  <2>1. TablesOK' /\ HistoryOK'
    BY <1>2, <1>4 DEF TablesOK, HistoryOK, tables, Goto
  <2>2. pc'[r] = "lock" /\ job' = job /\ seen' = seen /\ served' = served
    BY <1>4, GotoTyped DEF Points
  <2>3. InHand(r)'
    BY <1>1, <1>2, <2>2 DEF InHand, tables
  <2> QED  BY <1>1, <1>2, <1>4, <2>1, <2>3, GoesOn DEF Points, tables
<1> QED  BY <1>3, <1>4 DEF Recount

LEMMA LockTyped ==
  ASSUME TypeInv, NEW r \in Requests, LockUntil(r)
  PROVE  TypeInv'
<1> USE TypeParts DEF TypeInv
<1>1. InHand(r) /\ pc[r] = "lock"
  BY DEF InHandOK, LockUntil
<1>2. PICK u \in Users : u = job[r].user
  BY <1>1 DEF InHand
<1>3. users[u] \in UserRow
  BY DEF TablesOK
<1>4. PICK row : row = [users[u] EXCEPT !.locked = now + LockTime]
  OBVIOUS
<1>5. now + LockTime \in Nat
  BY ConstantsAssumption DEF TablesOK
<1>6. row \in UserRow
  BY <1>3, <1>4, <1>5 DEF UserRow
<1>7. users' = [users EXCEPT ![u] = row]
  BY <1>2, <1>4 DEF LockUntil
<1>8. UNCHANGED <<tokens, resets, now, spent, raced, past, ended, reverted, shaken, failedAt>>
  BY DEF LockUntil
<1>9. Answer(r) /\ late' = late \ {r} /\ served' = served
  BY DEF LockUntil, End, Answer
<1>10. TablesOK' /\ HistoryOK'
  BY <1>6, <1>7, <1>8, <1>9 DEF TablesOK, HistoryOK
<1>11. NothingNew /\ Kept
  BY <1>8, <1>9 DEF NothingNew, Kept, TablesOK
<1> QED  BY <1>9, <1>10, <1>11, Ends

LEMMA ClearTyped ==
  ASSUME TypeInv, NEW r \in Requests, Clear(r)
  PROVE  TypeInv'
<1> USE TypeParts DEF TypeInv
<1>1. InHand(r) /\ pc[r] = "clear"
  BY DEF InHandOK, Clear
<1>2. PICK u \in Users : u = job[r].user
  BY <1>1 DEF InHand
<1>3. users[u] \in UserRow
  BY DEF TablesOK
<1>4. PICK row : row = [users[u] EXCEPT !.failed = 0, !.locked = 0]
  OBVIOUS
<1>5. row \in UserRow
  BY <1>3, <1>4 DEF UserRow
<1>6. users' = [users EXCEPT ![u] = row]
  BY <1>2, <1>4 DEF Clear, TablesOK
<1>7. Goto(r, "issue") /\ UNCHANGED <<tokens, resets, now, history>>
  BY DEF Clear
<1>8. TablesOK' /\ HistoryOK'
  BY <1>5, <1>6, <1>7 DEF TablesOK, HistoryOK, history, Goto
<1>9. pc'[r] = "issue" /\ job' = job /\ seen' = seen /\ served' = served
  BY <1>7, GotoTyped DEF Points
<1>10. InHand(r)'
  BY <1>1, <1>7, <1>9 DEF InHand
<1> QED  BY <1>1, <1>7, <1>8, <1>10, GoesOn DEF Points

\* What save writes is a row.
LEMMA MergeTyped ==
  ASSUME NEW row \in UserRow, NEW copy \in UserRow, NEW from \in UserRow
  PROVE  /\ Merge(row, copy, from) \in UserRow
         /\ Merge(row, copy, from).hash \in {row.hash, copy.hash}
         /\ Merge(row, copy, from).failed \in {row.failed, copy.failed}
         /\ Merge(row, copy, from).locked \in {row.locked, copy.locked}
<1>1. DOMAIN row = {"hash", "status", "failed", "locked", "deleted"}
  BY DEF UserRow
<1>2. PICK m : m = [hash |-> IF copy.hash # from.hash THEN copy.hash ELSE row.hash,
                    status |-> IF copy.status # from.status THEN copy.status ELSE row.status,
                    failed |-> IF copy.failed # from.failed THEN copy.failed ELSE row.failed,
                    locked |-> IF copy.locked # from.locked THEN copy.locked ELSE row.locked,
                    deleted |-> IF copy.deleted # from.deleted THEN copy.deleted ELSE row.deleted]
  OBVIOUS
<1>3. Merge(row, copy, from) = m
  BY <1>1, <1>2 DEF Merge
<1>4. m \in UserRow
  BY <1>2 DEF UserRow
<1> QED  BY <1>2, <1>3, <1>4

LEMMA CompareTyped ==
  ASSUME TypeInv, NEW r \in Requests, NEW old \in Passwords, Compare(r, old)
  PROVE  TypeInv'
<1> USE TypeParts DEF TypeInv
<1>1. InHand(r) /\ pc[r] = "compare"
  BY DEF InHandOK, Compare
<1>2. UNCHANGED <<tables, now, spent, raced, past, ended, reverted, shaken, failedAt>>
  BY DEF Compare
<1>3. CASE End(r)
  BY <1>2, <1>3, Refuses DEF HistoryOK
<1>4. CASE Goto(r, "find") /\ UNCHANGED late
  <2>1. TablesOK' /\ HistoryOK'
    BY <1>2, <1>4 DEF TablesOK, HistoryOK, tables, Goto
  <2>2. pc'[r] = "find" /\ job' = job /\ seen' = seen /\ served' = served
    BY <1>4, GotoTyped DEF Points
  <2>3. InHand(r)'
    BY <1>1, <1>2, <2>2 DEF InHand, tables
  <2> QED  BY <1>1, <1>2, <1>4, <2>1, <2>3, GoesOn DEF Points, tables
<1> QED  BY <1>3, <1>4 DEF Compare

LEMMA FindTyped ==
  ASSUME TypeInv, NEW r \in Requests, Find(r)
  PROVE  TypeInv'
<1> USE TypeParts DEF TypeInv
<1>1. InHand(r) /\ pc[r] = "find"
  BY DEF InHandOK, Find
<1>2. UNCHANGED <<tables, now, spent, raced, past, ended, reverted, shaken, failedAt>>
  BY DEF Find
<1>3. CASE End(r)
  BY <1>2, <1>3, Refuses DEF HistoryOK
<1>4. CASE ~End(r)
  <2>1. PICK u \in Users : u = job[r].user
    BY <1>1 DEF InHand
  <2>2. users[u] \in UserRow /\ job[r].password \in Passwords /\ job[r].no \in Numbers
    BY <1>1, ConstantsAssumption DEF InHand, TablesOK, Numbers
  <2>3. PICK hash : hash = [password |-> job[r].password, salt |-> job[r].no]
    OBVIOUS
  <2>4. hash \in Hash
    BY <2>2, <2>3 DEF Hash
  <2>5. PICK row : row = [users[u] EXCEPT !.hash = hash]
    OBVIOUS
  <2>6. row \in UserRow
    BY <2>2, <2>4, <2>5 DEF UserRow
  <2>7. /\ seen' = [seen EXCEPT ![r] = users[u]]
        /\ mem' = [mem EXCEPT ![r] = row]
        /\ pc' = [pc EXCEPT ![r] = "load"]
        /\ UNCHANGED <<served, job, base, late>>
    BY <1>4, <2>1, <2>3, <2>5 DEF Find
  <2>8. TablesOK' /\ HistoryOK'
    BY <1>2, <2>7 DEF TablesOK, HistoryOK, tables
  <2>9. RequestsOK' /\ OthersUntouched(r)
    BY <2>2, <2>6, <2>7 DEF RequestsOK, OthersUntouched, Points
  <2>10. pc'[r] = "load" /\ job' = job /\ seen'[r] = users[u] /\ mem'[r] = row /\ served' = served
    BY <2>7 DEF RequestsOK
  <2>11. NothingNew /\ Kept
    BY <1>2, <2>7 DEF NothingNew, Kept, tables, TablesOK
  <2>12. NumbersOK'
    BY <1>1, <2>9, <2>10, <2>11, NumbersStay
  <2>13. InHand(r)'
    BY <1>1, <1>2, <2>2, <2>6, <2>10 DEF InHand, tables
  <2> QED  BY <2>8, <2>9, <2>11, <2>12, <2>13, StepTyped
<1> QED  BY <1>3, <1>4

\* What an administrator makes of a row is a row.
LEMMA UpdateTyped ==
  ASSUME NEW row \in UserRow, NEW no \in Numbers, NEW new \in Update(row, no) \cup {Activate(row)}
  PROVE  new \in UserRow
<1>1. CASE new = Activate(row)
  BY <1>1 DEF Activate, UserRow, Statuses
<1>2. CASE new \in Update(row, no)
  <2>1. PICK hashes : hashes = {row.hash} \cup {[password |-> p, salt |-> no] : p \in Passwords}
    OBVIOUS
  <2>2. hashes \subseteq Hash
    BY <2>1 DEF Hash, UserRow
  <2>3. PICK c \in Statuses \X hashes : new = [row EXCEPT !.status = c[1], !.hash = c[2]]
    BY <1>2, <2>1 DEF Update
  <2>4. PICK hash \in Hash, status \in Statuses : status = c[1] /\ hash = c[2]
    BY <2>2
  <2>5. new = [row EXCEPT !.status = status, !.hash = hash]
    BY <2>3, <2>4
  <2> QED  BY <2>5 DEF UserRow
<1> QED  BY <1>1, <1>2

LEMMA AdministerTyped ==
  ASSUME TypeInv, NEW r \in Requests, NEW u \in Users, Administer(r, u)
  PROVE  TypeInv'
<1> USE TypeParts DEF TypeInv
<1>1. users[u] \in UserRow
  BY DEF TablesOK
<1>2. served + 1 \in Numbers /\ served \in 0..MaxRequests
  BY ConstantsAssumption DEF Administer, TablesOK, Numbers
<1>3. PICK row \in Update(users[u], served + 1) \cup {Activate(users[u])} :
        mem' = [mem EXCEPT ![r] = row]
  BY DEF Administer
<1>4. row \in UserRow
  BY <1>1, <1>2, <1>3, UpdateTyped
<1>5. PICK j : j = [About("admin") EXCEPT !.no = served + 1, !.user = u]
  OBVIOUS
<1>6. /\ j \in Jobs /\ j.no = served + 1 /\ j.user = u /\ j.op = "admin"
  BY <1>2, <1>5 DEF About, NoJob, Jobs
<1>7. /\ pc[r] = "idle" /\ served < MaxRequests /\ served' = served + 1
      /\ pc' = [pc EXCEPT ![r] = "load"]
      /\ job' = [job EXCEPT ![r] = j]
      /\ seen' = [seen EXCEPT ![r] = users[u]]
      /\ UNCHANGED <<tables, now, base, history>>
  BY <1>5 DEF Administer
<1>8. /\ served' \in 0..MaxRequests /\ served <= served' /\ served' \in 1..served'
  BY <1>2, <1>7, ConstantsAssumption
<1>9. TablesOK' /\ HistoryOK'
  BY <1>7, <1>8 DEF TablesOK, HistoryOK, tables, history
<1>10. RequestsOK' /\ OthersUntouched(r)
  BY <1>1, <1>3, <1>4, <1>6, <1>7 DEF RequestsOK, OthersUntouched, Points
<1>11. pc'[r] = "load" /\ job'[r] = j /\ seen'[r] = users[u] /\ mem'[r] = row
  BY <1>3, <1>7 DEF RequestsOK
<1>12. NumbersOK'
  BY <1>6, <1>7, <1>10, <1>11, NumbersGrow DEF tables
<1>13. Kept
  BY <1>7, <1>8 DEF Kept, tables
<1>14. InHand(r)'
  BY <1>1, <1>4, <1>6, <1>7, <1>8, <1>11 DEF InHand
<1> QED  BY <1>9, <1>10, <1>12, <1>13, <1>14, StepTyped

LEMMA RemoveTyped ==
  ASSUME TypeInv, NEW r \in Requests, NEW u \in Users, Remove(r, u)
  PROVE  TypeInv'
<1> USE TypeParts DEF TypeInv
<1>1. users[u] \in UserRow
  BY DEF TablesOK
<1>2. PICK row : row = [users[u] EXCEPT !.deleted = TRUE]
  OBVIOUS
<1>3. row \in UserRow
  BY <1>1, <1>2 DEF UserRow
<1>4. /\ users' = [users EXCEPT ![u] = row]
      /\ served < MaxRequests /\ served' = served + 1 /\ pc[r] = "idle"
      /\ UNCHANGED <<tokens, resets, now, pc, job, seen, mem, base, history>>
  BY <1>2 DEF Remove
<1>5. served' \in 0..MaxRequests /\ served <= served' /\ served \in Nat /\ served' \in Nat
  BY <1>4, ConstantsAssumption DEF TablesOK
<1>6. TablesOK' /\ RequestsOK' /\ HistoryOK'
  BY <1>3, <1>4, <1>5 DEF TablesOK, RequestsOK, HistoryOK, history
<1>7. OthersUntouched(r)
  BY <1>4 DEF OthersUntouched
<1>8. Kept
  BY <1>4, <1>5 DEF Kept
<1>9. NumbersOK'
  <2>1. \A m \in Numbers : tokens'[m] # NULL \/ resets'[m] # NULL => m <= served'
    BY <1>4, <1>5 DEF NumbersOK, Numbers
  <2> QED  BY <1>4, <2>1 DEF NumbersOK
<1>10. InHand(r)'
  BY <1>4 DEF InHand, NoJob, InHandOK
<1> QED  BY <1>6, <1>7, <1>8, <1>9, <1>10, StepTyped

LEMMA SaveLoadTyped ==
  ASSUME TypeInv, NEW r \in Requests, SaveLoad(r)
  PROVE  TypeInv'
<1> USE TypeParts DEF TypeInv
<1>1. InHand(r) /\ pc[r] = "load"
  BY DEF InHandOK, SaveLoad
<1>2. PICK u \in Users : u = job[r].user
  BY <1>1 DEF InHand
<1>3. users[u] \in UserRow
  BY DEF TablesOK
<1>4. /\ base' = [base EXCEPT ![r] = users[u]]
      /\ pc' = [pc EXCEPT ![r] = "write"]
      /\ UNCHANGED <<tables, now, served, job, seen, mem, history>>
  BY <1>2 DEF SaveLoad
<1>5. TablesOK' /\ HistoryOK'
  BY <1>4 DEF TablesOK, HistoryOK, tables, history
<1>6. RequestsOK' /\ OthersUntouched(r)
  BY <1>3, <1>4 DEF RequestsOK, OthersUntouched, Points
<1>7. pc'[r] = "write" /\ base'[r] = users[u]
  BY <1>4 DEF RequestsOK
<1>8. NothingNew /\ Kept
  BY <1>4 DEF NothingNew, Kept, tables, TablesOK
<1>9. NumbersOK'
  BY <1>1, <1>4, <1>6, <1>8, NumbersStay
<1>10. InHand(r)'
  BY <1>1, <1>3, <1>4, <1>7 DEF InHand, tables
<1> QED  BY <1>5, <1>6, <1>8, <1>9, <1>10, StepTyped

LEMMA SaveWriteTyped ==
  ASSUME TypeInv, NEW r \in Requests, SaveWrite(r)
  PROVE  TypeInv'
<1> USE TypeParts DEF TypeInv
<1>1. InHand(r) /\ pc[r] = "write"
  BY DEF InHandOK, SaveWrite
<1>2. PICK u \in Users : u = job[r].user
  BY <1>1 DEF InHand
<1>3. users[u] \in UserRow /\ mem[r] \in UserRow /\ base[r] \in UserRow
  BY <1>1 DEF InHand, TablesOK
<1>4. PICK new : new = Merge(users[u], mem[r], base[r])
  OBVIOUS
<1>5. new \in UserRow
  BY <1>3, <1>4, MergeTyped
<1>6. users' = [users EXCEPT ![u] = new] /\ UNCHANGED <<tokens, resets, now, raced, ended>>
  BY <1>2, <1>4 DEF SaveWrite
<1>7. users[u].hash.salt \in Numbers \cup {0}
  BY <1>3 DEF UserRow, Hash
<1>8. past' = past \/ past' = [past EXCEPT ![u] = @ \cup {users[u].hash.salt}]
  BY <1>2 DEF SaveWrite
<1>9. past' \in [Users -> SUBSET (Numbers \cup {0})]
  <2>1. CASE past' = past
    BY <2>1 DEF HistoryOK
  <2>2. CASE past' = [past EXCEPT ![u] = @ \cup {users[u].hash.salt}]
    <3>1. past[u] \cup {users[u].hash.salt} \in SUBSET (Numbers \cup {0})
      BY <1>7 DEF HistoryOK
    <3> QED  BY <2>2, <3>1 DEF HistoryOK
  <2> QED  BY <1>8, <2>1, <2>2
<1>10. reverted' \subseteq Users
  <2>1. reverted' = reverted \/ reverted' = reverted \cup {u}
    BY <1>2 DEF SaveWrite
  <2> QED  BY <2>1 DEF HistoryOK
<1>11. shaken' \subseteq Users /\ failedAt' = failedAt
  <2>1. shaken' = shaken \/ shaken' = shaken \cup {u}
    BY <1>2 DEF SaveWrite
  <2> QED  BY <2>1 DEF SaveWrite, HistoryOK
<1>12. TablesOK' \/ served' # served
  BY <1>5, <1>6 DEF TablesOK
<1>13. CASE job[r].op = "change"
  <2>1. Goto(r, "revoke") /\ UNCHANGED <<late, spent>>
    BY <1>13 DEF SaveWrite
  <2>2. pc'[r] = "revoke" /\ job' = job /\ seen' = seen /\ served' = served
    BY <2>1, GotoTyped DEF Points
  <2>3. HistoryOK'
    BY <1>6, <1>9, <1>10, <1>11, <2>1 DEF HistoryOK
  <2>4. InHand(r)'
    BY <1>1, <1>6, <1>13, <2>2 DEF InHand
  <2> QED  BY <1>1, <1>6, <1>12, <2>1, <2>2, <2>3, <2>4, GoesOn DEF Points
<1>14. CASE job[r].op = "reset"
  <2>1. Goto(r, "use") /\ Spend(job[r].reset) /\ UNCHANGED late
    BY <1>14 DEF SaveWrite
  <2>2. pc'[r] = "use" /\ job' = job /\ seen' = seen /\ served' = served
    BY <2>1, GotoTyped DEF Points
  <2>3. spent' \in [Numbers -> Nat]
    <3>1. spent[job[r].reset] + 1 \in Nat
      BY <1>1, <1>14 DEF InHand, HistoryOK
    <3> QED  BY <2>1, <3>1 DEF HistoryOK, Spend
  <2>4. HistoryOK'
    BY <1>6, <1>9, <1>10, <1>11, <2>1, <2>3 DEF HistoryOK
  <2>5. InHand(r)'
    BY <1>1, <1>6, <1>14, <2>2 DEF InHand
  <2> QED  BY <1>1, <1>6, <1>12, <2>1, <2>2, <2>4, <2>5, GoesOn DEF Points
<1>15. CASE job[r].op \notin {"change", "reset"}
  <2>1. End(r) /\ UNCHANGED spent
    BY <1>15 DEF SaveWrite
  <2>2. Answer(r) /\ late' = late \ {r} /\ served' = served
    BY <2>1 DEF End, Answer
  <2>3. HistoryOK' /\ TablesOK'
    BY <1>6, <1>9, <1>10, <1>11, <1>12, <2>1, <2>2 DEF HistoryOK
  <2>4. NothingNew /\ Kept
    BY <1>6, <2>2 DEF NothingNew, Kept, TablesOK
  <2> QED  BY <2>2, <2>3, <2>4, Ends
<1> QED  BY <1>13, <1>14, <1>15

-----------------------------------------------------------------------------
(* The statements that write sessions and resets.                          *)

\* No session is new, none changes hands, and none comes back.
OldSessions ==
  \A n \in Numbers :
    /\ tokens'[n] = NULL <=> tokens[n] = NULL
    /\ tokens[n] # NULL =>
         /\ tokens'[n].user = tokens[n].user /\ tokens'[n].expires = tokens[n].expires
         /\ tokens'[n].salt = tokens[n].salt /\ tokens'[n].late = tokens[n].late
         /\ tokens[n].revoked => tokens'[n].revoked

LEMMA RotateEffect ==
  ASSUME TypeInv, NEW r \in Requests, Rotate(r)
  PROVE  /\ tokens' \in [Numbers -> RefreshToken \cup {NULL}]
         /\ OldSessions /\ tokens'[job[r].token].revoked
<1>1. InHand(r) /\ pc[r] = "rotate"
  BY DEF InHandOK, Rotate, TypeInv
<1>2. PICK n \in Numbers : n = job[r].token
  BY <1>1 DEF InHand
<1>3. tokens[n] \in RefreshToken
  BY <1>1, <1>2 DEF InHand, TypeInv, TypeOK
<1>4. PICK token : token = [tokens[n] EXCEPT !.revoked = TRUE]
  OBVIOUS
<1>5. /\ token.user = tokens[n].user /\ token.expires = tokens[n].expires
      /\ token.salt = tokens[n].salt /\ token.late = tokens[n].late /\ token.revoked
      /\ token \in RefreshToken
  BY <1>3, <1>4 DEF RefreshToken
<1>6. tokens' = [tokens EXCEPT ![n] = token]
  BY <1>2, <1>4 DEF Rotate
<1>7. tokens'[n] = token /\ \A m \in Numbers \ {n} : tokens'[m] = tokens[m]
  BY <1>6 DEF TypeInv, TypeOK
<1>8. OldSessions /\ tokens'[job[r].token].revoked
  BY <1>1, <1>2, <1>3, <1>5, <1>7, NullAssumption DEF OldSessions
<1> QED  BY <1>5, <1>6, <1>8 DEF TypeInv, TypeOK

LEMMA RevokeEffect ==
  ASSUME TypeInv, NEW r \in Requests, Revoke(r)
  PROVE  /\ tokens' \in [Numbers -> RefreshToken \cup {NULL}]
         /\ OldSessions
         /\ job[r].op # "logout" => \A n \in Numbers :
              tokens'[n] # NULL /\ tokens'[n].user = job[r].user => tokens'[n].revoked
<1>1. InHand(r) /\ pc[r] = "revoke"
  BY DEF InHandOK, Revoke, TypeInv
<1>6. tokens' = [n \in Numbers |-> tokens'[n]]
  BY DEF Revoke
<1> SUFFICES ASSUME NEW n \in Numbers
             PROVE  /\ tokens'[n] \in RefreshToken \cup {NULL}
                    /\ tokens'[n] = NULL <=> tokens[n] = NULL
                    /\ tokens[n] # NULL =>
                         /\ tokens'[n].user = tokens[n].user
                         /\ tokens'[n].expires = tokens[n].expires
                         /\ tokens'[n].salt = tokens[n].salt
                         /\ tokens'[n].late = tokens[n].late
                         /\ tokens[n].revoked => tokens'[n].revoked
                    /\ job[r].op # "logout" /\ tokens[n] # NULL /\ tokens[n].user = job[r].user
                         => tokens'[n].revoked
  BY <1>6 DEF OldSessions
<1>2. tokens'[n] = IF (IF job[r].op # "logout" \/ job[r].token = 0
                       THEN OwnedBy(n, job[r].user) ELSE n = job[r].token)
                   THEN [tokens[n] EXCEPT !.revoked = TRUE] ELSE tokens[n]
  BY DEF Revoke
<1>3. job[r].op = "logout" /\ job[r].token # 0 /\ n = job[r].token => tokens[n] # NULL
  BY <1>1 DEF InHand
<1>4. CASE tokens[n] = NULL
  BY <1>2, <1>3, <1>4 DEF OwnedBy
<1>5. CASE tokens[n] # NULL
  <2>1. tokens[n] \in RefreshToken
    BY <1>5 DEF TypeInv, TypeOK
  <2>2. PICK token : token = [tokens[n] EXCEPT !.revoked = TRUE]
    OBVIOUS
  <2>3. /\ token \in RefreshToken /\ token # NULL /\ token.user = tokens[n].user
        /\ token.expires = tokens[n].expires
        /\ token.salt = tokens[n].salt /\ token.late = tokens[n].late /\ token.revoked
    BY <2>1, <2>2, NullAssumption DEF RefreshToken
  <2>4. \/ tokens'[n] = token
        \/ tokens'[n] = tokens[n] /\ ~(job[r].op # "logout" /\ tokens[n].user = job[r].user)
    BY <1>2, <1>5, <2>2 DEF OwnedBy
  <2>5. CASE tokens'[n] = token
    BY <1>5, <2>3, <2>5
  <2>6. CASE /\ tokens'[n] = tokens[n]
             /\ ~(job[r].op # "logout" /\ tokens[n].user = job[r].user)
    BY <1>5, <2>1, <2>6
  <2> QED  BY <2>4, <2>5, <2>6
<1> QED  BY <1>4, <1>5

\* The session that is given out.
LEMMA IssueEffect ==
  ASSUME TypeInv, NEW r \in Requests, Issue(r)
  PROVE  /\ tokens' \in [Numbers -> RefreshToken \cup {NULL}]
         /\ spent' \in [Numbers -> Nat]
         /\ job[r].no \in Numbers /\ tokens[job[r].no] = NULL /\ resets[job[r].no] = NULL
         /\ tokens'[job[r].no] # NULL
         /\ \A n \in Numbers \ {job[r].no} : tokens'[n] = tokens[n]
         /\ tokens'[job[r].no].user = job[r].user
         /\ job[r].op = "login" =>
              /\ tokens'[job[r].no].salt = seen[r].hash.salt
              /\ tokens'[job[r].no].late = (r \in late)
              /\ spent' = spent
         /\ job[r].op = "refresh" =>
              /\ tokens'[job[r].no].salt = tokens[job[r].token].salt
              /\ tokens'[job[r].no].late = (r \in late \/ tokens[job[r].token].late)
              /\ spent' = [spent EXCEPT ![job[r].token] = @ + 1]
<1> USE TypeParts DEF TypeInv
<1>1. InHand(r) /\ pc[r] = "issue"
  BY DEF InHandOK, Issue
<1>2. PICK old : old = IF job[r].token = 0 THEN NULL ELSE tokens[job[r].token]
  OBVIOUS
<1>3. PICK n : n = job[r].no
  OBVIOUS
<1>4. n \in Numbers /\ tokens[n] = NULL /\ resets[n] = NULL /\ 0 \notin Numbers
  BY <1>1, <1>3, ConstantsAssumption DEF InHand, NumbersOK, Numbers, TablesOK
<1>5. \/ old = NULL /\ job[r].op = "login" /\ seen[r] \in UserRow
      \/ /\ old # NULL /\ job[r].op = "refresh" /\ job[r].token \in Numbers
         /\ old = tokens[job[r].token] /\ old \in RefreshToken
  BY <1>1, <1>2, <1>4 DEF InHand, TablesOK
<1>6. PICK salt : salt = IF old = NULL THEN seen[r].hash.salt ELSE old.salt
  OBVIOUS
<1>7. PICK lateness : lateness = (r \in late \/ (old # NULL /\ old.late))
  OBVIOUS
<1>8. salt \in Numbers \cup {0} /\ lateness \in BOOLEAN
  BY <1>5, <1>6, <1>7 DEF RefreshToken, UserRow, Hash
<1>9. PICK token : token = [user |-> job[r].user, expires |-> now + RefreshTime,
                            revoked |-> FALSE, salt |-> salt, late |-> lateness]
  OBVIOUS
<1>10. token \in RefreshToken /\ token # NULL
  <2>1. now + RefreshTime \in Nat /\ job[r].user \in Users
    BY <1>1, ConstantsAssumption DEF TablesOK, InHand
  <2>2. token \in RefreshToken
    BY <1>8, <1>9, <2>1 DEF RefreshToken
  <2> QED  BY <2>2, NullAssumption
<1>11. tokens' = [tokens EXCEPT ![n] = token]
  BY <1>2, <1>3, <1>6, <1>7, <1>9 DEF Issue
<1>12. spent' \in [Numbers -> Nat]
  <2>1. CASE old = NULL
    BY <1>2, <2>1 DEF Issue, HistoryOK
  <2>2. CASE old # NULL
    <3>1. spent' = [spent EXCEPT ![job[r].token] = @ + 1]
      BY <1>2, <2>2 DEF Issue, Spend
    <3>2. spent[job[r].token] + 1 \in Nat
      BY <1>5, <2>2 DEF HistoryOK
    <3> QED  BY <3>1, <3>2 DEF HistoryOK
  <2> QED  BY <2>1, <2>2
<1>13. tokens'[n] = token /\ \A m \in Numbers \ {n} : tokens'[m] = tokens[m]
  BY <1>4, <1>11 DEF TablesOK
<1>14. tokens' \in [Numbers -> RefreshToken \cup {NULL}]
  BY <1>4, <1>10, <1>11 DEF TablesOK
<1>15. token.user = job[r].user /\ token.salt = salt /\ token.late = lateness
  BY <1>9
<1>16. /\ job[r].op = "login" => salt = seen[r].hash.salt /\ lateness = (r \in late) /\ spent' = spent
       /\ job[r].op = "refresh" =>
            /\ salt = tokens[job[r].token].salt
            /\ lateness = (r \in late \/ tokens[job[r].token].late)
            /\ spent' = [spent EXCEPT ![job[r].token] = @ + 1]
  BY <1>2, <1>5, <1>6, <1>7 DEF Issue, Spend
<1> QED  BY <1>3, <1>4, <1>10, <1>12, <1>13, <1>14, <1>15, <1>16

LEMMA IssueTyped ==
  ASSUME TypeInv, NEW r \in Requests, Issue(r)
  PROVE  TypeInv'
<1> USE TypeParts DEF TypeInv
<1>1. InHand(r) /\ pc[r] = "issue"
  BY DEF InHandOK, Issue
<1>2. PICK n : n = job[r].no
  OBVIOUS
<1>3. /\ tokens' \in [Numbers -> RefreshToken \cup {NULL}] /\ spent' \in [Numbers -> Nat]
      /\ n \in Numbers /\ n <= served /\ tokens[n] = NULL /\ resets[n] = NULL
      /\ \A m \in Numbers \ {n} : tokens'[m] = tokens[m]
  BY <1>1, <1>2, IssueEffect DEF InHand, TablesOK
<1>4. /\ Answer(r) /\ late' = late \ {r} /\ served' = served
      /\ UNCHANGED <<users, resets, now, raced, past, ended, reverted, shaken, failedAt>>
  BY DEF Issue, End, Answer
<1>5. TablesOK' /\ HistoryOK'
  BY <1>3, <1>4 DEF TablesOK, HistoryOK
<1>6. Kept
  BY <1>3, <1>4 DEF Kept, TablesOK
<1>7. RequestsOK' /\ OthersUntouched(r) /\ InHand(r)' /\ pc'[r] = "idle"
  BY <1>4, AnswerTyped
<1>8. NumbersOK'
  <2>1. \A m \in Numbers : tokens'[m] # NULL \/ resets'[m] # NULL => m <= served'
    BY <1>3, <1>4 DEF NumbersOK
  <2>2. \A m \in Numbers : tokens'[m] = NULL \/ resets'[m] = NULL
    BY <1>3, <1>4 DEF NumbersOK
  <2>3. \A q \in Requests : pc'[q] # "idle" =>
          q # r /\ pc[q] # "idle" /\ job'[q] = job[q]
    BY <1>7 DEF OthersUntouched
  <2>4. \A q \in Requests : pc[q] # "idle" => job[q].no \in Numbers
    BY ConstantsAssumption DEF InHandOK, InHand, TablesOK, Numbers
  <2>5. \A q \in Requests : pc'[q] # "idle" => job[q].no \in Numbers \ {n}
    BY <1>1, <1>2, <2>3, <2>4 DEF NumbersOK
  <2>6. \A q \in Requests : pc'[q] # "idle" =>
          tokens'[job'[q].no] = NULL /\ resets'[job'[q].no] = NULL
    BY <1>3, <1>4, <2>3, <2>5 DEF NumbersOK
  <2>7. \A p, q \in Requests : pc'[p] # "idle" /\ pc'[q] # "idle" /\ p # q =>
          job'[p].no # job'[q].no
    BY <2>3 DEF NumbersOK
  <2> QED  BY <2>1, <2>2, <2>6, <2>7 DEF NumbersOK
<1> QED  BY <1>5, <1>6, <1>7, <1>8, StepTyped

LEMMA RotateTyped ==
  ASSUME TypeInv, NEW r \in Requests, Rotate(r)
  PROVE  TypeInv'
<1> USE TypeParts DEF TypeInv
<1>1. InHand(r) /\ pc[r] = "rotate"
  BY DEF InHandOK, Rotate
<1>2. Goto(r, "issue") /\ UNCHANGED <<users, resets, now, history>>
  BY DEF Rotate
<1>3. tokens' \in [Numbers -> RefreshToken \cup {NULL}] /\ OldSessions
  BY RotateEffect
<1>4. /\ RequestsOK' /\ OthersUntouched(r) /\ served' = served
      /\ pc'[r] = "issue" /\ job' = job /\ seen' = seen
  BY <1>2, GotoTyped DEF Points
<1>5. TablesOK' /\ HistoryOK'
  BY <1>2, <1>3, <1>4 DEF TablesOK, HistoryOK, history
<1>6. NothingNew /\ Kept
  BY <1>2, <1>3, <1>4 DEF NothingNew, Kept, TablesOK, OldSessions
<1>7. NumbersOK'
  BY <1>1, <1>4, <1>6, NumbersStay
<1>8. InHand(r)'
  BY <1>1, <1>3, <1>4 DEF InHand, OldSessions
<1> QED  BY <1>4, <1>5, <1>6, <1>7, <1>8, StepTyped

LEMMA RevokeTyped ==
  ASSUME TypeInv, NEW r \in Requests, Revoke(r)
  PROVE  TypeInv'
<1> USE TypeParts DEF TypeInv
<1>1. InHand(r) /\ pc[r] = "revoke"
  BY DEF InHandOK, Revoke
<1>2. /\ Answer(r) /\ served' = served
      /\ UNCHANGED <<users, resets, now, spent, raced, past, reverted, shaken, failedAt>>
  BY DEF Revoke, Answer
<1>3. tokens' \in [Numbers -> RefreshToken \cup {NULL}] /\ OldSessions
  BY RevokeEffect
<1>4. late' \subseteq Requests
  BY DEF Revoke, HistoryOK
<1>5. ended' \in [Users -> SUBSET (Numbers \cup {0})]
  <2>1. PICK u \in Users : u = job[r].user
    BY <1>1 DEF InHand
  <2>2. ended[u] \cup past[u] \in SUBSET (Numbers \cup {0})
    BY DEF HistoryOK
  <2>3. ended' = ended \/ ended' = [ended EXCEPT ![u] = @ \cup past[u]]
    BY <2>1 DEF Revoke
  <2> QED  BY <2>2, <2>3 DEF HistoryOK
<1>6. TablesOK' /\ HistoryOK'
  BY <1>2, <1>3, <1>4, <1>5 DEF TablesOK, HistoryOK
<1>7. NothingNew /\ Kept
  BY <1>2, <1>3 DEF NothingNew, Kept, TablesOK, OldSessions
<1> QED  BY <1>2, <1>6, <1>7, Ends

LEMMA UseResetTyped ==
  ASSUME TypeInv, NEW r \in Requests, UseReset(r)
  PROVE  TypeInv'
<1> USE TypeParts DEF TypeInv
<1>1. InHand(r) /\ pc[r] = "use"
  BY DEF InHandOK, UseReset
<1>2. PICK n \in Numbers : n = job[r].reset
  BY <1>1 DEF InHand
<1>3. resets[n] \in PasswordReset /\ resets[n] # NULL
  BY <1>1, <1>2 DEF InHand, TablesOK
<1>4. PICK reset : reset = [resets[n] EXCEPT !.used = TRUE]
  OBVIOUS
<1>5. reset \in PasswordReset /\ reset.user = resets[n].user /\ reset # NULL
  BY <1>3, <1>4, NullAssumption DEF PasswordReset
<1>6. resets' = [resets EXCEPT ![n] = reset] /\ Goto(r, "revoke")
      /\ UNCHANGED <<users, tokens, now, history>>
  BY <1>2, <1>4 DEF UseReset
<1>7. /\ RequestsOK' /\ OthersUntouched(r) /\ served' = served
      /\ pc'[r] = "revoke" /\ job' = job /\ seen' = seen
  BY <1>6, GotoTyped DEF Points
<1>8. TablesOK' /\ HistoryOK'
  BY <1>5, <1>6, <1>7 DEF TablesOK, HistoryOK, history
<1>9. resets'[n] = reset /\ \A m \in Numbers \ {n} : resets'[m] = resets[m]
  BY <1>6 DEF TablesOK
<1>10. NothingNew /\ Kept
  BY <1>3, <1>5, <1>6, <1>7, <1>9 DEF NothingNew, Kept, TablesOK
<1>11. NumbersOK'
  BY <1>1, <1>7, <1>10, NumbersStay
<1>12. InHand(r)'
  BY <1>1, <1>2, <1>5, <1>6, <1>7, <1>9 DEF InHand
<1> QED  BY <1>7, <1>8, <1>10, <1>11, <1>12, StepTyped

-----------------------------------------------------------------------------
LEMMA DieTyped ==
  ASSUME TypeInv, NEW r \in Requests, Die(r)
  PROVE  TypeInv'
<1> USE TypeParts DEF TypeInv
<1>1. InHand(r) /\ pc[r] # "idle"
  BY DEF InHandOK, Die
<1>2. End(r) /\ UNCHANGED <<tables, now, spent, past, ended, reverted, failedAt>>
  BY DEF Die
<1>3. job[r] \in Jobs /\ job[r].user \in Users
  BY <1>1 DEF InHand, RequestsOK
<1>4. raced' \subseteq Numbers /\ shaken' \subseteq Users
  BY <1>3 DEF Die, Jobs, HistoryOK
<1> QED  BY <1>2, <1>4, Refuses

LEMMA TickTyped ==
  ASSUME TypeInv, Tick
  PROVE  TypeInv'
<1> USE TypeParts DEF TypeInv
<1>1. UNCHANGED <<tables, served, pc, job, seen, mem, base, history>> /\ now' \in Nat
  BY DEF Tick, control, TablesOK
<1>2. TablesOK' /\ RequestsOK' /\ HistoryOK'
  BY <1>1 DEF TablesOK, RequestsOK, HistoryOK, tables, history
<1>3. InHandOK' /\ NumbersOK'
  BY <1>1 DEF InHandOK, InHand, NumbersOK, tables
<1>4. TypeOK'
  BY <1>2 DEF TypeOK, TablesOK, RequestsOK, HistoryOK
<1> QED  BY <1>3, <1>4

LEMMA TypeInvInit ==
  ASSUME Init
  PROVE  TypeInv
<1>1. PICK row : row = [hash |-> [password |-> FirstPassword, salt |-> 0],
                        status |-> "active", failed |-> 0, locked |-> 0, deleted |-> FALSE]
  OBVIOUS
<1>2. row \in UserRow
  <2>1. PICK hash : hash = [password |-> FirstPassword, salt |-> 0]
    OBVIOUS
  <2>2. hash \in Hash
    BY <2>1, ConstantsAssumption DEF Hash
  <2> QED  BY <1>1, <2>1, <2>2 DEF UserRow, Statuses
<1>3. users = [u \in Users |-> row]
  BY <1>1 DEF Init
<1>4. TablesOK
  <2>1. users \in [Users -> UserRow]
    BY <1>2, <1>3
  <2>2. now \in Nat /\ served \in 0..MaxRequests
    BY ConstantsAssumption DEF Init
  <2>3. /\ tokens \in [Numbers -> RefreshToken \cup {NULL}]
        /\ resets \in [Numbers -> PasswordReset \cup {NULL}]
    BY DEF Init
  <2> QED  BY <2>1, <2>2, <2>3 DEF TablesOK
<1>5. NoJob \in Jobs
  BY DEF NoJob, Jobs
<1>6. RequestsOK
  BY <1>5 DEF Init, RequestsOK, Points
<1>7. HistoryOK
  BY DEF Init, HistoryOK
<1>8. InHandOK
  BY DEF Init, InHandOK, InHand, NoJob
<1>9. NumbersOK
  BY DEF Init, NumbersOK
<1> QED  BY <1>4, <1>6, <1>7, <1>8, <1>9, TypeParts DEF TypeInv

LEMMA StutterTyped ==
  ASSUME TypeInv, UNCHANGED vars
  PROVE  TypeInv'
<1>1. UNCHANGED <<users, tokens, resets, now, served, pc, job, seen, mem, base,
                  spent, raced, late, past, ended, reverted, shaken, failedAt>>
  BY DEF vars, tables, control, history
<1>2. TypeOK'
  BY <1>1 DEF TypeInv, TypeOK
<1>3. InHandOK' /\ NumbersOK'
  BY <1>1 DEF TypeInv, InHandOK, InHand, NumbersOK
<1> QED  BY <1>2, <1>3 DEF TypeInv

LEMMA NextTyped ==
  ASSUME TypeInv, [Next]_vars
  PROVE  TypeInv'
<1>1. ASSUME NEW r \in Requests, Arrive(r)
      PROVE  TypeInv'
  BY <1>1, LoginTyped, ChangeTyped, RefreshTyped, LogoutTyped, ForgotTyped, ResetTyped,
     AdministerTyped, RemoveTyped DEF Arrive, AuthController, UserController
<1>2. ASSUME NEW r \in Requests, Statement(r)
      PROVE  TypeInv'
  BY <1>2, CountTyped, RecountTyped, LockTyped, ClearTyped, IssueTyped, RotateTyped,
     RevokeTyped, CompareTyped, FindTyped, SaveLoadTyped, SaveWriteTyped, UseResetTyped
     DEF Statement
<1> QED  BY <1>1, <1>2, DieTyped, TickTyped, StutterTyped DEF Next

\* The shapes of the tables and of what each request has in hand, and the numbers
\* the requests go by, stay as described (AuthService, UserService).
THEOREM AuthInvariant == Spec => []TypeInv
<1> QED  BY TypeInvInit, NextTyped, PTL DEF Spec

\* The type invariant the runs check: every statement of a handler finds the
\* account, the session or the reset it writes, whatever happened since it was
\* read (AuthService, UserService).
THEOREM AuthTypeCorrect == Spec => []TypeOK
<1>1. TypeInv => TypeOK
  BY DEF TypeInv
<1> QED  BY <1>1, AuthInvariant, PTL
-----------------------------------------------------------------------------
(* Sessions and resets: what is given out and what is used up.             *)

\* The step SpentForGood allows.
ForGood ==
  \A n \in Numbers :
    /\ tokens[n] # NULL =>
         /\ tokens'[n] # NULL
         /\ tokens'[n].user = tokens[n].user /\ tokens'[n].expires = tokens[n].expires
         /\ tokens[n].revoked => tokens'[n].revoked
    /\ resets[n] # NULL =>
         /\ resets'[n] # NULL
         /\ resets'[n].user = resets[n].user /\ resets'[n].expires = resets[n].expires
         /\ resets[n].used => resets'[n].used

LEMMA UseResetEffect ==
  ASSUME TypeInv, NEW r \in Requests, UseReset(r)
  PROVE  ForGood /\ resets'[job[r].reset].used /\ resets'[job[r].reset] # NULL
<1>1. InHand(r) /\ pc[r] = "use"
  BY DEF InHandOK, UseReset, TypeInv
<1>2. PICK n \in Numbers : n = job[r].reset
  BY <1>1 DEF InHand
<1>3. resets[n] \in PasswordReset
  BY <1>1, <1>2 DEF InHand, TypeInv, TypeOK
<1>4. PICK reset : reset = [resets[n] EXCEPT !.used = TRUE]
  OBVIOUS
<1>5. /\ reset.user = resets[n].user /\ reset.expires = resets[n].expires
      /\ reset.used /\ reset # NULL
  <2>1. reset \in PasswordReset
    BY <1>3, <1>4 DEF PasswordReset
  <2> QED  BY <1>3, <1>4, <2>1, NullAssumption DEF PasswordReset
<1>6. resets' = [resets EXCEPT ![n] = reset] /\ tokens' = tokens
  BY <1>2, <1>4 DEF UseReset
<1>7. resets'[n] = reset /\ \A m \in Numbers \ {n} : resets'[m] = resets[m]
  BY <1>6 DEF TypeInv, TypeOK
<1> QED  BY <1>2, <1>5, <1>6, <1>7 DEF ForGood

\* Nothing that was given out changes hands, and nothing used up comes back.
LEMMA NextForGood ==
  ASSUME TypeInv, [Next]_vars
  PROVE  ForGood
<1>1. UNCHANGED <<tokens, resets>> => ForGood
  BY DEF ForGood
<1>2. OldSessions /\ UNCHANGED resets => ForGood
  BY DEF ForGood, OldSessions
<1>3. ASSUME NEW r \in Requests, NEW u \in Users, ForgotPassword(r, u)
      PROVE  ForGood
  <2>1. served \in 0..MaxRequests /\ served < MaxRequests
    BY <1>3 DEF ForgotPassword, TypeInv, TypeOK
  <2>2. served + 1 \in Numbers /\ ~(served + 1 <= served)
    BY <2>1, ConstantsAssumption DEF Numbers
  <2>3. resets[served + 1] = NULL
    BY <2>2 DEF TypeInv, NumbersOK
  <2>4. \A n \in Numbers : n # served + 1 => resets'[n] = resets[n]
    BY <1>3 DEF ForgotPassword, TypeInv, TypeOK
  <2>5. tokens' = tokens
    BY <1>3 DEF ForgotPassword
  <2> QED  BY <2>3, <2>4, <2>5 DEF ForGood
<1>4. ASSUME NEW r \in Requests, Arrive(r)
      PROVE  ForGood
  BY <1>1, <1>3, <1>4 DEF Arrive, AuthController, UserController, Login, RefreshToken_, Logout,
     ChangePassword, ResetPassword, Administer, Remove, tables
<1>5. ASSUME NEW r \in Requests, Issue(r)
      PROVE  ForGood
  BY <1>5, IssueEffect DEF ForGood, Issue
<1>6. ASSUME NEW r \in Requests, Statement(r)
      PROVE  ForGood
  <2>1. CASE Rotate(r)
    BY <1>2, <2>1, RotateEffect DEF Rotate
  <2>2. CASE Revoke(r)
    BY <1>2, <2>2, RevokeEffect DEF Revoke
  <2>3. CASE UseReset(r)
    BY <2>3, UseResetEffect
  <2>4. CASE Issue(r)
    BY <1>5, <2>4
  <2> QED  BY <1>1, <1>6, <2>1, <2>2, <2>3, <2>4 DEF Statement, Count, Recount, LockUntil, Clear,
              Compare, Find, SaveLoad, SaveWrite, tables
<1> QED  BY <1>1, <1>4, <1>6 DEF Next, Die, Tick, vars, tables

-----------------------------------------------------------------------------
(* What a session or a reset buys.                                         *)

\* Request r turns session n into another, or reset n into a password.
Buys(r, n) ==
  \/ job[r].op = "refresh" /\ job[r].token = n
  \/ job[r].op = "reset" /\ job[r].reset = n

\* n is used up, or its password is written and used_at comes next.
UsedUp(n) ==
  \/ tokens[n] # NULL /\ tokens[n].revoked
  \/ resets[n] # NULL /\ resets[n].used
  \/ \E r \in Requests : pc[r] = "use" /\ Buys(r, n)

\* Who has a session or a reset in hand that nobody else has had found it good,
\* and it has bought nothing until that request makes its sale.
OneBuyer(n) ==
  /\ spent[n] = 0 \/ (spent[n] = 1 /\ UsedUp(n))
  /\ \A r, q \in Requests : Buys(r, n) /\ Buys(q, n) => r = q
  /\ \A r \in Requests : Buys(r, n) =>
       /\ pc[r] \in {"rotate", "issue", "find", "load", "write"} => spent[n] = 0
       /\ pc[r] = "issue" => tokens[n].revoked

SpentInv == \A n \in Numbers : n \notin raced => OneBuyer(n)

\* A step of r that concerns no purchase of n.
LEMMA NotBuying ==
  ASSUME TypeInv, ForGood, NEW r \in Requests, OthersUntouched(r), NEW n \in Numbers,
         OneBuyer(n), ~Buys(r, n), ~Buys(r, n)', spent'[n] = spent[n]
  PROVE  OneBuyer(n)'
<1>1. \A q \in Requests \ {r} : (Buys(q, n)' <=> Buys(q, n)) /\ pc'[q] = pc[q]
  BY DEF OthersUntouched, Buys
<1>2. \A q \in Requests : Buys(q, n)' => q # r /\ Buys(q, n)
  BY <1>1
<1>3. UsedUp(n) => UsedUp(n)'
  BY <1>1 DEF UsedUp, ForGood
<1>4. \A q \in Requests : Buys(q, n) /\ pc[q] = "issue" => tokens[n] # NULL
  BY DEF Buys, TypeInv, InHandOK, InHand
<1>5. \A q \in Requests : Buys(q, n)' =>
        /\ pc'[q] \in {"rotate", "issue", "find", "load", "write"} => spent'[n] = 0
        /\ pc'[q] = "issue" => tokens'[n].revoked
  BY <1>1, <1>2, <1>4 DEF OneBuyer, ForGood
<1>6. spent'[n] = 0 \/ (spent'[n] = 1 /\ UsedUp(n)')
  BY <1>3 DEF OneBuyer
<1>7. \A p, q \in Requests : Buys(p, n)' /\ Buys(q, n)' => p = q
  BY <1>2 DEF OneBuyer
<1> QED  BY <1>5, <1>6, <1>7 DEF OneBuyer

\* A request that is idle buys nothing.
LEMMA IdleBuysNothing ==
  ASSUME TypeInv, NEW r \in Requests, NEW n \in Numbers, pc[r] = "idle"
  PROVE  ~Buys(r, n)
BY DEF TypeInv, InHandOK, InHand, NoJob, Buys

\* A request that is at a statement goes on with its job or ends, and leaves the
\* others alone; what has been raced for is not its business.
LEMMA StatementEffect ==
  ASSUME TypeInv, NEW r \in Requests, Statement(r)
  PROVE  /\ OthersUntouched(r) /\ raced' = raced /\ pc[r] # "idle"
         /\ \/ pc'[r] = "idle" /\ job'[r] = NoJob
            \/ pc'[r] # "idle" /\ job'[r] = job[r]
<1>1. Answer(r) => OthersUntouched(r) /\ pc'[r] = "idle" /\ job'[r] = NoJob
  BY AnswerTyped
<1>2. \A point \in Points : Goto(r, point) => /\ OthersUntouched(r) /\ pc'[r] = point
                                              /\ job'[r] = job[r]
  BY GotoTyped
<1>3. {"recount", "lock", "issue", "find", "use", "revoke"} \subseteq Points
  BY DEF Points
<1>4. CASE Find(r)
  <2>1. CASE End(r)
    BY <1>1, <1>4, <2>1 DEF End, Find
  <2>2. CASE ~End(r)
    BY <1>4, <2>2 DEF Find, OthersUntouched, TypeInv, TypeOK
  <2> QED  BY <2>1, <2>2
<1>5. CASE SaveLoad(r)
  BY <1>5 DEF SaveLoad, OthersUntouched, TypeInv, TypeOK, history
<1>6. CASE SaveWrite(r)
  <2>1. raced' = raced /\ pc[r] # "idle"
    BY <1>6 DEF SaveWrite
  <2>2. Answer(r) \/ Goto(r, "use") \/ Goto(r, "revoke")
    BY <1>6 DEF SaveWrite, End
  <2> QED  BY <1>1, <1>2, <1>3, <2>1, <2>2
<1>7. CASE \E p \in Passwords : Compare(r, p)
  BY <1>1, <1>2, <1>3, <1>7 DEF Compare, End
<1>8. CASE Count(r) \/ Recount(r) \/ LockUntil(r) \/ Clear(r)
  BY <1>1, <1>2, <1>3, <1>8 DEF Count, Recount, LockUntil, Clear, End, history
<1>9. CASE Issue(r) \/ Rotate(r) \/ Revoke(r) \/ UseReset(r)
  BY <1>1, <1>2, <1>3, <1>9 DEF Issue, Rotate, Revoke, UseReset, End, history
<1> QED  BY <1>4, <1>5, <1>6, <1>7, <1>8, <1>9 DEF Statement

\* The buyer of n goes on with its job and has not sold yet.
LEMMA StillBuying ==
  ASSUME TypeInv, ForGood, NEW r \in Requests, OthersUntouched(r), NEW n \in Numbers,
         OneBuyer(n), Buys(r, n), job'[r] = job[r], spent' = spent,
         pc[r] \in {"rotate", "find", "load"}, pc'[r] \in {"issue", "load", "write"},
         pc'[r] = "issue" => tokens'[n].revoked
  PROVE  OneBuyer(n)'
<1>1. \A q \in Requests : Buys(q, n)' => q = r
  BY DEF OneBuyer, OthersUntouched, Buys
<1>2. spent'[n] = 0
  BY DEF OneBuyer
<1> QED  BY <1>1, <1>2 DEF OneBuyer

\* The buyer of n sells.
LEMMA Sells ==
  ASSUME TypeInv, NEW r \in Requests, OthersUntouched(r), NEW n \in Numbers,
         OneBuyer(n), Buys(r, n), spent' = [spent EXCEPT ![n] = @ + 1],
         pc[r] \in {"issue", "write"}, UsedUp(n)', pc'[r] \in {"idle", "use"}
  PROVE  OneBuyer(n)'
<1>1. \A q \in Requests : Buys(q, n)' => q = r
  BY DEF OneBuyer, OthersUntouched, Buys
<1>2. spent'[n] = 1
  BY DEF OneBuyer, TypeInv, TypeOK
<1> QED  BY <1>1, <1>2 DEF OneBuyer

\* The buyer of n has sold, or leaves without a purchase.
LEMMA Leaves ==
  ASSUME TypeInv, ForGood, NEW r \in Requests, OthersUntouched(r), NEW n \in Numbers,
         OneBuyer(n), Buys(r, n), spent' = spent, pc'[r] \in {"idle", "revoke"},
         pc[r] # "use" \/ (resets'[n] # NULL /\ resets'[n].used)
  PROVE  OneBuyer(n)'
<1>1. \A q \in Requests : Buys(q, n)' => q = r
  BY DEF OneBuyer, OthersUntouched, Buys
<1>2. UsedUp(n) => UsedUp(n)'
  <2>1. ASSUME NEW q \in Requests, pc[q] = "use", Buys(q, n)
        PROVE  UsedUp(n)'
    <3>1. q = r
      BY <2>1 DEF OneBuyer
    <3> QED  BY <2>1, <3>1 DEF UsedUp
  <2> QED  BY <2>1 DEF UsedUp, ForGood
<1>3. spent'[n] = 0 \/ (spent'[n] = 1 /\ UsedUp(n)')
  BY <1>2 DEF OneBuyer
<1> QED  BY <1>1, <1>3 DEF OneBuyer

\* A request takes n up: it is good and nobody else has it.
LEMMA TakesUp ==
  ASSUME TypeInv, NEW r \in Requests, OthersUntouched(r), NEW n \in Numbers,
         pc[r] = "idle", OneBuyer(n), spent' = spent, pc'[r] \in {"rotate", "find"},
         tokens[n] # NULL => ~tokens[n].revoked, resets[n] # NULL => ~resets[n].used,
         \A q \in Requests \ {r} : n \notin {job[q].token, job[q].reset}
  PROVE  OneBuyer(n)'
<1>1. \A q \in Requests : ~Buys(q, n)
  BY IdleBuysNothing DEF Buys
<1>2. spent'[n] = 0
  BY <1>1 DEF OneBuyer, UsedUp
<1>3. \A q \in Requests : Buys(q, n)' => q = r
  BY <1>1 DEF OthersUntouched, Buys
<1> QED  BY <1>2, <1>3 DEF OneBuyer

\* What a request is about when it has been taken up.
LEMMA BeginEffect ==
  ASSUME TypeInv, NEW r \in Requests, NEW op \in Jobs, NEW u, NEW point, NEW row,
         Begin(r, op, u, point, row)
  PROVE  /\ OthersUntouched(r) /\ pc[r] = "idle" /\ pc'[r] = point
         /\ served' = served + 1
         /\ job'[r].no = served + 1 /\ job'[r].user = u /\ job'[r].op = op.op
         /\ job'[r].token = op.token /\ job'[r].reset = op.reset
         /\ seen'[r] = row /\ mem'[r] = row
<1>1. PICK j : j = [op EXCEPT !.no = served + 1, !.user = u]
  OBVIOUS
<1>2. /\ j.no = served + 1 /\ j.user = u /\ j.op = op.op /\ j.token = op.token
      /\ j.reset = op.reset
  BY <1>1 DEF Jobs
<1>3. /\ pc' = [pc EXCEPT ![r] = point] /\ job' = [job EXCEPT ![r] = j]
      /\ seen' = [seen EXCEPT ![r] = row] /\ mem' = [mem EXCEPT ![r] = row] /\ base' = base
      /\ pc[r] = "idle" /\ served' = served + 1
  BY <1>1 DEF Begin
<1>4. OthersUntouched(r) /\ job'[r] = j /\ pc'[r] = point /\ seen'[r] = row /\ mem'[r] = row
  BY <1>3 DEF OthersUntouched, TypeInv, TypeOK
<1> QED  BY <1>2, <1>3, <1>4

LEMMA LoginEffect ==
  ASSUME TypeInv, NEW r \in Requests, NEW u \in Users, NEW p \in Passwords, Login(r, u, p)
  PROVE  /\ OthersUntouched(r) /\ pc[r] = "idle" /\ pc'[r] \in {"count", "clear"}
         /\ job'[r].op = "login" /\ job'[r].user = u /\ job'[r].no = served + 1
         /\ job'[r].token = 0 /\ seen'[r] = users[u]
<1>1. PICK op : op = About("login")
  OBVIOUS
<1>2. op \in Jobs /\ op.op = "login" /\ op.token = 0
  BY <1>1 DEF About, NoJob, Jobs
<1>3. PICK point \in {"count", "clear"} : Begin(r, op, u, point, users[u])
  BY <1>1 DEF Login
<1> QED  BY <1>2, <1>3, BeginEffect

LEMMA RefreshEffect ==
  ASSUME TypeInv, NEW r \in Requests, NEW n \in Numbers, RefreshToken_(r, n)
  PROVE  /\ OthersUntouched(r) /\ pc[r] = "idle" /\ pc'[r] = "rotate"
         /\ job'[r].op = "refresh" /\ job'[r].user = tokens[n].user /\ job'[r].no = served + 1
         /\ job'[r].token = n /\ seen'[r] = users[tokens[n].user]
<1>1. PICK op : op = [About("refresh") EXCEPT !.token = n]
  OBVIOUS
<1>2. op \in Jobs /\ op.op = "refresh" /\ op.token = n
  BY <1>1 DEF About, NoJob, Jobs
<1>3. Begin(r, op, tokens[n].user, "rotate", users[tokens[n].user])
  BY <1>1 DEF RefreshToken_
<1> QED  BY <1>2, <1>3, BeginEffect

LEMMA LogoutEffect ==
  ASSUME TypeInv, NEW r \in Requests, NEW u \in Users, NEW n \in Numbers \cup {0}, Logout(r, u, n)
  PROVE  /\ OthersUntouched(r) /\ pc[r] = "idle" /\ pc'[r] = "revoke"
         /\ job'[r].op = "logout" /\ job'[r].no = served + 1 /\ seen'[r] = NULL
<1>1. PICK op : op = [About("logout") EXCEPT !.token = n]
  OBVIOUS
<1>2. op \in Jobs /\ op.op = "logout"
  BY <1>1 DEF About, NoJob, Jobs
<1>3. Begin(r, op, u, "revoke", NULL)
  BY <1>1 DEF Logout
<1> QED  BY <1>2, <1>3, BeginEffect

LEMMA ChangeEffect ==
  ASSUME TypeInv, NEW r \in Requests, NEW u \in Users, NEW p \in Passwords,
         ChangePassword(r, u, p)
  PROVE  /\ OthersUntouched(r) /\ pc[r] = "idle" /\ pc'[r] = "compare"
         /\ job'[r].op = "change" /\ job'[r].no = served + 1 /\ seen'[r] = NULL
<1>1. PICK op : op = [About("change") EXCEPT !.password = p]
  OBVIOUS
<1>2. op \in Jobs /\ op.op = "change"
  BY <1>1 DEF About, NoJob, Jobs
<1>3. Begin(r, op, u, "compare", NULL)
  BY <1>1 DEF ChangePassword
<1> QED  BY <1>2, <1>3, BeginEffect

LEMMA ResetEffect ==
  ASSUME TypeInv, NEW r \in Requests, NEW n \in Numbers, NEW p \in Passwords,
         ResetPassword(r, n, p)
  PROVE  /\ OthersUntouched(r) /\ pc[r] = "idle" /\ pc'[r] = "find"
         /\ job'[r].op = "reset" /\ job'[r].no = served + 1 /\ seen'[r] = NULL
         /\ job'[r].reset = n
<1>1. PICK op : op = [About("reset") EXCEPT !.reset = n, !.password = p]
  OBVIOUS
<1>2. op \in Jobs /\ op.op = "reset" /\ op.reset = n
  BY <1>1 DEF About, NoJob, Jobs
<1>3. Begin(r, op, resets[n].user, "find", NULL)
  BY <1>1 DEF ResetPassword
<1> QED  BY <1>2, <1>3, BeginEffect

LEMMA AdministerEffect ==
  ASSUME TypeInv, NEW r \in Requests, NEW u \in Users, Administer(r, u)
  PROVE  /\ OthersUntouched(r) /\ pc[r] = "idle" /\ pc'[r] = "load"
         /\ job'[r].op = "admin" /\ job'[r].no = served + 1 /\ job'[r].user = u
         /\ seen'[r] = users[u]
         /\ mem'[r].hash = users[u].hash \/ mem'[r].hash.salt = served + 1
         /\ \/ mem'[r].failed = users[u].failed /\ mem'[r].locked = users[u].locked
            \/ mem'[r].failed = 0 /\ mem'[r].locked = 0
<1>1. PICK j : j = [About("admin") EXCEPT !.no = served + 1, !.user = u]
  OBVIOUS
<1>2. j.no = served + 1 /\ j.op = "admin" /\ j.user = u
  BY <1>1 DEF About, NoJob
<1>3. PICK row \in Update(users[u], served + 1) \cup {Activate(users[u])} :
        mem' = [mem EXCEPT ![r] = row]
  BY DEF Administer
<1>4. users[u] \in UserRow
  BY DEF TypeInv, TypeOK
<1>5. /\ row.hash = users[u].hash \/ row.hash.salt = served + 1
      /\ \/ row.failed = users[u].failed /\ row.locked = users[u].locked
         \/ row.failed = 0 /\ row.locked = 0
  <2>1. CASE row = Activate(users[u])
    BY <1>4, <2>1 DEF Activate, UserRow
  <2>2. CASE row \in Update(users[u], served + 1)
    <3>1. PICK hashes : hashes = {users[u].hash} \cup
                                 {[password |-> p, salt |-> served + 1] : p \in Passwords}
      OBVIOUS
    <3>2. PICK c \in Statuses \X hashes : row = [users[u] EXCEPT !.status = c[1], !.hash = c[2]]
      BY <2>2, <3>1 DEF Update
    <3>3. PICK hash \in hashes : hash = c[2]
      OBVIOUS
    <3>4. PICK status : status = c[1]
      OBVIOUS
    <3>5. row = [users[u] EXCEPT !.status = status, !.hash = hash]
      BY <3>2, <3>3, <3>4
    <3>6. hash = users[u].hash \/ hash.salt = served + 1
      BY <3>1
    <3>7. row.hash = hash /\ row.failed = users[u].failed /\ row.locked = users[u].locked
      BY <1>4, <3>5 DEF UserRow
    <3> QED  BY <3>6, <3>7
  <2> QED  BY <2>1, <2>2
<1>6. /\ pc[r] = "idle" /\ pc' = [pc EXCEPT ![r] = "load"]
      /\ job' = [job EXCEPT ![r] = j] /\ seen' = [seen EXCEPT ![r] = users[u]]
      /\ base' = base
  BY <1>1 DEF Administer
<1>7. /\ OthersUntouched(r) /\ pc'[r] = "load" /\ job'[r] = j /\ seen'[r] = users[u]
      /\ mem'[r] = row
  BY <1>3, <1>6 DEF OthersUntouched, TypeInv, TypeOK
<1> QED  BY <1>2, <1>5, <1>6, <1>7

LEMMA ArriveSpent ==
  ASSUME TypeInv, SpentInv, ForGood, NEW r \in Requests, Arrive(r)
  PROVE  SpentInv'
<1>1. spent' = spent /\ raced \subseteq raced'
  BY DEF Arrive, AuthController, UserController, Login, RefreshToken_, Logout, ChangePassword,
     ForgotPassword, ResetPassword, Administer, Remove, Hold, history
<1> SUFFICES ASSUME NEW n \in Numbers, n \notin raced', OneBuyer(n)
             PROVE  OneBuyer(n)'
  BY <1>1 DEF SpentInv
<1>2. pc[r] = "idle" /\ ~Buys(r, n)
  BY IdleBuysNothing DEF Arrive
<1>3. OthersUntouched(r) /\ ~Buys(r, n)' => OneBuyer(n)'
  BY <1>1, <1>2, NotBuying
<1>4. ASSUME NEW u \in Users, NEW p \in Passwords, Login(r, u, p) \/ ChangePassword(r, u, p)
      PROVE  OneBuyer(n)'
  BY <1>3, <1>4, LoginEffect, ChangeEffect DEF Buys
<1>5. ASSUME NEW m \in Numbers, RefreshToken_(r, m)
      PROVE  OneBuyer(n)'
  <2>1. CASE m # n
    BY <1>3, <1>5, <2>1, RefreshEffect DEF Buys
  <2>2. CASE m = n
    <3>1. tokens[n] # NULL /\ ~tokens[n].revoked /\ resets[n] = NULL
      BY <1>5, <2>2 DEF RefreshToken_, Usable, TypeInv, NumbersOK
    <3>2. \A q \in Requests \ {r} : n \notin {job[q].token, job[q].reset}
      BY <1>5, <2>2 DEF RefreshToken_, Hold
    <3> QED  BY <1>1, <1>2, <1>5, <3>1, <3>2, RefreshEffect, TakesUp
  <2> QED  BY <2>1, <2>2
<1>6. ASSUME NEW u \in Users, NEW m \in Numbers \cup {0}, Logout(r, u, m)
      PROVE  OneBuyer(n)'
  BY <1>3, <1>6, LogoutEffect DEF Buys
<1>7. ASSUME NEW u \in Users, ForgotPassword(r, u) \/ Remove(r, u)
      PROVE  OneBuyer(n)'
  BY <1>2, <1>3, <1>7 DEF ForgotPassword, Remove, OthersUntouched, Buys
<1>8. ASSUME NEW m \in Numbers, NEW p \in Passwords, ResetPassword(r, m, p)
      PROVE  OneBuyer(n)'
  <2>1. CASE m # n
    BY <1>3, <1>8, <2>1, ResetEffect DEF Buys
  <2>2. CASE m = n
    <3>1. resets[n] # NULL /\ ~resets[n].used /\ tokens[n] = NULL
      BY <1>8, <2>2 DEF ResetPassword, TypeInv, NumbersOK
    <3>2. \A q \in Requests \ {r} : n \notin {job[q].token, job[q].reset}
      BY <1>8, <2>2 DEF ResetPassword, Hold
    <3> QED  BY <1>1, <1>2, <1>8, <3>1, <3>2, ResetEffect, TakesUp
  <2> QED  BY <2>1, <2>2
<1>9. ASSUME NEW u \in Users, Administer(r, u)
      PROVE  OneBuyer(n)'
  BY <1>3, <1>9, AdministerEffect DEF Buys
<1> QED  BY <1>4, <1>5, <1>6, <1>7, <1>8, <1>9 DEF Arrive, AuthController, UserController

LEMMA StatementSpent ==
  ASSUME TypeInv, SpentInv, ForGood, NEW r \in Requests, Statement(r)
  PROVE  SpentInv'
<1>1. /\ OthersUntouched(r) /\ raced' = raced
      /\ \/ pc'[r] = "idle" /\ job'[r] = NoJob
         \/ pc'[r] # "idle" /\ job'[r] = job[r]
  BY StatementEffect
<1> SUFFICES ASSUME NEW n \in Numbers, OneBuyer(n)
             PROVE  OneBuyer(n)'
  BY <1>1 DEF SpentInv
<1>2. InHand(r)
  BY DEF TypeInv, InHandOK
<1>3. ~Buys(r, n) => ~Buys(r, n)'
  BY <1>1 DEF Buys, NoJob
<1>4. ~Buys(r, n) /\ spent'[n] = spent[n] => OneBuyer(n)'
  BY <1>1, <1>3, NotBuying
<1>5. CASE Count(r) \/ Recount(r) \/ LockUntil(r) \/ Clear(r)
  <2>1. ~Buys(r, n) /\ spent' = spent
    BY <1>2, <1>5 DEF Count, Recount, LockUntil, Clear, InHand, Buys, history
  <2> QED  BY <1>4, <2>1
<1>6. CASE \E p \in Passwords : Compare(r, p)
  <2>1. ~Buys(r, n) /\ spent' = spent
    BY <1>2, <1>6 DEF Compare, InHand, Buys
  <2> QED  BY <1>4, <2>1
<1>7. CASE Rotate(r)
  <2>1. /\ tokens'[job[r].token].revoked /\ pc[r] = "rotate" /\ pc'[r] = "issue"
        /\ spent' = spent /\ job[r].op = "refresh"
    BY <1>2, <1>7, RotateEffect, GotoTyped DEF Rotate, history, Points, InHand
  <2>2. CASE Buys(r, n)
    <3>1. job[r].token = n
      BY <2>1, <2>2 DEF Buys
    <3> QED  BY <1>1, <2>1, <2>2, <3>1, StillBuying
  <2> QED  BY <1>4, <2>1, <2>2
<1>8. CASE Issue(r)
  <2>1. /\ job[r].op \in {"login", "refresh"} /\ pc[r] = "issue" /\ pc'[r] = "idle"
        /\ job[r].op = "refresh" => job[r].token \in Numbers /\ tokens[job[r].token] # NULL
    BY <1>2, <1>8, AnswerTyped DEF Issue, End, InHand
  <2>2. CASE Buys(r, n)
    <3>1. job[r].op = "refresh" /\ job[r].token = n
      BY <2>1, <2>2 DEF Buys
    <3>2. spent' = [spent EXCEPT ![n] = @ + 1]
      BY <1>8, <3>1, IssueEffect
    <3>3. tokens[n].revoked /\ tokens[n] # NULL
      BY <2>1, <2>2, <3>1 DEF OneBuyer
    <3>4. UsedUp(n)'
      BY <3>3 DEF UsedUp, ForGood
    <3> QED  BY <1>1, <2>1, <2>2, <3>2, <3>4, Sells
  <2>3. CASE ~Buys(r, n)
    <3>1. spent'[n] = spent[n]
      BY <1>8, <2>1, <2>3, IssueEffect DEF Buys, TypeInv, TypeOK
    <3> QED  BY <1>4, <2>3, <3>1
  <2> QED  BY <2>2, <2>3
<1>9. CASE Revoke(r)
  <2>1. pc[r] = "revoke" /\ pc'[r] = "idle" /\ spent' = spent
    BY <1>9, AnswerTyped DEF Revoke
  <2> QED  BY <1>1, <1>4, <2>1, Leaves
<1>10. CASE Find(r)
  <2>1. pc[r] = "find" /\ pc'[r] \in {"idle", "load"} /\ spent' = spent
    <3>1. CASE End(r)
      BY <1>10, <3>1, AnswerTyped DEF Find, End
    <3>2. CASE ~End(r)
      BY <1>10, <3>2 DEF Find, TypeInv, TypeOK
    <3> QED  BY <3>1, <3>2
  <2>2. CASE pc'[r] = "idle"
    BY <1>1, <1>4, <2>1, <2>2, Leaves
  <2>3. CASE pc'[r] = "load"
    BY <1>1, <1>4, <2>1, <2>3, StillBuying
  <2> QED  BY <2>1, <2>2, <2>3
<1>11. CASE SaveLoad(r)
  <2>1. pc[r] = "load" /\ pc'[r] = "write" /\ spent' = spent
    BY <1>11 DEF SaveLoad, TypeInv, TypeOK, history
  <2> QED  BY <1>1, <1>4, <2>1, StillBuying
<1>12. CASE SaveWrite(r)
  <2>1. job[r].op \in {"change", "reset", "admin"} /\ pc[r] = "write"
    BY <1>2, <1>12 DEF SaveWrite, InHand
  <2>2. CASE Buys(r, n)
    <3>1. job[r].op = "reset" /\ job[r].reset = n
      BY <2>1, <2>2 DEF Buys
    <3>2. Goto(r, "use") /\ spent' = [spent EXCEPT ![n] = @ + 1]
      BY <1>12, <3>1 DEF SaveWrite, Spend
    <3>3. pc'[r] = "use"
      BY <3>2, GotoTyped DEF Points
    <3>4. UsedUp(n)'
      BY <1>1, <2>2, <3>3 DEF UsedUp, Buys
    <3> QED  BY <1>1, <2>1, <2>2, <3>2, <3>3, <3>4, Sells
  <2>3. CASE ~Buys(r, n)
    <3>1. CASE job[r].op = "reset"
      BY <1>4, <1>12, <2>3, <3>1 DEF SaveWrite, Spend, Buys, TypeInv, TypeOK
    <3>2. CASE job[r].op # "reset"
      <4>1. spent' = spent
        BY <1>12, <3>2 DEF SaveWrite
      <4> QED  BY <1>4, <2>3, <4>1
    <3> QED  BY <3>1, <3>2
  <2> QED  BY <2>2, <2>3
<1>13. CASE UseReset(r)
  <2>1. /\ pc[r] = "use" /\ job[r].op = "reset" /\ pc'[r] = "revoke" /\ spent' = spent
        /\ resets'[job[r].reset] # NULL /\ resets'[job[r].reset].used
    BY <1>2, <1>13, GotoTyped, UseResetEffect DEF UseReset, InHand, Points, history
  <2>2. CASE Buys(r, n)
    <3>1. job[r].reset = n
      BY <2>1, <2>2 DEF Buys
    <3> QED  BY <1>1, <2>1, <2>2, <3>1, Leaves
  <2> QED  BY <1>4, <2>1, <2>2
<1> QED  BY <1>5, <1>6, <1>7, <1>8, <1>9, <1>10, <1>11, <1>12, <1>13 DEF Statement

LEMMA DieSpent ==
  ASSUME TypeInv, SpentInv, ForGood, NEW r \in Requests, Die(r)
  PROVE  SpentInv'
<1>1. /\ OthersUntouched(r) /\ job'[r] = NoJob /\ spent' = spent
      /\ raced' = raced \cup ({job[r].token, job[r].reset} \ {0})
  BY AnswerTyped DEF Die, End
<1>2. ASSUME NEW n \in Numbers, n \notin raced'
      PROVE  ~Buys(r, n) /\ ~Buys(r, n)' /\ n \notin raced
  BY <1>1, <1>2, ConstantsAssumption DEF Buys, NoJob, Numbers
<1> QED  BY <1>1, <1>2, NotBuying DEF SpentInv

LEMMA NextSpent ==
  ASSUME TypeInv, SpentInv, [Next]_vars
  PROVE  SpentInv'
<1>1. ForGood
  BY NextForGood
<1>2. CASE Tick \/ UNCHANGED vars
  <2>1. UNCHANGED <<tables, control, history>>
    BY <1>2 DEF Tick, vars
  <2> QED  BY <2>1 DEF SpentInv, OneBuyer, UsedUp, Buys, tables, control, history
<1> QED  BY <1>1, <1>2, ArriveSpent, StatementSpent, DieSpent DEF Next

\* What is given out stays on record with its owner, and nothing revoked or used
\* is good again, whatever overlaps or dies (AuthService).
THEOREM SpentStays == Spec => SpentForGood
<1>1. TypeInv /\ [Next]_vars => [ForGood]_vars
  BY NextForGood
<1> QED  BY <1>1, AuthInvariant, PTL DEF Spec, SpentForGood, ForGood

\* A refresh token buys one session and a reset token one password, unless two
\* requests had it in hand or one died with it (refreshToken, resetPassword).
THEOREM OnePurchase == Spec => []SpentOnce
<1>1. Init => SpentInv
  BY DEF Init, SpentInv, OneBuyer, Buys, NoJob
<1>2. SpentInv => SpentOnce
  BY DEF SpentInv, OneBuyer, SpentOnce
<1>3. TypeInv /\ SpentInv /\ [Next]_vars => SpentInv'
  BY NextSpent
<1> QED  BY <1>1, <1>2, <1>3, AuthInvariant, PTL DEF Spec

-----------------------------------------------------------------------------
(* A changed password ends the sessions.                                   *)

\* Request r may still write a hash with its own salt.
Pending(r) == pc[r] \in {"compare", "find", "load", "write"}

\* No user and no request has a hash with this salt.
Fresh(no) ==
  /\ \A u \in Users : users[u].hash.salt # no /\ no \notin past[u]
  /\ \A r \in Requests : seen[r] # NULL => seen[r].hash.salt # no

\* Salts are numbers that have been given out, and a request's own is new until it
\* is written; a user's hash is none it had before, unless one was put back.
SaltsOK ==
  /\ \A u \in Users :
       /\ users[u].hash.salt <= served /\ \A salt \in past[u] : salt <= served
       /\ ended[u] \subseteq past[u]
       /\ u \notin reverted => users[u].hash.salt \notin past[u]
  /\ \A r \in Requests :
       /\ seen[r] # NULL => seen[r].hash.salt <= served
       /\ Pending(r) => Fresh(job[r].no)
       /\ pc[r] \in {"load", "write"} =>
            mem[r].hash = seen[r].hash \/ mem[r].hash.salt = job[r].no

\* The hash a session will rest on is not one that a finished change left behind.
InDate(r) ==
  r \notin late /\ job[r].user \notin reverted =>
    /\ job[r].op = "login" => seen[r].hash.salt \notin ended[job[r].user]
    /\ job[r].op = "refresh" /\ ~tokens[job[r].token].late =>
         tokens[job[r].token].salt \notin ended[job[r].user]

AllInDate == \A r \in Requests : InDate(r)

SessionsInv == SaltsOK /\ AllInDate /\ SessionsEnd

\* No session on record gets another hash to rest on.
SameSalts ==
  \A n \in Numbers : tokens[n] # NULL =>
    tokens'[n].salt = tokens[n].salt /\ tokens'[n].late = tokens[n].late

\* r ends, or goes on with its job and with what it has in hand.
GoesOnOrEnds(r) ==
  /\ OthersUntouched(r)
  /\ seen'[r] \in {NULL, seen[r]}
  /\ \/ pc'[r] = "idle" /\ job'[r].op = "none"
     \/ /\ job'[r] = job[r] /\ seen'[r] = seen[r] /\ mem'[r] = mem[r]
        /\ r \in late => r \in late'
        /\ Pending(r)' => Pending(r)
        /\ pc'[r] \in {"load", "write"} => pc[r] \in {"load", "write"}

\* Steps after which every hash is what it was, and r has nothing new in hand.
LEMMA SaltsStay ==
  ASSUME TypeInv, SaltsOK, NEW r \in Requests, GoesOnOrEnds(r),
         \A u \in Users : users'[u].hash = users[u].hash /\ ended'[u] \subseteq past[u],
         UNCHANGED <<past, reverted>>, served <= served', served' \in Nat
  PROVE  SaltsOK'
<1> USE DEF TypeInv
<1>1. /\ \A u \in Users : users[u].hash.salt \in Int
      /\ \A u \in Users : past[u] \subseteq Int
      /\ \A q \in Requests : seen[q] # NULL => seen[q].hash.salt \in Int
      /\ served \in Int
  BY DEF TypeOK, UserRow, Hash, Numbers
<1>2. \A q \in Requests : seen'[q] # NULL => seen'[q] = seen[q]
  BY DEF OthersUntouched, GoesOnOrEnds
<1>3. \A no : Fresh(no) => Fresh(no)'
  BY <1>2 DEF Fresh
<1>4. \A q \in Requests : Pending(q)' => Pending(q) /\ job'[q] = job[q]
  BY DEF OthersUntouched, Pending, GoesOnOrEnds
<1>5. ASSUME NEW u \in Users
      PROVE  /\ users'[u].hash.salt <= served' /\ \A salt \in past'[u] : salt <= served'
             /\ ended'[u] \subseteq past'[u]
             /\ u \notin reverted' => users'[u].hash.salt \notin past'[u]
  BY <1>1 DEF SaltsOK
<1>6. ASSUME NEW q \in Requests
      PROVE  /\ seen'[q] # NULL => seen'[q].hash.salt <= served'
             /\ Pending(q)' => Fresh(job[q].no)' /\ job'[q] = job[q]
             /\ pc'[q] \in {"load", "write"} =>
                  mem'[q].hash = seen'[q].hash \/ mem'[q].hash.salt = job'[q].no
  <2>1. seen'[q] # NULL => seen'[q].hash.salt <= served'
    BY <1>1, <1>2 DEF SaltsOK
  <2>2. Pending(q)' => Fresh(job[q].no)' /\ job'[q] = job[q]
    BY <1>3, <1>4 DEF SaltsOK
  <2>3. pc'[q] \in {"load", "write"} =>
          /\ pc[q] \in {"load", "write"}
          /\ mem'[q] = mem[q] /\ seen'[q] = seen[q] /\ job'[q] = job[q]
    BY DEF OthersUntouched, GoesOnOrEnds
  <2> QED  BY <2>1, <2>2, <2>3 DEF SaltsOK
<1> QED  BY <1>5, <1>6 DEF SaltsOK, Fresh, Pending

LEMMA InDateStays ==
  ASSUME TypeInv, AllInDate, NEW r \in Requests, GoesOnOrEnds(r), SameSalts,
         UNCHANGED <<ended, reverted>>, \A q \in Requests \ {r} : q \in late => q \in late'
  PROVE  AllInDate'
<1> SUFFICES ASSUME NEW q \in Requests PROVE InDate(q)'
  BY DEF AllInDate
<1>1. InDate(q) /\ InHand(q)
  BY DEF AllInDate, TypeInv, InHandOK
<1>2. CASE job'[q].op = "none"
  BY <1>2 DEF InDate
<1>3. CASE job'[q] = job[q] /\ seen'[q] = seen[q] /\ (q \in late => q \in late')
  <2>1. job[q].op = "refresh" => /\ tokens'[job[q].token].salt = tokens[job[q].token].salt
                                 /\ tokens'[job[q].token].late = tokens[job[q].token].late
    BY <1>1 DEF InHand, SameSalts
  <2> QED  BY <1>1, <1>3, <2>1 DEF InDate
<1> QED  BY <1>2, <1>3 DEF OthersUntouched, GoesOnOrEnds

LEMMA HashesStay ==
  ASSUME TypeInv, SessionsInv, NEW r \in Requests, GoesOnOrEnds(r), OldSessions,
         \A u \in Users : users'[u].hash = users[u].hash,
         UNCHANGED <<past, ended, reverted>>, served <= served', served' \in Nat,
         \A q \in Requests \ {r} : q \in late => q \in late'
  PROVE  SessionsInv'
<1>1. SaltsOK'
  BY SaltsStay DEF SessionsInv, SaltsOK
<1>2. AllInDate'
  BY InDateStays DEF SessionsInv, OldSessions, SameSalts
<1>3. SessionsEnd'
  BY DEF SessionsInv, SessionsEnd, OldSessions
<1> QED  BY <1>1, <1>2, <1>3 DEF SessionsInv

\* A request is taken up, with nothing or the row of its user in hand.
LEMMA HashesKnown ==
  ASSUME TypeInv, SessionsInv, NEW r \in Requests, OthersUntouched(r),
         UNCHANGED <<users, tokens, past, ended, reverted, late>>,
         served' = served + 1, job'[r].no = served + 1,
         NEW u \in Users, seen'[r] \in {NULL, users[u]},
         pc'[r] \in {"load", "write"} =>
           mem'[r].hash = seen'[r].hash \/ mem'[r].hash.salt = job'[r].no,
         InDate(r)'
  PROVE  SessionsInv'
<1> USE DEF TypeInv
<1>1. /\ \A v \in Users : users[v].hash.salt \in Int /\ users[v].hash.salt <= served
      /\ \A v \in Users : \A salt \in past[v] : salt \in Int /\ salt <= served
      /\ \A q \in Requests : seen[q] # NULL =>
           seen[q].hash.salt \in Int /\ seen[q].hash.salt <= served
      /\ served \in Int
  BY DEF TypeOK, UserRow, Hash, Numbers, SessionsInv, SaltsOK
<1>2. \A q \in Requests : seen'[q] # NULL =>
        \/ seen'[q] = seen[q] /\ seen[q] # NULL
        \/ seen'[q] = users[u]
  BY DEF OthersUntouched
<1>3. \A no : Fresh(no) => Fresh(no)'
  BY <1>2 DEF Fresh
<1>4. Fresh(served + 1)
  BY <1>1 DEF Fresh
<1>5. SaltsOK'
  <2>1. ASSUME NEW v \in Users
        PROVE  /\ users'[v].hash.salt <= served' /\ \A salt \in past'[v] : salt <= served'
               /\ ended'[v] \subseteq past'[v]
               /\ v \notin reverted' => users'[v].hash.salt \notin past'[v]
    BY <1>1 DEF SessionsInv, SaltsOK
  <2>2. ASSUME NEW q \in Requests, NEW no, no = job'[q].no
        PROVE  /\ seen'[q] # NULL => seen'[q].hash.salt <= served'
               /\ Pending(q)' => Fresh(no)'
               /\ pc'[q] \in {"load", "write"} =>
                    mem'[q].hash = seen'[q].hash \/ mem'[q].hash.salt = job'[q].no
    <3>1. seen'[q] # NULL => seen'[q].hash.salt <= served'
      BY <1>1, <1>2
    <3>2. Pending(q)' => Fresh(no)'
      <4>1. CASE q = r
        BY <1>3, <1>4, <2>2, <4>1
      <4>2. CASE q # r
        <5>1. Pending(q)' => Pending(q) /\ job'[q] = job[q]
          BY <4>2 DEF Pending, OthersUntouched
        <5> QED  BY <1>3, <2>2, <5>1 DEF SessionsInv, SaltsOK
      <4> QED  BY <4>1, <4>2
    <3>3. q # r => pc'[q] = pc[q] /\ mem'[q] = mem[q] /\ seen'[q] = seen[q] /\ job'[q] = job[q]
      BY DEF OthersUntouched
    <3> QED  BY <3>1, <3>2, <3>3 DEF SessionsInv, SaltsOK
  <2> QED  BY <2>1, <2>2 DEF SaltsOK, Fresh, Pending
<1>6. AllInDate'
  <2> SUFFICES ASSUME NEW q \in Requests, q # r PROVE InDate(q)'
    BY DEF AllInDate
  <2>1. job'[q] = job[q] /\ seen'[q] = seen[q] /\ InDate(q)
    BY DEF SessionsInv, AllInDate, OthersUntouched
  <2> QED  BY <2>1 DEF InDate
<1>7. SessionsEnd'
  BY DEF SessionsInv, SessionsEnd
<1> QED  BY <1>5, <1>6, <1>7 DEF SessionsInv

-----------------------------------------------------------------------------
(* What a statement does to the account.                                   *)

LEMMA CountEffect ==
  ASSUME TypeInv, NEW r \in Requests, Count(r)
  PROVE  \A v \in Users :
           /\ users'[v].hash = users[v].hash /\ users'[v].deleted = users[v].deleted
           /\ users'[v].locked = users[v].locked
           /\ v # job[r].user => users'[v] = users[v]
<1>1. PICK u \in Users : u = job[r].user
  BY DEF Count, TypeInv, InHandOK, InHand
<1>2. users[u] \in UserRow
  BY DEF TypeInv, TypeOK
<1>3. PICK row : row = [users[u] EXCEPT !.failed = @ + 1]
  OBVIOUS
<1>4. row.hash = users[u].hash /\ row.deleted = users[u].deleted /\ row.locked = users[u].locked
  BY <1>2, <1>3 DEF UserRow
<1>5. users' = [users EXCEPT ![u] = row]
  BY <1>1, <1>3 DEF Count
<1> QED  BY <1>1, <1>4, <1>5 DEF TypeInv, TypeOK

LEMMA LockEffect ==
  ASSUME TypeInv, NEW r \in Requests, LockUntil(r)
  PROVE  /\ job[r].user \in Users /\ users'[job[r].user].locked = now + LockTime
         /\ \A v \in Users :
              /\ users'[v].hash = users[v].hash /\ users'[v].deleted = users[v].deleted
              /\ users'[v].failed = users[v].failed
              /\ v # job[r].user => users'[v] = users[v]
<1>1. PICK u \in Users : u = job[r].user
  BY DEF LockUntil, TypeInv, InHandOK, InHand
<1>2. users[u] \in UserRow
  BY DEF TypeInv, TypeOK
<1>3. PICK until : until = now + LockTime
  OBVIOUS
<1>4. PICK row : row = [users[u] EXCEPT !.locked = until]
  OBVIOUS
<1>5. /\ row.hash = users[u].hash /\ row.deleted = users[u].deleted
      /\ row.failed = users[u].failed /\ row.locked = until
  BY <1>2, <1>4 DEF UserRow
<1>6. users' = [users EXCEPT ![u] = row]
  BY <1>1, <1>3, <1>4 DEF LockUntil
<1> QED  BY <1>1, <1>3, <1>5, <1>6 DEF TypeInv, TypeOK

LEMMA ClearEffect ==
  ASSUME TypeInv, NEW r \in Requests, Clear(r)
  PROVE  /\ job[r].user \in Users /\ users'[job[r].user].failed = 0
         /\ \A v \in Users :
              /\ users'[v].hash = users[v].hash /\ users'[v].deleted = users[v].deleted
              /\ v # job[r].user => users'[v] = users[v]
<1>1. PICK u \in Users : u = job[r].user
  BY DEF Clear, TypeInv, InHandOK, InHand
<1>2. users[u] \in UserRow
  BY DEF TypeInv, TypeOK
<1>3. PICK row : row = [users[u] EXCEPT !.failed = 0, !.locked = 0]
  OBVIOUS
<1>4. row.hash = users[u].hash /\ row.deleted = users[u].deleted /\ row.failed = 0
  BY <1>2, <1>3 DEF UserRow
<1>5. users' = [users EXCEPT ![u] = row]
  BY <1>1, <1>3 DEF Clear, TypeInv, TypeOK
<1> QED  BY <1>1, <1>4, <1>5 DEF TypeInv, TypeOK

LEMMA RemoveEffect ==
  ASSUME TypeInv, NEW r \in Requests, NEW u \in Users, Remove(r, u)
  PROVE  /\ users'[u].deleted
         /\ \A v \in Users :
              /\ users'[v].hash = users[v].hash /\ users'[v].failed = users[v].failed
              /\ users'[v].locked = users[v].locked
              /\ v # u => users'[v] = users[v]
<1>1. users[u] \in UserRow
  BY DEF TypeInv, TypeOK
<1>2. PICK row : row = [users[u] EXCEPT !.deleted = TRUE]
  OBVIOUS
<1>3. /\ row.hash = users[u].hash /\ row.failed = users[u].failed
      /\ row.locked = users[u].locked /\ row.deleted
  BY <1>1, <1>2 DEF UserRow
<1>4. users' = [users EXCEPT ![u] = row]
  BY <1>2 DEF Remove
<1> QED  BY <1>3, <1>4 DEF TypeInv, TypeOK

\* save writes each column from the copy or leaves it as it is.
LEMMA WriteEffect ==
  ASSUME TypeInv, NEW r \in Requests, SaveWrite(r), NEW u, u = job[r].user
  PROVE  /\ u \in Users /\ mem[r] \in UserRow /\ seen[r] \in UserRow
         /\ \A v \in Users \ {u} : users'[v] = users[v]
         /\ users'[u].hash \in {users[u].hash, mem[r].hash}
         /\ users'[u].failed \in {users[u].failed, mem[r].failed}
         /\ users'[u].locked \in {users[u].locked, mem[r].locked}
<1>1. InHand(r) /\ pc[r] = "write"
  BY DEF SaveWrite, TypeInv, InHandOK
<1>2. /\ u \in Users /\ users[u] \in UserRow
      /\ mem[r] \in UserRow /\ base[r] \in UserRow /\ seen[r] \in UserRow
  BY <1>1 DEF InHand, TypeInv, TypeOK
<1>3. PICK new : new = Merge(users[u], mem[r], base[r])
  OBVIOUS
<1>4. /\ new.hash \in {users[u].hash, mem[r].hash}
      /\ new.failed \in {users[u].failed, mem[r].failed}
      /\ new.locked \in {users[u].locked, mem[r].locked}
  BY <1>2, <1>3, MergeTyped
<1>5. users' = [users EXCEPT ![u] = new]
  BY <1>3 DEF SaveWrite
<1> QED  BY <1>2, <1>4, <1>5 DEF TypeInv, TypeOK

-----------------------------------------------------------------------------
LEMMA FindSessions ==
  ASSUME TypeInv, SessionsInv, NEW r \in Requests, Find(r), ~End(r)
  PROVE  SessionsInv'
<1> USE DEF TypeInv
<1>1. InHand(r) /\ pc[r] = "find"
  BY DEF Find, InHandOK
<1>2. PICK u \in Users : u = job[r].user
  BY <1>1 DEF InHand
<1>3. PICK hash : hash = [password |-> job[r].password, salt |-> job[r].no]
  OBVIOUS
<1>4. PICK row : row = [users[u] EXCEPT !.hash = hash]
  OBVIOUS
<1>5. /\ seen' = [seen EXCEPT ![r] = users[u]]
      /\ mem' = [mem EXCEPT ![r] = row] /\ pc' = [pc EXCEPT ![r] = "load"]
      /\ UNCHANGED <<served, job, base, late>>
      /\ UNCHANGED <<tables, now, spent, raced, past, ended, reverted, shaken, failedAt>>
  BY <1>2, <1>3, <1>4 DEF Find
<1>6. row.hash.salt = job[r].no
  BY <1>3, <1>4 DEF TypeOK, UserRow
<1>7. /\ seen'[r] = users[u] /\ mem'[r] = row /\ pc'[r] = "load"
      /\ \A q \in Requests \ {r} : seen'[q] = seen[q] /\ mem'[q] = mem[q] /\ pc'[q] = pc[q]
  BY <1>5 DEF TypeOK
<1>8. \A no : Fresh(no) => Fresh(no)'
  BY <1>5, <1>7 DEF Fresh, tables
<1>9. SaltsOK'
  <2>1. ASSUME NEW v \in Users
        PROVE  /\ users'[v].hash.salt <= served' /\ \A salt \in past'[v] : salt <= served'
               /\ ended'[v] \subseteq past'[v]
               /\ v \notin reverted' => users'[v].hash.salt \notin past'[v]
    BY <1>5 DEF SessionsInv, SaltsOK, tables
  <2>2. ASSUME NEW q \in Requests
        PROVE  /\ seen'[q] # NULL => seen'[q].hash.salt <= served'
               /\ Pending(q)' => Fresh(job[q].no)' /\ job'[q] = job[q]
               /\ pc'[q] \in {"load", "write"} =>
                    mem'[q].hash = seen'[q].hash \/ mem'[q].hash.salt = job'[q].no
    <3>1. Pending(r)
      BY <1>1 DEF Pending
    <3>2. Pending(q)' => Pending(q)
      BY <1>7, <3>1 DEF Pending
    <3>3. seen'[q] # NULL => seen'[q].hash.salt <= served'
      BY <1>5, <1>7 DEF SessionsInv, SaltsOK
    <3>4. pc'[q] \in {"load", "write"} =>
            mem'[q].hash = seen'[q].hash \/ mem'[q].hash.salt = job'[q].no
      BY <1>5, <1>6, <1>7 DEF SessionsInv, SaltsOK
    <3> QED  BY <1>5, <1>8, <3>2, <3>3, <3>4 DEF SessionsInv, SaltsOK
  <2> QED  BY <2>1, <2>2 DEF SaltsOK, Fresh, Pending
<1>10. AllInDate'
  <2> SUFFICES ASSUME NEW q \in Requests PROVE InDate(q)'
    BY DEF AllInDate
  <2>1. q = r => job[q].op \in {"change", "reset"}
    BY <1>1 DEF InHand
  <2>2. InDate(q)
    BY DEF SessionsInv, AllInDate
  <2> QED  BY <1>5, <1>7, <2>1, <2>2 DEF InDate, tables
<1>11. SessionsEnd'
  BY <1>5 DEF SessionsInv, SessionsEnd, tables
<1> QED  BY <1>9, <1>10, <1>11 DEF SessionsInv

LEMMA WriteSessions ==
  ASSUME TypeInv, SessionsInv, NEW r \in Requests, SaveWrite(r)
  PROVE  SessionsInv'
<1> USE DEF TypeInv
<1>1. InHand(r) /\ pc[r] = "write"
  BY DEF SaveWrite, InHandOK
<1>2. PICK u : u = job[r].user
  OBVIOUS
<1>3. /\ u \in Users /\ mem[r] \in UserRow /\ seen[r] \in UserRow
      /\ \A v \in Users \ {u} : users'[v] = users[v]
      /\ users'[u].hash \in {users[u].hash, mem[r].hash}
  BY <1>2, WriteEffect
<1>4. users'[u].hash # users[u].hash =>
        /\ past' = [past EXCEPT ![u] = @ \cup {users[u].hash.salt}]
        /\ mem[r].hash = seen[r].hash => u \in reverted'
  <2>1. PICK new : new = Merge(users[u], mem[r], base[r])
    OBVIOUS
  <2>2. users'[u] = new
    BY <1>2, <1>3, <2>1 DEF SaveWrite, TypeOK
  <2>3. new.hash # users[u].hash =>
          /\ past' = [past EXCEPT ![u] = @ \cup {users[u].hash.salt}]
          /\ mem[r].hash = seen[r].hash => u \in reverted'
    BY <1>2, <2>1 DEF SaveWrite
  <2> QED  BY <2>2, <2>3
<1>5. users'[u].hash = users[u].hash => past' = past
  <2>1. PICK new : new = Merge(users[u], mem[r], base[r])
    OBVIOUS
  <2>2. users'[u] = new
    BY <1>2, <1>3, <2>1 DEF SaveWrite, TypeOK
  <2> QED  BY <1>2, <2>1, <2>2 DEF SaveWrite
<1>6. /\ OthersUntouched(r)
      /\ \/ pc'[r] = "idle" /\ job'[r] = NoJob /\ seen'[r] = NULL
         \/ pc'[r] \in {"revoke", "use"} /\ job'[r] = job[r] /\ seen'[r] = seen[r]
      /\ UNCHANGED <<tokens, ended, served>> /\ reverted \subseteq reverted'
      /\ \A q \in Requests \ {r} : q \in late => q \in late'
      /\ r \in late => r \in late' \/ pc'[r] = "idle"
  <2>1. /\ UNCHANGED <<tokens, ended>> /\ reverted \subseteq reverted'
    BY DEF SaveWrite
  <2>2. \/ Answer(r) /\ late' = late \ {r}
        \/ (Goto(r, "use") \/ Goto(r, "revoke")) /\ late' = late
    BY DEF SaveWrite, End
  <2>3. CASE Answer(r) /\ late' = late \ {r}
    <3>1. seen'[r] = NULL
      BY <2>3 DEF Answer, TypeOK
    <3> QED  BY <2>1, <2>3, <3>1, AnswerTyped
  <2>4. CASE (Goto(r, "use") \/ Goto(r, "revoke")) /\ late' = late
    BY <2>1, <2>4, GotoTyped DEF Points
  <2> QED  BY <2>2, <2>3, <2>4
<1>7. /\ \A v \in Users \ {u} : past'[v] = past[v]
      /\ \/ users'[u].hash = users[u].hash /\ past'[u] = past[u]
         \/ /\ users'[u].hash = mem[r].hash
            /\ past'[u] = past[u] \cup {users[u].hash.salt}
            /\ mem[r].hash = seen[r].hash => u \in reverted'
  BY <1>3, <1>4, <1>5 DEF TypeOK
<1>8. /\ mem[r].hash = seen[r].hash \/ mem[r].hash.salt = job[r].no
      /\ seen[r] # NULL /\ seen[r].hash.salt <= served
      /\ Fresh(job[r].no) /\ job[r].no <= served
  <2>1. Pending(r) /\ job[r].no <= served
    BY <1>1 DEF Pending, InHand
  <2> QED  BY <1>1, <1>3, <2>1, NullAssumption DEF SessionsInv, SaltsOK
<1>9. ASSUME NEW no, Fresh(no), no # job[r].no
      PROVE  Fresh(no)'
  <2>1. mem[r].hash.salt # no
    BY <1>8, <1>9 DEF Fresh
  <2>2. \A v \in Users : users'[v].hash.salt # no /\ no \notin past'[v]
    BY <1>3, <1>7, <1>9, <2>1 DEF Fresh
  <2>3. \A q \in Requests : seen'[q] # NULL => seen'[q].hash.salt # no
    BY <1>6, <1>9 DEF Fresh, OthersUntouched
  <2> QED  BY <2>2, <2>3 DEF Fresh
<1>10. SaltsOK'
  <2>1. ASSUME NEW v \in Users
        PROVE  /\ users'[v].hash.salt <= served' /\ \A salt \in past'[v] : salt <= served'
               /\ ended'[v] \subseteq past'[v]
               /\ v \notin reverted' => users'[v].hash.salt \notin past'[v]
    <3>1. mem[r].hash.salt <= served
      BY <1>8
    <3>2. users'[v].hash.salt <= served' /\ \A salt \in past'[v] : salt <= served'
      BY <1>3, <1>6, <1>7, <3>1 DEF SessionsInv, SaltsOK
    <3>3. ended'[v] \subseteq past'[v]
      BY <1>6, <1>7 DEF SessionsInv, SaltsOK
    <3>4. v \notin reverted' => users'[v].hash.salt \notin past'[v]
      BY <1>3, <1>6, <1>7, <1>8 DEF SessionsInv, SaltsOK, Fresh
    <3> QED  BY <3>2, <3>3, <3>4
  <2>2. ASSUME NEW q \in Requests
        PROVE  /\ seen'[q] # NULL => seen'[q].hash.salt <= served'
               /\ Pending(q)' => Fresh(job[q].no)' /\ job'[q] = job[q]
               /\ pc'[q] \in {"load", "write"} =>
                    mem'[q].hash = seen'[q].hash \/ mem'[q].hash.salt = job'[q].no
    <3>1. CASE q = r
      <4>1. ~Pending(r)' /\ pc'[r] \notin {"load", "write"}
        BY <1>6 DEF Pending
      <4> QED  BY <1>6, <1>8, <3>1, <4>1
    <3>2. CASE q # r
      <4>1. /\ pc'[q] = pc[q] /\ job'[q] = job[q] /\ seen'[q] = seen[q] /\ mem'[q] = mem[q]
        BY <1>6, <3>2 DEF OthersUntouched
      <4>2. Pending(q)' => Pending(q) /\ job[q].no # job[r].no
        BY <1>1, <3>2, <4>1 DEF Pending, NumbersOK
      <4> QED  BY <1>6, <1>9, <4>1, <4>2 DEF SessionsInv, SaltsOK
    <3> QED  BY <3>1, <3>2
  <2> QED  BY <2>1, <2>2 DEF SaltsOK, Fresh, Pending
<1>11. AllInDate'
  <2> SUFFICES ASSUME NEW q \in Requests PROVE InDate(q)'
    BY DEF AllInDate
  <2>1. InDate(q) /\ (q = r => job[q].op \in {"change", "reset", "admin"})
    BY <1>1 DEF InHand, SessionsInv, AllInDate
  <2>2. CASE q = r
    BY <1>6, <2>1, <2>2 DEF InDate, NoJob
  <2>3. CASE q # r
    BY <1>6, <2>1, <2>3 DEF InDate, OthersUntouched
  <2> QED  BY <2>2, <2>3
<1>12. SessionsEnd'
  BY <1>6 DEF SessionsInv, SessionsEnd
<1> QED  BY <1>10, <1>11, <1>12 DEF SessionsInv

LEMMA IssueSessions ==
  ASSUME TypeInv, SessionsInv, NEW r \in Requests, Issue(r)
  PROVE  SessionsInv'
<1> USE DEF TypeInv
<1>1. InHand(r) /\ pc[r] = "issue" /\ InDate(r)
  BY DEF Issue, InHandOK, SessionsInv, AllInDate
<1>2. /\ Answer(r) /\ late' = late \ {r} /\ served' = served
      /\ UNCHANGED <<users, resets, now, raced, past, ended, reverted, shaken, failedAt>>
  BY DEF Issue, End, Answer
<1>3. GoesOnOrEnds(r)
  <2>1. seen'[r] = NULL
    BY <1>2 DEF Answer, TypeOK
  <2> QED  BY <1>2, <2>1, AnswerTyped DEF GoesOnOrEnds, NoJob
<1>4. SaltsOK'
  <2>1. \A u \in Users : users'[u].hash = users[u].hash /\ ended'[u] \subseteq past[u]
    BY <1>2 DEF SessionsInv, SaltsOK
  <2>2. served <= served' /\ served' \in Nat
    BY <1>2 DEF TypeOK
  <2> QED  BY <1>2, <1>3, <2>1, <2>2, SaltsStay DEF SessionsInv
<1>5. AllInDate'
  BY <1>2, <1>3, IssueEffect, InDateStays DEF SessionsInv, SameSalts
<1>6. SessionsEnd'
  <2> SUFFICES ASSUME NEW n \in Numbers, tokens'[n] # NULL, ~tokens'[n].revoked,
                      ~tokens'[n].late, tokens'[n].user \notin reverted'
               PROVE  tokens'[n].salt \notin ended'[tokens'[n].user]
    BY DEF SessionsEnd
  <2>1. CASE n # job[r].no
    BY <1>2, <2>1, IssueEffect DEF SessionsInv, SessionsEnd
  <2>2. CASE n = job[r].no
    <3>1. tokens'[n].user = job[r].user /\ job[r].op \in {"login", "refresh"}
      BY <1>1, <2>2, IssueEffect DEF InHand
    <3>2. CASE job[r].op = "login"
      <4>1. tokens'[n].salt = seen[r].hash.salt /\ tokens'[n].late = (r \in late)
        BY <2>2, <3>2, IssueEffect
      <4> QED  BY <1>1, <1>2, <3>1, <3>2, <4>1 DEF InDate
    <3>3. CASE job[r].op = "refresh"
      <4>1. /\ tokens'[n].salt = tokens[job[r].token].salt
            /\ tokens'[n].late = (r \in late \/ tokens[job[r].token].late)
        BY <2>2, <3>3, IssueEffect
      <4> QED  BY <1>1, <1>2, <3>1, <3>3, <4>1 DEF InDate
    <3> QED  BY <3>1, <3>2, <3>3
  <2> QED  BY <2>1, <2>2
<1> QED  BY <1>4, <1>5, <1>6 DEF SessionsInv

\* The end of changePassword and of resetPassword.
LEMMA RevokeSessions ==
  ASSUME TypeInv, SessionsInv, NEW r \in Requests, Revoke(r), job[r].op # "logout"
  PROVE  SessionsInv'
<1> USE DEF TypeInv
<1>1. PICK u : u = job[r].user
  OBVIOUS
<1>2. /\ Answer(r) /\ served' = served
      /\ late' = {q \in Requests \ {r} : q \in late \/ job[q].user = u}
      /\ ended' = [ended EXCEPT ![u] = @ \cup past[u]]
      /\ UNCHANGED <<users, resets, now, spent, raced, past, reverted, shaken, failedAt>>
  BY <1>1 DEF Revoke, Answer
<1>3. GoesOnOrEnds(r)
  <2>1. seen'[r] = NULL
    BY <1>2 DEF Answer, TypeOK
  <2> QED  BY <1>2, <2>1, AnswerTyped DEF GoesOnOrEnds, NoJob
<1>4. \A v \in Users : /\ v # u => ended'[v] = ended[v]
                       /\ v = u => ended'[v] = ended[v] \cup past[v]
  BY <1>2 DEF TypeOK
<1>5. SaltsOK'
  <2>1. \A v \in Users : users'[v].hash = users[v].hash /\ ended'[v] \subseteq past[v]
    BY <1>2, <1>4 DEF SessionsInv, SaltsOK
  <2>2. served <= served' /\ served' \in Nat
    BY <1>2 DEF TypeOK
  <2> QED  BY <1>2, <1>3, <2>1, <2>2, SaltsStay DEF SessionsInv
<1>6. AllInDate'
  <2> SUFFICES ASSUME NEW q \in Requests PROVE InDate(q)'
    BY DEF AllInDate
  <2>1. CASE q = r
    BY <1>2, <2>1, AnswerTyped DEF InDate, NoJob
  <2>2. CASE q # r /\ job[q].user = u
    BY <1>2, <1>3, <2>2 DEF InDate, GoesOnOrEnds, OthersUntouched
  <2>3. CASE q # r /\ job[q].user # u
    <3>1. job'[q] = job[q] /\ seen'[q] = seen[q] /\ InDate(q) /\ InHand(q)
      BY <1>3, <2>3 DEF GoesOnOrEnds, OthersUntouched, InHandOK, SessionsInv, AllInDate
    <3>2. job[q].op = "refresh" => /\ tokens'[job[q].token].salt = tokens[job[q].token].salt
                                   /\ tokens'[job[q].token].late = tokens[job[q].token].late
      BY <3>1, RevokeEffect DEF InHand, OldSessions
    <3>3. job[q].op \in {"login", "refresh"} => job[q].user \in Users
      BY <3>1 DEF InHand, NoJob
    <3> QED  BY <1>2, <1>4, <2>3, <3>1, <3>2, <3>3 DEF InDate
  <2> QED  BY <2>1, <2>2, <2>3
<1>7. SessionsEnd'
  <2> SUFFICES ASSUME NEW n \in Numbers, tokens'[n] # NULL, ~tokens'[n].revoked,
                      ~tokens'[n].late, tokens'[n].user \notin reverted'
               PROVE  tokens'[n].salt \notin ended'[tokens'[n].user]
    BY DEF SessionsEnd
  <2>1. tokens'[n].user # u
    BY <1>1, RevokeEffect
  <2>2. /\ tokens[n] # NULL /\ tokens'[n].user = tokens[n].user /\ tokens[n].user \in Users
        /\ tokens'[n].salt = tokens[n].salt /\ tokens'[n].late = tokens[n].late
        /\ ~tokens[n].revoked
    BY RevokeEffect DEF OldSessions, TypeOK, RefreshToken
  <2> QED  BY <1>2, <1>4, <2>1, <2>2 DEF SessionsInv, SessionsEnd
<1> QED  BY <1>5, <1>6, <1>7 DEF SessionsInv

LEMMA GoesOnEffect ==
  ASSUME TypeInv, NEW r \in Requests
  PROVE  /\ Answer(r) => GoesOnOrEnds(r) /\ served' = served
         /\ \A point \in Points \ {"load", "write"} :
              /\ Goto(r, point) /\ late' = late
              /\ point \in {"compare", "find"} => Pending(r)
              => GoesOnOrEnds(r) /\ served' = served
<1>1. ASSUME Answer(r) PROVE GoesOnOrEnds(r) /\ served' = served
  <2>1. seen'[r] = NULL
    BY <1>1 DEF Answer, TypeInv, TypeOK
  <2> QED  BY <1>1, <2>1, AnswerTyped DEF GoesOnOrEnds, NoJob
<1>2. ASSUME NEW point \in Points \ {"load", "write"}, Goto(r, point), late' = late,
             point \in {"compare", "find"} => Pending(r)
      PROVE  GoesOnOrEnds(r) /\ served' = served
  BY <1>2, GotoTyped DEF GoesOnOrEnds, Pending
<1> QED  BY <1>1, <1>2

LEMMA ArriveSessions ==
  ASSUME TypeInv, SessionsInv, NEW r \in Requests, Arrive(r)
  PROVE  SessionsInv'
<1>1. SaltsOK /\ SessionsEnd
  BY DEF SessionsInv
<1>2. \A u \in Users \ reverted : users[u].hash.salt \notin ended[u]
  BY <1>1 DEF SaltsOK
<1>3. ASSUME NEW u \in Users, NEW p \in Passwords, Login(r, u, p)
      PROVE  SessionsInv'
  <2>1. /\ UNCHANGED <<users, tokens, past, ended, reverted, late>> /\ served' = served + 1
    BY <1>3 DEF Login, Begin, tables, history
  <2>2. InDate(r)'
    BY <1>2, <1>3, <2>1, LoginEffect DEF InDate
  <2> QED  BY <1>3, <2>1, <2>2, LoginEffect, HashesKnown
<1>4. ASSUME NEW u \in Users, NEW p \in Passwords, ChangePassword(r, u, p)
      PROVE  SessionsInv'
  <2>1. /\ UNCHANGED <<users, tokens, past, ended, reverted, late>> /\ served' = served + 1
    BY <1>4 DEF ChangePassword, Begin, tables, history
  <2>2. InDate(r)'
    BY <1>4, ChangeEffect DEF InDate
  <2> QED  BY <1>4, <2>1, <2>2, ChangeEffect, HashesKnown
<1>5. ASSUME NEW n \in Numbers, RefreshToken_(r, n)
      PROVE  SessionsInv'
  <2>1. /\ UNCHANGED <<users, tokens, past, ended, reverted, late>> /\ served' = served + 1
    BY <1>5 DEF RefreshToken_, Begin, tables
  <2>2. tokens[n] # NULL /\ ~tokens[n].revoked /\ tokens[n].user \in Users
    BY <1>5 DEF RefreshToken_, Usable, TypeInv, TypeOK, RefreshToken
  <2>3. InDate(r)'
    BY <1>1, <1>5, <2>1, <2>2, RefreshEffect DEF InDate, SessionsEnd
  <2> QED  BY <1>5, <2>1, <2>2, <2>3, RefreshEffect, HashesKnown
<1>6. ASSUME NEW u \in Users, NEW n \in Numbers \cup {0}, Logout(r, u, n)
      PROVE  SessionsInv'
  <2>1. /\ UNCHANGED <<users, tokens, past, ended, reverted, late>> /\ served' = served + 1
    BY <1>6 DEF Logout, Begin, tables, history
  <2>2. InDate(r)'
    BY <1>6, LogoutEffect DEF InDate
  <2> QED  BY <1>6, <2>1, <2>2, LogoutEffect, HashesKnown
<1>7. ASSUME NEW n \in Numbers, NEW p \in Passwords, ResetPassword(r, n, p)
      PROVE  SessionsInv'
  <2>1. /\ UNCHANGED <<users, tokens, past, ended, reverted, late>> /\ served' = served + 1
    BY <1>7 DEF ResetPassword, Begin, tables
  <2>2. InDate(r)'
    BY <1>7, ResetEffect DEF InDate
  <2>3. resets[n].user \in Users
    BY <1>7 DEF ResetPassword, TypeInv, TypeOK, PasswordReset
  <2> QED  BY <1>7, <2>1, <2>2, <2>3, ResetEffect, HashesKnown
<1>8. ASSUME NEW u \in Users, Administer(r, u)
      PROVE  SessionsInv'
  <2>1. /\ UNCHANGED <<users, tokens, past, ended, reverted, late>> /\ served' = served + 1
    BY <1>8 DEF Administer, tables, history
  <2>2. InDate(r)'
    BY <1>8, AdministerEffect DEF InDate
  <2> QED  BY <1>8, <2>1, <2>2, AdministerEffect, HashesKnown
<1>9. ASSUME NEW u \in Users, ForgotPassword(r, u) \/ Remove(r, u)
      PROVE  SessionsInv'
  <2>1. /\ UNCHANGED <<tokens, past, ended, reverted, late, pc, job, seen, mem, base>>
        /\ served' = served + 1
    BY <1>9 DEF ForgotPassword, Remove, tables, history
  <2>2. \A v \in Users : users'[v].hash = users[v].hash
    BY <1>9, RemoveEffect DEF ForgotPassword
  <2>3. GoesOnOrEnds(r) /\ OldSessions
    BY <2>1 DEF GoesOnOrEnds, OthersUntouched, OldSessions, Pending
  <2>4. served <= served' /\ served' \in Nat
    BY <2>1 DEF TypeInv, TypeOK
  <2> QED  BY <2>1, <2>2, <2>3, <2>4, HashesStay
<1> QED  BY <1>3, <1>4, <1>5, <1>6, <1>7, <1>8, <1>9 DEF Arrive, AuthController, UserController

\* The statements that leave every hash as it is, and the deaths.
LEMMA QuietSessions ==
  ASSUME TypeInv, SessionsInv, NEW r \in Requests,
         Statement(r) \/ Die(r), ~Issue(r), ~SaveWrite(r),
         Find(r) => End(r), Revoke(r) => job[r].op = "logout"
  PROVE  SessionsInv'
<1>1. InHand(r)
  BY DEF TypeInv, InHandOK
<1>2. \A u \in Users : users'[u].hash = users[u].hash
  BY CountEffect, LockEffect, ClearEffect DEF Statement, Die, Recount, Rotate, Revoke, Compare,
     Find, SaveLoad, UseReset, tables
<1>3. UNCHANGED <<past, ended, reverted>> /\ \A q \in Requests \ {r} : q \in late => q \in late'
  BY DEF Statement, Die, Count, Recount, LockUntil, Clear, Rotate, Revoke, Compare,
     Find, SaveLoad, UseReset, history, End
<1>4. OldSessions
  <2>1. tokens' = tokens => OldSessions
    BY DEF OldSessions
  <2> QED  BY <2>1, RotateEffect, RevokeEffect DEF Statement, Die, Count, Recount, LockUntil,
              Clear, Compare, Find, SaveLoad, UseReset, tables
<1>5. GoesOnOrEnds(r) /\ served' = served
  <2>1. CASE Answer(r)
    BY <2>1, GoesOnEffect
  <2>2. CASE SaveLoad(r)
    BY <2>2 DEF SaveLoad, GoesOnOrEnds, OthersUntouched, Pending, TypeInv, TypeOK, history
  <2>3. CASE /\ ~Answer(r) /\ ~SaveLoad(r)
    <3>1. \/ late' = late /\ (\/ Goto(r, "recount") \/ Goto(r, "lock") \/ Goto(r, "issue")
                              \/ Goto(r, "revoke"))
          \/ late' = late /\ Goto(r, "find") /\ pc[r] = "compare"
      BY <2>3 DEF Statement, Die, Count, Recount, LockUntil, Clear, Rotate, Revoke, Compare,
         Find, UseReset, history, End
    <3> QED  BY <3>1, GoesOnEffect DEF Points, Pending
  <2> QED  BY <2>1, <2>2, <2>3
<1>6. served <= served' /\ served' \in Nat
  BY <1>5 DEF TypeInv, TypeOK
<1> QED  BY <1>2, <1>3, <1>4, <1>5, <1>6, HashesStay

LEMMA NextSessions ==
  ASSUME TypeInv, SessionsInv, [Next]_vars
  PROVE  SessionsInv'
<1>1. CASE Tick \/ UNCHANGED vars
  <2>1. UNCHANGED <<users, tokens, served, pc, job, seen, mem, late, past, ended, reverted>>
    BY <1>1 DEF Tick, vars, tables, control, history
  <2> QED  BY <2>1 DEF SessionsInv, SaltsOK, Fresh, Pending, AllInDate, InDate, SessionsEnd
<1>2. ASSUME NEW r \in Requests, Statement(r) \/ Die(r)
      PROVE  SessionsInv'
  <2>1. CASE Issue(r) \/ SaveWrite(r)
    BY <2>1, IssueSessions, WriteSessions
  <2>2. CASE Find(r) /\ ~End(r)
    BY <2>2, FindSessions
  <2>3. CASE Revoke(r) /\ job[r].op # "logout"
    BY <2>3, RevokeSessions
  <2> QED  BY <1>2, <2>1, <2>2, <2>3, QuietSessions
<1> QED  BY <1>1, <1>2, ArriveSessions DEF Next

\* When a change or a reset of the password is over, no session rests on a hash the
\* user had before, but those of requests it overtook (changePassword,
\* resetPassword).
THEOREM SessionsDoEnd == Spec => []SessionsEnd
<1>1. Init => SessionsInv
  <2>1. SUFFICES ASSUME Init PROVE SessionsInv
    OBVIOUS
  <2>2. PICK hash : hash = [password |-> FirstPassword, salt |-> 0]
    OBVIOUS
  <2>3. \A u \in Users : users[u].hash = hash /\ past[u] = {} /\ ended[u] = {}
    BY <2>1, <2>2 DEF Init
  <2>4. hash.salt = 0 /\ served = 0
    BY <2>1, <2>2 DEF Init
  <2>5. SaltsOK
    BY <2>1, <2>3, <2>4 DEF Init, SaltsOK, Pending
  <2>6. AllInDate /\ SessionsEnd
    BY <2>1 DEF Init, AllInDate, InDate, SessionsEnd, NoJob
  <2> QED  BY <2>5, <2>6 DEF SessionsInv
<1>2. SessionsInv => SessionsEnd
  BY DEF SessionsInv
<1>3. TypeInv /\ SessionsInv /\ [Next]_vars => SessionsInv'
  BY NextSessions
<1> QED  BY <1>1, <1>2, <1>3, AuthInvariant, PTL DEF Spec

-----------------------------------------------------------------------------
(* As many failures as are allowed lock the account.                       *)

\* Request r has counted a failure of u and is about to see to the lock.
Sees(r, u) == job[r].user = u /\ pc[r] \in {"recount", "lock"}

\* u is locked, for as long as it has to be: LimitLocks for one user.
Limited(u) ==
  users[u].failed >= MaxFailed /\ ~users[u].deleted =>
    \/ users[u].locked >= failedAt[u] + LockTime
    \/ \E r \in Requests : Sees(r, u)
    \/ u \in shaken

\* The copy of r has the counter and the lock that it was read with, or none.
CopyOK(r) ==
  pc[r] \in {"load", "write"} =>
    \/ mem[r].failed = seen[r].failed /\ mem[r].locked = seen[r].locked
    \/ mem[r].failed = 0 /\ mem[r].locked = 0

\* No failure is of the future, so a lock set now lasts from the last of them.
LockInv ==
  /\ \A u \in Users : failedAt[u] <= now
  /\ \A u \in Users : Limited(u)
  /\ \A r \in Requests : CopyOK(r)

\* A step of r that leaves the counter, the lock and the last failure of u, and after
\* which r still sees to the lock if it did.
LEMMA StillLimited ==
  ASSUME TypeInv, NEW u \in Users, Limited(u), NEW r \in Requests, OthersUntouched(r),
         shaken \subseteq shaken', failedAt'[u] = failedAt[u], users'[u].failed = users[u].failed,
         users'[u].locked = users[u].locked, users[u].deleted => users'[u].deleted,
         Sees(r, u) => Sees(r, u)' \/ u \in shaken'
  PROVE  Limited(u)'
<1>1. \A q \in Requests \ {r} : Sees(q, u) => Sees(q, u)'
  BY DEF Sees, OthersUntouched
<1>2. (\E q \in Requests : Sees(q, u)) => (\E q \in Requests : Sees(q, u)') \/ u \in shaken'
  BY <1>1
<1> QED  BY <1>2 DEF Limited

\* The copies of the others are theirs.
LEMMA CopiesStay ==
  ASSUME TypeInv, LockInv, NEW r \in Requests, OthersUntouched(r), CopyOK(r)'
  PROVE  \A q \in Requests : CopyOK(q)'
BY DEF LockInv, CopyOK, OthersUntouched

LEMMA ArriveLocks ==
  ASSUME TypeInv, LockInv, NEW r \in Requests, Arrive(r)
  PROVE  LockInv'
<1>1. now' = now /\ shaken' = shaken /\ failedAt' = failedAt /\ pc[r] = "idle"
  BY DEF Arrive, AuthController, UserController, Login, RefreshToken_, Logout, ChangePassword,
     ForgotPassword, ResetPassword, Administer, Remove, history
<1>2. OthersUntouched(r) /\ CopyOK(r)'
  <2>1. ASSUME NEW u \in Users, ForgotPassword(r, u) \/ Remove(r, u)
        PROVE  OthersUntouched(r) /\ CopyOK(r)'
    BY <1>1, <2>1 DEF ForgotPassword, Remove, OthersUntouched, CopyOK
  <2>2. ASSUME NEW u \in Users, Administer(r, u)
        PROVE  OthersUntouched(r) /\ CopyOK(r)'
    BY <2>2, AdministerEffect DEF CopyOK
  <2> QED  BY <2>1, <2>2, LoginEffect, RefreshEffect, LogoutEffect, ChangeEffect, ResetEffect
           DEF Arrive, AuthController, UserController, CopyOK
<1>3. ASSUME NEW u \in Users
      PROVE  /\ users'[u].failed = users[u].failed /\ users'[u].locked = users[u].locked
             /\ users[u].deleted => users'[u].deleted
  <2>1. CASE \E v \in Users : Remove(r, v)
    BY <2>1, RemoveEffect
  <2>2. CASE users' = users
    BY <2>2
  <2> QED  BY <2>1, <2>2 DEF Arrive, AuthController, UserController, Login, RefreshToken_, Logout,
              ChangePassword, ForgotPassword, ResetPassword, Administer, tables
<1>4. \A u \in Users : ~Sees(r, u)
  BY <1>1 DEF Sees
<1>5. \A u \in Users : Limited(u)'
  BY <1>1, <1>2, <1>3, <1>4, StillLimited DEF LockInv
<1> QED  BY <1>1, <1>2, <1>5, CopiesStay DEF LockInv

\* A save that does not put a counter or a lock back leaves the account limited.
LEMMA WriteLimited ==
  ASSUME TypeInv, LockInv, NEW r \in Requests, SaveWrite(r), OthersUntouched(r),
         NEW u \in Users
  PROVE  Limited(u)'
<1>1. pc[r] = "write" /\ CopyOK(r) /\ Limited(u) /\ ~Sees(r, u)
  BY DEF SaveWrite, LockInv, Sees
<1>2. shaken \subseteq shaken' /\ failedAt' = failedAt
  BY DEF SaveWrite
<1>3. CASE job[r].user # u
  <2>1. users'[u] = users[u]
    BY <1>3, WriteEffect
  <2> QED  BY <1>1, <1>2, <2>1, StillLimited
<1>4. CASE job[r].user = u
  <2>1. PICK new : new = Merge(users[u], mem[r], base[r])
    OBVIOUS
  <2>2. users'[u] = new
    BY <1>4, <2>1 DEF SaveWrite, TypeInv, TypeOK
  <2>3. \/ u \in shaken'
        \/ /\ users[u].deleted => new.deleted
           /\ \/ new.failed = users[u].failed /\ new.locked = users[u].locked
              \/ /\ users[u].failed = seen[r].failed /\ users[u].locked = seen[r].locked
                 /\ new.failed = mem[r].failed /\ new.locked = mem[r].locked
    BY <1>4, <2>1 DEF SaveWrite
  <2>4. CASE u \in shaken'
    BY <2>4 DEF Limited
  <2>5. CASE /\ users[u].deleted => new.deleted
             /\ new.failed = users[u].failed /\ new.locked = users[u].locked
    BY <1>1, <1>2, <2>2, <2>5, StillLimited
  <2>6. CASE new.failed = 0
    BY <2>2, <2>6, ConstantsAssumption DEF Limited
  <2> QED  BY <1>1, <2>3, <2>4, <2>5, <2>6 DEF CopyOK
<1> QED  BY <1>3, <1>4

LEMMA StatementLocks ==
  ASSUME TypeInv, LockInv, NEW r \in Requests, Statement(r)
  PROVE  LockInv'
<1>1. /\ OthersUntouched(r) /\ InHand(r)
      /\ \/ pc'[r] = "idle" /\ job'[r] = NoJob
         \/ pc'[r] # "idle" /\ job'[r] = job[r]
  BY StatementEffect DEF TypeInv, InHandOK
<1>2. now' = now /\ shaken \subseteq shaken'
  BY DEF Statement, Count, Recount, LockUntil, Clear, Issue, Rotate, Revoke, Compare, Find,
     SaveLoad, SaveWrite, UseReset, history
<1>3. \A u \in Users : Limited(u)
  BY DEF LockInv
<1>4. /\ \A u \in Users : failedAt'[u] = failedAt[u] \/ (Count(r) /\ job[r].user = u)
      /\ \A u \in Users : failedAt'[u] <= now
  <2>1. CASE Count(r)
    BY <2>1, ConstantsAssumption DEF Count, LockInv, TypeInv, TypeOK
  <2>2. CASE ~Count(r)
    <3>1. failedAt' = failedAt
      BY <2>2 DEF Statement, Recount, LockUntil, Clear, Issue, Rotate, Revoke, Compare, Find,
         SaveLoad, SaveWrite, UseReset, history
    <3> QED  BY <3>1 DEF LockInv
  <2> QED  BY <2>1, <2>2
<1>5. CopyOK(r)'
  <2>1. CASE Find(r) /\ ~End(r)
    <3>1. PICK u \in Users : u = job[r].user
      BY <1>1, <2>1 DEF Find, InHand
    <3>2. PICK hash : hash = [password |-> job[r].password, salt |-> job[r].no]
      OBVIOUS
    <3>3. PICK row : row = [users[u] EXCEPT !.hash = hash]
      OBVIOUS
    <3>4. row.failed = users[u].failed /\ row.locked = users[u].locked
      BY <3>3 DEF TypeInv, TypeOK, UserRow
    <3>5. seen'[r] = users[u] /\ mem'[r] = row
      BY <2>1, <3>1, <3>2, <3>3 DEF Find, TypeInv, TypeOK
    <3> QED  BY <3>4, <3>5 DEF CopyOK
  <2>2. CASE SaveLoad(r)
    BY <2>2 DEF SaveLoad, CopyOK, LockInv
  <2>3. CASE ~(Find(r) /\ ~End(r)) /\ ~SaveLoad(r)
    <3>1. \/ Answer(r) \/ Goto(r, "recount") \/ Goto(r, "lock") \/ Goto(r, "issue")
          \/ Goto(r, "revoke") \/ Goto(r, "find") \/ Goto(r, "use")
      BY <2>3 DEF Statement, Count, Recount, LockUntil, Clear, Issue, Rotate, Revoke, Compare,
         Find, SaveWrite, UseReset, End
    <3>2. pc'[r] \notin {"load", "write"}
      BY <3>1, AnswerTyped, GotoTyped DEF Points
    <3> QED  BY <3>2 DEF CopyOK
  <2> QED  BY <2>1, <2>2, <2>3
<1>6. ASSUME NEW u \in Users
      PROVE  Limited(u)'
  <2>1. CASE Count(r)
    <3>1. CASE job[r].user = u
      <4>1. Sees(r, u)'
        BY <1>1, <2>1, <3>1, GotoTyped DEF Count, Sees, Points
      <4> QED  BY <4>1 DEF Limited
    <3>2. CASE job[r].user # u
      <4>1. users'[u] = users[u] /\ failedAt'[u] = failedAt[u] /\ ~Sees(r, u)
        BY <1>4, <2>1, <3>2, CountEffect DEF Sees
      <4> QED  BY <1>1, <1>2, <1>3, <4>1, StillLimited
    <3> QED  BY <3>1, <3>2
  <2>2. CASE Recount(r)
    <3>1. users' = users /\ pc[r] = "recount"
      BY <2>2 DEF Recount, tables
    <3>4. failedAt' = failedAt
      BY <2>2 DEF Recount
    <3>2. CASE Goto(r, "lock")
      <4>1. Sees(r, u) => Sees(r, u)'
        BY <3>2, GotoTyped DEF Sees, Points
      <4> QED  BY <1>1, <1>2, <1>3, <3>1, <3>4, <4>1, StillLimited
    <3>3. CASE ~Goto(r, "lock")
      <4>1. CASE job[r].user = u
        <5>1. users[u].deleted \/ ~(users[u].failed >= MaxFailed)
          BY <2>2, <3>3, <4>1 DEF Recount
        <5> QED  BY <3>1, <5>1 DEF Limited
      <4>2. CASE job[r].user # u
        BY <1>1, <1>2, <1>3, <3>1, <3>4, <4>2, StillLimited DEF Sees
      <4> QED  BY <4>1, <4>2
    <3> QED  BY <3>2, <3>3
  <2>3. CASE LockUntil(r)
    <3>1. CASE job[r].user = u
      <4>1. users'[u].locked = now + LockTime
        BY <2>3, <3>1, LockEffect
      <4>2. failedAt'[u] = failedAt[u]
        BY <2>3 DEF LockUntil
      <4>3. now + LockTime >= failedAt[u] + LockTime
        BY ConstantsAssumption DEF LockInv, TypeInv, TypeOK
      <4> QED  BY <4>1, <4>2, <4>3 DEF Limited
    <3>2. CASE job[r].user # u
      <4>1. users'[u] = users[u] /\ failedAt'[u] = failedAt[u] /\ ~Sees(r, u)
        BY <1>4, <2>3, <3>2, LockEffect DEF Sees
      <4> QED  BY <1>1, <1>2, <1>3, <4>1, StillLimited
    <3> QED  BY <3>1, <3>2
  <2>4. CASE Clear(r)
    <3>1. CASE job[r].user = u
      <4>1. users'[u].failed = 0
        BY <2>4, <3>1, ClearEffect
      <4> QED  BY <4>1, ConstantsAssumption DEF Limited
    <3>2. CASE job[r].user # u
      <4>1. users'[u] = users[u] /\ failedAt'[u] = failedAt[u] /\ ~Sees(r, u)
        BY <1>4, <2>4, <3>2, ClearEffect DEF Sees
      <4> QED  BY <1>1, <1>2, <1>3, <4>1, StillLimited
    <3> QED  BY <3>1, <3>2
  <2>5. CASE SaveWrite(r)
    BY <1>1, <2>5, WriteLimited
  <2>6. CASE ~(Count(r) \/ Recount(r) \/ LockUntil(r) \/ Clear(r) \/ SaveWrite(r))
    <3>1. users' = users /\ failedAt'[u] = failedAt[u] /\ ~Sees(r, u)
      BY <1>4, <2>6 DEF Statement, Issue, Rotate, Revoke, Compare, Find, SaveLoad, UseReset, Sees,
         tables
    <3> QED  BY <1>1, <1>2, <1>3, <3>1, StillLimited
  <2> QED  BY <2>1, <2>2, <2>3, <2>4, <2>5, <2>6
<1> QED  BY <1>1, <1>2, <1>5, <1>6, <1>4, CopiesStay DEF LockInv

LEMMA DieLocks ==
  ASSUME TypeInv, LockInv, NEW r \in Requests, Die(r)
  PROVE  LockInv'
<1>1. OthersUntouched(r) /\ pc'[r] = "idle"
  BY AnswerTyped DEF Die, End
<1>2. users' = users /\ now' = now /\ failedAt' = failedAt /\ shaken \subseteq shaken'
  BY DEF Die, tables
<1>3. \A u \in Users : Sees(r, u) => u \in shaken'
  BY DEF Die, Sees
<1>4. \A u \in Users : Limited(u)'
  BY <1>1, <1>2, <1>3, StillLimited DEF LockInv
<1>5. CopyOK(r)'
  BY <1>1 DEF CopyOK
<1> QED  BY <1>1, <1>2, <1>4, <1>5, CopiesStay DEF LockInv

LEMMA NextLocks ==
  ASSUME TypeInv, LockInv, [Next]_vars
  PROVE  LockInv'
<1>1. CASE Tick \/ UNCHANGED vars
  <2>1. UNCHANGED <<users, pc, job, seen, mem, shaken, failedAt>>
    BY <1>1 DEF Tick, vars, tables, control, history
  <2>2. \A u \in Users : failedAt[u] <= now'
    BY <1>1 DEF Tick, vars, LockInv, TypeInv, TypeOK
  <2> QED  BY <2>1, <2>2 DEF LockInv, Limited, Sees, CopyOK
<1> QED  BY <1>1, ArriveLocks, StatementLocks, DieLocks DEF Next

\* An account that has used up its attempts is locked until LockTime after the last
\* wrong password, also when an earlier lock had run out by then, or a request is
\* about to lock it, unless a save put the counter back or that request died (login).
THEOREM AttemptsLock == Spec => []LimitLocks
<1>1. Init => LockInv
  <2>1. SUFFICES ASSUME Init PROVE LockInv
    OBVIOUS
  <2>2. \A u \in Users : users[u].failed = 0
    BY <2>1 DEF Init
  <2> QED  BY <2>1, <2>2, ConstantsAssumption DEF Init, LockInv, Limited, CopyOK
<1>2. LockInv => LimitLocks
  BY DEF LockInv, Limited, Sees, LimitLocks
<1>3. TypeInv /\ LockInv /\ [Next]_vars => LockInv'
  BY NextLocks
<1> QED  BY <1>1, <1>2, <1>3, AuthInvariant, PTL DEF Spec
=============================================================================
