-------------------------- MODULE SubmissionProofs --------------------------
(***************************************************************************)
(* SubmissionApproval proved, for any number of requests, users, units and *)
(* reports.  TypeOK is not inductive: a statement in the middle of a handler*)
(* relies on what the statements before it left in the request's memory, so*)
(* InHandOK says what a request holds at each label.  Then its safety under*)
(* any interleaving, with stale copies, partial saves and crashes: a save  *)
(* writes columns of a copy that may be old, so what is claimed of the row has*)
(* to be claimed of every copy a request may still save, as soon as that save*)
(* has gone through (Sound).                                               *)
(***************************************************************************)
EXTENDS SubmissionApproval, FiniteSetTheorems, TLAPS

\* What request r holds, by the statement it executes next.
InHand(r) ==
  /\ pc[r] # "idle" => /\ job[r].op \in Ops
                       /\ job[r].user \in Users
                       /\ job[r].assignment \in Assignments
  /\ pc[r] \notin {"idle", "code"} => job[r].sub \in Submissions
  /\ pc[r] \notin {"idle", "code", "insert"} =>
       /\ mem[r] \in Row
       /\ Exists(job[r].sub)
  /\ pc[r] \in {"cell", "cellWrite", "saveLoad", "saveWrite"}
       /\ job[r].op = "patchCells" => edit[r].val \in Values
  /\ pc[r] \in {"cell", "cellWrite"} => job[r].op = "patchCells"
  /\ pc[r] = "cellWrite" => edit[r].cur \in Cells
  /\ pc[r] \in {"saveLoad", "saveWrite"} /\ job[r].op \in LoggedOps =>
       job[r].from \in Status
  /\ pc[r] \in {"logCells", "logRow", "logWrite", "notify"} =>
       job[r].op \in LoggedOps /\ job[r].from \in Status
  /\ pc[r] \in {"logRow", "logWrite"} => snap[r].cells \in CellTable

InHandOK == \A r \in Requests : InHand(r)

\* A screen that shows a report shows its cells.
ScreensFull ==
  \A u \in Reporters : view[u].sub # NULL => view[u].cells \in CellTable

TypeInv == TypeOK /\ InHandOK /\ ScreensFull

\* No step deletes a row.
RowsKept == \A s \in Submissions : Exists(s) => Exists(s)'

\* A step of r leaves the memory of every other request alone.
OthersUntouched(r) ==
  \A q \in Requests \ {r} :
    /\ pc'[q] = pc[q] /\ job'[q] = job[q] /\ mem'[q] = mem[q]
    /\ edit'[q] = edit[q] /\ snap'[q] = snap[q]

-----------------------------------------------------------------------------
(* Numbers, rows and other shapes.                                         *)

\* A part of a positive whole is a natural number of hundredths of a percent.
LEMMA PercentNat ==
  ASSUME NEW part \in Nat, NEW whole \in Nat, whole > 0
  PROVE  Percent(part, whole) \in Nat
<1>1. ASSUME NEW x \in Nat, NEW y \in Nat, y > 0 PROVE x \div y \in Nat
  BY <1>1, SMT
<1>2. 20000 * part + whole \in Nat /\ 2 * whole \in Nat /\ 2 * whole > 0
  OBVIOUS
<1> QED  BY <1>1, <1>2 DEF Percent

\* The number of cells a report has filled in is a natural number.
LEMMA FilledCount ==
  ASSUME NEW s
  PROVE  Cardinality(Filled(s)) \in Nat
<1>1. IsFiniteSet(Cells)
  BY CampaignAssumption, FS_Product DEF Cells
<1>2. IsFiniteSet(Filled(s))
  BY <1>1, FS_Subset DEF Filled
<1> QED  BY <1>2, FS_CardinalityType

\* Whatever is counted, a completion percentage lies between 0 and 100.00, for
\* any form, scope and set of default cells.
LEMMA CompletionRange ==
  ASSUME NEW a \in Assignments, NEW filled \in Nat
  PROVE  Completion(a, filled) \in Percentage
<1>1. /\ IsFiniteSet(IndicatorsOf(a)) /\ IsFiniteSet(Attributes)
      /\ IsFiniteSet(DefaultCells)
  <2>1. IndicatorsOf(a) \subseteq Indicators
    BY CampaignAssumption DEF IndicatorsOf
  <2>2. IsFiniteSet(Cells)
    BY CampaignAssumption, FS_Product DEF Cells
  <2> QED  BY <2>1, <2>2, CampaignAssumption, FS_Subset
<1>2. /\ Cardinality(IndicatorsOf(a)) \in Nat /\ Cardinality(Attributes) \in Nat
      /\ Cardinality(DefaultCells) \in Nat
  BY <1>1, FS_CardinalityType
<1>3. ToFill(a) \in Int
  BY <1>2 DEF ToFill
<1>4. CASE ToFill(a) > 0
  <2>1. PICK p \in Nat : p = Percent(filled, ToFill(a))
    BY <1>3, <1>4, PercentNat
  <2>2. Completion(a, filled) = IF p <= 10000 THEN p ELSE 10000
    BY <1>4, <2>1 DEF Completion
  <2>3. (IF p <= 10000 THEN p ELSE 10000) \in Percentage
    BY DEF Percentage
  <2> QED  BY <2>2, <2>3
<1>5. CASE ~(ToFill(a) > 0)
  BY <1>5 DEF Completion, Percentage
<1> QED  BY <1>4, <1>5

\* save writes a row of the table when row and copy are rows of it.
LEMMA MergeType ==
  ASSUME NEW row \in Row, NEW old, NEW new \in Row
  PROVE  Merge(row, old, new) \in Row
BY DEF Merge, Row

\* The changes the handlers make to a row in memory give a row.
LEMMA RowUpdates ==
  ASSUME NEW row \in Row, NEW status \in Status, NEW by \in UserOrNull
  PROVE  /\ [row EXCEPT !.status = status, !.submittedBy = by] \in Row
         /\ [row EXCEPT !.status = status, !.submittedBy = by,
                        !.version = @ + 1] \in Row
         /\ [row EXCEPT !.status = status, !.departmentApprovedBy = by] \in Row
         /\ [row EXCEPT !.status = status, !.districtApprovedBy = by] \in Row
<1>1. ASSUME NEW w \in Row
      PROVE  /\ [w EXCEPT !.submittedBy = by] \in Row
             /\ [w EXCEPT !.departmentApprovedBy = by] \in Row
             /\ [w EXCEPT !.districtApprovedBy = by] \in Row
  BY DEF Row
<1>2. [row EXCEPT !.status = status] \in Row
  BY DEF Row
<1>3. PICK stamped \in Row :
        stamped = [row EXCEPT !.status = status, !.submittedBy = by]
  BY <1>1, <1>2
<1>4. PICK v \in Version : v = row.version + 1
  BY DEF Row, Version
<1>5. [stamped EXCEPT !.version = v] \in Row
  BY <1>3 DEF Row
<1>6. [row EXCEPT !.status = status, !.submittedBy = by, !.version = @ + 1]
        = [stamped EXCEPT !.version = v]
  BY <1>3, <1>4 DEF Row
<1> QED  BY <1>1, <1>2, <1>3, <1>5, <1>6

\* The empty shapes are well typed.
LEMMA EmptyShapes ==
  /\ NoJob \in Job
  /\ NoEdit \in Edit
  /\ NoSnap \in [cells : CellTable \cup {NULL}, version : Nat]
  /\ NoCells \in CellTable
  /\ \A a \in Assignments : NewRow(a) \in Row
<1>1. NoJob \in Job
  BY DEF NoJob, Job, UserOrNull
<1>2. NoEdit \in Edit
  BY DEF NoEdit, Edit
<1>3. NoSnap \in [cells : CellTable \cup {NULL}, version : Nat]
  BY DEF NoSnap
<1>4. NoCells \in CellTable
  BY DEF NoCells, CellTable
<1>5. \A a \in Assignments : NewRow(a) \in Row
  BY DEF NewRow, Row, Status, Editable, UserOrNull, Version, Percentage
<1> QED  BY <1>1, <1>2, <1>3, <1>4, <1>5

-----------------------------------------------------------------------------
(* The life of a request.                                                  *)

\* What the other requests hold is still there after a step of r.
LEMMA OneInHand ==
  ASSUME InHandOK, NEW r \in Requests, OthersUntouched(r), RowsKept, InHand(r)'
  PROVE  InHandOK'
<1> SUFFICES ASSUME NEW q \in Requests, q # r PROVE InHand(q)'
  BY DEF InHandOK
<1> QED  BY DEF InHandOK, InHand, OthersUntouched, RowsKept

\* Taking a request up leaves it well typed.
LEMMA TakeTyped ==
  ASSUME RequestsOK, NEW r \in Requests, NEW label \in LabelSet, NEW j \in Job,
         NEW copy \in Row \cup {NULL}, Take(r, label, j, copy)
  PROVE  /\ pc' \in [Requests -> LabelSet]
         /\ job' \in [Requests -> Job]
         /\ mem' \in [Requests -> Row \cup {NULL}]
         /\ served' \in 0 .. MaxRequests
         /\ pc'[r] = label /\ job'[r] = j /\ mem'[r] = copy
BY BoundsAssumption DEF RequestsOK, Take

\* A request that ends holds nothing.
LEMMA EndTyped ==
  ASSUME RequestsOK, InHandOK, NEW r \in Requests, End(r), RowsKept,
         served' = served
  PROVE  RequestsOK' /\ InHandOK'
<1>1. RequestsOK'
  BY EmptyShapes DEF RequestsOK, End, LabelSet
<1>2. InHand(r)'
  BY DEF InHand, End, RequestsOK, NoJob
<1>3. OthersUntouched(r)
  BY DEF OthersUntouched, End, RequestsOK
<1> QED  BY <1>1, <1>2, <1>3, OneInHand

-----------------------------------------------------------------------------
(* A request is taken up.                                                  *)

\* Taking a request up keeps the invariant when the request holds what its first
\* label asks for.
LEMMA TakeKeeps ==
  ASSUME TypeInv, NEW r \in Requests, NEW label \in LabelSet, NEW j \in Job,
         NEW copy \in Row \cup {NULL}, Take(r, label, j, copy),
         UNCHANGED <<tables, history, view, base, snap>>,
         NEW e \in Edit, edit' = [edit EXCEPT ![r] = e],
         InHand(r)'
  PROVE  TypeInv'
<1>1. RequestsOK'
  BY TakeTyped DEF TypeInv, TypeOK, RequestsOK
<1>2. RowsKept
  BY DEF RowsKept, Exists, tables
<1>3. OthersUntouched(r)
  BY DEF OthersUntouched, Take, TypeInv, TypeOK, RequestsOK
<1>4. InHandOK'
  BY <1>2, <1>3, OneInHand DEF TypeInv
<1>5. TablesOK' /\ ScreensOK' /\ HistoryOK' /\ ScreensFull'
  BY DEF TypeInv, TypeOK, TablesOK, ScreensOK, HistoryOK, ScreensFull, tables, history
<1> QED  BY <1>1, <1>4, <1>5 DEF TypeInv, TypeOK

\* create and findOrCreateByAssignment, while there is no submission.
LEMMA OpenAbsentTyped ==
  ASSUME TypeInv, NEW r \in Requests, NEW u \in Reporters, NEW a \in Assignments,
         NEW op \in {"create", "getByAssignment"}, OpenAbsent(r, u, a, op)
  PROVE  TypeInv'
<1> DEFINE j == [NoJob EXCEPT !.op = op, !.user = u, !.assignment = a]
<1>1. j \in Job
  BY ActorsAssumption DEF NoJob, Job, Ops, UserOrNull
<1>2. Take(r, "code", j, NULL) /\ "code" \in LabelSet
  BY DEF OpenAbsent, LabelSet
<1>3. pc'[r] = "code" /\ job'[r] = j
  BY <1>1, <1>2, TakeTyped DEF TypeInv, TypeOK
<1>4. InHand(r)'
  BY <1>3, ActorsAssumption DEF InHand, NoJob, Ops
<1>5. edit[r] \in Edit /\ edit' = [edit EXCEPT ![r] = edit[r]]
  BY DEF OpenAbsent, TypeInv, TypeOK, RequestsOK
<1> HIDE DEF j
<1> QED  BY <1>1, <1>2, <1>4, <1>5, TakeKeeps DEF OpenAbsent

\* A request on a report that exists.
LEMMA AskTyped ==
  ASSUME TypeInv, NEW op \in Ops, NEW u \in Users, NEW s \in Submissions,
         NEW from \in Status \cup {NULL}, Exists(s)
  PROVE  /\ Ask(op, u, s, from) \in Job
         /\ rows[s] \in Row
<1>1. rows[s] \in Row
  BY DEF TypeInv, TypeOK, TablesOK, Exists
<1>2. rows[s].assignment \in Assignments
  BY <1>1 DEF Row
<1> QED  BY <1>1, <1>2 DEF Ask, Job, UserOrNull

\* A report is opened for its screen.
LEMMA ViewTakenTyped ==
  ASSUME TypeInv, NEW r \in Requests, NEW u \in Reporters, NEW s \in Submissions,
         NEW op \in {"getOne", "getByAssignment"}, Exists(s),
         Take(r, "view", Ask(op, u, s, NULL), rows[s]),
         UNCHANGED <<tables, history, view, base, edit, snap>>
  PROVE  TypeInv'
<1>1. /\ Ask(op, u, s, NULL) \in Job /\ rows[s] \in Row
      /\ "view" \in LabelSet /\ u \in Users
  BY AskTyped, ActorsAssumption DEF Ops, LabelSet
<1>2. pc'[r] = "view" /\ job'[r] = Ask(op, u, s, NULL) /\ mem'[r] = rows[s]
  BY <1>1, TakeTyped DEF TypeInv, TypeOK
<1>3. Exists(s)'
  BY DEF Exists, tables
<1>4. rows[s].assignment \in Assignments
  BY <1>1 DEF Row
<1>5. InHand(r)'
  BY <1>1, <1>2, <1>3, <1>4 DEF InHand, Ask, Ops
<1>6. edit[r] \in Edit /\ edit' = [edit EXCEPT ![r] = edit[r]]
  BY DEF TypeInv, TypeOK, RequestsOK
<1> QED  BY <1>1, <1>5, <1>6, TakeKeeps

\* patchCells up to its first write.
LEMMA PatchCellsTyped ==
  ASSUME TypeInv, NEW r \in Requests, NEW u \in Reporters, NEW s \in Submissions,
         NEW changes \in SUBSET Cells, NEW val \in Values,
         PatchCells(r, u, s, changes, val)
  PROVE  TypeInv'
<1> DEFINE e == [NoEdit EXCEPT !.todo = changes \cap Writable(rows[s].assignment),
                               !.val = val]
           j == Ask("patchCells", u, s, NULL)
<1>1. /\ j \in Job /\ rows[s] \in Row
      /\ "cell" \in LabelSet /\ u \in Users
  BY AskTyped, ActorsAssumption DEF Ops, LabelSet, PatchCells
<1>2. e \in Edit
  BY EmptyShapes DEF NoEdit, Edit
<1>3. Take(r, "cell", j, rows[s]) /\ edit' = [edit EXCEPT ![r] = e]
  BY DEF PatchCells
<1>4. pc'[r] = "cell" /\ job'[r] = j /\ mem'[r] = rows[s]
  BY <1>1, <1>3, TakeTyped DEF TypeInv, TypeOK
<1>5. edit'[r].val = val
  BY <1>3 DEF TypeInv, TypeOK, RequestsOK, NoEdit
<1>6. Exists(s)'
  BY DEF Exists, tables, PatchCells
<1>7. rows[s].assignment \in Assignments
  BY <1>1 DEF Row
<1>8. InHand(r)'
  BY <1>1, <1>4, <1>5, <1>6, <1>7 DEF InHand, Ask, Ops, LoggedOps, EventOf
<1> HIDE DEF e, j
<1> QED  BY <1>1, <1>2, <1>3, <1>8, TakeKeeps DEF PatchCells

\* The operations that move a report on.
LEMMA ChangeTyped ==
  ASSUME TypeInv, NEW r \in Requests, NEW u \in Users, NEW s \in Submissions,
         NEW op \in LoggedOps \cup {"cancelSubmit"}, NEW copy \in Row, Exists(s),
         Change(r, op, u, s, copy)
  PROVE  TypeInv'
<1> DEFINE j == Ask(op, u, s, rows[s].status)
<1>1. op \in Ops /\ op # "patchCells"
  BY DEF LoggedOps, EventOf, Ops
<1>2. rows[s] \in Row
  BY DEF TypeInv, TypeOK, TablesOK, Exists
<1>3. rows[s].status \in Status /\ rows[s].assignment \in Assignments
  BY <1>2 DEF Row
<1>4. j \in Job /\ "saveLoad" \in LabelSet
  BY <1>1, <1>3, AskTyped DEF LabelSet
<1>5. Take(r, "saveLoad", j, copy)
  BY DEF Change
<1>6. pc'[r] = "saveLoad" /\ job'[r] = j /\ mem'[r] = copy
  BY <1>4, <1>5, TakeTyped DEF TypeInv, TypeOK
<1>7. Exists(s)'
  BY DEF Exists, tables, Change
<1>8. InHand(r)'
  BY <1>1, <1>3, <1>6, <1>7 DEF InHand, Ask
<1>9. edit[r] \in Edit /\ edit' = [edit EXCEPT ![r] = edit[r]]
  BY DEF Change, TypeInv, TypeOK, RequestsOK
<1> HIDE DEF j
<1> QED  BY <1>4, <1>5, <1>8, <1>9, TakeKeeps DEF Change

\* Every operation keeps the invariant as it arrives.
LEMMA ArriveTyped ==
  ASSUME TypeInv, NEW r \in Requests, Arrive(r)
  PROVE  TypeInv'
<1>1. ASSUME NEW u \in Reporters, NEW a \in Assignments, Create(r, u, a)
      PROVE  TypeInv'
  BY <1>1, OpenAbsentTyped DEF Create
<1>2. ASSUME NEW u \in Reporters, NEW a \in Assignments, GetByAssignment(r, u, a)
      PROVE  TypeInv'
  BY <1>2, OpenAbsentTyped, ViewTakenTyped DEF GetByAssignment
<1>3. ASSUME NEW u \in Reporters, NEW s \in Submissions, GetOne(r, u, s)
      PROVE  TypeInv'
  BY <1>3, ViewTakenTyped DEF GetOne
<1>4. ASSUME NEW s \in Submissions, Exists(s), NEW u \in Users
      PROVE  /\ [rows[s] EXCEPT !.status = "PENDING_DEPARTMENT", !.submittedBy = u,
                                !.version = @ + 1] \in Row
             /\ [rows[s] EXCEPT !.status = "DRAFT", !.submittedBy = NULL] \in Row
             /\ [rows[s] EXCEPT !.status = "DEPARTMENT_APPROVED",
                                !.departmentApprovedBy = u] \in Row
             /\ [rows[s] EXCEPT !.status = "REJECTED_DEPARTMENT",
                                !.departmentApprovedBy = NULL] \in Row
             /\ [rows[s] EXCEPT !.status = "DISTRICT_APPROVED",
                                !.districtApprovedBy = u] \in Row
             /\ [rows[s] EXCEPT !.status = "REJECTED_DISTRICT",
                                !.districtApprovedBy = NULL] \in Row
  <2>1. rows[s] \in Row
    BY <1>4 DEF TypeInv, TypeOK, TablesOK, Exists
  <2>2. /\ u \in UserOrNull /\ NULL \in UserOrNull
        /\ {"PENDING_DEPARTMENT", "DRAFT", "DEPARTMENT_APPROVED", "REJECTED_DEPARTMENT",
            "DISTRICT_APPROVED", "REJECTED_DISTRICT"} \subseteq Status
    BY DEF Status, Editable, UserOrNull
  <2> QED  BY <2>1, <2>2, RowUpdates
<1>5. ASSUME NEW u \in Reporters, NEW s \in Submissions,
             Submit(r, u, s) \/ CancelSubmit(r, u, s)
      PROVE  TypeInv'
  <2>1. u \in Users /\ {"submit", "cancelSubmit"} \subseteq LoggedOps \cup {"cancelSubmit"}
    BY ActorsAssumption DEF LoggedOps, EventOf
  <2>2. CASE Submit(r, u, s)
    BY <1>4, <2>1, <2>2, ChangeTyped DEF Submit
  <2>3. CASE CancelSubmit(r, u, s)
    BY <1>4, <2>1, <2>3, ChangeTyped DEF CancelSubmit
  <2> QED  BY <1>5, <2>2, <2>3
<1>6. ASSUME NEW u \in Reporters, NEW s \in Submissions, NEW val \in Values,
             NEW changes \in (SUBSET Cells) \ {{}}, PatchCells(r, u, s, changes, val)
      PROVE  TypeInv'
  BY <1>6, PatchCellsTyped
<1>7. ASSUME NEW u \in Users, NEW s \in Submissions,
             \/ ApproveDepartment(r, u, s) \/ RejectDepartment(r, u, s)
             \/ ApproveDistrict(r, u, s)   \/ RejectDistrict(r, u, s)
      PROVE  TypeInv'
  <2>1. {"approveDepartment", "rejectDepartment", "approveDistrict", "rejectDistrict"}
          \subseteq LoggedOps
    BY DEF LoggedOps, EventOf
  <2>2. CASE ApproveDepartment(r, u, s)
    BY <1>4, <2>1, <2>2, ChangeTyped DEF ApproveDepartment
  <2>3. CASE RejectDepartment(r, u, s)
    BY <1>4, <2>1, <2>3, ChangeTyped DEF RejectDepartment
  <2>4. CASE ApproveDistrict(r, u, s)
    BY <1>4, <2>1, <2>4, ChangeTyped DEF ApproveDistrict
  <2>5. CASE RejectDistrict(r, u, s)
    BY <1>4, <2>1, <2>5, ChangeTyped DEF RejectDistrict
  <2> QED  BY <1>7, <2>2, <2>3, <2>4, <2>5
<1> QED  BY <1>1, <1>2, <1>3, <1>5, <1>6, <1>7 DEF Arrive

-----------------------------------------------------------------------------
(* A request is carried on.                                                *)

\* PickCode and InsertSubmission.
LEMMA InsertTyped ==
  ASSUME TypeInv, NEW r \in Requests, PickCode(r) \/ InsertSubmission(r)
  PROVE  TypeInv'
<1> USE DEF TypeInv, TypeOK
<1>1. job[r] \in Job /\ InHand(r)
  BY DEF RequestsOK, InHandOK
<1>2. CASE PickCode(r) /\ End(r)
  <2>1. RowsKept
    BY <1>2 DEF PickCode, RowsKept, Exists, tables
  <2>2. RequestsOK' /\ InHandOK'
    BY <1>2, <2>1, EndTyped DEF PickCode
  <2> QED  BY <1>2, <2>2
       DEF PickCode, TablesOK, ScreensOK, HistoryOK, ScreensFull, tables, history
<1>3. ASSUME PickCode(r), NEW s \in Submissions, job' = [job EXCEPT ![r].sub = s],
             Goto(r, "insert"), UNCHANGED <<mem, base, edit, snap>>
      PROVE  TypeInv'
  <2>1. [job[r] EXCEPT !.sub = s] \in Job
    BY <1>1 DEF Job
  <2>2. RequestsOK' /\ pc'[r] = "insert" /\ job'[r] = [job[r] EXCEPT !.sub = s]
    BY <1>3, <2>1 DEF RequestsOK, Goto, PickCode, LabelSet
  <2>3. InHand(r)'
    BY <1>1, <1>3, <2>2 DEF InHand, Job, PickCode
  <2>4. OthersUntouched(r) /\ RowsKept
    BY <1>3 DEF OthersUntouched, RowsKept, Exists, PickCode, Goto, RequestsOK, tables
  <2>5. InHandOK'
    BY <2>3, <2>4, OneInHand
  <2> QED  BY <1>3, <2>2, <2>5
       DEF PickCode, TablesOK, ScreensOK, HistoryOK, ScreensFull, tables, history
<1>4. CASE InsertSubmission(r)
  <2>1. PICK s \in Submissions, a \in Assignments :
          s = job[r].sub /\ a = job[r].assignment /\ NewRow(a) \in Row
    BY <1>1, <1>4, EmptyShapes DEF InHand, InsertSubmission
  <2>2. NewRow(a) # NULL
    BY <2>1, NullAssumption
  <2>3. /\ TablesOK' /\ ScreensOK' /\ HistoryOK' /\ ScreensFull' /\ RowsKept
        /\ ~Exists(s) => Exists(s)'
    <3>1. rows' = rows \/ (~Exists(s) /\ rows' = [rows EXCEPT ![s] = NewRow(a)])
      BY <1>4, <2>1 DEF InsertSubmission
    <3>2. RowsKept /\ rows' \in [Submissions -> Row \cup {NULL}]
      BY <2>1, <2>2, <3>1 DEF RowsKept, Exists, TablesOK
    <3>3. ~Exists(s) => Exists(s)'
      BY <1>4, <2>1, <2>2 DEF InsertSubmission, Exists, TablesOK
    <3> QED  BY <1>4, <3>2, <3>3 DEF InsertSubmission, TablesOK, ScreensOK, HistoryOK,
                ScreensFull, history
  <2>4. CASE End(r)
    BY <1>4, <2>3, <2>4, EndTyped DEF InsertSubmission
  <2>5. CASE ~End(r)
    <3>1. /\ ~Exists(s)
          /\ mem' = [mem EXCEPT ![r] = NewRow(a)]
          /\ Goto(r, "view")
          /\ UNCHANGED <<job, base, edit, snap, served>>
      BY <1>4, <2>1, <2>5 DEF InsertSubmission
    <3>2. RequestsOK' /\ pc'[r] = "view" /\ job'[r] = job[r] /\ mem'[r] = NewRow(a)
      BY <2>1, <3>1 DEF RequestsOK, Goto, LabelSet
    <3>3. InHand(r)'
      BY <1>1, <1>4, <2>1, <2>3, <3>1, <3>2 DEF InHand, InsertSubmission
    <3>4. OthersUntouched(r)
      BY <3>1 DEF OthersUntouched, Goto, RequestsOK
    <3> QED  BY <2>3, <3>2, <3>3, <3>4, OneInHand
  <2> QED  BY <2>4, <2>5
<1> QED  BY <1>2, <1>3, <1>4 DEF PickCode

\* A step that ends the request, or lets it die.
LEMMA EndKeeps ==
  ASSUME TypeInv, NEW r \in Requests, End(r), UNCHANGED <<rows, served>>,
         TablesOK', ScreensOK', HistoryOK', ScreensFull'
  PROVE  TypeInv'
<1>1. RowsKept
  BY DEF RowsKept, Exists
<1> QED  BY <1>1, EndTyped DEF TypeInv, TypeOK

\* View.
LEMMA ViewTyped ==
  ASSUME TypeInv, NEW r \in Requests, View(r)
  PROVE  TypeInv'
<1>1. PICK s \in Submissions, n \in Nat, u \in Users :
        s = job[r].sub /\ n = mem[r].version /\ u = job[r].user
  BY DEF View, TypeInv, InHandOK, InHand, Row, Version
<1>2. PICK table \in CellTable : table = cells[s]
  BY DEF TypeInv, TypeOK, TablesOK
<1>3. view' = [view EXCEPT ![u] = [sub |-> s, version |-> n, cells |-> table]]
  BY <1>1, <1>2 DEF View
<1>4. ScreensOK' /\ ScreensFull'
  BY <1>3 DEF ScreensOK, ScreensFull, TypeInv, TypeOK
<1>5. TablesOK' /\ HistoryOK'
  BY DEF View, TablesOK, HistoryOK, TypeInv, TypeOK, tables, history
<1> QED  BY <1>4, <1>5, EndKeeps DEF View, tables

\* A statement of r that writes no row and leaves r in hand.
LEMMA StepKeeps ==
  ASSUME TypeInv, NEW r \in Requests, NEW label \in LabelSet, Goto(r, label),
         UNCHANGED <<rows, job, served>>, InHand(r)', OthersUntouched(r),
         TablesOK', ScreensOK', HistoryOK', ScreensFull',
         mem' \in [Requests -> Row \cup {NULL}],
         base' \in [Requests -> Row \cup {NULL}],
         edit' \in [Requests -> Edit],
         snap' \in [Requests -> [cells : CellTable \cup {NULL}, version : Nat]]
  PROVE  TypeInv'
<1>1. RequestsOK'
  BY DEF RequestsOK, Goto, TypeInv, TypeOK
<1>2. RowsKept
  BY DEF RowsKept, Exists
<1>3. InHandOK'
  BY <1>2, OneInHand DEF TypeInv
<1> QED  BY <1>1, <1>3 DEF TypeInv, TypeOK

\* CellRead.
LEMMA CellReadTyped ==
  ASSUME TypeInv, NEW r \in Requests, CellRead(r)
  PROVE  TypeInv'
<1> USE DEF TypeInv, TypeOK
<1>1. InHand(r) /\ edit[r] \in Edit /\ pc[r] = "cell"
  BY DEF CellRead, InHandOK, RequestsOK
<1>2. PICK s \in Submissions : s = job[r].sub
  BY <1>1 DEF InHand
<1>3. PICK c \in edit[r].todo : edit' = [edit EXCEPT ![r].cur = c, ![r].old = cells[s][c]]
  BY <1>2 DEF CellRead
<1>4. c \in Cells /\ cells[s][c] \in Values \cup {NULL}
  BY <1>1, <1>3 DEF Edit, TablesOK, CellTable
<1>5. [edit[r] EXCEPT !.cur = c, !.old = cells[s][c]] \in Edit
  BY <1>1, <1>4 DEF Edit
<1>6. edit' \in [Requests -> Edit]
  BY <1>3, <1>5 DEF RequestsOK
<1>7. edit'[r].cur = c /\ edit'[r].val = edit[r].val
  BY <1>1, <1>3 DEF Edit, RequestsOK
<1>8. pc'[r] = "cellWrite"
  BY DEF CellRead, Goto, RequestsOK
<1>9. InHand(r)'
  BY <1>1, <1>4, <1>7, <1>8 DEF InHand, CellRead, Exists, tables
<1>10. OthersUntouched(r) /\ "cellWrite" \in LabelSet
  BY <1>3 DEF OthersUntouched, CellRead, Goto, RequestsOK, LabelSet
<1>11. TablesOK' /\ ScreensOK' /\ HistoryOK' /\ ScreensFull'
  BY DEF CellRead, TablesOK, ScreensOK, HistoryOK, ScreensFull, tables, history
<1> QED  BY <1>6, <1>9, <1>10, <1>11, StepKeeps DEF CellRead, tables, RequestsOK

\* CellWrite: the insert that the unique index refuses, and the write.
LEMMA CellWriteTyped ==
  ASSUME TypeInv, NEW r \in Requests, CellWrite(r)
  PROVE  TypeInv'
<1> USE DEF TypeInv, TypeOK
<1>1. InHand(r) /\ edit[r] \in Edit /\ pc[r] = "cellWrite"
  BY DEF CellWrite, InHandOK, RequestsOK
<1>2. PICK s \in Submissions, c \in Cells, val \in Values :
        s = job[r].sub /\ c = edit[r].cur /\ val = edit[r].val
  BY <1>1 DEF InHand
<1>3. CASE Die(r) /\ UNCHANGED cells
  <2>1. died' \subseteq Submissions
    BY <1>3 DEF Die, HistoryOK
  <2>2. TablesOK' /\ ScreensOK' /\ HistoryOK' /\ ScreensFull'
    BY <1>3, <2>1 DEF CellWrite, Die, TablesOK, ScreensOK, HistoryOK, ScreensFull
  <2> QED  BY <1>3, <2>2, EndKeeps DEF CellWrite, Die
<1>4. CASE ~(Die(r) /\ UNCHANGED cells)
  <2>1. /\ cells' = cells \/ cells' = [cells EXCEPT ![s][c] = val]
        /\ edit' = [edit EXCEPT ![r].todo = @ \ {c}, ![r].saved = @ \cup {c},
                                ![r].cur = NULL, ![r].old = NULL]
        /\ Goto(r, "cell")
        /\ UNCHANGED <<job, mem, base, snap, history>>
    BY <1>2, <1>4 DEF CellWrite
  <2>2. cells' \in [Submissions -> CellTable]
    <3>1. cells[s] \in CellTable
      BY DEF TablesOK
    <3>2. [cells[s] EXCEPT ![c] = val] \in CellTable
      BY <3>1 DEF CellTable
    <3> QED  BY <2>1, <3>2 DEF TablesOK
  <2>3. [edit[r] EXCEPT !.todo = @ \ {c}, !.saved = @ \cup {c},
                        !.cur = NULL, !.old = NULL] \in Edit
    BY <1>1 DEF Edit
  <2>4. edit' \in [Requests -> Edit] /\ edit'[r].val = val
    BY <1>1, <1>2, <2>1, <2>3 DEF RequestsOK, Edit
  <2>5. pc'[r] = "cell"
    BY <2>1 DEF Goto, RequestsOK
  <2>6. InHand(r)'
    BY <1>1, <2>1, <2>4, <2>5 DEF InHand, CellWrite, Exists
  <2>7. OthersUntouched(r) /\ "cell" \in LabelSet
    BY <2>1 DEF OthersUntouched, CellWrite, Goto, RequestsOK, LabelSet
  <2>8. TablesOK' /\ ScreensOK' /\ HistoryOK' /\ ScreensFull'
    BY <2>1, <2>2 DEF CellWrite, TablesOK, ScreensOK, HistoryOK, ScreensFull, history
  <2> QED  BY <2>1, <2>4, <2>6, <2>7, <2>8, StepKeeps DEF CellWrite, RequestsOK
<1> QED  BY <1>3, <1>4

\* Count.
LEMMA CountTyped ==
  ASSUME TypeInv, NEW r \in Requests, Count(r)
  PROVE  TypeInv'
<1> USE DEF TypeInv, TypeOK
<1>1. InHand(r) /\ mem[r] \in Row /\ job[r].assignment \in Assignments /\ pc[r] = "cell"
  BY DEF Count, InHandOK, InHand
<1>2. PICK n \in Nat : n = Cardinality(Filled(job[r].sub))
  BY FilledCount
<1>3. PICK pct \in Percentage :
        pct = Completion(job[r].assignment, Cardinality(Filled(job[r].sub)))
  BY <1>1, <1>2, CompletionRange
<1>4. PICK v \in Version : v = mem[r].version + 1
  BY <1>1 DEF Row, Version
<1>5. [mem[r] EXCEPT !.completionPct = pct, !.version = v] \in Row
  BY <1>1 DEF Row
<1>6. mem' = [mem EXCEPT ![r] = [mem[r] EXCEPT !.completionPct = pct, !.version = v]]
  BY <1>3, <1>4 DEF Count, RequestsOK
<1>7. mem' \in [Requests -> Row \cup {NULL}] /\ mem'[r] \in Row
  BY <1>5, <1>6 DEF RequestsOK
<1>8. pc'[r] = "saveLoad"
  BY DEF Count, Goto, RequestsOK
<1>9. InHand(r)'
  BY <1>1, <1>7, <1>8 DEF InHand, Count, Exists, tables, LoggedOps, EventOf
<1>10. OthersUntouched(r) /\ "saveLoad" \in LabelSet
  BY <1>6 DEF OthersUntouched, Count, Goto, RequestsOK, LabelSet
<1>11. TablesOK' /\ ScreensOK' /\ HistoryOK' /\ ScreensFull'
  BY DEF Count, TablesOK, ScreensOK, HistoryOK, ScreensFull, tables, history
<1> QED  BY <1>7, <1>9, <1>10, <1>11, StepKeeps DEF Count, tables, RequestsOK

\* The select inside save.
LEMMA SaveLoadTyped ==
  ASSUME TypeInv, NEW r \in Requests, SaveLoad(r)
  PROVE  TypeInv'
<1> USE DEF TypeInv, TypeOK
<1>1. InHand(r) /\ pc[r] = "saveLoad"
  BY DEF SaveLoad, InHandOK
<1>2. base' \in [Requests -> Row \cup {NULL}]
  BY <1>1 DEF SaveLoad, RequestsOK, TablesOK, InHand
<1>3. pc'[r] = "saveWrite"
  BY DEF SaveLoad, Goto, RequestsOK
<1>4. InHand(r)'
  BY <1>1, <1>3 DEF InHand, SaveLoad, Exists, tables
<1>5. OthersUntouched(r) /\ "saveWrite" \in LabelSet
  BY DEF OthersUntouched, SaveLoad, Goto, RequestsOK, LabelSet
<1>6. TablesOK' /\ ScreensOK' /\ HistoryOK' /\ ScreensFull'
  BY DEF SaveLoad, TablesOK, ScreensOK, HistoryOK, ScreensFull, tables, history
<1> QED  BY <1>2, <1>4, <1>5, <1>6, StepKeeps DEF SaveLoad, tables, RequestsOK

\* The answer to a patch leaves every screen well typed and full.
LEMMA AnsweredTyped ==
  ASSUME TypeInv, NEW r \in Requests, pc[r] = "saveWrite", job[r].op = "patchCells",
         view' = Answered(r)
  PROVE  ScreensOK' /\ ScreensFull'
<1> USE DEF TypeInv, TypeOK
<1>1. InHand(r) /\ edit[r] \in Edit
  BY DEF InHandOK, RequestsOK
<1>2. PICK s \in Submissions, u \in Users, val \in Values, n \in Nat :
        s = job[r].sub /\ u = job[r].user /\ val = edit[r].val /\ n = mem[r].version
  BY <1>1 DEF InHand, Row, Version
<1>3. CASE u \notin Reporters \/ view[u].sub # s
  <2>1. view' = view
    BY <1>2, <1>3 DEF Answered, ScreensOK
  <2> QED  BY <2>1 DEF ScreensOK, ScreensFull
<1>4. CASE u \in Reporters /\ view[u].sub = s
  <2>1. view[u].cells \in CellTable
    BY <1>4, NullAssumption DEF ScreensFull
  <2>2. PICK shown : shown = [c \in Cells |-> IF c \in edit[r].saved THEN val
                                              ELSE view[u].cells[c]]
    OBVIOUS
  <2>3. shown \in CellTable
    BY <2>1, <2>2 DEF CellTable
  <2>4. view' = [view EXCEPT ![u] = [view[u] EXCEPT !.version = n, !.cells = shown]]
    BY <1>2, <1>4, <2>2 DEF Answered, ScreensOK
  <2>5. [view[u] EXCEPT !.version = n, !.cells = shown] \in
          [sub : Submissions \cup {NULL}, version : Nat, cells : CellTable]
    BY <1>4, <2>1, <2>3 DEF ScreensOK
  <2> QED  BY <2>4, <2>5 DEF ScreensOK, ScreensFull
<1> QED  BY <1>3, <1>4

\* The update inside save.
LEMMA SaveWriteTyped ==
  ASSUME TypeInv, NEW r \in Requests, SaveWrite(r)
  PROVE  TypeInv'
<1> USE DEF TypeInv, TypeOK
<1>1. InHand(r) /\ pc[r] = "saveWrite" /\ mem[r] \in Row
  BY DEF SaveWrite, InHandOK, InHand
<1>2. PICK s \in Submissions, op \in Ops, u \in Users :
        s = job[r].sub /\ op = job[r].op /\ u = job[r].user
  BY <1>1 DEF InHand
<1>3. rows[s] \in Row
  BY <1>1, <1>2 DEF TablesOK, Exists, InHand
<1>4. PICK merged \in Row : merged = Merge(rows[s], base[r], mem[r])
  BY <1>1, <1>3, MergeType
<1>5. rows' = [rows EXCEPT ![s] = merged]
  BY <1>2, <1>4 DEF SaveWrite
<1>6. RowsKept /\ TablesOK'
  BY <1>4, <1>5, NullAssumption DEF RowsKept, Exists, TablesOK, SaveWrite
<1>7. HistoryOK'
  <2>1. cells[s] \in CellTable
    BY DEF TablesOK
  <2>2. content' = content \/ content' = [content EXCEPT ![s] = cells[s]]
    BY <1>2 DEF SaveWrite
  <2>3. done' = [done EXCEPT ![s] = @ \cup {<<op, u>>}]
    BY <1>2 DEF SaveWrite
  <2>4. content' \in [Submissions -> CellTable \cup {NULL}]
    BY <2>1, <2>2 DEF HistoryOK
  <2>5. <<op, u>> \in Ops \X Users
    OBVIOUS
  <2>6. done[s] \cup {<<op, u>>} \in SUBSET (Ops \X Users)
    BY <2>5 DEF HistoryOK
  <2>7. done' \in [Submissions -> SUBSET (Ops \X Users)]
    BY <2>3, <2>6 DEF HistoryOK
  <2> QED  BY <2>4, <2>7 DEF HistoryOK, SaveWrite
<1>8. ScreensOK' /\ ScreensFull'
  <2>1. CASE job[r].op = "patchCells"
    BY <1>1, <2>1, AnsweredTyped DEF SaveWrite
  <2>2. CASE job[r].op # "patchCells"
    BY <2>2 DEF SaveWrite, ScreensOK, ScreensFull
  <2> QED  BY <2>1, <2>2
<1>9. CASE op \notin LoggedOps
  BY <1>2, <1>6, <1>7, <1>8, <1>9, EndTyped DEF SaveWrite
<1>10. CASE op \in LoggedOps
  <2>1. Goto(r, "logCells") /\ UNCHANGED memory
    BY <1>2, <1>10 DEF SaveWrite
  <2>2. RequestsOK' /\ pc'[r] = "logCells" /\ job'[r] = job[r] /\ mem'[r] = mem[r]
    BY <2>1 DEF RequestsOK, Goto, LabelSet, memory, SaveWrite
  <2>3. Exists(s)'
    BY <1>4, <1>5, NullAssumption DEF Exists, TablesOK
  <2>4. InHand(r)'
    BY <1>1, <1>2, <1>10, <2>2, <2>3 DEF InHand
  <2>5. OthersUntouched(r)
    BY <2>1 DEF OthersUntouched, Goto, RequestsOK, memory
  <2> QED  BY <1>6, <1>7, <1>8, <2>2, <2>4, <2>5, OneInHand
<1> QED  BY <1>9, <1>10

\* The reads of captureFlowLog.
LEMMA LogReadTyped ==
  ASSUME TypeInv, NEW r \in Requests, LogCells(r) \/ LogRow(r)
  PROVE  TypeInv'
<1> USE DEF TypeInv, TypeOK
<1>1. InHand(r)
  BY DEF InHandOK
<1>2. PICK s \in Submissions : s = job[r].sub /\ rows[s] \in Row
  BY <1>1 DEF LogCells, LogRow, InHand, TablesOK, Exists
<1>3. cells[s] \in CellTable /\ rows[s].version \in Nat
  BY <1>2 DEF TablesOK, Row, Version
<1>4. TablesOK' /\ ScreensOK' /\ HistoryOK' /\ ScreensFull'
  BY DEF LogCells, LogRow, TablesOK, ScreensOK, HistoryOK, ScreensFull, tables, history
<1>5. {"logRow", "logWrite"} \subseteq LabelSet
  BY DEF LabelSet
<1>6. CASE LogCells(r)
  <2>1. /\ snap' \in [Requests -> [cells : CellTable \cup {NULL}, version : Nat]]
        /\ snap'[r].cells \in CellTable
    BY <1>2, <1>3, <1>6 DEF LogCells, RequestsOK
  <2>2. pc'[r] = "logRow"
    BY <1>6 DEF LogCells, Goto, RequestsOK
  <2>3. InHand(r)'
    BY <1>1, <1>6, <2>1, <2>2 DEF InHand, LogCells, Exists, tables
  <2>4. OthersUntouched(r)
    BY <1>6 DEF OthersUntouched, LogCells, Goto, RequestsOK
  <2> QED  BY <1>4, <1>5, <1>6, <2>1, <2>3, <2>4, StepKeeps DEF LogCells, tables, RequestsOK
<1>7. CASE LogRow(r)
  <2>1. /\ snap' \in [Requests -> [cells : CellTable \cup {NULL}, version : Nat]]
        /\ snap'[r].cells = snap[r].cells
    BY <1>2, <1>3, <1>7 DEF LogRow, RequestsOK
  <2>2. pc'[r] = "logWrite"
    BY <1>7 DEF LogRow, Goto, RequestsOK
  <2>3. InHand(r)'
    BY <1>1, <1>7, <2>1, <2>2 DEF InHand, LogRow, Exists, tables
  <2>4. OthersUntouched(r)
    BY <1>7 DEF OthersUntouched, LogRow, Goto, RequestsOK
  <2> QED  BY <1>4, <1>5, <1>7, <2>1, <2>3, <2>4, StepKeeps DEF LogRow, tables, RequestsOK
<1> QED  BY <1>6, <1>7

\* The insert of captureFlowLog.
LEMMA LogWriteTyped ==
  ASSUME TypeInv, NEW r \in Requests, LogWrite(r)
  PROVE  TypeInv'
<1> USE DEF TypeInv, TypeOK
<1>1. InHand(r) /\ pc[r] = "logWrite"
  BY DEF LogWrite, InHandOK
<1>2. PICK s \in Submissions : s = job[r].sub
  BY <1>1 DEF InHand
<1>3. FlowLog(r) \in Entry
  <2>1. job[r].op \in LoggedOps /\ job[r].from \in Status /\ job[r].user \in Users
    BY <1>1 DEF InHand
  <2>2. mem[r].status \in Status /\ snap[r].cells \in CellTable
    BY <1>1 DEF InHand, Row
  <2>3. snap[r].version \in Nat
    BY DEF RequestsOK
  <2> QED  BY <2>1, <2>2, <2>3 DEF FlowLog, Entry
<1>4. Append(logs[s], FlowLog(r)) \in Seq(Entry)
  BY <1>3 DEF TablesOK
<1>5. TablesOK'
  BY <1>2, <1>4 DEF TablesOK, LogWrite
<1>6. ScreensOK' /\ HistoryOK' /\ ScreensFull'
  BY DEF LogWrite, ScreensOK, HistoryOK, ScreensFull, history
<1>7. pc'[r] = "notify" /\ "notify" \in LabelSet
  BY DEF LogWrite, Goto, RequestsOK, LabelSet
<1>8. InHand(r)'
  BY <1>1, <1>7 DEF InHand, LogWrite, Exists, memory
<1>9. OthersUntouched(r)
  BY DEF OthersUntouched, LogWrite, Goto, RequestsOK, memory
<1> QED  BY <1>5, <1>6, <1>7, <1>8, <1>9, StepKeeps DEF LogWrite, RequestsOK, memory

\* The notifications.
LEMMA NotifyTyped ==
  ASSUME TypeInv, NEW r \in Requests, Notify(r)
  PROVE  TypeInv'
<1> USE DEF TypeInv, TypeOK
<1>1. PICK s \in Submissions : s = job[r].sub
  BY DEF Notify, InHandOK, InHand
<1>2. Notices(job[r].op, s) \subseteq Message
  <2>1. CASE job[r].op = "submit"
    BY <2>1, ActorsAssumption DEF Notices, Message, DeptApproversOf
  <2>2. CASE job[r].op = "approveDepartment"
    BY <2>2, ActorsAssumption DEF Notices, Message
  <2>3. CASE job[r].op \notin {"submit", "approveDepartment"}
    BY <2>3 DEF Notices
  <2> QED  BY <2>1, <2>2, <2>3
<1>3. TablesOK'
  BY <1>1, <1>2 DEF TablesOK, Notify
<1> QED  BY <1>3, EndKeeps DEF Notify, ScreensOK, HistoryOK, ScreensFull, history

-----------------------------------------------------------------------------
(* The theorem.                                                            *)

\* The initial state satisfies the invariant.
LEMMA InitTyped == Init => TypeInv
<1> SUFFICES ASSUME Init PROVE TypeInv
  OBVIOUS
<1>1. TablesOK /\ ScreensOK /\ HistoryOK
  BY EmptyShapes DEF Init, TablesOK, ScreensOK, HistoryOK, NoView
<1>2. RequestsOK
  BY EmptyShapes, BoundsAssumption DEF Init, RequestsOK, LabelSet
<1>3. InHandOK /\ ScreensFull
  BY DEF Init, InHandOK, InHand, NoJob, ScreensFull, NoView
<1> QED  BY <1>1, <1>2, <1>3 DEF TypeInv, TypeOK

\* Every step keeps it.
LEMMA NextTyped == TypeInv /\ [Next]_vars => TypeInv'
<1> SUFFICES ASSUME TypeInv, [Next]_vars PROVE TypeInv'
  OBVIOUS
<1> USE DEF TypeInv, TypeOK
<1>1. ASSUME NEW r \in Requests, Arrive(r) PROVE TypeInv'
  BY <1>1, ArriveTyped
<1>2. ASSUME NEW r \in Requests, Proceed(r) PROVE TypeInv'
  BY <1>2, InsertTyped, ViewTyped, CellReadTyped, CellWriteTyped, CountTyped,
     SaveLoadTyped, SaveWriteTyped, LogReadTyped, LogWriteTyped, NotifyTyped DEF Proceed
<1>3. ASSUME NEW r \in Requests, Crash(r) PROVE TypeInv'
  <2>1. HistoryOK'
    BY <1>3 DEF Crash, Die, HistoryOK
  <2> QED  BY <1>3, <2>1, EndKeeps
       DEF Crash, Die, tables, TablesOK, ScreensOK, ScreensFull
<1>4. ASSUME NEW a \in Assignments, CancelAssignment(a) PROVE TypeInv'
  <2>1. TablesOK' /\ RequestsOK' /\ ScreensOK' /\ HistoryOK' /\ ScreensFull'
    BY <1>4 DEF CancelAssignment, TablesOK, RequestsOK, ScreensOK, HistoryOK,
       ScreensFull, history, memory
  <2>2. InHandOK'
    BY <1>4 DEF CancelAssignment, InHandOK, InHand, Exists, memory
  <2> QED  BY <2>1, <2>2
<1>5. CASE UNCHANGED vars
  <2>1. TablesOK' /\ RequestsOK' /\ ScreensOK' /\ HistoryOK' /\ ScreensFull'
    BY <1>5 DEF vars, tables, history, memory, TablesOK, RequestsOK, ScreensOK,
       HistoryOK, ScreensFull
  <2>2. InHandOK'
    BY <1>5 DEF vars, tables, history, memory, InHandOK, InHand, Exists
  <2> QED  BY <2>1, <2>2
<1> QED  BY <1>1, <1>2, <1>3, <1>4, <1>5 DEF Next

\* Every variable stays in its type and every request holds what its next
\* statement needs, whatever requests run and wherever they die.
THEOREM TypeInvariant == Spec => []TypeInv
<1>1. Init => TypeInv
  BY InitTyped
<1>2. TypeInv /\ [Next]_vars => TypeInv'
  BY NextTyped
<1> QED  BY <1>1, <1>2, PTL DEF Spec

\* Type correctness of the handlers.
THEOREM TypeCorrect == Spec => []TypeOK
<1>1. TypeInv => TypeOK
  BY DEF TypeInv
<1> QED  BY <1>1, TypeInvariant, PTL
-----------------------------------------------------------------------------
DoneBy(D, op) == \E u \in Users : <<op, u>> \in D

\* What a row says is backed by the operations D committed on the report.
Justified(D, row) ==
  /\ row.status \in {"PENDING_DEPARTMENT", "DEPARTMENT_APPROVED", "DISTRICT_APPROVED"}
       => DoneBy(D, "submit")
  /\ row.status \in {"DEPARTMENT_APPROVED", "DISTRICT_APPROVED"}
       => DoneBy(D, "approveDepartment")
  /\ row.status = "DISTRICT_APPROVED" => DoneBy(D, "approveDistrict")
  /\ row.submittedBy # NULL =>
       <<"submit", row.submittedBy>> \in D /\ row.submittedBy \in Reporters
  /\ row.departmentApprovedBy # NULL =>
       /\ <<"approveDepartment", row.departmentApprovedBy>> \in D
       /\ row.departmentApprovedBy \in DeptApprovers
  /\ row.districtApprovedBy # NULL =>
       /\ <<"approveDistrict", row.districtApprovedBy>> \in D
       /\ row.districtApprovedBy \in DistrictApprovers

\* The labels at which a request may still save its copy, and those at which it
\* still has to log what it saved.
CopyLabels == {"cell", "cellWrite", "saveLoad", "saveWrite"}
LogLabels  == {"logCells", "logRow", "logWrite"}

\* What request r may still write is sound.
Sound(r) ==
  LET s  == job[r].sub
      op == job[r].op
  IN  /\ pc[r] \in CopyLabels =>
           /\ Justified(done[s] \cup {<<op, job[r].user>>}, mem[r])
           /\ mem[r].assignment = rows[s].assignment
      /\ pc[r] \in {"cell", "cellWrite"} =>
           edit[r].todo \subseteq Writable(rows[s].assignment)
      /\ pc[r] = "cellWrite" => edit[r].cur \in Writable(rows[s].assignment)
      /\ pc[r] \in {"saveLoad", "saveWrite"} \cup LogLabels /\ op \in LoggedOps =>
           <<op, job[r].from, mem[r].status>> \in Moves
      /\ pc[r] \in LogLabels => <<op, job[r].user>> \in done[s]

RequestsSound == \A r \in Requests : Sound(r)
RowsJustified == \A s \in Submissions : Exists(s) => Justified(done[s], rows[s])

SafetyInv ==
  RowsJustified /\ RequestsSound /\ LogsAreCommitted /\ OnlyWritableCells

\* What every step does: no commit is forgotten, no report changes its assignment.
HistoryKept ==
  /\ \A s \in Submissions : done[s] \subseteq done'[s]
  /\ \A s \in Submissions :
       Exists(s) => Exists(s)' /\ rows'[s].assignment = rows[s].assignment

-----------------------------------------------------------------------------
(* Lemmas about Justified.                                                 *)

\* More commits justify no less.
LEMMA JustifiedMonotone ==
  ASSUME NEW D, NEW E, D \subseteq E, NEW row, Justified(D, row)
  PROVE  Justified(E, row)
BY DEF Justified, DoneBy

\* A save of a justified copy over a justified row writes a justified row, and
\* keeps the assignment when the two agree on it.
LEMMA MergeJustified ==
  ASSUME NEW D, NEW row, NEW old, NEW new, Justified(D, row), Justified(D, new)
  PROVE  /\ Justified(D, Merge(row, old, new))
         /\ row.assignment = new.assignment =>
              Merge(row, old, new).assignment = row.assignment
<1> DEFINE m == Merge(row, old, new)
<1>1. m.status \in {row.status, new.status}
  BY DEF Merge
<1>2. m.submittedBy \in {row.submittedBy, new.submittedBy}
  BY DEF Merge
<1>3. m.departmentApprovedBy \in {row.departmentApprovedBy, new.departmentApprovedBy}
  BY DEF Merge
<1>4. m.districtApprovedBy \in {row.districtApprovedBy, new.districtApprovedBy}
  BY DEF Merge
<1>5. m.assignment \in {row.assignment, new.assignment}
  BY DEF Merge
<1> HIDE DEF m
<1>6. Justified(D, m)
  BY <1>1, <1>2, <1>3, <1>4 DEF Justified
<1> QED  BY <1>5, <1>6 DEF m

\* What the requests other than r may still write stays sound.
LEMMA OthersStaySound ==
  ASSUME TypeInv, RequestsSound, NEW r \in Requests, OthersUntouched(r), HistoryKept,
         Sound(r)'
  PROVE  RequestsSound'
<1> SUFFICES ASSUME NEW q \in Requests, q # r PROVE Sound(q)'
  BY DEF RequestsSound
<1>1. Sound(q) /\ InHand(q)
  BY DEF RequestsSound, TypeInv, InHandOK
<1>2. /\ pc'[q] = pc[q] /\ job'[q] = job[q] /\ mem'[q] = mem[q]
      /\ edit'[q] = edit[q]
  BY DEF OthersUntouched
<1>3. CASE pc[q] \notin CopyLabels \cup LogLabels
  BY <1>2, <1>3 DEF Sound, CopyLabels
<1>4. CASE pc[q] \in CopyLabels \cup LogLabels
  <2>1. PICK s \in Submissions : s = job[q].sub /\ Exists(s)
    BY <1>1, <1>4 DEF InHand, CopyLabels, LogLabels
  <2>2. done[s] \subseteq done'[s] /\ rows'[s].assignment = rows[s].assignment
    BY <2>1 DEF HistoryKept
  <2>3. pc[q] \in CopyLabels =>
          Justified(done'[s] \cup {<<job[q].op, job[q].user>>}, mem[q])
    BY <1>1, <2>1, <2>2, JustifiedMonotone DEF Sound
  <2> QED  BY <1>1, <1>2, <2>1, <2>2, <2>3 DEF Sound
<1> QED  BY <1>3, <1>4

-----------------------------------------------------------------------------
(* Steps that write nothing but a request's memory.                        *)

\* A step that leaves reports, cells, logs and commits alone keeps the invariant
\* when what r holds after it is sound.
LEMMA ReadKeeps ==
  ASSUME TypeInv, SafetyInv, NEW r \in Requests, OthersUntouched(r),
         UNCHANGED <<rows, cells, logs, done>>, Sound(r)'
  PROVE  SafetyInv'
<1>1. HistoryKept
  BY DEF HistoryKept, Exists
<1>2. RequestsSound'
  BY <1>1, OthersStaySound DEF SafetyInv
<1>3. RowsJustified' /\ LogsAreCommitted' /\ OnlyWritableCells'
  BY DEF SafetyInv, RowsJustified, LogsAreCommitted, OnlyWritableCells, Exists
<1> QED  BY <1>2, <1>3 DEF SafetyInv

\* So does one after which r has nothing to save and nothing to log.
LEMMA QuietKeeps ==
  ASSUME TypeInv, SafetyInv, NEW r \in Requests, OthersUntouched(r),
         UNCHANGED <<rows, cells, logs, done>>,
         pc'[r] \in {"idle", "code", "insert", "view", "notify"}
  PROVE  SafetyInv'
<1>1. Sound(r)'
  BY DEF Sound, CopyLabels, LogLabels
<1> QED  BY <1>1, ReadKeeps

\* A request that ends.
LEMMA EndIsQuiet ==
  ASSUME TypeInv, NEW r \in Requests, End(r)
  PROVE  OthersUntouched(r) /\ pc'[r] = "idle"
BY DEF OthersUntouched, End, TypeInv, TypeOK, RequestsOK

\* A request that is taken up.
LEMMA TakeTouchesOne ==
  ASSUME TypeInv, NEW r \in Requests, NEW label, NEW j, NEW copy,
         Take(r, label, j, copy), NEW e, edit' = [edit EXCEPT ![r] = e],
         UNCHANGED snap
  PROVE  /\ OthersUntouched(r)
         /\ pc'[r] = label /\ job'[r] = j /\ mem'[r] = copy /\ edit'[r] = e
BY DEF OthersUntouched, Take, TypeInv, TypeOK, RequestsOK

\* Opening a report, and reading one.
LEMMA OpenSafe ==
  ASSUME TypeInv, SafetyInv, NEW r \in Requests, NEW label \in {"code", "view"},
         NEW j, NEW copy, Take(r, label, j, copy),
         UNCHANGED <<tables, history, view, base, edit, snap>>
  PROVE  SafetyInv'
<1>1. edit' = [edit EXCEPT ![r] = edit[r]]
  BY DEF TypeInv, TypeOK, RequestsOK
<1>2. OthersUntouched(r) /\ pc'[r] = label
  BY <1>1, TakeTouchesOne
<1> QED  BY <1>2, QuietKeeps DEF tables, history

\* patchCells copies a row that is justified, and keeps only writable cells.
LEMMA PatchCellsSafe ==
  ASSUME TypeInv, SafetyInv, NEW r \in Requests, NEW u \in Reporters,
         NEW s \in Submissions, NEW changes \in SUBSET Cells, NEW val \in Values,
         PatchCells(r, u, s, changes, val)
  PROVE  SafetyInv'
<1> DEFINE e == [NoEdit EXCEPT !.todo = changes \cap Writable(rows[s].assignment),
                               !.val = val]
           j == Ask("patchCells", u, s, NULL)
<1>1. Take(r, "cell", j, rows[s]) /\ edit' = [edit EXCEPT ![r] = e] /\ UNCHANGED snap
  BY DEF PatchCells
<1>2. rows' = rows /\ done' = done /\ cells' = cells /\ logs' = logs
  BY DEF PatchCells, tables, history
<1>3. j.sub = s /\ j.op = "patchCells" /\ e.todo \subseteq Writable(rows[s].assignment)
  BY DEF Ask, NoEdit
<1> HIDE DEF e, j
<1>4. /\ OthersUntouched(r)
      /\ pc'[r] = "cell" /\ job'[r] = j /\ mem'[r] = rows[s] /\ edit'[r] = e
  BY <1>1, TakeTouchesOne
<1>5. Justified(done[s], rows[s])
  BY DEF PatchCells, SafetyInv, RowsJustified
<1>6. Justified(done'[s] \cup {<<j.op, j.user>>}, mem'[r])
  BY <1>2, <1>4, <1>5, JustifiedMonotone
<1>7. "patchCells" \notin LoggedOps
  BY DEF LoggedOps, EventOf
<1>8. Sound(r)'
  BY <1>2, <1>3, <1>4, <1>6, <1>7 DEF Sound, CopyLabels, LogLabels
<1> QED  BY <1>2, <1>4, <1>8, ReadKeeps

\* An operation that moves a report on keeps the invariant when its copy will be
\* justified by its own commit, and, if it is logged, its move is legal.
LEMMA ChangeSafe ==
  ASSUME TypeInv, SafetyInv, NEW r \in Requests, NEW u \in Users,
         NEW s \in Submissions, NEW op \in Ops, NEW copy, Exists(s),
         Change(r, op, u, s, copy),
         Justified(done[s] \cup {<<op, u>>}, copy),
         copy.assignment = rows[s].assignment,
         op \in LoggedOps => <<op, rows[s].status, copy.status>> \in Moves
  PROVE  SafetyInv'
<1> DEFINE j == Ask(op, u, s, rows[s].status)
<1>1. Take(r, "saveLoad", j, copy) /\ edit' = [edit EXCEPT ![r] = edit[r]] /\ UNCHANGED snap
  BY DEF Change, TypeInv, TypeOK, RequestsOK
<1>2. rows' = rows /\ done' = done /\ cells' = cells /\ logs' = logs
  BY DEF Change, tables, history
<1>3. j.sub = s /\ j.op = op /\ j.user = u /\ j.from = rows[s].status
  BY DEF Ask
<1> HIDE DEF j
<1>4. /\ OthersUntouched(r)
      /\ pc'[r] = "saveLoad" /\ job'[r] = j /\ mem'[r] = copy
  BY <1>1, TakeTouchesOne
<1>5. Sound(r)'
  BY <1>2, <1>3, <1>4 DEF Sound, CopyLabels, LogLabels
<1> QED  BY <1>2, <1>4, <1>5, ReadKeeps

\* Every operation keeps the invariant as it arrives.
LEMMA ArriveSafe ==
  ASSUME TypeInv, SafetyInv, NEW r \in Requests, Arrive(r)
  PROVE  SafetyInv'
<1>1. ASSUME NEW s \in Submissions, Exists(s)
      PROVE  rows[s] \in Row /\ Justified(done[s], rows[s])
  BY <1>1 DEF TypeInv, TypeOK, TablesOK, Exists, SafetyInv, RowsJustified
<1>2. ASSUME NEW u \in Reporters, NEW a \in Assignments,
             Create(r, u, a) \/ GetByAssignment(r, u, a)
      PROVE  SafetyInv'
  BY <1>2, OpenSafe DEF Create, GetByAssignment, OpenAbsent
<1>3. ASSUME NEW u \in Reporters, NEW s \in Submissions, GetOne(r, u, s)
      PROVE  SafetyInv'
  BY <1>3, OpenSafe DEF GetOne
<1>4. ASSUME NEW u \in Reporters, NEW s \in Submissions, NEW val \in Values,
             NEW changes \in (SUBSET Cells) \ {{}}, PatchCells(r, u, s, changes, val)
      PROVE  SafetyInv'
  BY <1>4, PatchCellsSafe
<1>5. ASSUME NEW u \in Reporters, NEW s \in Submissions, Submit(r, u, s)
      PROVE  SafetyInv'
  <2> DEFINE copy == [rows[s] EXCEPT !.status = "PENDING_DEPARTMENT", !.submittedBy = u,
                                    !.version = @ + 1]
  <2>1. /\ Exists(s) /\ rows[s] \in Row /\ rows[s].status \in Editable
        /\ Change(r, "submit", u, s, copy)
    BY <1>1, <1>5 DEF Submit
  <2>2. /\ copy.status = "PENDING_DEPARTMENT" /\ copy.submittedBy = u
        /\ copy.departmentApprovedBy = rows[s].departmentApprovedBy
        /\ copy.districtApprovedBy = rows[s].districtApprovedBy
        /\ copy.assignment = rows[s].assignment
    BY <2>1 DEF Row
  <2> HIDE DEF copy
  <2>3. u \in Users /\ "submit" \in Ops
    BY ActorsAssumption DEF Ops
  <2>4. Justified(done[s] \cup {<<"submit", u>>}, copy)
    BY <1>1, <2>1, <2>2, <2>3 DEF Justified, DoneBy
  <2>5. <<"submit", rows[s].status, copy.status>> \in Moves
    BY <2>1, <2>2 DEF Moves
  <2> QED  BY <2>1, <2>2, <2>3, <2>4, <2>5, ChangeSafe
<1>6. ASSUME NEW u \in Reporters, NEW s \in Submissions, CancelSubmit(r, u, s)
      PROVE  SafetyInv'
  <2> DEFINE copy == [rows[s] EXCEPT !.status = "DRAFT", !.submittedBy = NULL]
  <2>1. Exists(s) /\ rows[s] \in Row /\ Change(r, "cancelSubmit", u, s, copy)
    BY <1>1, <1>6 DEF CancelSubmit
  <2>2. /\ copy.status = "DRAFT" /\ copy.submittedBy = NULL
        /\ copy.departmentApprovedBy = rows[s].departmentApprovedBy
        /\ copy.districtApprovedBy = rows[s].districtApprovedBy
        /\ copy.assignment = rows[s].assignment
    BY <2>1 DEF Row
  <2> HIDE DEF copy
  <2>3. u \in Users /\ "cancelSubmit" \in Ops /\ "cancelSubmit" \notin LoggedOps
    BY ActorsAssumption DEF Ops, LoggedOps, EventOf
  <2>4. Justified(done[s] \cup {<<"cancelSubmit", u>>}, copy)
    BY <1>1, <2>1, <2>2 DEF Justified, DoneBy
  <2> QED  BY <2>1, <2>2, <2>3, <2>4, ChangeSafe
<1>7. ASSUME NEW u \in Users, NEW s \in Submissions, ApproveDepartment(r, u, s)
      PROVE  SafetyInv'
  <2> DEFINE copy == [rows[s] EXCEPT !.status = "DEPARTMENT_APPROVED",
                                    !.departmentApprovedBy = u]
  <2>1. /\ Exists(s) /\ rows[s] \in Row /\ u \in DeptApprovers
        /\ rows[s].status = "PENDING_DEPARTMENT"
        /\ Change(r, "approveDepartment", u, s, copy)
    BY <1>1, <1>7 DEF ApproveDepartment
  <2>2. /\ copy.status = "DEPARTMENT_APPROVED" /\ copy.departmentApprovedBy = u
        /\ copy.submittedBy = rows[s].submittedBy
        /\ copy.districtApprovedBy = rows[s].districtApprovedBy
        /\ copy.assignment = rows[s].assignment
    BY <2>1 DEF Row
  <2> HIDE DEF copy
  <2>3. Justified(done[s] \cup {<<"approveDepartment", u>>}, copy)
    BY <1>1, <2>1, <2>2 DEF Justified, DoneBy
  <2>4. <<"approveDepartment", rows[s].status, copy.status>> \in Moves
    BY <2>1, <2>2 DEF Moves
  <2> QED  BY <2>1, <2>2, <2>3, <2>4, ChangeSafe DEF Ops
<1>8. ASSUME NEW u \in Users, NEW s \in Submissions, RejectDepartment(r, u, s)
      PROVE  SafetyInv'
  <2> DEFINE copy == [rows[s] EXCEPT !.status = "REJECTED_DEPARTMENT",
                                    !.departmentApprovedBy = NULL]
  <2>1. /\ Exists(s) /\ rows[s] \in Row /\ rows[s].status = "PENDING_DEPARTMENT"
        /\ Change(r, "rejectDepartment", u, s, copy)
    BY <1>1, <1>8 DEF RejectDepartment
  <2>2. /\ copy.status = "REJECTED_DEPARTMENT" /\ copy.departmentApprovedBy = NULL
        /\ copy.submittedBy = rows[s].submittedBy
        /\ copy.districtApprovedBy = rows[s].districtApprovedBy
        /\ copy.assignment = rows[s].assignment
    BY <2>1 DEF Row
  <2> HIDE DEF copy
  <2>3. Justified(done[s] \cup {<<"rejectDepartment", u>>}, copy)
    BY <1>1, <2>1, <2>2 DEF Justified, DoneBy
  <2>4. <<"rejectDepartment", rows[s].status, copy.status>> \in Moves
    BY <2>1, <2>2 DEF Moves
  <2> QED  BY <2>1, <2>2, <2>3, <2>4, ChangeSafe DEF Ops
<1>9. ASSUME NEW u \in Users, NEW s \in Submissions, ApproveDistrict(r, u, s)
      PROVE  SafetyInv'
  <2> DEFINE copy == [rows[s] EXCEPT !.status = "DISTRICT_APPROVED",
                                    !.districtApprovedBy = u]
  <2>1. /\ Exists(s) /\ rows[s] \in Row /\ u \in DistrictApprovers
        /\ rows[s].status = "DEPARTMENT_APPROVED"
        /\ Change(r, "approveDistrict", u, s, copy)
    BY <1>1, <1>9 DEF ApproveDistrict
  <2>2. /\ copy.status = "DISTRICT_APPROVED" /\ copy.districtApprovedBy = u
        /\ copy.submittedBy = rows[s].submittedBy
        /\ copy.departmentApprovedBy = rows[s].departmentApprovedBy
        /\ copy.assignment = rows[s].assignment
    BY <2>1 DEF Row
  <2> HIDE DEF copy
  <2>3. Justified(done[s] \cup {<<"approveDistrict", u>>}, copy)
    BY <1>1, <2>1, <2>2 DEF Justified, DoneBy
  <2>4. <<"approveDistrict", rows[s].status, copy.status>> \in Moves
    BY <2>1, <2>2 DEF Moves
  <2> QED  BY <2>1, <2>2, <2>3, <2>4, ChangeSafe DEF Ops
<1>10. ASSUME NEW u \in Users, NEW s \in Submissions, RejectDistrict(r, u, s)
      PROVE  SafetyInv'
  <2> DEFINE copy == [rows[s] EXCEPT !.status = "REJECTED_DISTRICT",
                                    !.districtApprovedBy = NULL]
  <2>1. /\ Exists(s) /\ rows[s] \in Row /\ rows[s].status = "DEPARTMENT_APPROVED"
        /\ Change(r, "rejectDistrict", u, s, copy)
    BY <1>1, <1>10 DEF RejectDistrict
  <2>2. /\ copy.status = "REJECTED_DISTRICT" /\ copy.districtApprovedBy = NULL
        /\ copy.submittedBy = rows[s].submittedBy
        /\ copy.departmentApprovedBy = rows[s].departmentApprovedBy
        /\ copy.assignment = rows[s].assignment
    BY <2>1 DEF Row
  <2> HIDE DEF copy
  <2>3. Justified(done[s] \cup {<<"rejectDistrict", u>>}, copy)
    BY <1>1, <2>1, <2>2 DEF Justified, DoneBy
  <2>4. <<"rejectDistrict", rows[s].status, copy.status>> \in Moves
    BY <2>1, <2>2 DEF Moves
  <2> QED  BY <2>1, <2>2, <2>3, <2>4, ChangeSafe DEF Ops
<1> QED  BY <1>2, <1>3, <1>4, <1>5, <1>6, <1>7, <1>8, <1>9, <1>10 DEF Arrive

-----------------------------------------------------------------------------
(* A request is carried on.                                                *)

\* The statements that change no report, no cell, no log and no commit, and after
\* which the request has nothing of the sort to write.
LEMMA QuietStepsSafe ==
  ASSUME TypeInv, SafetyInv, NEW r \in Requests,
         PickCode(r) \/ View(r) \/ Notify(r) \/ Crash(r)
  PROVE  SafetyInv'
<1>1. CASE End(r)
  BY <1>1, EndIsQuiet, QuietKeeps
     DEF PickCode, View, Notify, Crash, Die, tables, history
<1>2. CASE ~End(r)
  <2>1. PickCode(r) /\ Goto(r, "insert") /\ UNCHANGED <<mem, base, edit, snap>>
    BY <1>2 DEF PickCode, View, Notify, Crash, Die
  <2>2. PICK s : job' = [job EXCEPT ![r].sub = s]
    BY <1>2 DEF PickCode, View, Notify, Crash, Die
  <2>3. OthersUntouched(r) /\ pc'[r] = "insert"
    BY <2>1, <2>2 DEF OthersUntouched, Goto, TypeInv, TypeOK, RequestsOK
  <2> QED  BY <2>1, <2>3, QuietKeeps DEF PickCode, tables, history
<1> QED  BY <1>1, <1>2

\* A new row claims nothing, and its code has no cells.
LEMMA InsertSafe ==
  ASSUME TypeInv, SafetyInv, NEW r \in Requests, InsertSubmission(r)
  PROVE  SafetyInv'
<1>1. InHand(r) /\ pc[r] = "insert"
  BY DEF InsertSubmission, TypeInv, InHandOK
<1>2. PICK s \in Submissions, a \in Assignments : s = job[r].sub /\ a = job[r].assignment
  BY <1>1 DEF InHand
<1>3. OthersUntouched(r) /\ pc'[r] \in {"idle", "view"}
  <2>1. CASE End(r)
    BY <2>1, EndIsQuiet
  <2>2. CASE ~End(r)
    BY <2>2 DEF InsertSubmission, OthersUntouched, Goto, TypeInv, TypeOK, RequestsOK
  <2> QED  BY <2>1, <2>2
<1>4. CASE rows' = rows
  BY <1>3, <1>4, QuietKeeps DEF InsertSubmission, history
<1>5. CASE rows' # rows
  <2>1. ~Exists(s) /\ rows' = [rows EXCEPT ![s] = NewRow(a)]
    BY <1>2, <1>5 DEF InsertSubmission
  <2>2. rows'[s] = NewRow(a) /\ NewRow(a) # NULL
    BY <2>1, EmptyShapes, NullAssumption DEF TypeInv, TypeOK, TablesOK
  <2>3. \A t \in Submissions \ {s} : rows'[t] = rows[t]
    BY <2>1 DEF TypeInv, TypeOK, TablesOK
  <2>4. UNCHANGED <<cells, logs, done>>
    BY DEF InsertSubmission, history
  <2>5. HistoryKept
    BY <2>1, <2>3, <2>4 DEF HistoryKept, Exists
  <2>6. Justified(done[s], NewRow(a))
    BY DEF Justified, NewRow
  <2>7. RowsJustified'
    BY <2>2, <2>3, <2>4, <2>6 DEF RowsJustified, SafetyInv, Exists
  <2>8. OnlyWritableCells'
    BY <2>1, <2>3, <2>4 DEF OnlyWritableCells, SafetyInv, Exists
  <2>9. LogsAreCommitted'
    BY <2>4 DEF LogsAreCommitted, SafetyInv
  <2>10. Sound(r)'
    BY <1>3 DEF Sound, CopyLabels, LogLabels
  <2>11. RequestsSound'
    BY <1>3, <2>5, <2>10, OthersStaySound DEF SafetyInv
  <2> QED  BY <2>7, <2>8, <2>9, <2>11 DEF SafetyInv
<1> QED  BY <1>4, <1>5

\* The reads before a write: of a cell, of the count, of the row, and for the log.
LEMMA ReadStepsSafe ==
  ASSUME TypeInv, SafetyInv, NEW r \in Requests,
         CellRead(r) \/ Count(r) \/ SaveLoad(r) \/ LogCells(r) \/ LogRow(r)
  PROVE  SafetyInv'
<1>1. Sound(r) /\ InHand(r)
  BY DEF SafetyInv, RequestsSound, TypeInv, InHandOK
<1>2. UNCHANGED <<rows, cells, logs, done, job>>
  BY DEF CellRead, Count, SaveLoad, LogCells, LogRow, tables, history
<1>3. CASE CellRead(r)
  <2>1. PICK c \in edit[r].todo :
          edit' = [edit EXCEPT ![r].cur = c, ![r].old = cells[job[r].sub][c]]
    BY <1>3 DEF CellRead
  <2>2. edit'[r].cur = c /\ edit'[r].todo = edit[r].todo
    BY <2>1 DEF TypeInv, TypeOK, RequestsOK, Edit
  <2>3. pc[r] = "cell" /\ pc'[r] = "cellWrite" /\ mem' = mem
    BY <1>3 DEF CellRead, Goto, TypeInv, TypeOK, RequestsOK
  <2>4. OthersUntouched(r)
    BY <1>3, <2>1 DEF OthersUntouched, CellRead, Goto, TypeInv, TypeOK, RequestsOK
  <2>5. Sound(r)'
    BY <1>1, <1>2, <2>1, <2>2, <2>3 DEF Sound, CopyLabels, LogLabels
  <2> QED  BY <1>2, <2>4, <2>5, ReadKeeps
<1>4. CASE Count(r)
  <2>1. /\ pc[r] = "cell" /\ pc'[r] = "saveLoad" /\ mem[r] \in Row
        /\ job[r].op = "patchCells" /\ "patchCells" \notin LoggedOps
    BY <1>1, <1>4 DEF Count, Goto, TypeInv, TypeOK, RequestsOK, InHand, LoggedOps, EventOf
  <2>2. PICK pct : mem' = [mem EXCEPT ![r].completionPct = pct, ![r].version = @ + 1]
    BY <1>4 DEF Count
  <2>3. /\ mem'[r].status = mem[r].status
        /\ mem'[r].submittedBy = mem[r].submittedBy
        /\ mem'[r].departmentApprovedBy = mem[r].departmentApprovedBy
        /\ mem'[r].districtApprovedBy = mem[r].districtApprovedBy
        /\ mem'[r].assignment = mem[r].assignment
    BY <2>1, <2>2 DEF TypeInv, TypeOK, RequestsOK, Row
  <2>4. ASSUME NEW D, Justified(D, mem[r]) PROVE Justified(D, mem'[r])
    BY <2>3, <2>4 DEF Justified
  <2>5. Sound(r)'
    BY <1>1, <1>2, <2>1, <2>3, <2>4 DEF Sound, CopyLabels, LogLabels
  <2>6. OthersUntouched(r)
    BY <1>4, <2>2 DEF OthersUntouched, Count, Goto, TypeInv, TypeOK, RequestsOK
  <2> QED  BY <1>2, <2>5, <2>6, ReadKeeps
<1>5. CASE SaveLoad(r) \/ LogCells(r) \/ LogRow(r)
  <2>1. /\ <<pc[r], pc'[r]>> \in {<<"saveLoad", "saveWrite">>, <<"logCells", "logRow">>,
                                <<"logRow", "logWrite">>}
        /\ mem' = mem /\ edit' = edit
    BY <1>5 DEF SaveLoad, LogCells, LogRow, Goto, TypeInv, TypeOK, RequestsOK
  <2>2. OthersUntouched(r)
    BY <1>5 DEF OthersUntouched, SaveLoad, LogCells, LogRow, Goto, TypeInv, TypeOK, RequestsOK
  <2>3. Sound(r)'
    BY <1>1, <1>2, <2>1 DEF Sound, CopyLabels, LogLabels
  <2> QED  BY <1>2, <2>2, <2>3, ReadKeeps
<1> QED  BY <1>3, <1>4, <1>5

\* A cell is written only where the request may write, in a report that exists.
LEMMA CellWriteSafe ==
  ASSUME TypeInv, SafetyInv, NEW r \in Requests, CellWrite(r)
  PROVE  SafetyInv'
<1>1. Sound(r) /\ InHand(r) /\ pc[r] = "cellWrite"
  BY DEF SafetyInv, RequestsSound, TypeInv, InHandOK, CellWrite
<1>2. PICK s \in Submissions, c \in Cells, val \in Values :
        s = job[r].sub /\ c = edit[r].cur /\ val = edit[r].val
  BY <1>1 DEF InHand
<1>3. CASE Die(r) /\ UNCHANGED cells
  BY <1>3, EndIsQuiet, QuietKeeps DEF Die, CellWrite
<1>4. CASE ~(Die(r) /\ UNCHANGED cells)
  <2>1. /\ cells' = cells \/ cells' = [cells EXCEPT ![s][c] = val]
        /\ edit' = [edit EXCEPT ![r].todo = @ \ {c}, ![r].saved = @ \cup {c},
                                ![r].cur = NULL, ![r].old = NULL]
        /\ Goto(r, "cell")
        /\ UNCHANGED <<rows, logs, job, mem, base, snap, history>>
    BY <1>2, <1>4 DEF CellWrite
  <2>2. pc'[r] = "cell" /\ edit'[r].todo = edit[r].todo \ {c}
    BY <2>1 DEF Goto, TypeInv, TypeOK, RequestsOK, Edit
  <2>3. Exists(s) /\ c \in Writable(rows[s].assignment)
    BY <1>1, <1>2 DEF Sound, InHand
  <2>4. \A t \in Submissions, d \in Cells :
          cells'[t][d] = cells[t][d] \/ (t = s /\ d = c)
    BY <2>1 DEF TypeInv, TypeOK, TablesOK, CellTable
  <2>5. OnlyWritableCells'
    BY <2>1, <2>3, <2>4 DEF OnlyWritableCells, SafetyInv, Exists
  <2>6. RowsJustified' /\ LogsAreCommitted' /\ HistoryKept
    BY <2>1 DEF RowsJustified, LogsAreCommitted, HistoryKept, SafetyInv, Exists, history
  <2>7. OthersUntouched(r)
    BY <2>1 DEF OthersUntouched, Goto, TypeInv, TypeOK, RequestsOK
  <2>8. Sound(r)'
    BY <1>1, <2>1, <2>2 DEF Sound, CopyLabels, LogLabels, history
  <2>9. RequestsSound'
    BY <2>6, <2>7, <2>8, OthersStaySound DEF SafetyInv
  <2> QED  BY <2>5, <2>6, <2>9 DEF SafetyInv
<1> QED  BY <1>3, <1>4

\* The save: the row it writes is justified by the commits it adds to.
LEMMA SaveWriteSafe ==
  ASSUME TypeInv, SafetyInv, NEW r \in Requests, SaveWrite(r)
  PROVE  SafetyInv'
<1>1. Sound(r) /\ InHand(r) /\ pc[r] = "saveWrite"
  BY DEF SafetyInv, RequestsSound, TypeInv, InHandOK, SaveWrite
<1>2. PICK s \in Submissions, op \in Ops, u \in Users :
        s = job[r].sub /\ op = job[r].op /\ u = job[r].user
  BY <1>1 DEF InHand
<1>3. PICK D : D = done[s] \cup {<<op, u>>}
  OBVIOUS
<1>4. done' = [done EXCEPT ![s] = D]
  BY <1>2, <1>3 DEF SaveWrite
<1>5. PICK merged : merged = Merge(rows[s], base[r], mem[r])
  OBVIOUS
<1>6. rows' = [rows EXCEPT ![s] = merged]
  BY <1>2, <1>5 DEF SaveWrite
<1>7. Exists(s) /\ rows[s] \in Row /\ mem[r] \in Row
  BY <1>1, <1>2 DEF InHand, TypeInv, TypeOK, TablesOK, Exists
<1>8. merged # NULL
  BY <1>5, <1>7, MergeType, NullAssumption
<1>9. Justified(D, merged) /\ merged.assignment = rows[s].assignment
  <2>1. Justified(done[s], rows[s])
    BY <1>7 DEF SafetyInv, RowsJustified
  <2>2. Justified(D, rows[s])
    BY <1>3, <2>1, JustifiedMonotone
  <2>3. Justified(D, mem[r]) /\ rows[s].assignment = mem[r].assignment
    BY <1>1, <1>2, <1>3 DEF Sound, CopyLabels
  <2> QED  BY <1>5, <2>2, <2>3, MergeJustified
<1>10. /\ rows'[s] = merged /\ done'[s] = D
       /\ \A t \in Submissions \ {s} : rows'[t] = rows[t] /\ done'[t] = done[t]
  BY <1>4, <1>6 DEF TypeInv, TypeOK, TablesOK, HistoryOK
<1>11. HistoryKept
  BY <1>3, <1>7, <1>8, <1>9, <1>10 DEF HistoryKept, Exists
<1>12. RowsJustified'
  BY <1>9, <1>10 DEF RowsJustified, SafetyInv, Exists
<1>13. OnlyWritableCells'
  BY <1>11 DEF OnlyWritableCells, SafetyInv, HistoryKept, SaveWrite
<1>14. LogsAreCommitted'
  <2>1. logs' = logs
    BY DEF SaveWrite
  <2>2. \A t \in Submissions : done[t] \subseteq done'[t]
    BY <1>11 DEF HistoryKept
  <2> QED  BY <2>1, <2>2 DEF LogsAreCommitted, SafetyInv
<1>15. Sound(r)' /\ OthersUntouched(r)
  <2>1. CASE op \in LoggedOps
    <3>1. Goto(r, "logCells") /\ UNCHANGED memory
      BY <1>2, <2>1 DEF SaveWrite
    <3>2. pc'[r] = "logCells" /\ job' = job /\ mem' = mem
      BY <3>1 DEF Goto, memory, TypeInv, TypeOK, RequestsOK
    <3>3. Sound(r)'
      BY <1>1, <1>2, <1>3, <1>10, <3>2 DEF Sound, CopyLabels, LogLabels
    <3>4. OthersUntouched(r)
      BY <3>1 DEF OthersUntouched, Goto, memory, TypeInv, TypeOK, RequestsOK
    <3> QED  BY <3>3, <3>4
  <2>2. CASE op \notin LoggedOps
    BY <1>2, <2>2, EndIsQuiet DEF SaveWrite, Sound, CopyLabels, LogLabels
  <2> QED  BY <2>1, <2>2
<1>16. RequestsSound'
  BY <1>11, <1>15, OthersStaySound DEF SafetyInv
<1> QED  BY <1>12, <1>13, <1>14, <1>16 DEF SafetyInv

\* The entry a request adds to the flow log tells of its own commit.
LEMMA LogWriteSafe ==
  ASSUME TypeInv, SafetyInv, NEW r \in Requests, LogWrite(r)
  PROVE  SafetyInv'
<1>1. Sound(r) /\ InHand(r) /\ pc[r] = "logWrite"
  BY DEF SafetyInv, RequestsSound, TypeInv, InHandOK, LogWrite
<1>2. PICK s \in Submissions, op \in LoggedOps :
        s = job[r].sub /\ op = job[r].op
  BY <1>1 DEF InHand
<1>3. PICK e : e = FlowLog(r)
  OBVIOUS
<1>4. /\ EventOf[op] = e.event
      /\ <<op, e.actor>> \in done[s]
      /\ <<op, e.from, e.to>> \in Moves
  BY <1>1, <1>2, <1>3 DEF Sound, LogLabels, FlowLog
<1>5. logs' = [logs EXCEPT ![s] = Append(@, e)]
  BY <1>2, <1>3 DEF LogWrite
<1>6. UNCHANGED <<rows, cells, done, job, mem, edit>>
  BY DEF LogWrite, history, memory
<1>7. LogsAreCommitted'
  <2> SUFFICES ASSUME NEW t \in Submissions, NEW i \in 1 .. Len(logs'[t])
               PROVE  \E o \in LoggedOps :
                        /\ EventOf[o] = logs'[t][i].event
                        /\ <<o, logs'[t][i].actor>> \in done'[t]
                        /\ <<o, logs'[t][i].from, logs'[t][i].to>> \in Moves
    BY DEF LogsAreCommitted
  <2>1. logs[t] \in Seq(Entry)
    BY DEF TypeInv, TypeOK, TablesOK
  <2>2. CASE i \in 1 .. Len(logs[t])
    <3>1. logs'[t][i] = logs[t][i]
      BY <1>5, <2>1, <2>2 DEF TypeInv, TypeOK, TablesOK
    <3> QED  BY <1>6, <2>2, <3>1 DEF SafetyInv, LogsAreCommitted
  <2>3. CASE i \notin 1 .. Len(logs[t])
    <3>1. t = s /\ logs'[t][i] = e
      BY <1>5, <2>1, <2>3 DEF TypeInv, TypeOK, TablesOK
    <3> QED  BY <1>4, <1>6, <3>1
  <2> QED  BY <2>2, <2>3
<1>8. pc'[r] = "notify" /\ OthersUntouched(r)
  BY DEF LogWrite, OthersUntouched, Goto, memory, TypeInv, TypeOK, RequestsOK
<1>9. RequestsSound'
  <2>1. Sound(r)'
    BY <1>8 DEF Sound, CopyLabels, LogLabels
  <2>2. HistoryKept
    BY <1>6 DEF HistoryKept, Exists
  <2> QED  BY <1>8, <2>1, <2>2, OthersStaySound DEF SafetyInv
<1>10. RowsJustified' /\ OnlyWritableCells'
  BY <1>6 DEF RowsJustified, OnlyWritableCells, SafetyInv, Exists
<1> QED  BY <1>7, <1>9, <1>10 DEF SafetyInv

-----------------------------------------------------------------------------
(* The theorems.                                                           *)

\* The initial state is safe.
LEMMA InitSafe == Init => SafetyInv
BY DEF Init, SafetyInv, RowsJustified, RequestsSound, Sound, CopyLabels, LogLabels,
   LogsAreCommitted, OnlyWritableCells, Exists, NoCells

\* Every step keeps the invariant.
LEMMA NextSafe == TypeInv /\ SafetyInv /\ [Next]_vars => SafetyInv'
<1> SUFFICES ASSUME TypeInv, SafetyInv, [Next]_vars PROVE SafetyInv'
  OBVIOUS
<1>1. ASSUME NEW r \in Requests, Arrive(r) PROVE SafetyInv'
  BY <1>1, ArriveSafe
<1>2. ASSUME NEW r \in Requests, Proceed(r) PROVE SafetyInv'
  BY <1>2, QuietStepsSafe, InsertSafe, ReadStepsSafe, CellWriteSafe, SaveWriteSafe,
     LogWriteSafe DEF Proceed
<1>3. ASSUME NEW r \in Requests, Crash(r) PROVE SafetyInv'
  BY <1>3, QuietStepsSafe
<1>4. ASSUME NEW a \in Assignments, CancelAssignment(a) PROVE SafetyInv'
  BY <1>4 DEF CancelAssignment, SafetyInv, RowsJustified, RequestsSound, Sound,
     LogsAreCommitted, OnlyWritableCells, Exists, history, memory
<1>5. CASE UNCHANGED vars
  BY <1>5 DEF vars, tables, history, memory, SafetyInv, RowsJustified, RequestsSound,
     Sound, LogsAreCommitted, OnlyWritableCells, Exists
<1> QED  BY <1>1, <1>2, <1>3, <1>4, <1>5 DEF Next

\* Rows, copies still to be saved, log entries and cells are sound in every state.
THEOREM SafetyInvariant == Spec => [](TypeInv /\ SafetyInv)
<1>1. Init => TypeInv /\ SafetyInv
  BY InitTyped, InitSafe
<1>2. TypeInv /\ SafetyInv /\ [Next]_vars => (TypeInv /\ SafetyInv)'
  BY NextTyped, NextSafe
<1> QED  BY <1>1, <1>2, PTL DEF Spec

\* No report is district-approved without all three commits, for any number of
\* concurrent requests.
THEOREM NoApprovalSkipped == Spec => []TwoLevelApproval
<1>1. TypeInv /\ SafetyInv => TwoLevelApproval
  BY DEF SafetyInv, RowsJustified, Justified, DoneBy, TwoLevelApproval, Committed
<1> QED  BY <1>1, SafetyInvariant, PTL

\* The ...By columns never name someone who did not act.
THEOREM NobodyMisnamed == Spec => []Attribution
<1>1. TypeInv /\ SafetyInv => Attribution
  BY DEF SafetyInv, RowsJustified, Justified, Attribution
<1> QED  BY <1>1, SafetyInvariant, PTL

\* The flow log never tells of an operation that was not committed.
THEOREM LogIsHonest == Spec => []LogsAreCommitted
<1>1. TypeInv /\ SafetyInv => LogsAreCommitted
  BY DEF SafetyInv
<1> QED  BY <1>1, SafetyInvariant, PTL

\* No cell outside a unit's scope, and none with a default value, is ever stored.
THEOREM NoForeignCell == Spec => []OnlyWritableCells
<1>1. TypeInv /\ SafetyInv => OnlyWritableCells
  BY DEF SafetyInv
<1> QED  BY <1>1, SafetyInvariant, PTL

-----------------------------------------------------------------------------
(* Closed for good.                                                        *)

\* A step of r that leaves a closed report alone, and after which r is not about to
\* write to it, leaves it closed.
LEMMA StaysClosed ==
  ASSUME NEW s \in Submissions, Closed(s), NEW r \in Requests, OthersUntouched(r),
         rows'[s] = rows[s], ~Writing(r, s)'
  PROVE  Closed(s)'
<1>1. \A q \in Requests \ {r} : ~Writing(q, s)'
  BY DEF Closed, Writing, OthersUntouched
<1> QED  BY <1>1 DEF Closed, Exists

\* No operation that arrives is about to write to a closed report.
LEMMA ArriveElsewhere ==
  ASSUME TypeInv, NEW s \in Submissions, Closed(s), NEW r \in Requests, Arrive(r)
  PROVE  OthersUntouched(r) /\ ~Writing(r, s)'
<1>1. ASSUME NEW label \in {"code", "view"}, NEW j, NEW copy, Take(r, label, j, copy),
             UNCHANGED <<edit, snap>>
      PROVE  OthersUntouched(r) /\ ~Writing(r, s)'
  <2>1. edit' = [edit EXCEPT ![r] = edit[r]]
    BY <1>1 DEF TypeInv, TypeOK, RequestsOK
  <2>2. OthersUntouched(r) /\ pc'[r] = label
    BY <1>1, <2>1, TakeTouchesOne
  <2> QED  BY <2>2 DEF Writing
<1>2. ASSUME NEW t \in Submissions, t # s, NEW label, NEW op, NEW u, NEW from, NEW copy,
             Take(r, label, Ask(op, u, t, from), copy),
             NEW e, edit' = [edit EXCEPT ![r] = e], UNCHANGED snap
      PROVE  OthersUntouched(r) /\ ~Writing(r, s)'
  <2>1. PICK j : j = Ask(op, u, t, from)
    OBVIOUS
  <2>2. OthersUntouched(r) /\ job'[r] = j
    BY <1>2, <2>1, TakeTouchesOne
  <2> QED  BY <1>2, <2>1, <2>2 DEF Writing, Ask
<1>3. ASSUME NEW t \in Submissions, rows[t].status # "DISTRICT_APPROVED",
             NEW op, NEW u, NEW copy, Change(r, op, u, t, copy)
      PROVE  OthersUntouched(r) /\ ~Writing(r, s)'
  <2>1. t # s
    BY <1>3 DEF Closed
  <2>2. edit' = [edit EXCEPT ![r] = edit[r]]
    BY <1>3 DEF Change, TypeInv, TypeOK, RequestsOK
  <2> QED  BY <1>2, <1>3, <2>1, <2>2 DEF Change
<1>4. ASSUME NEW u \in Reporters, NEW t \in Submissions, NEW val \in Values,
             NEW changes \in (SUBSET Cells) \ {{}}, PatchCells(r, u, t, changes, val)
      PROVE  OthersUntouched(r) /\ ~Writing(r, s)'
  <2>1. t # s
    BY <1>4 DEF PatchCells, Closed, Editable
  <2> QED  BY <1>2, <1>4, <2>1 DEF PatchCells
<1>5. ASSUME NEW u \in Reporters, NEW a \in Assignments,
             Create(r, u, a) \/ GetByAssignment(r, u, a)
      PROVE  OthersUntouched(r) /\ ~Writing(r, s)'
  BY <1>1, <1>5 DEF Create, GetByAssignment, OpenAbsent
<1>6. ASSUME NEW u \in Reporters, NEW t \in Submissions,
             GetOne(r, u, t) \/ Submit(r, u, t) \/ CancelSubmit(r, u, t)
      PROVE  OthersUntouched(r) /\ ~Writing(r, s)'
  BY <1>1, <1>3, <1>6 DEF GetOne, Submit, CancelSubmit, Editable
<1>7. ASSUME NEW u \in Users, NEW t \in Submissions,
             \/ ApproveDepartment(r, u, t) \/ RejectDepartment(r, u, t)
             \/ ApproveDistrict(r, u, t)   \/ RejectDistrict(r, u, t)
      PROVE  OthersUntouched(r) /\ ~Writing(r, s)'
  BY <1>3, <1>7
     DEF ApproveDepartment, RejectDepartment, ApproveDistrict, RejectDistrict
<1> QED  BY <1>4, <1>5, <1>6, <1>7 DEF Arrive

\* No statement of a request in hand writes to a closed report.
LEMMA ProceedElsewhere ==
  ASSUME TypeInv, NEW s \in Submissions, Closed(s), NEW r \in Requests,
         Proceed(r) \/ Crash(r)
  PROVE  /\ OthersUntouched(r) /\ ~Writing(r, s)'
         /\ rows'[s] = rows[s] /\ cells'[s] = cells[s]
<1> DEFINE Goal == /\ OthersUntouched(r) /\ ~Writing(r, s)'
                   /\ rows'[s] = rows[s] /\ cells'[s] = cells[s]
<1> USE DEF TypeInv, TypeOK
<1>1. ~Writing(r, s) /\ Exists(s)
  BY DEF Closed
<1>2. ASSUME End(r), UNCHANGED <<rows, cells>> PROVE Goal
  BY <1>2, EndIsQuiet DEF Writing
<1>3. CASE PickCode(r)
  <2>1. CASE End(r)
    BY <1>2, <1>3, <2>1 DEF PickCode, tables
  <2>2. CASE ~End(r)
    <3>1. PICK t \in Submissions : ~Exists(t) /\ job' = [job EXCEPT ![r].sub = t]
      BY <1>3, <2>2 DEF PickCode
    <3>2. Goto(r, "insert") /\ UNCHANGED <<mem, base, edit, snap>>
      BY <1>3, <2>2 DEF PickCode
    <3>3. t # s
      BY <1>1, <3>1
    <3>4. job'[r].sub = t
      BY <3>1 DEF RequestsOK, Job
    <3>5. OthersUntouched(r)
      BY <3>1, <3>2 DEF OthersUntouched, Goto, RequestsOK
    <3> QED  BY <1>3, <3>3, <3>4, <3>5 DEF Writing, PickCode, tables
  <2> QED  BY <2>1, <2>2
<1>4. CASE InsertSubmission(r)
  <2>1. job[r].sub # s
    BY <1>1, <1>4 DEF Writing, InsertSubmission
  <2>2. rows'[s] = rows[s] /\ cells' = cells
    BY <1>4, <2>1 DEF InsertSubmission, TablesOK
  <2>3. CASE End(r)
    BY <2>2, <2>3, EndIsQuiet DEF Writing
  <2>4. CASE ~End(r)
    <3>1. Goto(r, "view") /\ UNCHANGED <<job, base, edit, snap>>
      BY <1>4, <2>4 DEF InsertSubmission
    <3>2. \A q \in Requests \ {r} : mem'[q] = mem[q]
      BY <1>4, <2>4 DEF InsertSubmission, RequestsOK
    <3>3. OthersUntouched(r) /\ pc'[r] = "view"
      BY <3>1, <3>2 DEF OthersUntouched, Goto, RequestsOK
    <3> QED  BY <2>2, <3>3 DEF Writing
  <2> QED  BY <2>3, <2>4
<1>5. CASE CellRead(r) \/ Count(r) \/ SaveLoad(r)
  <2>1. job[r].sub # s /\ job' = job /\ UNCHANGED <<rows, cells>>
    BY <1>1, <1>5 DEF Writing, CellRead, Count, SaveLoad, tables
  <2>2. OthersUntouched(r)
    BY <1>5 DEF OthersUntouched, CellRead, Count, SaveLoad, Goto, RequestsOK
  <2> QED  BY <2>1, <2>2 DEF Writing
<1>6. CASE CellWrite(r)
  <2>1. job[r].sub # s /\ rows' = rows
    BY <1>1, <1>6 DEF Writing, CellWrite
  <2>2. CASE Die(r) /\ UNCHANGED cells
    BY <1>2, <2>1, <2>2 DEF Die
  <2>3. CASE ~(Die(r) /\ UNCHANGED cells)
    <3>1. /\ Goto(r, "cell") /\ UNCHANGED <<job, mem, base, snap>>
          /\ \A q \in Requests \ {r} : edit'[q] = edit[q]
      BY <1>6, <2>3 DEF CellWrite, RequestsOK
    <3>2. OthersUntouched(r)
      BY <3>1 DEF OthersUntouched, Goto, RequestsOK
    <3>3. cells'[s] = cells[s]
      BY <1>6, <2>1, <2>3 DEF CellWrite, TablesOK
    <3> QED  BY <2>1, <3>1, <3>2, <3>3 DEF Writing
  <2> QED  BY <2>2, <2>3
<1>7. CASE SaveWrite(r)
  <2>1. job[r].sub # s /\ cells' = cells
    BY <1>1, <1>7 DEF Writing, SaveWrite
  <2>2. rows'[s] = rows[s]
    BY <1>7, <2>1 DEF SaveWrite, TablesOK
  <2>3. CASE End(r)
    BY <2>1, <2>2, <2>3, EndIsQuiet DEF Writing
  <2>4. CASE ~End(r)
    <3>1. Goto(r, "logCells") /\ UNCHANGED memory
      BY <1>7, <2>4 DEF SaveWrite
    <3> QED  BY <2>1, <2>2, <3>1 DEF OthersUntouched, Writing, Goto, memory, RequestsOK
  <2> QED  BY <2>3, <2>4
<1>8. CASE LogCells(r) \/ LogRow(r) \/ LogWrite(r)
  BY <1>8 DEF OthersUntouched, Writing, LogCells, LogRow, LogWrite, Goto, RequestsOK,
     tables, memory
<1>9. CASE View(r) \/ Notify(r) \/ Crash(r)
  BY <1>2, <1>9 DEF View, Notify, Crash, Die, tables
<1> QED  BY <1>3, <1>4, <1>5, <1>6, <1>7, <1>8, <1>9 DEF Proceed

\* No step touches a closed report, and it stays closed.
LEMMA ClosedStep ==
  ASSUME TypeInv, Next, NEW s \in Submissions, Closed(s)
  PROVE  Closed(s)' /\ rows'[s] = rows[s] /\ cells'[s] = cells[s]
<1> DEFINE Kept == Closed(s)' /\ rows'[s] = rows[s] /\ cells'[s] = cells[s]
<1>1. ASSUME NEW r \in Requests, Arrive(r) PROVE Kept
  <2>1. OthersUntouched(r) /\ ~Writing(r, s)'
    BY <1>1, ArriveElsewhere
  <2>2. UNCHANGED <<rows, cells>>
    BY <1>1 DEF Arrive, Create, GetByAssignment, OpenAbsent, GetOne, Submit,
       CancelSubmit, PatchCells, ApproveDepartment, RejectDepartment,
       ApproveDistrict, RejectDistrict, Change, tables
  <2> QED  BY <2>1, <2>2, StaysClosed
<1>2. ASSUME NEW r \in Requests, Proceed(r) \/ Crash(r) PROVE Kept
  BY <1>2, ProceedElsewhere, StaysClosed
<1>3. ASSUME NEW a \in Assignments, CancelAssignment(a) PROVE Kept
  BY <1>3 DEF CancelAssignment, Closed, Exists, Writing, memory
<1> QED  BY <1>1, <1>2, <1>3 DEF Next

\* A closed report never changes again, whatever requests come and go.
THEOREM ClosedReportsStay == Spec => ClosedForGood
<1>1. TypeInv /\ [Next]_vars =>
        [\A s \in Submissions : Closed(s) =>
           Closed(s)' /\ rows'[s] = rows[s] /\ cells'[s] = cells[s]]_vars
  BY ClosedStep
<1> QED  BY <1>1, TypeInvariant, PTL DEF Spec, ClosedForGood
=============================================================================
