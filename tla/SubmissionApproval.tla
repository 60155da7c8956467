------------------------- MODULE SubmissionApproval -------------------------
(***************************************************************************)
(* Reports on their way from the unit that fills them in to the district   *)
(* that approves them: the handlers of SubmissionService and               *)
(* ApprovalService over the tables report_submissions,                     *)
(* report_submission_cells, submission_flow_logs and app_outbox_events.    *)
(*                                                                         *)
(* No handler opens a transaction.  Each is a sequence of statements with  *)
(* an await between them, and other requests run in between, so a request  *)
(* is a process with a program counter: a step is one statement.  A        *)
(* handler's first reads and the refusals they lead to are its first step; *)
(* a request that is refused writes nothing and has no step at all.        *)
(*                                                                         *)
(* repository.save(row) on a loaded row is two statements: it selects the  *)
(* row again, and then updates the columns in which the copy in memory     *)
(* differs from what that select returned (SaveLoad and SaveWrite).        *)
(*                                                                         *)
(* Left out: note, rejectReason and every timestamp (a timestamp is set    *)
(* and cleared with the ...By column next to it), who last wrote a cell,   *)
(* and the texts of notifications.                                         *)
(***************************************************************************)
EXTENDS Integers, FiniteSets, Sequences

CONSTANTS
  Requests,           \* requests the server has in hand at the same time
  MaxRequests,        \* bound: requests served in a behaviour
  Crashes,            \* TRUE: a request may die between two statements
  Users, Orgs,
  OrgOf,              \* OrgOf[u]: users.org_id, NULL for a user of no unit
  Reporters,          \* users with submissions.manage
  DeptApprovers,      \* users with approvals.department.manage
  DistrictApprovers,  \* users with approvals.district.manage
  Assignments,        \* the assignments of one campaign
  AssignedOrg,        \* AssignedOrg[a]: report_assignments.org_id
  Submissions,        \* the submission codes that can be drawn
  Indicators, Attributes,
  Scope,              \* Scope[a]: indicators the campaign gives to a's unit
  DefaultCells,       \* cells with a default value of the campaign
  Values,             \* what a cell may hold
  NULL

Cells == Indicators \X Attributes

Editable == {"NOT_STARTED", "DRAFT", "REJECTED_DEPARTMENT", "REJECTED_DISTRICT"}
Status   == Editable \cup
              {"PENDING_DEPARTMENT", "DEPARTMENT_APPROVED", "DISTRICT_APPROVED"}

UserOrNull == Users \cup {NULL}
Version    == Nat \ {0}
Percentage == (0 .. 10000) \cup {NULL}   \* in hundredths of a percent

Row == [assignment           : Assignments,
        status               : Status,
        version              : Version,
        completionPct        : Percentage,
        submittedBy          : UserOrNull,
        departmentApprovedBy : UserOrNull,
        districtApprovedBy   : UserOrNull]

Ops == {"create", "getByAssignment", "getOne", "patchCells", "submit",
        "cancelSubmit", "approveDepartment", "rejectDepartment",
        "approveDistrict", "rejectDistrict"}

LabelSet == {"idle", "code", "insert", "view", "cell", "cellWrite", "count",
             "saveLoad", "saveWrite", "logCells", "logRow", "logWrite", "notify"}

\* submission_flow_logs.event of the operations that write a flow log.
EventOf == [submit            |-> "SUBMIT",
            approveDepartment |-> "FORWARD",
            rejectDepartment  |-> "REJECT",
            approveDistrict   |-> "APPROVE",
            rejectDistrict    |-> "REJECT"]

LoggedOps == DOMAIN EventOf

CellTable == [Cells -> Values \cup {NULL}]   \* NULL: no row for that cell

Entry == [event   : {EventOf[o] : o \in LoggedOps},
          from    : Status,
          to      : Status,
          actor   : Users,
          cells   : CellTable,
          version : Nat]

Message == [to   : Users,
            type : {"SUBMISSION_PENDING_DEPARTMENT", "SUBMISSION_PENDING_DISTRICT"},
            ref  : Submissions]

ASSUME ActorsAssumption ==
  /\ Reporters \subseteq Users
  /\ DeptApprovers \subseteq Users
  /\ DistrictApprovers \subseteq Users
  /\ OrgOf \in [Users -> Orgs \cup {NULL}]

ASSUME CampaignAssumption ==
  /\ AssignedOrg \in [Assignments -> Orgs]
  /\ IsFiniteSet(Indicators) /\ IsFiniteSet(Attributes)
  /\ Scope \in [Assignments -> SUBSET Indicators]
  /\ DefaultCells \subseteq Cells

ASSUME NullAssumption ==
  NULL \notin Users /\ NULL \notin Values /\ NULL \notin Submissions /\ NULL \notin Row

ASSUME BoundsAssumption == MaxRequests \in Nat /\ Crashes \in BOOLEAN

VARIABLES
  rows,       \* report_submissions: rows[s], NULL while the code is free
  cells,      \* report_submission_cells: cells[s][c]
  logs,       \* submission_flow_logs: logs[s], in the order of insertion
  outbox,     \* app_outbox_events: the notifications sent
  cancelled,  \* report_assignments.is_cancelled
  view,       \* view[u]: what u's screen shows, the answer it last got
  pc,         \* pc[r]: the statement request r executes next
  job,        \* job[r]: what request r was asked to do, and by whom
  mem,        \* mem[r]: the submission entity in r's memory
  base,       \* base[r]: the row the select inside save returned
  edit,       \* edit[r]: the cell changes r has still to write
  snap,       \* snap[r]: what captureFlowLog has read so far
  served,     \* requests taken so far
  done,       \* history: <<operation, user>> pairs committed on each submission
  content,    \* history: the cells at the last submit committed
  died        \* history: submissions on which a request died half-way

tables  == <<rows, cells, logs, outbox, cancelled>>
history == <<done, content, died>>
memory  == <<job, mem, base, edit, snap>>
vars    == <<tables, history, memory, view, pc, served>>

NoJob  == [op |-> "none", user |-> NULL, sub |-> NULL, assignment |-> NULL,
           from |-> NULL]
NoEdit == [todo |-> {}, saved |-> {}, val |-> NULL, cur |-> NULL, old |-> NULL]
NoSnap == [cells |-> NULL, version |-> 0]
NoView == [sub |-> NULL, version |-> 0, cells |-> NULL]
NoCells == [c \in Cells |-> NULL]

Init ==
  /\ rows = [s \in Submissions |-> NULL]
  /\ cells = [s \in Submissions |-> NoCells]
  /\ logs = [s \in Submissions |-> << >>]
  /\ outbox = {}
  /\ cancelled = [a \in Assignments |-> FALSE]
  /\ view = [u \in Reporters |-> NoView]
  /\ pc = [r \in Requests |-> "idle"]
  /\ job = [r \in Requests |-> NoJob]
  /\ mem = [r \in Requests |-> NULL]
  /\ base = [r \in Requests |-> NULL]
  /\ edit = [r \in Requests |-> NoEdit]
  /\ snap = [r \in Requests |-> NoSnap]
  /\ served = 0
  /\ done = [s \in Submissions |-> {}]
  /\ content = [s \in Submissions |-> NULL]
  /\ died = {}
-----------------------------------------------------------------------------
(* What the handlers compute.                                              *)

Exists(s) == rows[s] # NULL

\* A user of no unit passes every org-scope check.
InOrgScope(u, a) == OrgOf[u] \in {NULL, AssignedOrg[a]}

\* The campaign's scope for the unit; the whole form when it gives none.
IndicatorsOf(a) == IF Scope[a] = {} THEN Indicators ELSE Scope[a]

Writable(a) == (IndicatorsOf(a) \X Attributes) \ DefaultCells

\* The cells the unit has to fill in.  All of the campaign's default cells are
\* subtracted, in the unit's scope or not.
ToFill(a) ==
  Cardinality(IndicatorsOf(a)) * Cardinality(Attributes) - Cardinality(DefaultCells)

\* A share in hundredths of a percent, rounded as toFixed(2) rounds.
Percent(part, whole) == (20000 * part + whole) \div (2 * whole)

Completion(a, filled) ==
  IF ToFill(a) > 0 /\ Percent(filled, ToFill(a)) <= 10000
  THEN Percent(filled, ToFill(a))
  ELSE 10000

Filled(s) == {c \in Cells : cells[s][c] # NULL}

\* The update of save: the columns in which new differs from old are written.
Merge(row, old, new) ==
  LET column(r, o, n) == IF n # o THEN n ELSE r
  IN  [assignment |-> column(row.assignment, old.assignment, new.assignment),
       status |-> column(row.status, old.status, new.status),
       version |-> column(row.version, old.version, new.version),
       completionPct |->
         column(row.completionPct, old.completionPct, new.completionPct),
       submittedBy |-> column(row.submittedBy, old.submittedBy, new.submittedBy),
       departmentApprovedBy |->
         column(row.departmentApprovedBy, old.departmentApprovedBy,
                new.departmentApprovedBy),
       districtApprovedBy |->
         column(row.districtApprovedBy, old.districtApprovedBy,
                new.districtApprovedBy)]

\* Those findDepartmentApproverUserIds and findDistrictApproverUserIds return.
DeptApproversOf(a) == {u \in DeptApprovers : OrgOf[u] = AssignedOrg[a]}

Notices_DepartmentOnly(op, s) ==   \* mutant: forgets the district
  IF op = "submit"
  THEN {[to |-> u, type |-> "SUBMISSION_PENDING_DEPARTMENT", ref |-> s] :
          u \in DeptApproversOf(rows[s].assignment)}
  ELSE {}

Notices(op, s) ==
  CASE op = "submit" ->
         {[to |-> u, type |-> "SUBMISSION_PENDING_DEPARTMENT", ref |-> s] :
            u \in DeptApproversOf(rows[s].assignment)}
    [] op = "approveDepartment" ->
         {[to |-> u, type |-> "SUBMISSION_PENDING_DISTRICT", ref |-> s] :
            u \in DistrictApprovers}
    \* notifySubmissionStatusChange looks at a column its query does not select.
    [] OTHER -> {}

-----------------------------------------------------------------------------
(* The life of a request.                                                  *)

\* Request r is taken up: it has read copy, and goes on at label.
Take(r, label, j, copy) ==
  /\ pc[r] = "idle"
  /\ served < MaxRequests
  /\ served' = served + 1
  /\ pc' = [pc EXCEPT ![r] = label]
  /\ job' = [job EXCEPT ![r] = j]
  /\ mem' = [mem EXCEPT ![r] = copy]

\* Request r is over: nothing of its memory survives.
End(r) ==
  /\ pc' = [pc EXCEPT ![r] = "idle"]
  /\ job' = [job EXCEPT ![r] = NoJob]
  /\ mem' = [mem EXCEPT ![r] = NULL]
  /\ base' = [base EXCEPT ![r] = NULL]
  /\ edit' = [edit EXCEPT ![r] = NoEdit]
  /\ snap' = [snap EXCEPT ![r] = NoSnap]

\* Request r ends with an error after some of its statements have run.
Die(r) ==
  /\ End(r)
  /\ died' = died \cup ({job[r].sub} \cap Submissions)
  /\ UNCHANGED <<done, content>>

Goto(r, label) == pc' = [pc EXCEPT ![r] = label]

\* A request on a submission that exists, by a user in its scope if scoped.
Ask(op, u, s, from) ==
  [op |-> op, user |-> u, sub |-> s, assignment |-> rows[s].assignment,
   from |-> from]

-----------------------------------------------------------------------------
(* Opening a report: create and findOrCreateByAssignment.                  *)

OpenAbsent_NoLookup(r, u, a, op) ==   \* mutant: inserts without looking
  /\ u \in Reporters /\ InOrgScope(u, a)
  /\ ~cancelled[a]
  /\ Take(r, "code", [NoJob EXCEPT !.op = op, !.user = u, !.assignment = a], NULL)
  /\ UNCHANGED <<tables, history, view, base, edit, snap>>

\* Both read the assignment and look for a submission of it before they insert.
\* The assignment is read first, but nothing else a cancellation disturbs lies
\* between the two reads.
OpenAbsent(r, u, a, op) ==
  /\ u \in Reporters /\ InOrgScope(u, a)
  /\ ~cancelled[a]
  /\ \A s \in Submissions : Exists(s) => rows[s].assignment # a
  /\ Take(r, "code", [NoJob EXCEPT !.op = op, !.user = u, !.assignment = a], NULL)
  /\ UNCHANGED <<tables, history, view, base, edit, snap>>

Create(r, u, a) == OpenAbsent(r, u, a, "create")

GetByAssignment(r, u, a) ==
  \/ OpenAbsent(r, u, a, "getByAssignment")
  \/ \* There is a submission: the answer is findOne's, cancelled or not.
     \E s \in Submissions :
       /\ u \in Reporters /\ InOrgScope(u, a)
       /\ Exists(s) /\ rows[s].assignment = a
       /\ Take(r, "view", Ask("getByAssignment", u, s, NULL), rows[s])
       /\ UNCHANGED <<tables, history, view, base, edit, snap>>

\* generateSubmissionCode: a code no row has yet; when none turns up the
\* request ends with a conflict.
PickCode(r) ==
  /\ pc[r] = "code"
  /\ \/ \E s \in Submissions :
          /\ ~Exists(s)
          /\ job' = [job EXCEPT ![r].sub = s]
          /\ Goto(r, "insert")
          /\ UNCHANGED <<mem, base, edit, snap>>
     \/ /\ \A s \in Submissions : Exists(s)
        /\ End(r)
  /\ UNCHANGED <<tables, history, view, served>>

NewRow_Unversioned(a) ==   \* mutant: the version is left to start at 0
  [assignment |-> a, status |-> "DRAFT", version |-> 0, completionPct |-> NULL,
   submittedBy |-> NULL, departmentApprovedBy |-> NULL,
   districtApprovedBy |-> NULL]

NewRow(a) ==
  [assignment |-> a, status |-> "DRAFT", version |-> 1, completionPct |-> NULL,
   submittedBy |-> NULL, departmentApprovedBy |-> NULL,
   districtApprovedBy |-> NULL]

\* The insert; the unique index on code refuses a code taken meanwhile.
InsertSubmission(r) ==
  /\ pc[r] = "insert"
  /\ LET s == job[r].sub
     IN  IF Exists(s)
         THEN /\ End(r)
              /\ UNCHANGED rows
         ELSE /\ rows' = [rows EXCEPT ![s] = NewRow(job[r].assignment)]
              /\ IF job[r].op = "create"
                 THEN End(r)
                 ELSE /\ mem' = [mem EXCEPT ![r] = NewRow(job[r].assignment)]
                      /\ Goto(r, "view")
                      /\ UNCHANGED <<job, base, edit, snap>>
  /\ UNCHANGED <<cells, logs, outbox, cancelled, history, view, served>>

\* findOne: the row first, its cells one statement later.
GetOne(r, u, s) ==
  /\ Exists(s)
  /\ u \in Reporters /\ InOrgScope(u, rows[s].assignment)
  /\ Take(r, "view", Ask("getOne", u, s, NULL), rows[s])
  /\ UNCHANGED <<tables, history, view, base, edit, snap>>

View(r) ==
  /\ pc[r] = "view"
  /\ view' = [view EXCEPT ![job[r].user] =
                [sub |-> job[r].sub, version |-> mem[r].version,
                 cells |-> cells[job[r].sub]]]
  /\ End(r)
  /\ UNCHANGED <<tables, history, served>>

-----------------------------------------------------------------------------
(* patchCells.                                                             *)

PatchCells_AnyCell(r, u, s, changes, val) ==   \* mutant: skips no change
  /\ Exists(s)
  /\ u \in Reporters /\ InOrgScope(u, rows[s].assignment)
  /\ rows[s].status \in Editable
  /\ view[u].sub = s /\ view[u].version = rows[s].version
  /\ Take(r, "cell", Ask("patchCells", u, s, NULL), rows[s])
  /\ edit' = [edit EXCEPT ![r] = [NoEdit EXCEPT !.todo = changes, !.val = val]]
  /\ UNCHANGED <<tables, history, view, base, snap>>

PatchCells_AnyStatus(r, u, s, changes, val) ==   \* mutant: asks for no status
  /\ Exists(s)
  /\ u \in Reporters /\ InOrgScope(u, rows[s].assignment)
  /\ view[u].sub = s /\ view[u].version = rows[s].version
  /\ Take(r, "cell", Ask("patchCells", u, s, NULL), rows[s])
  /\ edit' = [edit EXCEPT ![r] =
                [NoEdit EXCEPT !.todo = changes \cap Writable(rows[s].assignment),
                               !.val = val]]
  /\ UNCHANGED <<tables, history, view, base, snap>>

\* The client sends the version its screen shows.  Changes to cells outside
\* the scope or with a default value are reported back and skipped.
PatchCells(r, u, s, changes, val) ==
  /\ Exists(s)
  /\ u \in Reporters /\ InOrgScope(u, rows[s].assignment)
  /\ rows[s].status \in Editable
  /\ view[u].sub = s /\ view[u].version = rows[s].version
  /\ Take(r, "cell", Ask("patchCells", u, s, NULL), rows[s])
  /\ edit' = [edit EXCEPT ![r] =
                [NoEdit EXCEPT !.todo = changes \cap Writable(rows[s].assignment),
                               !.val = val]]
  /\ UNCHANGED <<tables, history, view, base, snap>>

\* The cell's row is looked up (and, inside save, selected again by its id).
CellRead(r) ==
  /\ pc[r] = "cell"
  /\ \E c \in edit[r].todo :
       edit' = [edit EXCEPT ![r].cur = c, ![r].old = cells[job[r].sub][c]]
  /\ Goto(r, "cellWrite")
  /\ UNCHANGED <<tables, history, view, served, job, mem, base, snap>>

\* An update of what differs, or an insert: the unique index on the cell's key
\* refuses the insert when another request made the row meanwhile.
CellWrite(r) ==
  /\ pc[r] = "cellWrite"
  /\ LET s == job[r].sub
         c == edit[r].cur
     IN  IF edit[r].old = NULL /\ cells[s][c] # NULL
         THEN Die(r) /\ UNCHANGED cells
         ELSE /\ cells' = IF edit[r].old = edit[r].val THEN cells
                          ELSE [cells EXCEPT ![s][c] = edit[r].val]
              /\ edit' = [edit EXCEPT ![r].todo = @ \ {c}, ![r].saved = @ \cup {c},
                                      ![r].cur = NULL, ![r].old = NULL]
              /\ Goto(r, "cell")
              /\ UNCHANGED <<job, mem, base, snap, history>>
  /\ UNCHANGED <<rows, logs, outbox, cancelled, view, served>>

Count_NoBump(r) ==   \* mutant: the version stays
  /\ pc[r] = "cell" /\ edit[r].todo = {}
  /\ mem' = [mem EXCEPT ![r].completionPct =
                 Completion(job[r].assignment, Cardinality(Filled(job[r].sub)))]
  /\ Goto(r, "saveLoad")
  /\ UNCHANGED <<tables, history, view, served, job, base, edit, snap>>

Count_OwnCells(r) ==   \* mutant: counts the cells of this patch only
  /\ pc[r] = "cell" /\ edit[r].todo = {}
  /\ mem' = [mem EXCEPT ![r].completionPct =
                           Completion(job[r].assignment, Cardinality(edit[r].saved)),
                        ![r].version = @ + 1]
  /\ Goto(r, "saveLoad")
  /\ UNCHANGED <<tables, history, view, served, job, base, edit, snap>>

\* The rows of cells are counted and the copy in memory gets its new version.
Count(r) ==
  /\ pc[r] = "cell" /\ edit[r].todo = {}
  /\ mem' = [mem EXCEPT ![r].completionPct =
                           Completion(job[r].assignment, Cardinality(Filled(job[r].sub))),
                        ![r].version = @ + 1]
  /\ Goto(r, "saveLoad")
  /\ UNCHANGED <<tables, history, view, served, job, base, edit, snap>>

-----------------------------------------------------------------------------
(* The operations that move a submission on: each reads the row, changes   *)
(* the copy in memory and goes on to save it.                              *)

Change(r, op, u, s, copy) ==
  /\ Take(r, "saveLoad", Ask(op, u, s, rows[s].status), copy)
  /\ UNCHANGED <<tables, history, view, base, edit, snap>>

Submit_AnyStatus(r, u, s) ==   \* mutant: asks for no status
  /\ Exists(s)
  /\ u \in Reporters /\ InOrgScope(u, rows[s].assignment)
  /\ Change(r, "submit", u, s,
       [rows[s] EXCEPT !.status = "PENDING_DEPARTMENT", !.submittedBy = u,
                       !.version = @ + 1])

Submit(r, u, s) ==
  /\ Exists(s)
  /\ u \in Reporters /\ InOrgScope(u, rows[s].assignment)
  /\ rows[s].status \in Editable
  /\ Change(r, "submit", u, s,
       [rows[s] EXCEPT !.status = "PENDING_DEPARTMENT", !.submittedBy = u,
                       !.version = @ + 1])

CancelSubmit_Late(r, u, s) ==   \* mutant: also once the department approved
  /\ Exists(s)
  /\ u \in Reporters /\ InOrgScope(u, rows[s].assignment)
  /\ rows[s].status \in {"PENDING_DEPARTMENT", "DEPARTMENT_APPROVED"}
  /\ Change(r, "cancelSubmit", u, s,
       [rows[s] EXCEPT !.status = "DRAFT", !.submittedBy = NULL])

CancelSubmit(r, u, s) ==
  /\ Exists(s)
  /\ u \in Reporters /\ InOrgScope(u, rows[s].assignment)
  /\ rows[s].status = "PENDING_DEPARTMENT"
  /\ Change(r, "cancelSubmit", u, s,
       [rows[s] EXCEPT !.status = "DRAFT", !.submittedBy = NULL])

ApproveDepartment_Misattributed(r, u, s) ==   \* mutant: stamps the submitter
  /\ Exists(s)
  /\ u \in DeptApprovers
  /\ rows[s].status = "PENDING_DEPARTMENT"
  /\ Change(r, "approveDepartment", u, s,
       [rows[s] EXCEPT !.status = "DEPARTMENT_APPROVED",
                       !.departmentApprovedBy = rows[s].submittedBy])

ApproveDepartment(r, u, s) ==
  /\ Exists(s)
  /\ u \in DeptApprovers
  /\ rows[s].status = "PENDING_DEPARTMENT"
  /\ Change(r, "approveDepartment", u, s,
       [rows[s] EXCEPT !.status = "DEPARTMENT_APPROVED",
                       !.departmentApprovedBy = u])

RejectDepartment(r, u, s) ==
  /\ Exists(s)
  /\ u \in DeptApprovers
  /\ rows[s].status = "PENDING_DEPARTMENT"
  /\ Change(r, "rejectDepartment", u, s,
       [rows[s] EXCEPT !.status = "REJECTED_DEPARTMENT",
                       !.departmentApprovedBy = NULL])

ApproveDistrict_Early(r, u, s) ==   \* mutant: does not wait for the department
  /\ Exists(s)
  /\ u \in DistrictApprovers
  /\ rows[s].status \in {"PENDING_DEPARTMENT", "DEPARTMENT_APPROVED"}
  /\ Change(r, "approveDistrict", u, s,
       [rows[s] EXCEPT !.status = "DISTRICT_APPROVED", !.districtApprovedBy = u])

ApproveDistrict(r, u, s) ==
  /\ Exists(s)
  /\ u \in DistrictApprovers
  /\ rows[s].status = "DEPARTMENT_APPROVED"
  /\ Change(r, "approveDistrict", u, s,
       [rows[s] EXCEPT !.status = "DISTRICT_APPROVED", !.districtApprovedBy = u])

RejectDistrict_Late(r, u, s) ==   \* mutant: also once the district approved
  /\ Exists(s)
  /\ u \in DistrictApprovers
  /\ rows[s].status \in {"DEPARTMENT_APPROVED", "DISTRICT_APPROVED"}
  /\ Change(r, "rejectDistrict", u, s,
       [rows[s] EXCEPT !.status = "REJECTED_DISTRICT", !.districtApprovedBy = NULL])

\* departmentApprovedBy stays: the report shows the approval of the round lost.
RejectDistrict(r, u, s) ==
  /\ Exists(s)
  /\ u \in DistrictApprovers
  /\ rows[s].status = "DEPARTMENT_APPROVED"
  /\ Change(r, "rejectDistrict", u, s,
       [rows[s] EXCEPT !.status = "REJECTED_DISTRICT", !.districtApprovedBy = NULL])

-----------------------------------------------------------------------------
(* save, the flow log and the notifications.                               *)

SaveLoad(r) ==
  /\ pc[r] = "saveLoad"
  /\ base' = [base EXCEPT ![r] = rows[job[r].sub]]
  /\ Goto(r, "saveWrite")
  /\ UNCHANGED <<tables, history, view, served, job, mem, edit, snap>>

\* The answer to a patch gives the new version; the user's screen shows the cells
\* as the user left them, without the changes that were refused.
Answered(r) ==
  LET u == job[r].user
  IN  IF view[u].sub # job[r].sub THEN view
      ELSE [view EXCEPT ![u].version = mem[r].version,
                        ![u].cells = [c \in Cells |-> IF c \in edit[r].saved
                                                      THEN edit[r].val ELSE @[c]]]

SaveWrite(r) ==
  /\ pc[r] = "saveWrite"
  /\ LET s  == job[r].sub
         op == job[r].op
     IN  /\ rows' = [rows EXCEPT ![s] = Merge(@, base[r], mem[r])]
         /\ done' = [done EXCEPT ![s] = @ \cup {<<op, job[r].user>>}]
         /\ content' = IF op = "submit" THEN [content EXCEPT ![s] = cells[s]]
                                        ELSE content
         /\ view' = IF op = "patchCells" THEN Answered(r) ELSE view
         /\ IF op \in LoggedOps
            THEN Goto(r, "logCells") /\ UNCHANGED memory
            ELSE End(r)
  /\ UNCHANGED <<cells, logs, outbox, cancelled, died, served>>

\* captureFlowLog reads the cells, then the row, and inserts what it has read.
LogCells(r) ==
  /\ pc[r] = "logCells"
  /\ snap' = [snap EXCEPT ![r].cells = cells[job[r].sub]]
  /\ Goto(r, "logRow")
  /\ UNCHANGED <<tables, history, view, served, job, mem, base, edit>>

LogRow(r) ==
  /\ pc[r] = "logRow"
  /\ snap' = [snap EXCEPT ![r].version = rows[job[r].sub].version]
  /\ Goto(r, "logWrite")
  /\ UNCHANGED <<tables, history, view, served, job, mem, base, edit>>

FlowLog_LateFrom(r) ==   \* mutant: reads fromStatus after the change
  [event |-> EventOf[job[r].op], from |-> mem[r].status, to |-> mem[r].status,
   actor |-> job[r].user, cells |-> snap[r].cells, version |-> snap[r].version]

FlowLog(r) ==
  [event |-> EventOf[job[r].op], from |-> job[r].from, to |-> mem[r].status,
   actor |-> job[r].user, cells |-> snap[r].cells, version |-> snap[r].version]

LogWrite_SkipsRejections(r) ==   \* mutant: logs what goes forward only
  /\ pc[r] = "logWrite"
  /\ logs' = IF EventOf[job[r].op] = "REJECT" THEN logs
             ELSE [logs EXCEPT ![job[r].sub] = Append(@, FlowLog(r))]
  /\ Goto(r, "notify")
  /\ UNCHANGED <<rows, cells, outbox, cancelled, history, view, served, memory>>

LogWrite(r) ==
  /\ pc[r] = "logWrite"
  /\ logs' = [logs EXCEPT ![job[r].sub] = Append(@, FlowLog(r))]
  /\ Goto(r, "notify")
  /\ UNCHANGED <<rows, cells, outbox, cancelled, history, view, served, memory>>

Notify(r) ==
  /\ pc[r] = "notify"
  /\ outbox' = outbox \cup Notices(job[r].op, job[r].sub)
  /\ End(r)
  /\ UNCHANGED <<rows, cells, logs, cancelled, history, view, served>>

-----------------------------------------------------------------------------
\* AssignmentService.cancel: the flag is all of it that a submission meets.
CancelAssignment(a) ==
  /\ ~cancelled[a]
  /\ cancelled' = [cancelled EXCEPT ![a] = TRUE]
  /\ UNCHANGED <<rows, cells, logs, outbox, history, view, pc, memory, served>>

\* The process, or the connection to the database, is lost between two
\* statements of request r: what it wrote so far stays, the rest never happens.
Crash(r) ==
  /\ Crashes /\ pc[r] # "idle"
  /\ Die(r)
  /\ UNCHANGED <<tables, view, served>>

Arrive(r) ==
  \/ \E u \in Reporters, a \in Assignments : Create(r, u, a) \/ GetByAssignment(r, u, a)
  \/ \E u \in Reporters, s \in Submissions :
       \/ GetOne(r, u, s) \/ Submit(r, u, s) \/ CancelSubmit(r, u, s)
       \/ \E changes \in (SUBSET Cells) \ {{}}, val \in Values :
            PatchCells(r, u, s, changes, val)
  \/ \E u \in Users, s \in Submissions :
       \/ ApproveDepartment(r, u, s) \/ RejectDepartment(r, u, s)
       \/ ApproveDistrict(r, u, s)   \/ RejectDistrict(r, u, s)

Proceed(r) ==
  \/ PickCode(r) \/ InsertSubmission(r) \/ View(r)
  \/ CellRead(r) \/ CellWrite(r) \/ Count(r)
  \/ SaveLoad(r) \/ SaveWrite(r)
  \/ LogCells(r) \/ LogRow(r) \/ LogWrite(r) \/ Notify(r)

Next ==
  \/ \E r \in Requests : Arrive(r) \/ Proceed(r) \/ Crash(r)
  \/ \E a \in Assignments : CancelAssignment(a)

Spec == Init /\ [][Next]_vars

\* A request in hand is carried on: the event loop comes back to every await.
\* Nobody has to send a request.
FairSpec == Spec /\ \A r \in Requests : WF_vars(Proceed(r))

-----------------------------------------------------------------------------
(* Properties.                                                             *)

Job == [op         : Ops \cup {"none"},
        user       : UserOrNull,
        sub        : Submissions \cup {NULL},
        assignment : Assignments \cup {NULL},
        from       : Status \cup {NULL}]

Edit == [todo  : SUBSET Cells, saved : SUBSET Cells,
         val   : Values \cup {NULL},
         cur   : Cells \cup {NULL},
         old   : Values \cup {NULL}]

TablesOK ==
  /\ rows \in [Submissions -> Row \cup {NULL}]
  /\ cells \in [Submissions -> CellTable]
  /\ logs \in [Submissions -> Seq(Entry)]
  /\ outbox \subseteq Message
  /\ cancelled \in [Assignments -> BOOLEAN]

RequestsOK ==
  /\ pc \in [Requests -> LabelSet]
  /\ job \in [Requests -> Job]
  /\ mem \in [Requests -> Row \cup {NULL}]
  /\ base \in [Requests -> Row \cup {NULL}]
  /\ edit \in [Requests -> Edit]
  /\ snap \in [Requests -> [cells : CellTable \cup {NULL}, version : Nat]]
  /\ served \in 0 .. MaxRequests

ScreensOK ==
  view \in [Reporters -> [sub : Submissions \cup {NULL}, version : Nat,
                         cells : CellTable \cup {NULL}]]

HistoryOK ==
  /\ done \in [Submissions -> SUBSET (Ops \X Users)]
  /\ content \in [Submissions -> CellTable \cup {NULL}]
  /\ died \subseteq Submissions

\* Every variable stays in its type.
TypeOK == TablesOK /\ RequestsOK /\ ScreensOK /\ HistoryOK

Committed(s, op) == \E u \in Users : <<op, u>> \in done[s]

\* A report is district-approved only if it was submitted, approved by its
\* department and approved by the district, each by a save that went through,
\* whatever requests ran at the same time and whatever stale copies they saved.
TwoLevelApproval ==
  \A s \in Submissions :
    Exists(s) /\ rows[s].status = "DISTRICT_APPROVED" =>
      /\ Committed(s, "submit")
      /\ Committed(s, "approveDepartment")
      /\ Committed(s, "approveDistrict")

\* The ...By columns name only people who did what the column says, on this
\* report, with the permission for it: a stale save can bring back an old name
\* but never one that did not act.
Attribution ==
  \A s \in Submissions : Exists(s) =>
    /\ \/ rows[s].submittedBy = NULL
       \/ /\ <<"submit", rows[s].submittedBy>> \in done[s]
          /\ rows[s].submittedBy \in Reporters
    /\ \/ rows[s].departmentApprovedBy = NULL
       \/ /\ <<"approveDepartment", rows[s].departmentApprovedBy>> \in done[s]
          /\ rows[s].departmentApprovedBy \in DeptApprovers
    /\ \/ rows[s].districtApprovedBy = NULL
       \/ /\ <<"approveDistrict", rows[s].districtApprovedBy>> \in done[s]
          /\ rows[s].districtApprovedBy \in DistrictApprovers

\* The moves the approval flow allows, as <<operation, from, to>>.
Moves ==
  {<<"submit", st, "PENDING_DEPARTMENT">> : st \in Editable} \cup
  {<<"approveDepartment", "PENDING_DEPARTMENT", "DEPARTMENT_APPROVED">>,
   <<"rejectDepartment", "PENDING_DEPARTMENT", "REJECTED_DEPARTMENT">>,
   <<"approveDistrict", "DEPARTMENT_APPROVED", "DISTRICT_APPROVED">>,
   <<"rejectDistrict", "DEPARTMENT_APPROVED", "REJECTED_DISTRICT">>}

\* The flow log never tells of something that did not happen: an entry is a legal
\* move, and its actor's save of that very operation went through before it.
LogsAreCommitted ==
  \A s \in Submissions : \A i \in 1 .. Len(logs[s]) :
    LET e == logs[s][i]
    IN  \E op \in LoggedOps :
          /\ EventOf[op] = e.event
          /\ <<op, e.actor>> \in done[s]
          /\ <<op, e.from, e.to>> \in Moves

\* No interleaving of patches stores a cell outside the unit's scope, a cell with
\* a default value of the campaign, or a cell of a report that does not exist.
OnlyWritableCells ==
  \A s \in Submissions : \A c \in Cells :
    cells[s][c] # NULL => /\ Exists(s)
                          /\ c \in Writable(rows[s].assignment)

Writing(r, s) ==
  /\ job[r].sub = s
  /\ pc[r] \in {"insert", "cell", "cellWrite", "saveLoad", "saveWrite"}

\* District-approved, and the requests that overlapped the approval are over.
Closed(s) ==
  /\ Exists(s) /\ rows[s].status = "DISTRICT_APPROVED"
  /\ \A r \in Requests : ~Writing(r, s)

\* A closed report is closed for good: no request that comes later gets as far as
\* writing to it, and neither the row nor a cell of it changes again.
ClosedForGood ==
  [][\A s \in Submissions : Closed(s) =>
       Closed(s)' /\ rows'[s] = rows[s] /\ cells'[s] = cells[s]]_vars

-----------------------------------------------------------------------------
(* What holds as long as the requests on a report do not overlap.          *)

Quiet == \A r \in Requests : pc[r] = "idle"

\* An assignment has at most one submission (the schema has no unique index).
OneSubmissionPerAssignment ==
  \A s, t \in Submissions :
    Exists(s) /\ Exists(t) /\ rows[s].assignment = rows[t].assignment => s = t

\* What lies on an approver's desk, and what the district approves, is cell for
\* cell what was submitted.
DeskShowsSubmitted ==
  \A s \in Submissions :
    Exists(s) /\ rows[s].status \notin Editable => cells[s] = content[s]

\* The flow log of a report on which no request died is a chain: every entry
\* starts where the one before it ended, except that a cancelled submission is
\* back in DRAFT without an entry; and a decision is logged with the very cells
\* and version of the entry it decides on.
LogIsChain ==
  \A s \in Submissions \ died : \A i \in 1 .. Len(logs[s]) - 1 :
    LET e == logs[s][i]
        n == logs[s][i + 1]
    IN  /\ \/ n.from = e.to
           \/ e.to = "PENDING_DEPARTMENT" /\ n.from = "DRAFT"
        /\ n.event # "SUBMIT" => n.cells = e.cells /\ n.version = e.version

\* version identifies the content: a screen that shows the row's version shows
\* the report's cells, so a patch that passes the version check loses no edit.
VersionIdentifiesContent ==
  \A u \in Reporters : \A s \in Submissions \ died :
    Quiet /\ view[u].sub = s /\ view[u].version = rows[s].version
      => view[u].cells = cells[s]

\* completion_pct is never left behind by the cells it was counted from.
CompletionIsCurrent ==
  \A s \in Submissions \ died :
    Quiet /\ Exists(s) /\ Filled(s) # {} =>
      rows[s].completionPct =
        Completion(rows[s].assignment, Cardinality(Filled(s)))

-----------------------------------------------------------------------------
(* The workflow this implements while requests do not overlap.             *)

Reports(a) == {s \in Submissions : Exists(s) /\ rows[s].assignment = a}

WorkflowStatus ==
  [a \in Assignments |->
     IF Reports(a) = {} THEN "NOT_OPENED"
     ELSE rows[CHOOSE s \in Reports(a) : TRUE].status]

WorkflowContent ==
  [a \in Assignments |->
     IF Reports(a) = {} THEN NoCells ELSE cells[CHOOSE s \in Reports(a) : TRUE]]

Workflow == INSTANCE ReportWorkflow WITH
              status <- WorkflowStatus, content <- WorkflowContent

\* The handlers, with their crashes and partial saves, implement the workflow
\* that the code has; where the documents draw another one is said there.
ImplementsWorkflow == Workflow!Spec

-----------------------------------------------------------------------------
(* Progress, under FairSpec.                                               *)

Told(u, type, s) == [to |-> u, type |-> type, ref |-> s] \in outbox

\* A report that was submitted reaches every approver of its unit, and one its
\* department approved reaches every district approver, unless a request dies.
ApproversAreTold ==
  \A s \in Submissions :
    /\ \A d \in DeptApprovers :
         Committed(s, "submit") /\ OrgOf[d] = AssignedOrg[rows[s].assignment] ~>
           s \in died \/ Told(d, "SUBMISSION_PENDING_DEPARTMENT", s)
    /\ \A d \in DistrictApprovers :
         Committed(s, "approveDepartment") ~>
           s \in died \/ Told(d, "SUBMISSION_PENDING_DISTRICT", s)

\* Every submit, approval and rejection that is saved gets into the flow log,
\* unless a request dies.
DecisionsAreLogged ==
  \A s \in Submissions, u \in Users, op \in LoggedOps :
    <<op, u>> \in done[s] ~>
      \/ s \in died
      \/ \E i \in 1 .. Len(logs[s]) :
           logs[s][i].event = EventOf[op] /\ logs[s][i].actor = u

-----------------------------------------------------------------------------
(* What the repository says and the code does not do.                      *)

\* docs/db/report-flow-lifecycle.md: while a report waits or is approved, every
\* patch of its cells is blocked by the backend.
CellsLockedOnceSubmitted ==
  [][\A s \in Submissions :
       Exists(s) /\ rows[s].status \notin Editable => cells'[s] = cells[s]]_vars

\* "Notify submitter" in rejectDepartment: whoever submitted the report hears that
\* it was rejected, unless a request dies.
SubmitterIsTold ==
  \A s \in Submissions, u \in Reporters :
    Committed(s, "rejectDepartment") /\ rows[s].submittedBy = u ~>
      s \in died \/ Told(u, "SUBMISSION_REJECTED_DEPARTMENT", s)

=============================================================================
