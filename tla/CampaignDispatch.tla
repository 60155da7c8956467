-------------------------- MODULE CampaignDispatch --------------------------
(***************************************************************************)
(* A form template and the campaigns made from it: the handlers of         *)
(* ReportCampaignService and of ReportAssignmentService over the tables    *)
(* report_campaigns, report_campaign_indicator_org_scopes,                 *)
(* report_campaign_default_values and report_assignments, with the two     *)
(* handlers of the form designer that move the status of the template.     *)
(*                                                                         *)
(* confirmDispatch is a transaction that locks the campaign's row for      *)
(* update, so a second dispatch, an update of the row and an insert that   *)
(* refers to it wait for its commit: it is one step.  Every other handler  *)
(* is a sequence of statements, and a request is a process, as in          *)
(* SubmissionApproval: the reads and refusals that come first are one      *)
(* step, and save(row) selects the row again and then updates the columns  *)
(* in which the copy in memory differs.                                    *)
(*                                                                         *)
(* Left out: who created, dispatched or cancelled, and when; the source of *)
(* a scope.  A deadline stands for the campaign's name and dates.          *)
(* nextPeriod inserts assignments without a campaign, which the schema     *)
(* refuses: it never changes a table.                                      *)
(***************************************************************************)
EXTENDS Integers

CONSTANTS
  Requests,           \* requests the server has in hand at the same time
  MaxRequests,        \* bound: requests served in a behaviour
  Crashes,            \* TRUE: a request may die between two statements
  Campaigns,          \* the periods, each the key of at most one campaign
  Deadlines,
  ValidDeadlines,     \* those whose dates are in order
  Orgs, ActiveOrgs,
  Indicators,
  TitleIndicators,    \* indicators of type TITLE, which take no value
  Attributes,
  Values,
  TemplateType,       \* form_templates.template_type
  TemplateScope,      \* enabled default scopes of the template
  NULL

Pairs == Orgs \X Indicators
Cells == Indicators \X Attributes
CellTable == [Cells -> Values \cup {NULL}]

FormStatus     == {"DRAFT", "READY", "IN_USE", "ARCHIVED"}
CampaignStatus == {"DRAFT", "DISPATCHED", "CLOSED", "CANCELLED"}

Campaign   == [status : CampaignStatus, deadline : Deadlines]
Assignment == [deadline : Deadlines, cancelled : BOOLEAN]

ASSUME TemplateAssumption ==
  /\ ActiveOrgs \subseteq Orgs
  /\ TitleIndicators \subseteq Indicators
  /\ ValidDeadlines \subseteq Deadlines
  /\ TemplateType \in {"AGGREGATE", "UNIQUE"}
  /\ TemplateScope \subseteq Pairs

ASSUME NullAssumption ==
  NULL \notin Campaign /\ NULL \notin Assignment /\ NULL \notin Values
  /\ NULL \notin FormStatus /\ NULL \notin Campaigns

ASSUME BoundsAssumption == MaxRequests \in Nat /\ Crashes \in BOOLEAN

VARIABLES
  form,         \* form_templates.template_status
  campaigns,    \* report_campaigns: campaigns[k], NULL while there is none
  scopes,       \* scopes[k]: the <<org, indicator>> pairs of campaign k
  defaults,     \* defaults[k][c]: the default value of cell c
  assignments,  \* assignments[k][o], NULL while there is none
  pc,           \* pc[r]: the statement request r executes next
  job,          \* job[r]: what request r was asked to do
  mem,          \* mem[r]: the campaign entity in r's memory
  base,         \* base[r]: the row the select inside save returned
  formMem,      \* formMem[r]: the status in r's copy of the form
  formBase,     \* formBase[r]: the status the select inside save returned
  todo,         \* todo[r]: the items r has still to write
  served,       \* requests taken so far
  raced,        \* history: campaigns whose status moved with a request in between
  formRaced,    \* history: the form's status moved with a request in between
  made,         \* history: campaigns made by create, and not by createBatch
  died          \* history: campaigns whose create died after the insert

tables  == <<form, campaigns, scopes, defaults, assignments>>
memory  == <<job, mem, base, formMem, formBase, todo>>
history == <<raced, formRaced, made, died>>
vars    == <<tables, pc, memory, served, history>>

NoJob  == [op |-> "none", campaign |-> NULL, deadline |-> NULL]
NoTodo == [scopes |-> {}, cells |-> {}, val |-> NULL, cur |-> NULL, old |-> NULL]

Init ==
  /\ form = "DRAFT"
  /\ campaigns = [k \in Campaigns |-> NULL]
  /\ scopes = [k \in Campaigns |-> {}]
  /\ defaults = [k \in Campaigns |-> [c \in Cells |-> NULL]]
  /\ assignments = [k \in Campaigns |-> [o \in Orgs |-> NULL]]
  /\ pc = [r \in Requests |-> "idle"]
  /\ job = [r \in Requests |-> NoJob]
  /\ mem = [r \in Requests |-> NULL]
  /\ base = [r \in Requests |-> NULL]
  /\ formMem = [r \in Requests |-> NULL]
  /\ formBase = [r \in Requests |-> NULL]
  /\ todo = [r \in Requests |-> NoTodo]
  /\ served = 0
  /\ raced = {}
  /\ formRaced = FALSE
  /\ made = {}
  /\ died = {}
-----------------------------------------------------------------------------
(* The life of a request.                                                  *)

Exists(k) == campaigns[k] # NULL

InDraft(k) == Exists(k) /\ campaigns[k].status = "DRAFT"

\* Request r is past its checks and will still write to campaign k.
Holding(r, k) ==
  /\ job[r].campaign = k
  /\ pc[r] \in {"copyScopes", "saveLoad", "saveWrite", "scope", "scopeInsert",
                "unscope", "default", "defaultLoad", "defaultWrite",
                "undefault"}

Goto(r, label) == pc' = [pc EXCEPT ![r] = label]

Take(r, label, j) ==
  /\ pc[r] = "idle"
  /\ served < MaxRequests
  /\ served' = served + 1
  /\ Goto(r, label)
  /\ job' = [job EXCEPT ![r] = j]

Ask(op, k) == [NoJob EXCEPT !.op = op, !.campaign = k]

\* Request r is over: nothing of its memory survives.
End(r) ==
  /\ Goto(r, "idle")
  /\ job' = [job EXCEPT ![r] = NoJob]
  /\ mem' = [mem EXCEPT ![r] = NULL]
  /\ base' = [base EXCEPT ![r] = NULL]
  /\ formMem' = [formMem EXCEPT ![r] = NULL]
  /\ formBase' = [formBase EXCEPT ![r] = NULL]
  /\ todo' = [todo EXCEPT ![r] = NoTodo]

\* Request r ends with an error after some of its statements have run.
Die(r) ==
  /\ End(r)
  /\ died' = IF job[r].op = "create" /\ pc[r] # "insert"
             THEN died \cup {job[r].campaign} ELSE died
  /\ UNCHANGED <<raced, formRaced, made>>

-----------------------------------------------------------------------------
(* Making a campaign.                                                      *)

Create_NotInUse(r, k, deadline) ==   \* mutant: leaves the template as it is
  /\ form \in {"READY", "IN_USE"}
  /\ ~Exists(k)
  /\ Take(r, "insert", [op |-> "create", campaign |-> k, deadline |-> deadline])
  /\ UNCHANGED <<tables, history, mem, base, formMem, formBase, todo>>

\* create asks for a template that is ready or in use, and no campaign of the period.
Create(r, k, deadline) ==
  /\ form \in {"READY", "IN_USE"}
  /\ ~Exists(k)
  /\ Take(r, "insert", [op |-> "create", campaign |-> k, deadline |-> deadline])
  /\ formMem' = [formMem EXCEPT ![r] = IF form = "READY" THEN "IN_USE" ELSE NULL]
  /\ UNCHANGED <<tables, history, mem, base, formBase, todo>>

CreateBatch_NoDeadline(r, k, deadline) ==   \* mutant: the row gets no dates
  /\ deadline \in ValidDeadlines
  /\ ~Exists(k)
  /\ Take(r, "insert", Ask("createBatch", k))
  /\ UNCHANGED <<tables, history, mem, base, formMem, formBase, todo>>

\* createBatch asks for no status of the template and checks the dates.
CreateBatch(r, k, deadline) ==
  /\ deadline \in ValidDeadlines
  /\ ~Exists(k)
  /\ Take(r, "insert", [op |-> "createBatch", campaign |-> k, deadline |-> deadline])
  /\ UNCHANGED <<tables, history, mem, base, formMem, formBase, todo>>

\* The unique index on the period refuses a campaign made meanwhile.
InsertCampaign(r) ==
  /\ pc[r] = "insert"
  /\ LET k == job[r].campaign
     IN  IF Exists(k)
         THEN End(r) /\ UNCHANGED <<campaigns, history>>
         ELSE /\ campaigns' = [campaigns EXCEPT ![k] =
                                 [status |-> "DRAFT", deadline |-> job[r].deadline]]
              /\ IF job[r].op = "create"
                 THEN /\ made' = made \cup {k}
                      /\ Goto(r, "copyScopes")
                      /\ UNCHANGED <<memory, raced, formRaced, died>>
                 ELSE End(r) /\ UNCHANGED history
  /\ UNCHANGED <<form, scopes, defaults, assignments, served>>

\* The default scopes of the template go in all together, or none when one of them
\* is there already.
CopyScopes(r) ==
  /\ pc[r] = "copyScopes"
  /\ LET k == job[r].campaign
     IN  IF TemplateScope \cap scopes[k] # {}
         THEN Die(r) /\ UNCHANGED scopes
         ELSE /\ scopes' = [scopes EXCEPT ![k] = @ \cup TemplateScope]
              /\ IF formMem[r] # NULL
                 THEN Goto(r, "formLoad") /\ UNCHANGED memory
                 ELSE End(r)
              /\ UNCHANGED history
  /\ UNCHANGED <<form, campaigns, defaults, assignments, served>>

-----------------------------------------------------------------------------
(* The status of the template.                                             *)

MarkFormReady_AnyStatus(r) ==   \* mutant: no check of the status
  /\ Indicators \ TitleIndicators \subseteq {p[2] : p \in TemplateScope}
  /\ Take(r, "formLoad", [NoJob EXCEPT !.op = "markFormReady"])
  /\ formMem' = [formMem EXCEPT ![r] = "READY"]
  /\ UNCHANGED <<tables, history, mem, base, formBase, todo>>

\* Every indicator that takes a value has a unit.
MarkFormReady(r) ==
  /\ form = "DRAFT"
  /\ Indicators \ TitleIndicators \subseteq {p[2] : p \in TemplateScope}
  /\ Take(r, "formLoad", [NoJob EXCEPT !.op = "markFormReady"])
  /\ formMem' = [formMem EXCEPT ![r] = "READY"]
  /\ UNCHANGED <<tables, history, mem, base, formBase, todo>>

ArchiveForm(r) ==
  /\ form \in {"READY", "IN_USE"}
  /\ Take(r, "formLoad", [NoJob EXCEPT !.op = "archiveForm"])
  /\ formMem' = [formMem EXCEPT ![r] = "ARCHIVED"]
  /\ UNCHANGED <<tables, history, mem, base, formBase, todo>>

\* patchForm, setActive and setTemplateFile save a copy of the row with the status they
\* read.
PatchForm(r) ==
  /\ Take(r, "formLoad", [NoJob EXCEPT !.op = "patchForm"])
  /\ formMem' = [formMem EXCEPT ![r] = form]
  /\ UNCHANGED <<tables, history, mem, base, formBase, todo>>

FormLoad(r) ==
  /\ pc[r] = "formLoad"
  /\ formBase' = [formBase EXCEPT ![r] = form]
  /\ Goto(r, "formWrite")
  /\ UNCHANGED <<tables, history, job, mem, base, formMem, todo, served>>

FormWrite(r) ==
  /\ pc[r] = "formWrite"
  /\ form' = IF formMem[r] # formBase[r] THEN formMem[r] ELSE form
  /\ formRaced' = (formRaced \/ \E q \in Requests \ {r} :
                                form' # form /\ formMem[q] \notin {NULL, form'})
  /\ End(r)
  /\ UNCHANGED <<campaigns, scopes, defaults, assignments, served, raced, made, died>>

-----------------------------------------------------------------------------
(* The campaign's row: patch, cancel and close.                            *)

Change(r, op, k, copy) ==
  /\ Take(r, "saveLoad", Ask(op, k))
  /\ mem' = [mem EXCEPT ![r] = copy]
  /\ UNCHANGED <<tables, history, base, formMem, formBase, todo>>

Patch_AnyStatus(r, k, deadline) ==   \* mutant: also after the dispatch
  /\ Exists(k)
  /\ deadline \in ValidDeadlines
  /\ Change(r, "patch", k, [campaigns[k] EXCEPT !.deadline = deadline])

Patch(r, k, deadline) ==
  /\ InDraft(k)
  /\ deadline \in ValidDeadlines
  /\ Change(r, "patch", k, [campaigns[k] EXCEPT !.deadline = deadline])

Cancel(r, k) ==
  /\ InDraft(k)
  /\ Change(r, "cancel", k, [campaigns[k] EXCEPT !.status = "CANCELLED"])

Close(r, k) ==
  /\ Exists(k) /\ campaigns[k].status = "DISPATCHED"
  /\ Change(r, "close", k, [campaigns[k] EXCEPT !.status = "CLOSED"])

SaveLoad(r) ==
  /\ pc[r] = "saveLoad"
  /\ base' = [base EXCEPT ![r] = campaigns[job[r].campaign]]
  /\ Goto(r, "saveWrite")
  /\ UNCHANGED <<tables, history, job, mem, formMem, formBase, todo, served>>

\* The update of save: the columns in which new differs from old are written.
Merge(row, old, new) ==
  [status   |-> IF new.status # old.status THEN new.status ELSE row.status,
   deadline |-> IF new.deadline # old.deadline THEN new.deadline ELSE row.deadline]

\* History: somebody else still had campaign k in hand when its status moved.
Race(k, actors) ==
  raced' = IF /\ campaigns'[k].status # campaigns[k].status
              /\ \E q \in Requests \ actors : Holding(q, k)
           THEN raced \cup {k} ELSE raced

SaveWrite(r) ==
  /\ pc[r] = "saveWrite"
  /\ LET k == job[r].campaign
     IN  /\ campaigns' = [campaigns EXCEPT ![k] = Merge(@, base[r], mem[r])]
         /\ Race(k, {r})
  /\ End(r)
  /\ UNCHANGED <<form, scopes, defaults, assignments, served, formRaced, made, died>>

-----------------------------------------------------------------------------
(* Scopes.  configureIndicatorScopes of the assignments' service has no     *)
(* action: its first write names a column, batch_id, that the table does    *)
(* not have, so it fails before it changes anything.                        *)

Edit_AnyStatus(r, label, op, k, work) ==   \* mutant: also after the dispatch
  /\ Exists(k)
  /\ Take(r, label, Ask(op, k))
  /\ todo' = [todo EXCEPT ![r] = work]
  /\ UNCHANGED <<tables, history, mem, base, formMem, formBase>>

\* A request that changes what a campaign in draft gives out.
Edit(r, label, op, k, work) ==
  /\ InDraft(k)
  /\ Take(r, label, Ask(op, k))
  /\ todo' = [todo EXCEPT ![r] = work]
  /\ UNCHANGED <<tables, history, mem, base, formMem, formBase>>

\* In one request a UNIQUE template gives an indicator to one unit only.
UpsertScopes(r, k, items) ==
  /\ \A p \in items : p[1] \in ActiveOrgs
  /\ TemplateType = "UNIQUE" => \A p, q \in items : p[2] = q[2] => p = q
  /\ Edit(r, "scope", "upsertScopes", k, [NoTodo EXCEPT !.scopes = items])

\* A scope that is there is left alone.
ScopeLookup(r) ==
  /\ pc[r] = "scope"
  /\ \/ todo[r].scopes = {} /\ End(r)
     \/ /\ \E p \in todo[r].scopes :
               /\ todo' = [todo EXCEPT ![r].scopes = @ \ {p}, ![r].cur = p]
               /\ Goto(r, IF p \in scopes[job[r].campaign] THEN "scope" ELSE "scopeInsert")
        /\ UNCHANGED <<job, mem, base, formMem, formBase>>
  /\ UNCHANGED <<tables, history, served>>

ScopeInsert(r) ==
  /\ pc[r] = "scopeInsert"
  /\ LET k == job[r].campaign
         p == todo[r].cur
     IN  IF p \in scopes[k]
         THEN Die(r) /\ UNCHANGED scopes
         ELSE /\ scopes' = [scopes EXCEPT ![k] = @ \cup {p}]
              /\ Goto(r, "scope")
              /\ UNCHANGED <<memory, history>>
  /\ UNCHANGED <<form, campaigns, defaults, assignments, served>>

DeleteScopes(r, k, items) ==
  Edit(r, "unscope", "deleteScopes", k, [NoTodo EXCEPT !.scopes = items])

\* One delete per item; the last one ends the request.
Unscope(r) ==
  /\ pc[r] = "unscope"
  /\ \E p \in todo[r].scopes :
       /\ scopes' = [scopes EXCEPT ![job[r].campaign] = @ \ {p}]
       /\ IF todo[r].scopes = {p}
          THEN End(r)
          ELSE /\ todo' = [todo EXCEPT ![r].scopes = @ \ {p}]
               /\ UNCHANGED <<pc, job, mem, base, formMem, formBase>>
  /\ UNCHANGED <<form, campaigns, defaults, assignments, served, history>>

-----------------------------------------------------------------------------
(* Default values.  The values of one request are one value.               *)

UpsertDefaults(r, k, cells, val) ==
  /\ \A c \in cells : c[1] \notin TitleIndicators
  /\ Edit(r, "default", "upsertDefaults", k, [NoTodo EXCEPT !.cells = cells, !.val = val])

DefaultLookup(r) ==
  /\ pc[r] = "default"
  /\ \/ todo[r].cells = {} /\ End(r)
     \/ /\ \E c \in todo[r].cells :
               LET old == defaults[job[r].campaign][c]
               IN  /\ todo' = [todo EXCEPT ![r].cells = @ \ {c}, ![r].cur = c, ![r].old = old]
                   /\ Goto(r, IF old = NULL THEN "defaultWrite" ELSE "defaultLoad")
        /\ UNCHANGED <<job, mem, base, formMem, formBase>>
  /\ UNCHANGED <<tables, history, served>>

\* The select of save, for a value that was found.
DefaultLoad(r) ==
  /\ pc[r] = "defaultLoad"
  /\ todo' = [todo EXCEPT ![r].old = defaults[job[r].campaign][todo[r].cur]]
  /\ Goto(r, "defaultWrite")
  /\ UNCHANGED <<tables, history, job, mem, base, formMem, formBase, served>>

\* A value not found is inserted, which fails when there is one by now; a value found is
\* updated, which does nothing when it is gone by now.
DefaultWrite(r) ==
  /\ pc[r] = "defaultWrite"
  /\ LET k == job[r].campaign
         c == todo[r].cur
         old == todo[r].old
         now == defaults[k][c]
     IN  IF old = NULL /\ now # NULL
         THEN Die(r) /\ UNCHANGED defaults
         ELSE /\ defaults' = [defaults EXCEPT ![k][c] =
                                 IF (old = NULL) = (now = NULL) /\ old # todo[r].val
                                 THEN todo[r].val ELSE now]
              /\ Goto(r, "default")
              /\ UNCHANGED <<memory, history>>
  /\ UNCHANGED <<form, campaigns, scopes, assignments, served>>

DeleteDefaults(r, k, cells) ==
  Edit(r, "undefault", "deleteDefaults", k, [NoTodo EXCEPT !.cells = cells])

Undefault(r) ==
  /\ pc[r] = "undefault"
  /\ \E c \in todo[r].cells :
       /\ defaults' = [defaults EXCEPT ![job[r].campaign][c] = NULL]
       /\ IF todo[r].cells = {c}
          THEN End(r)
          ELSE /\ todo' = [todo EXCEPT ![r].cells = @ \ {c}]
               /\ UNCHANGED <<pc, job, mem, base, formMem, formBase>>
  /\ UNCHANGED <<form, campaigns, scopes, assignments, served, history>>

-----------------------------------------------------------------------------
(* Dispatch and cancellation.                                              *)

Scoped(k) == {p[1] : p \in scopes[k]}

Assigned(k) == {o \in Orgs : assignments[k][o] # NULL}

Dispatch_Renews(k) ==   \* mutant: writes over a cancelled assignment
  /\ InDraft(k)
  /\ scopes[k] # {}
  /\ assignments' = [assignments EXCEPT ![k] =
       [o \in Orgs |-> IF o \in Scoped(k) /\ (@[o] = NULL \/ @[o].cancelled)
                       THEN [deadline |-> campaigns[k].deadline, cancelled |-> FALSE]
                       ELSE @[o]]]
  /\ campaigns' = [campaigns EXCEPT ![k].status = "DISPATCHED"]
  /\ Race(k, {})
  /\ UNCHANGED <<form, scopes, defaults, pc, memory, served, formRaced, made, died>>

\* confirmDispatch passes over a unit with a live assignment and inserts one for every
\* other unit in the scope; the unique index, which counts the cancelled ones too, rolls
\* the whole transaction back.  On a dispatched campaign it does nothing.
Dispatch(k) ==
  /\ InDraft(k)
  /\ scopes[k] # {}
  /\ \A o \in Scoped(k) \cap Assigned(k) : ~assignments[k][o].cancelled
  /\ assignments' = [assignments EXCEPT ![k] =
       [o \in Orgs |-> IF o \in Scoped(k) \ Assigned(k)
                       THEN [deadline |-> campaigns[k].deadline, cancelled |-> FALSE]
                       ELSE @[o]]]
  /\ campaigns' = [campaigns EXCEPT ![k].status = "DISPATCHED"]
  /\ Race(k, {})
  /\ UNCHANGED <<form, scopes, defaults, pc, memory, served, formRaced, made, died>>

\* A cancelled assignment is left alone; the update writes this column only.
CancelAssignment(k, o) ==
  /\ o \in Assigned(k)
  /\ ~assignments[k][o].cancelled
  /\ assignments' = [assignments EXCEPT ![k][o].cancelled = TRUE]
  /\ UNCHANGED <<form, campaigns, scopes, defaults, pc, memory, served, history>>

-----------------------------------------------------------------------------
\* The process, or its connection, is lost between two statements.
Crash(r) ==
  /\ Crashes
  /\ pc[r] # "idle"
  /\ Die(r)
  /\ UNCHANGED <<tables, served>>

Arrive(r) ==
  \/ MarkFormReady(r) \/ ArchiveForm(r) \/ PatchForm(r)
  \/ \E k \in Campaigns :
       \/ \E d \in Deadlines : Create(r, k, d) \/ CreateBatch(r, k, d) \/ Patch(r, k, d)
       \/ Cancel(r, k) \/ Close(r, k)
       \/ \E items \in (SUBSET Pairs) \ {{}} :
            UpsertScopes(r, k, items) \/ DeleteScopes(r, k, items)
       \/ \E cells \in (SUBSET Cells) \ {{}} :
            \/ \E val \in Values : UpsertDefaults(r, k, cells, val)
            \/ DeleteDefaults(r, k, cells)

Proceed(r) ==
  \/ InsertCampaign(r) \/ CopyScopes(r)
  \/ FormLoad(r) \/ FormWrite(r) \/ SaveLoad(r) \/ SaveWrite(r)
  \/ ScopeLookup(r) \/ ScopeInsert(r) \/ Unscope(r)
  \/ DefaultLookup(r) \/ DefaultLoad(r) \/ DefaultWrite(r) \/ Undefault(r)

Next ==
  \/ \E r \in Requests : Arrive(r) \/ Proceed(r) \/ Crash(r)
  \/ \E k \in Campaigns : Dispatch(k) \/ \E o \in Orgs : CancelAssignment(k, o)

Spec == Init /\ [][Next]_vars

-----------------------------------------------------------------------------
(* Properties.                                                             *)

Labels ==
  {"idle", "insert", "copyScopes", "formLoad", "formWrite", "saveLoad", "saveWrite", "scope",
   "scopeInsert", "unscope", "default", "defaultLoad", "defaultWrite",
   "undefault"}

Ops ==
  {"none", "create", "createBatch", "markFormReady", "archiveForm", "patchForm", "patch",
   "cancel", "close", "upsertScopes", "deleteScopes",
   "upsertDefaults", "deleteDefaults"}

Job == [op : Ops, campaign : Campaigns \cup {NULL}, deadline : Deadlines \cup {NULL}]

Todo ==
  [scopes : SUBSET Pairs, cells : SUBSET Cells, val : Values \cup {NULL},
   cur : Pairs \cup Cells \cup {NULL}, old : Values \cup {NULL}]

\* Every variable keeps its type: a campaign is in one of its four states, what a request
\* has in hand is a row or nothing.
TypeOK ==
  /\ form \in FormStatus
  /\ campaigns \in [Campaigns -> Campaign \cup {NULL}]
  /\ scopes \in [Campaigns -> SUBSET Pairs]
  /\ defaults \in [Campaigns -> CellTable]
  /\ assignments \in [Campaigns -> [Orgs -> Assignment \cup {NULL}]]
  /\ pc \in [Requests -> Labels]
  /\ job \in [Requests -> Job]
  /\ mem \in [Requests -> Campaign \cup {NULL}]
  /\ base \in [Requests -> Campaign \cup {NULL}]
  /\ formMem \in [Requests -> FormStatus \cup {NULL}]
  /\ formBase \in [Requests -> FormStatus \cup {NULL}]
  /\ todo \in [Requests -> Todo]
  /\ served \in 0 .. MaxRequests
  /\ raced \subseteq Campaigns /\ made \subseteq Campaigns /\ died \subseteq Campaigns
  /\ formRaced \in BOOLEAN

Status(k) == IF Exists(k) THEN campaigns[k].status ELSE "none"

\* What dispatch gave out is what the campaign shows (docs/canonical/flow.md, section 3):
\* unless a request was let in before the dispatch and wrote after it, the units with an
\* assignment of a dispatched campaign are the units in its scope, there is at least one,
\* and every assignment carries the campaign's deadline; before dispatch, and on a
\* cancelled campaign, there is none.
AssignedAsScoped ==
  \A k \in Campaigns \ raced :
    IF Status(k) \in {"DISPATCHED", "CLOSED"}
    THEN /\ Assigned(k) = Scoped(k) /\ Assigned(k) # {}
         /\ \A o \in Assigned(k) : assignments[k][o].deadline = campaigns[k].deadline
    ELSE Assigned(k) = {}

\* A dispatch is final: unless a request was let in before it, scope, default values and
\* deadline of a campaign that left the draft never change, and the only move left is the
\* close of a dispatched one.
DispatchIsFinal ==
  [][\A k \in Campaigns \ raced :
       Status(k) \in {"DISPATCHED", "CLOSED", "CANCELLED"} =>
         /\ scopes'[k] = scopes[k] /\ defaults'[k] = defaults[k]
         /\ campaigns'[k].deadline = campaigns[k].deadline
         /\ \/ campaigns'[k].status = campaigns[k].status
            \/ campaigns[k].status = "DISPATCHED" /\ campaigns'[k].status = "CLOSED"]_vars

\* Under every interleaving, and also where a stale save puts a dispatched campaign back
\* into draft and it is dispatched again: an assignment never vanishes, never changes its
\* deadline under the unit that works on it, and a cancelled one never comes back.
AssignmentsEndure ==
  [][\A k \in Campaigns, o \in Orgs :
       assignments[k][o] # NULL =>
         /\ assignments'[k][o] # NULL
         /\ assignments'[k][o].deadline = assignments[k][o].deadline
         /\ assignments[k][o].cancelled => assignments'[k][o].cancelled]_vars

\* A template from which create has made a campaign is in use, or archived since, once the
\* request is over: unless that request died half-way, or the template's status moved under a
\* request that had another one in hand.
TemplatePutInUse ==
  \A k \in made \ died :
    formRaced \/ form \in {"IN_USE", "ARCHIVED"} \/ \E r \in Requests : job[r].campaign = k

Rank == [DRAFT |-> 1, READY |-> 2, IN_USE |-> 3, ARCHIVED |-> 4]

\* The status of a template only moves forward, draft, ready, in use, archived, unless it
\* moved under a request that had another one in hand.
TemplateMovesForward == [][formRaced \/ Rank[form] <= Rank[form']]_vars

\* docs/canonical/rules.md:20 says that DISPATCHED locks scope and default values.
DispatchedIsLocked ==
  [][\A k \in Campaigns :
       Status(k) = "DISPATCHED" => scopes'[k] = scopes[k] /\ defaults'[k] = defaults[k]]_vars

\* docs/canonical/rules.md:25 says that in a campaign of a UNIQUE template an indicator is
\* not given to several units.
UniqueIndicator ==
  TemplateType = "UNIQUE" =>
    \A k \in Campaigns : \A p, q \in scopes[k] : p[2] = q[2] => p = q
=============================================================================
