--------------------------- MODULE CampaignProofs ---------------------------
(***************************************************************************)
(* CampaignDispatch proved, for any number of requests, campaigns, units,  *)
(* indicators and values.  TypeOK is not inductive: a statement relies on  *)
(* what the ones before it left in the request's memory, so InHand says    *)
(* what a request holds at each label.  Then its safety: what a dispatch   *)
(* gave out stands, and the status of a template only moves forward, where *)
(* no request was let in before a status moved and wrote after it.         *)
(***************************************************************************)
EXTENDS CampaignDispatch, TLAPS

FormLabels == {"formLoad", "formWrite"}
SaveLabels == {"saveLoad", "saveWrite"}
DefaultLabels == {"default", "defaultLoad", "defaultWrite"}

InHand(r) ==
  /\ pc[r] \notin {"idle"} \cup FormLabels => job[r].campaign \in Campaigns
  /\ pc[r] \notin {"idle", "insert"} \cup FormLabels => Exists(job[r].campaign)
  /\ job[r].op = "create" => job[r].campaign \in Campaigns
  /\ pc[r] = "insert" => job[r].deadline \in Deadlines
  /\ pc[r] \in SaveLabels => mem[r] \in Campaign
  /\ pc[r] = "saveWrite" => base[r] \in Campaign
  /\ pc[r] \in FormLabels => formMem[r] \in FormStatus
  /\ pc[r] = "scopeInsert" => todo[r].cur \in Pairs
  /\ pc[r] \in DefaultLabels \ {"default"} => todo[r].cur \in Cells
  /\ pc[r] \in DefaultLabels => todo[r].val \in Values

TypeInv == TypeOK /\ \A r \in Requests : InHand(r)

\* A step of r leaves the memory of every other request alone, and makes no campaign vanish.
Only(r) ==
  /\ \A q \in Requests \ {r} :
       /\ pc'[q] = pc[q] /\ job'[q] = job[q] /\ mem'[q] = mem[q] /\ base'[q] = base[q]
       /\ formMem'[q] = formMem[q] /\ formBase'[q] = formBase[q] /\ todo'[q] = todo[q]
  /\ \A k \in Campaigns : Exists(k) => Exists(k)'

\* The memory of request r is well typed.
MemOK(r) ==
  /\ pc[r] \in Labels /\ job[r] \in Job /\ todo[r] \in Todo
  /\ mem[r] \in Campaign \cup {NULL} /\ base[r] \in Campaign \cup {NULL}
  /\ formMem[r] \in FormStatus \cup {NULL} /\ formBase[r] \in FormStatus \cup {NULL}

\* The functions of TypeOK that hold the requests' memory, without what they map to.
Shapes ==
  /\ pc = [q \in Requests |-> pc[q]] /\ job = [q \in Requests |-> job[q]]
  /\ mem = [q \in Requests |-> mem[q]] /\ base = [q \in Requests |-> base[q]]
  /\ formMem = [q \in Requests |-> formMem[q]]
  /\ formBase = [q \in Requests |-> formBase[q]]
  /\ todo = [q \in Requests |-> todo[q]]

TablesOK ==
  /\ form \in FormStatus
  /\ campaigns \in [Campaigns -> Campaign \cup {NULL}]
  /\ scopes \in [Campaigns -> SUBSET Pairs]
  /\ defaults \in [Campaigns -> CellTable]
  /\ assignments \in [Campaigns -> [Orgs -> Assignment \cup {NULL}]]

HistoryOK ==
  /\ raced \subseteq Campaigns /\ made \subseteq Campaigns /\ died \subseteq Campaigns
  /\ formRaced \in BOOLEAN

\* TypeOK, by what a step can disturb.
LEMMA TypeParts ==
  TypeOK <=> /\ TablesOK /\ HistoryOK /\ served \in 0 .. MaxRequests
             /\ Shapes /\ \A r \in Requests : MemOK(r)
BY DEF TypeOK, TablesOK, HistoryOK, Shapes, MemOK

\* A step of r that keeps the tables, the history and r's own memory typed keeps TypeInv.
LEMMA StepOfOne ==
  ASSUME NEW r \in Requests, TypeInv, Only(r), Shapes',
         TablesOK', HistoryOK', (served \in 0 .. MaxRequests)', MemOK(r)', InHand(r)'
  PROVE  TypeInv'
<1>1. \A q \in Requests \ {r} : MemOK(q)'
  BY TypeParts DEF TypeInv, Only, MemOK
<1>2. ASSUME NEW q \in Requests \ {r} PROVE InHand(q)'
  <2>1. InHand(q)
    BY DEF TypeInv
  <2>2. /\ pc'[q] = pc[q] /\ job'[q] = job[q] /\ mem'[q] = mem[q] /\ base'[q] = base[q]
        /\ formMem'[q] = formMem[q] /\ todo'[q] = todo[q]
    BY DEF Only
  <2>3. job[q].campaign \in Campaigns /\ Exists(job[q].campaign) => Exists(job[q].campaign)'
    BY <2>2 DEF Only, Exists
  <2> QED  BY <2>1, <2>2, <2>3 DEF InHand, FormLabels, SaveLabels, DefaultLabels, Exists
<1>3. TypeOK'
  <2>1. \A q \in Requests : MemOK(q)'
    BY <1>1
  <2> QED  BY <2>1 DEF TypeOK, TablesOK, HistoryOK, Shapes, MemOK
<1> QED  BY <1>2, <1>3 DEF TypeInv

\* The empty shapes are well typed.
LEMMA Empty == NoJob \in Job /\ NoTodo \in Todo
BY DEF NoJob, Job, Ops, NoTodo, Todo

\* Initially all is typed.
LEMMA InitTyped == Init => TypeInv
<1> SUFFICES ASSUME Init PROVE TypeInv
  OBVIOUS
<1>1. \A r \in Requests : MemOK(r)
  BY Empty DEF Init, MemOK, Labels
<1>2. TablesOK /\ HistoryOK /\ served \in 0 .. MaxRequests
  <2>1. served \in 0 .. MaxRequests
    BY BoundsAssumption DEF Init
  <2>2. HistoryOK
    BY DEF Init, HistoryOK
  <2>3. defaults \in [Campaigns -> CellTable]
    <3>1. [c \in Cells |-> NULL] \in CellTable
      BY DEF CellTable
    <3> QED  BY <3>1 DEF Init
  <2>4. form \in FormStatus /\ campaigns \in [Campaigns -> Campaign \cup {NULL}]
    BY DEF Init, FormStatus
  <2>5. /\ scopes \in [Campaigns -> SUBSET Pairs]
        /\ assignments \in [Campaigns -> [Orgs -> Assignment \cup {NULL}]]
    BY DEF Init
  <2> QED  BY <2>1, <2>2, <2>3, <2>4, <2>5 DEF TablesOK
<1>3. Shapes
  BY DEF Init, Shapes
<1>4. \A r \in Requests : InHand(r)
  BY DEF Init, InHand, FormLabels, SaveLabels, DefaultLabels, NoJob
<1> QED  BY <1>1, <1>2, <1>3, <1>4, TypeParts DEF TypeInv

\* A request that ends leaves nothing behind.
LEMMA Ending ==
  ASSUME NEW r \in Requests, TypeInv, End(r), \A k \in Campaigns : Exists(k) => Exists(k)'
  PROVE  Only(r) /\ Shapes' /\ MemOK(r)' /\ InHand(r)'
<1>1. TypeOK
  BY DEF TypeInv
<1>2. Shapes'
  BY <1>1 DEF End, Goto, Shapes, TypeOK
<1>3. Only(r)
  BY <1>1 DEF End, Goto, Only, TypeOK
<1>4. /\ pc'[r] = "idle" /\ job'[r] = NoJob /\ todo'[r] = NoTodo /\ mem'[r] = NULL
      /\ base'[r] = NULL /\ formMem'[r] = NULL /\ formBase'[r] = NULL
  BY <1>1 DEF End, Goto, TypeOK
<1>5. MemOK(r)'
  BY <1>4, Empty DEF MemOK, Labels
<1>6. InHand(r)'
  BY <1>4 DEF InHand, FormLabels, SaveLabels, DefaultLabels, NoJob
<1> QED  BY <1>2, <1>3, <1>5, <1>6

\* So does one that dies; its campaign may enter the history.
LEMMA Dying ==
  ASSUME NEW r \in Requests, TypeInv, Die(r), \A k \in Campaigns : Exists(k) => Exists(k)'
  PROVE  Only(r) /\ Shapes' /\ MemOK(r)' /\ InHand(r)' /\ HistoryOK'
<1>1. InHand(r) /\ HistoryOK
  BY TypeParts DEF TypeInv
<1>2. HistoryOK'
  BY <1>1 DEF Die, HistoryOK, InHand
<1> QED  BY <1>2, Ending DEF Die

\* A request that is taken starts with nothing in its memory but what it is given.
LEMMA Taking ==
  ASSUME NEW r \in Requests, TypeInv, NEW l \in Labels, NEW j \in Job, Take(r, l, j),
         mem' = mem \/ \E m \in Campaign : mem' = [mem EXCEPT ![r] = m],
         formMem' = formMem \/ \E f \in FormStatus \cup {NULL} : formMem' = [formMem EXCEPT ![r] = f],
         todo' = todo \/ \E w \in Todo : todo' = [todo EXCEPT ![r] = w],
         UNCHANGED <<tables, history, base, formBase>>,
         InHand(r)'
  PROVE  TypeInv'
<1>1. TypeOK
  BY DEF TypeInv
<1>2. Shapes'
  BY <1>1 DEF Take, Goto, Shapes, TypeOK
<1>3. Only(r)
  BY <1>1 DEF Take, Goto, Only, TypeOK, tables, Exists
<1>4. /\ pc'[r] = l /\ job'[r] = j /\ base'[r] = base[r] /\ formBase'[r] = formBase[r]
      /\ mem'[r] \in Campaign \cup {NULL} /\ formMem'[r] \in FormStatus \cup {NULL}
      /\ todo'[r] \in Todo
  BY <1>1 DEF Take, Goto, TypeOK
<1>5. MemOK(r)'
  BY <1>1, <1>4 DEF MemOK, TypeOK
<1>6. TablesOK' /\ HistoryOK'
  BY <1>1 DEF TypeOK, TablesOK, HistoryOK, tables, history
<1>7. (served \in 0 .. MaxRequests)'
  BY <1>1, BoundsAssumption DEF Take, TypeOK
<1> QED  BY <1>2, <1>3, <1>5, <1>6, <1>7, StepOfOne

\* Every request that is taken is typed.
LEMMA ArriveTyped ==
  ASSUME NEW r \in Requests, TypeInv, Arrive(r)
  PROVE  TypeInv'
<1>1. ASSUME MarkFormReady(r)
      PROVE  TypeInv'
  <2>1. TypeOK /\ Take(r, "formLoad", [NoJob EXCEPT !.op = "markFormReady"])
    BY <1>1 DEF TypeInv, MarkFormReady
  <2>2. [NoJob EXCEPT !.op = "markFormReady"] \in Job
    BY DEF Job, Ops, NoJob, Ask
  <2>3. UNCHANGED <<tables, history, base, formBase>>
    BY <1>1 DEF MarkFormReady
  <2>4. mem' = mem
    BY <1>1 DEF MarkFormReady
  <2>5. \E x \in FormStatus \cup {NULL} : formMem' = [formMem EXCEPT ![r] = x]
    <3>1. "READY" \in FormStatus \cup {NULL}
      BY <1>1, <2>1 DEF FormStatus
    <3> QED  BY <1>1, <3>1 DEF MarkFormReady
  <2>6. todo' = todo
    BY <1>1 DEF MarkFormReady
  <2>7. InHand(r)'
    BY <1>1, <2>1, <2>3 DEF MarkFormReady, TypeOK, InHand, FormLabels, SaveLabels,
       DefaultLabels, Exists, Take, Goto, tables, FormStatus, NoJob
  <2> QED  BY <2>1, <2>2, <2>3, <2>4, <2>5, <2>6, <2>7, Taking DEF Labels
<1>2. ASSUME ArchiveForm(r)
      PROVE  TypeInv'
  <2>1. TypeOK /\ Take(r, "formLoad", [NoJob EXCEPT !.op = "archiveForm"])
    BY <1>2 DEF TypeInv, ArchiveForm
  <2>2. [NoJob EXCEPT !.op = "archiveForm"] \in Job
    BY DEF Job, Ops, NoJob, Ask
  <2>3. UNCHANGED <<tables, history, base, formBase>>
    BY <1>2 DEF ArchiveForm
  <2>4. mem' = mem
    BY <1>2 DEF ArchiveForm
  <2>5. \E x \in FormStatus \cup {NULL} : formMem' = [formMem EXCEPT ![r] = x]
    <3>1. "ARCHIVED" \in FormStatus \cup {NULL}
      BY <1>2, <2>1 DEF FormStatus
    <3> QED  BY <1>2, <3>1 DEF ArchiveForm
  <2>6. todo' = todo
    BY <1>2 DEF ArchiveForm
  <2>7. InHand(r)'
    BY <1>2, <2>1, <2>3 DEF ArchiveForm, TypeOK, InHand, FormLabels, SaveLabels,
       DefaultLabels, Exists, Take, Goto, tables, FormStatus, NoJob
  <2> QED  BY <2>1, <2>2, <2>3, <2>4, <2>5, <2>6, <2>7, Taking DEF Labels
<1>3. ASSUME PatchForm(r)
      PROVE  TypeInv'
  <2>1. TypeOK /\ Take(r, "formLoad", [NoJob EXCEPT !.op = "patchForm"])
    BY <1>3 DEF TypeInv, PatchForm
  <2>2. [NoJob EXCEPT !.op = "patchForm"] \in Job
    BY DEF Job, Ops, NoJob, Ask
  <2>3. UNCHANGED <<tables, history, base, formBase>>
    BY <1>3 DEF PatchForm
  <2>4. mem' = mem
    BY <1>3 DEF PatchForm
  <2>5. \E x \in FormStatus \cup {NULL} : formMem' = [formMem EXCEPT ![r] = x]
    <3>1. form \in FormStatus \cup {NULL}
      BY <1>3, <2>1 DEF TypeOK
    <3> QED  BY <1>3, <3>1 DEF PatchForm
  <2>6. todo' = todo
    BY <1>3 DEF PatchForm
  <2>7. InHand(r)'
    BY <1>3, <2>1, <2>3 DEF PatchForm, TypeOK, InHand, FormLabels, SaveLabels,
       DefaultLabels, Exists, Take, Goto, tables, FormStatus, NoJob
  <2> QED  BY <2>1, <2>2, <2>3, <2>4, <2>5, <2>6, <2>7, Taking DEF Labels
<1>4. ASSUME NEW k \in Campaigns, NEW d \in Deadlines, Create(r, k, d)
      PROVE  TypeInv'
  <2>1. TypeOK /\ Take(r, "insert", [op |-> "create", campaign |-> k, deadline |-> d])
    BY <1>4 DEF TypeInv, Create
  <2>2. [op |-> "create", campaign |-> k, deadline |-> d] \in Job
    BY DEF Job, Ops, NoJob, Ask
  <2>3. UNCHANGED <<tables, history, base, formBase>>
    BY <1>4 DEF Create
  <2>4. mem' = mem
    BY <1>4 DEF Create
  <2>5. \E x \in FormStatus \cup {NULL} : formMem' = [formMem EXCEPT ![r] = x]
    <3>1. (IF form = "READY" THEN "IN_USE" ELSE NULL) \in FormStatus \cup {NULL}
      BY <1>4, <2>1 DEF FormStatus
    <3> QED  BY <1>4, <3>1 DEF Create
  <2>6. todo' = todo
    BY <1>4 DEF Create
  <2>7. InHand(r)'
    BY <1>4, <2>1, <2>3 DEF Create, TypeOK, InHand, FormLabels, SaveLabels, DefaultLabels,
       Exists, Take, Goto, tables
  <2> QED  BY <2>1, <2>2, <2>3, <2>4, <2>5, <2>6, <2>7, Taking DEF Labels
<1>5. ASSUME NEW k \in Campaigns, NEW d \in Deadlines, CreateBatch(r, k, d)
      PROVE  TypeInv'
  <2>1. TypeOK /\ Take(r, "insert", [op |-> "createBatch", campaign |-> k, deadline |-> d])
    BY <1>5 DEF TypeInv, CreateBatch
  <2>2. [op |-> "createBatch", campaign |-> k, deadline |-> d] \in Job
    BY DEF Job, Ops, NoJob, Ask
  <2>3. UNCHANGED <<tables, history, base, formBase>>
    BY <1>5 DEF CreateBatch
  <2>4. mem' = mem
    BY <1>5 DEF CreateBatch
  <2>5. formMem' = formMem
    BY <1>5 DEF CreateBatch
  <2>6. todo' = todo
    BY <1>5 DEF CreateBatch
  <2>7. InHand(r)'
    BY <1>5, <2>1, <2>3 DEF CreateBatch, TypeOK, InHand, FormLabels, SaveLabels,
       DefaultLabels, Exists, Take, Goto, tables
  <2> QED  BY <2>1, <2>2, <2>3, <2>4, <2>5, <2>6, <2>7, Taking DEF Labels
<1>6. ASSUME NEW k \in Campaigns, NEW d \in Deadlines, Patch(r, k, d)
      PROVE  TypeInv'
  <2>1. TypeOK /\ Take(r, "saveLoad", Ask("patch", k))
    BY <1>6 DEF TypeInv, Patch, Change
  <2>2. Ask("patch", k) \in Job
    BY DEF Job, Ops, NoJob, Ask
  <2>3. UNCHANGED <<tables, history, base, formBase>>
    BY <1>6 DEF Patch, Change
  <2>4. \E x \in Campaign : mem' = [mem EXCEPT ![r] = x]
    <3>1. [campaigns[k] EXCEPT !.deadline = d] \in Campaign
      BY <1>6, <2>1 DEF TypeOK, Patch, InDraft, Exists, Campaign
    <3> QED  BY <1>6, <3>1 DEF Patch, Change
  <2>5. formMem' = formMem
    BY <1>6 DEF Patch, Change
  <2>6. todo' = todo
    BY <1>6 DEF Patch, Change
  <2>7. InHand(r)'
    BY <1>6, <2>1, <2>3 DEF Patch, Change, TypeOK, InHand, FormLabels, SaveLabels,
       DefaultLabels, Exists, Take, Goto, tables, InDraft, Ask, NoJob, Campaign,
       CampaignStatus
  <2> QED  BY <2>1, <2>2, <2>3, <2>4, <2>5, <2>6, <2>7, Taking DEF Labels
<1>7. ASSUME NEW k \in Campaigns, Cancel(r, k)
      PROVE  TypeInv'
  <2>1. TypeOK /\ Take(r, "saveLoad", Ask("cancel", k))
    BY <1>7 DEF TypeInv, Cancel, Change
  <2>2. Ask("cancel", k) \in Job
    BY DEF Job, Ops, NoJob, Ask
  <2>3. UNCHANGED <<tables, history, base, formBase>>
    BY <1>7 DEF Cancel, Change
  <2>4. \E x \in Campaign : mem' = [mem EXCEPT ![r] = x]
    <3>1. [campaigns[k] EXCEPT !.status = "CANCELLED"] \in Campaign
      BY <1>7, <2>1 DEF TypeOK, Cancel, InDraft, Exists, Campaign, CampaignStatus
    <3> QED  BY <1>7, <3>1 DEF Cancel, Change
  <2>5. formMem' = formMem
    BY <1>7 DEF Cancel, Change
  <2>6. todo' = todo
    BY <1>7 DEF Cancel, Change
  <2>7. InHand(r)'
    BY <1>7, <2>1, <2>3 DEF Cancel, Change, TypeOK, InHand, FormLabels, SaveLabels,
       DefaultLabels, Exists, Take, Goto, tables, InDraft, Ask, NoJob, Campaign,
       CampaignStatus
  <2> QED  BY <2>1, <2>2, <2>3, <2>4, <2>5, <2>6, <2>7, Taking DEF Labels
<1>8. ASSUME NEW k \in Campaigns, Close(r, k)
      PROVE  TypeInv'
  <2>1. TypeOK /\ Take(r, "saveLoad", Ask("close", k))
    BY <1>8 DEF TypeInv, Close, Change
  <2>2. Ask("close", k) \in Job
    BY DEF Job, Ops, NoJob, Ask
  <2>3. UNCHANGED <<tables, history, base, formBase>>
    BY <1>8 DEF Close, Change
  <2>4. \E x \in Campaign : mem' = [mem EXCEPT ![r] = x]
    <3>1. [campaigns[k] EXCEPT !.status = "CLOSED"] \in Campaign
      BY <1>8, <2>1 DEF TypeOK, Close, Exists, Campaign, CampaignStatus
    <3> QED  BY <1>8, <3>1 DEF Close, Change
  <2>5. formMem' = formMem
    BY <1>8 DEF Close, Change
  <2>6. todo' = todo
    BY <1>8 DEF Close, Change
  <2>7. InHand(r)'
    BY <1>8, <2>1, <2>3 DEF Close, Change, TypeOK, InHand, FormLabels, SaveLabels,
       DefaultLabels, Exists, Take, Goto, tables, InDraft, Ask, NoJob, Campaign,
       CampaignStatus
  <2> QED  BY <2>1, <2>2, <2>3, <2>4, <2>5, <2>6, <2>7, Taking DEF Labels
<1>9. ASSUME NEW k \in Campaigns, NEW items \in SUBSET Pairs, UpsertScopes(r, k, items)
      PROVE  TypeInv'
  <2>1. TypeOK /\ Take(r, "scope", Ask("upsertScopes", k))
    BY <1>9 DEF TypeInv, UpsertScopes, Edit
  <2>2. Ask("upsertScopes", k) \in Job
    BY DEF Job, Ops, NoJob, Ask
  <2>3. UNCHANGED <<tables, history, base, formBase>>
    BY <1>9 DEF UpsertScopes, Edit
  <2>4. mem' = mem
    BY <1>9 DEF UpsertScopes, Edit
  <2>5. formMem' = formMem
    BY <1>9 DEF UpsertScopes, Edit
  <2>6. \E x \in Todo : todo' = [todo EXCEPT ![r] = x]
    <3>1. [NoTodo EXCEPT !.scopes = items] \in Todo
      BY <1>9, <2>1 DEF NoTodo, Todo
    <3> QED  BY <1>9, <3>1 DEF UpsertScopes, Edit
  <2>7. InHand(r)'
    BY <1>9, <2>1, <2>3 DEF UpsertScopes, Edit, TypeOK, InHand, FormLabels, SaveLabels,
       DefaultLabels, Exists, Take, Goto, tables, InDraft, Ask, NoJob, NoTodo
  <2> QED  BY <2>1, <2>2, <2>3, <2>4, <2>5, <2>6, <2>7, Taking DEF Labels
<1>10. ASSUME NEW k \in Campaigns, NEW items \in SUBSET Pairs, DeleteScopes(r, k, items)
      PROVE  TypeInv'
  <2>1. TypeOK /\ Take(r, "unscope", Ask("deleteScopes", k))
    BY <1>10 DEF TypeInv, DeleteScopes, Edit
  <2>2. Ask("deleteScopes", k) \in Job
    BY DEF Job, Ops, NoJob, Ask
  <2>3. UNCHANGED <<tables, history, base, formBase>>
    BY <1>10 DEF DeleteScopes, Edit
  <2>4. mem' = mem
    BY <1>10 DEF DeleteScopes, Edit
  <2>5. formMem' = formMem
    BY <1>10 DEF DeleteScopes, Edit
  <2>6. \E x \in Todo : todo' = [todo EXCEPT ![r] = x]
    <3>1. [NoTodo EXCEPT !.scopes = items] \in Todo
      BY <1>10, <2>1 DEF NoTodo, Todo
    <3> QED  BY <1>10, <3>1 DEF DeleteScopes, Edit
  <2>7. InHand(r)'
    BY <1>10, <2>1, <2>3 DEF DeleteScopes, Edit, TypeOK, InHand, FormLabels, SaveLabels,
       DefaultLabels, Exists, Take, Goto, tables, InDraft, Ask, NoJob, NoTodo
  <2> QED  BY <2>1, <2>2, <2>3, <2>4, <2>5, <2>6, <2>7, Taking DEF Labels
<1>12. ASSUME NEW k \in Campaigns, NEW cells \in SUBSET Cells, NEW val \in Values, UpsertDefaults(r, k, cells, val)
      PROVE  TypeInv'
  <2>1. TypeOK /\ Take(r, "default", Ask("upsertDefaults", k))
    BY <1>12 DEF TypeInv, UpsertDefaults, Edit
  <2>2. Ask("upsertDefaults", k) \in Job
    BY DEF Job, Ops, NoJob, Ask
  <2>3. UNCHANGED <<tables, history, base, formBase>>
    BY <1>12 DEF UpsertDefaults, Edit
  <2>4. mem' = mem
    BY <1>12 DEF UpsertDefaults, Edit
  <2>5. formMem' = formMem
    BY <1>12 DEF UpsertDefaults, Edit
  <2>6. \E x \in Todo : todo' = [todo EXCEPT ![r] = x]
    <3>1. [NoTodo EXCEPT !.cells = cells, !.val = val] \in Todo
      BY <1>12, <2>1 DEF NoTodo, Todo
    <3> QED  BY <1>12, <3>1 DEF UpsertDefaults, Edit
  <2>7. InHand(r)'
    BY <1>12, <2>1, <2>3 DEF UpsertDefaults, Edit, TypeOK, InHand, FormLabels, SaveLabels,
       DefaultLabels, Exists, Take, Goto, tables, InDraft, Ask, NoJob, NoTodo
  <2> QED  BY <2>1, <2>2, <2>3, <2>4, <2>5, <2>6, <2>7, Taking DEF Labels
<1>13. ASSUME NEW k \in Campaigns, NEW cells \in SUBSET Cells, DeleteDefaults(r, k, cells)
      PROVE  TypeInv'
  <2>1. TypeOK /\ Take(r, "undefault", Ask("deleteDefaults", k))
    BY <1>13 DEF TypeInv, DeleteDefaults, Edit
  <2>2. Ask("deleteDefaults", k) \in Job
    BY DEF Job, Ops, NoJob, Ask
  <2>3. UNCHANGED <<tables, history, base, formBase>>
    BY <1>13 DEF DeleteDefaults, Edit
  <2>4. mem' = mem
    BY <1>13 DEF DeleteDefaults, Edit
  <2>5. formMem' = formMem
    BY <1>13 DEF DeleteDefaults, Edit
  <2>6. \E x \in Todo : todo' = [todo EXCEPT ![r] = x]
    <3>1. [NoTodo EXCEPT !.cells = cells] \in Todo
      BY <1>13, <2>1 DEF NoTodo, Todo
    <3> QED  BY <1>13, <3>1 DEF DeleteDefaults, Edit
  <2>7. InHand(r)'
    BY <1>13, <2>1, <2>3 DEF DeleteDefaults, Edit, TypeOK, InHand, FormLabels, SaveLabels,
       DefaultLabels, Exists, Take, Goto, tables, InDraft, Ask, NoJob, NoTodo
  <2> QED  BY <2>1, <2>2, <2>3, <2>4, <2>5, <2>6, <2>7, Taking DEF Labels
<1> QED  BY <1>1, <1>2, <1>3, <1>4, <1>5, <1>6, <1>7, <1>8, <1>9, <1>10, <1>12, <1>13
            DEF Arrive

\* What a request has still to do stays typed as it shrinks.
LEMMA TodoUpdates ==
  ASSUME NEW t \in Todo, NEW x \in Pairs \cup Cells \cup {NULL}, NEW o \in Values \cup {NULL},
         NEW S \in SUBSET Pairs, NEW C \in SUBSET Cells
  PROVE  /\ [t EXCEPT !.scopes = S] \in Todo
         /\ [t EXCEPT !.scopes = S, !.cur = x] \in Todo
         /\ [t EXCEPT !.cells = C] \in Todo
         /\ [t EXCEPT !.cells = C, !.cur = x, !.old = o] \in Todo
<1>1. ASSUME NEW w \in Todo
      PROVE  /\ [w EXCEPT !.scopes = S] \in Todo /\ [w EXCEPT !.cells = C] \in Todo
             /\ [w EXCEPT !.cur = x] \in Todo /\ [w EXCEPT !.old = o] \in Todo
  BY DEF Todo
<1>2. PICK w1 \in Todo : w1 = [t EXCEPT !.scopes = S]
  BY <1>1
<1>3. PICK w2 \in Todo : w2 = [t EXCEPT !.cells = C]
  BY <1>1
<1>4. PICK w3 \in Todo : w3 = [w2 EXCEPT !.cur = x]
  BY <1>1
<1>5. [t EXCEPT !.scopes = S, !.cur = x] = [w1 EXCEPT !.cur = x]
  BY <1>2 DEF Todo
<1>6. [t EXCEPT !.cells = C, !.cur = x, !.old = o] = [w3 EXCEPT !.old = o]
  BY <1>3, <1>4 DEF Todo
<1> QED  BY <1>1, <1>2, <1>3, <1>5, <1>6

\* Every statement keeps the types.
LEMMA ProceedTyped ==
  ASSUME NEW r \in Requests, TypeInv, Proceed(r)
  PROVE  TypeInv'
<1> USE DEF TypeInv
<1>0. TypeOK /\ InHand(r) /\ TablesOK /\ HistoryOK
  BY TypeParts
<1>1. CASE FormLoad(r)
  <2>1. TablesOK' /\ HistoryOK' /\ (served \in 0 .. MaxRequests)'
    BY <1>1, <1>0 DEF FormLoad, TypeOK, TablesOK, HistoryOK, tables, history
  <2>2. Only(r) /\ Shapes'
    BY <1>1, <1>0 DEF FormLoad, Goto, Only, Shapes, TypeOK, Exists, memory, tables
  <2>3. MemOK(r)'
    BY <1>1, <1>0 DEF FormLoad, Goto, TypeOK, MemOK, Labels, memory, tables, FormStatus
  <2>4. InHand(r)'
    BY <1>1, <1>0 DEF FormLoad, Goto, TypeOK, InHand, FormLabels, SaveLabels, DefaultLabels,
       Exists, memory, tables
  <2> QED  BY <2>1, <2>2, <2>3, <2>4, StepOfOne
<1>2. CASE SaveLoad(r)
  <2>1. TablesOK' /\ HistoryOK' /\ (served \in 0 .. MaxRequests)'
    BY <1>2, <1>0 DEF SaveLoad, TypeOK, TablesOK, HistoryOK, tables, history
  <2>2. Only(r) /\ Shapes'
    BY <1>2, <1>0 DEF SaveLoad, Goto, Only, Shapes, TypeOK, Exists, memory, tables
  <2>3. MemOK(r)'
    BY <1>2, <1>0 DEF SaveLoad, Goto, TypeOK, MemOK, Labels, memory, tables, InHand,
       FormLabels, SaveLabels, DefaultLabels
  <2>4. InHand(r)'
    BY <1>2, <1>0 DEF SaveLoad, Goto, TypeOK, InHand, FormLabels, SaveLabels, DefaultLabels,
       Exists, memory, tables
  <2> QED  BY <2>1, <2>2, <2>3, <2>4, StepOfOne
<1>3. CASE DefaultLoad(r)
  <2>1. TablesOK' /\ HistoryOK' /\ (served \in 0 .. MaxRequests)'
    BY <1>3, <1>0 DEF DefaultLoad, TypeOK, TablesOK, HistoryOK, tables, history
  <2>2. Only(r) /\ Shapes'
    BY <1>3, <1>0 DEF DefaultLoad, Goto, Only, Shapes, TypeOK, Exists, memory, tables
  <2>3. MemOK(r)'
    <3>1. PICK x \in Values \cup {NULL} : x = defaults[job[r].campaign][todo[r].cur]
      BY <1>3, <1>0 DEF DefaultLoad, TypeOK, CellTable, InHand, FormLabels, DefaultLabels
    <3>2. todo'[r] = [todo[r] EXCEPT !.old = x] /\ todo'[r] \in Todo
      BY <1>3, <1>0, <3>1 DEF DefaultLoad, TypeOK, Todo
    <3> QED  BY <1>3, <1>0, <3>2 DEF DefaultLoad, Goto, TypeOK, MemOK, Labels
  <2>4. InHand(r)'
    BY <1>3, <1>0 DEF DefaultLoad, Goto, TypeOK, InHand, FormLabels, SaveLabels,
       DefaultLabels, Exists, memory, tables, Todo
  <2> QED  BY <2>1, <2>2, <2>3, <2>4, StepOfOne
<1>5. CASE FormWrite(r)
  <2>1. TablesOK' /\ HistoryOK' /\ (served \in 0 .. MaxRequests)'
    BY <1>5, <1>0 DEF FormWrite, TypeOK, TablesOK, HistoryOK, InHand, FormLabels,
       SaveLabels, DefaultLabels
  <2>2. \A q \in Campaigns : Exists(q) => Exists(q)'
    BY <1>5 DEF FormWrite, Exists
  <2>3. Only(r) /\ Shapes' /\ MemOK(r)' /\ InHand(r)'
    BY <1>5, <2>2, Ending DEF FormWrite
  <2> QED  BY <2>1, <2>3, StepOfOne
<1>6. CASE SaveWrite(r)
  <2> DEFINE k == job[r].campaign
             new == Merge(campaigns[k], base[r], mem[r])
  <2>1. k \in Campaigns /\ new \in Campaign
    <3>1. k \in Campaigns /\ campaigns[k] \in Campaign /\ mem[r] \in Campaign
      BY <1>6, <1>0 DEF SaveWrite, TypeOK, Exists, InHand, FormLabels, SaveLabels, DefaultLabels
    <3> QED  BY <3>1 DEF Merge, Campaign
  <2>2. campaigns' = [campaigns EXCEPT ![k] = new]
    BY <1>6 DEF SaveWrite
  <2> HIDE DEF new
  <2>3. TablesOK' /\ HistoryOK' /\ (served \in 0 .. MaxRequests)'
    BY <1>6, <1>0, <2>1, <2>2 DEF SaveWrite, Race, TypeOK, TablesOK, HistoryOK
  <2>4. \A q \in Campaigns : Exists(q) => Exists(q)'
    BY <1>0, <2>1, <2>2, NullAssumption DEF TypeOK, Exists
  <2>5. Only(r) /\ Shapes' /\ MemOK(r)' /\ InHand(r)'
    BY <1>6, <2>4, Ending DEF SaveWrite
  <2> QED  BY <2>3, <2>5, StepOfOne
<1>7. CASE ScopeLookup(r)
  <2>1. todo[r] \in Todo /\ job[r].campaign \in Campaigns
    BY <1>7, <1>0 DEF ScopeLookup, TypeOK, InHand, FormLabels, SaveLabels, DefaultLabels
  <2>2. TablesOK' /\ HistoryOK' /\ (served \in 0 .. MaxRequests)'
    BY <1>7, <1>0 DEF ScopeLookup, TypeOK, TablesOK, HistoryOK, tables, history
  <2>3. \A q \in Campaigns : Exists(q) => Exists(q)'
    BY <1>7 DEF ScopeLookup, Exists, tables
  <2>4. CASE todo[r].scopes = {} /\ End(r)
    BY <2>2, <2>3, <2>4, Ending, StepOfOne
  <2>5. CASE ~(todo[r].scopes = {} /\ End(r))
    <3>1. PICK p \in todo[r].scopes :
            /\ todo' = [todo EXCEPT ![r].scopes = @ \ {p}, ![r].cur = p]
            /\ Goto(r, IF p \in scopes[job[r].campaign] THEN "scope" ELSE "scopeInsert")
            /\ UNCHANGED <<job, mem, base, formMem, formBase>>
      BY <1>7, <2>5 DEF ScopeLookup
    <3>2. PICK w : w = [todo[r] EXCEPT !.scopes = @ \ {p}, !.cur = p]
      OBVIOUS
    <3>3. p \in Pairs /\ w \in Todo /\ w.cur = p /\ w.val = todo[r].val
      <4>1. p \in Pairs
        BY <2>1 DEF Todo
      <4>2. w.cur = p /\ w.val = todo[r].val
        BY <2>1, <3>2 DEF Todo
      <4> QED  BY <2>1, <3>2, <4>1, <4>2, TodoUpdates DEF Todo
    <3>4. todo' = [todo EXCEPT ![r] = w] /\ pc'[r] \in {"scope", "scopeInsert"} /\ pc' = [pc EXCEPT ![r] = pc'[r]]
      BY <1>0, <3>1, <3>2 DEF TypeOK, Goto
    <3>5. Only(r) /\ Shapes'
      BY <1>0, <2>3, <3>1, <3>4 DEF Only, Shapes, TypeOK
    <3>6. MemOK(r)'
      BY <1>0, <3>1, <3>3, <3>4 DEF MemOK, TypeOK, Labels
    <3>7. InHand(r)'
      BY <1>7, <1>0, <2>1, <2>3, <3>1, <3>3, <3>4 DEF ScopeLookup, TypeOK, InHand,
         FormLabels, SaveLabels, DefaultLabels, Exists
    <3> QED  BY <2>2, <3>5, <3>6, <3>7, StepOfOne
  <2> QED  BY <2>4, <2>5
<1>8. CASE ScopeInsert(r)
  <2>1. TablesOK' /\ HistoryOK' /\ (served \in 0 .. MaxRequests)'
    BY <1>8, <1>0 DEF ScopeInsert, TypeOK, TablesOK, HistoryOK, tables, history, InHand,
       FormLabels, SaveLabels, DefaultLabels, Die
  <2>2. \A q \in Campaigns : Exists(q) => Exists(q)'
    BY <1>8, <1>0, NullAssumption DEF ScopeInsert, Exists, TypeOK, tables
  <2>3. CASE todo[r].cur \in scopes[job[r].campaign]
    <3>1. Only(r) /\ Shapes' /\ MemOK(r)' /\ InHand(r)'
      BY <1>8, <2>2, <2>3, Dying DEF ScopeInsert
    <3> QED  BY <2>1, <3>1, StepOfOne
  <2>4. CASE ~(todo[r].cur \in scopes[job[r].campaign])
    <3>1. Only(r) /\ Shapes'
      BY <1>8, <1>0, <2>2, <2>4 DEF ScopeInsert, Goto, Only, Shapes, TypeOK, memory, tables
    <3>2. MemOK(r)'
      BY <1>8, <1>0, <2>4 DEF ScopeInsert, Goto, TypeOK, MemOK, Labels, memory, tables
    <3>3. InHand(r)'
      BY <1>8, <1>0, <2>2, <2>4 DEF ScopeInsert, Goto, TypeOK, InHand, FormLabels,
         SaveLabels, DefaultLabels, memory, tables, Exists
    <3> QED  BY <2>1, <3>1, <3>2, <3>3, StepOfOne
  <2> QED  BY <2>3, <2>4
<1>9. CASE Unscope(r)
  <2>1. todo[r] \in Todo /\ job[r].campaign \in Campaigns
    BY <1>9, <1>0 DEF Unscope, TypeOK, InHand, FormLabels, SaveLabels, DefaultLabels
  <2>2. PICK p \in todo[r].scopes :
          /\ scopes' = [scopes EXCEPT ![job[r].campaign] = @ \ {p}]
          /\ IF todo[r].scopes = {p} THEN End(r)
             ELSE /\ todo' = [todo EXCEPT ![r].scopes = @ \ {p}]
                  /\ UNCHANGED <<pc, job, mem, base, formMem, formBase>>
          /\ UNCHANGED <<form, campaigns, defaults, assignments, served, history>>
    BY <1>9 DEF Unscope
  <2>3. TablesOK' /\ HistoryOK' /\ (served \in 0 .. MaxRequests)'
    BY <1>0, <2>1, <2>2, NullAssumption DEF TypeOK, TablesOK, HistoryOK, history, CellTable
  <2>4. \A q \in Campaigns : Exists(q) => Exists(q)'
    BY <2>2 DEF Exists
  <2>5. CASE todo[r].scopes = {p}
    BY <2>2, <2>3, <2>4, <2>5, Ending, StepOfOne
  <2>6. CASE todo[r].scopes # {p}
    <3>1. PICK w : w = [todo[r] EXCEPT !.scopes = @ \ {p}]
      OBVIOUS
    <3>2. w \in Todo /\ w.cur = todo[r].cur /\ w.val = todo[r].val
      BY <2>1, <3>1, TodoUpdates DEF Todo
    <3>3. /\ todo' = [todo EXCEPT ![r] = w]
          /\ UNCHANGED <<pc, job, mem, base, formMem, formBase>>
      BY <1>0, <2>2, <2>6, <3>1 DEF TypeOK
    <3>4. Only(r) /\ Shapes'
      BY <1>0, <2>4, <3>3 DEF Only, Shapes, TypeOK
    <3>5. MemOK(r)'
      BY <1>0, <3>2, <3>3 DEF MemOK, TypeOK
    <3>6. InHand(r)'
      BY <1>9, <1>0, <2>2, <3>2, <3>3 DEF Unscope, TypeOK, InHand, FormLabels, SaveLabels,
         DefaultLabels, Exists
    <3> QED  BY <2>3, <3>4, <3>5, <3>6, StepOfOne
  <2> QED  BY <2>5, <2>6
<1>11. CASE DefaultLookup(r)
  <2>1. todo[r] \in Todo /\ job[r].campaign \in Campaigns
    BY <1>11, <1>0 DEF DefaultLookup, TypeOK, InHand, FormLabels, SaveLabels, DefaultLabels
  <2>2. TablesOK' /\ HistoryOK' /\ (served \in 0 .. MaxRequests)'
    BY <1>11, <1>0 DEF DefaultLookup, TypeOK, TablesOK, HistoryOK, tables, history
  <2>3. \A q \in Campaigns : Exists(q) => Exists(q)'
    BY <1>11 DEF DefaultLookup, Exists, tables
  <2>4. CASE todo[r].cells = {} /\ End(r)
    BY <2>2, <2>3, <2>4, Ending, StepOfOne
  <2>5. CASE ~(todo[r].cells = {} /\ End(r))
    <3>1. PICK c \in todo[r].cells :
            /\ todo' = [todo EXCEPT ![r].cells = @ \ {c}, ![r].cur = c, ![r].old = defaults[job[r].campaign][c]]
            /\ Goto(r, IF defaults[job[r].campaign][c] = NULL THEN "defaultWrite" ELSE "defaultLoad")
            /\ UNCHANGED <<job, mem, base, formMem, formBase>>
      BY <1>11, <2>5 DEF DefaultLookup
    <3>2. PICK w : w = [todo[r] EXCEPT !.cells = @ \ {c}, !.cur = c, !.old = defaults[job[r].campaign][c]]
      OBVIOUS
    <3>3. c \in Cells /\ w \in Todo /\ w.cur = c /\ w.val = todo[r].val
      <4>1. c \in Cells
        BY <2>1 DEF Todo
      <4>2. w.cur = c /\ w.val = todo[r].val
        BY <2>1, <3>2 DEF Todo
      <4>3. defaults[job[r].campaign][c] \in Values \cup {NULL}
        BY <1>0, <2>1, <4>1 DEF TypeOK, CellTable
      <4> QED  BY <2>1, <3>2, <4>1, <4>2, <4>3, TodoUpdates DEF Todo
    <3>4. todo' = [todo EXCEPT ![r] = w] /\ pc'[r] \in {"defaultWrite", "defaultLoad"} /\ pc' = [pc EXCEPT ![r] = pc'[r]]
      BY <1>0, <3>1, <3>2 DEF TypeOK, Goto
    <3>5. Only(r) /\ Shapes'
      BY <1>0, <2>3, <3>1, <3>4 DEF Only, Shapes, TypeOK
    <3>6. MemOK(r)'
      BY <1>0, <3>1, <3>3, <3>4 DEF MemOK, TypeOK, Labels
    <3>7. InHand(r)'
      BY <1>11, <1>0, <2>1, <2>3, <3>1, <3>3, <3>4 DEF DefaultLookup, TypeOK, InHand,
         FormLabels, SaveLabels, DefaultLabels, Exists
    <3> QED  BY <2>2, <3>5, <3>6, <3>7, StepOfOne
  <2> QED  BY <2>4, <2>5
<1>12. CASE DefaultWrite(r)
  <2> DEFINE k == job[r].campaign
             c == todo[r].cur
             v == defaults'[k][c]
  <2>1. k \in Campaigns /\ c \in Cells /\ todo[r].val \in Values /\ Exists(k)
    BY <1>12, <1>0 DEF DefaultWrite, InHand, FormLabels, SaveLabels, DefaultLabels
  <2>2. \A q \in Campaigns : Exists(q) => Exists(q)'
    BY <1>12 DEF DefaultWrite, Exists
  <2>3. CASE todo[r].old = NULL /\ defaults[k][c] # NULL
    <3>1. Die(r) /\ UNCHANGED <<tables, served>>
      BY <1>12, <2>3 DEF DefaultWrite, tables
    <3>2. TablesOK' /\ (served \in 0 .. MaxRequests)'
      BY <1>0, <3>1 DEF TypeOK, TablesOK, tables
    <3> QED  BY <2>2, <3>1, <3>2, Dying, StepOfOne
  <2>4. CASE ~(todo[r].old = NULL /\ defaults[k][c] # NULL)
    <3>1. PICK x \in Values \cup {NULL} : defaults' = [defaults EXCEPT ![k][c] = x]
      <4>1. defaults[k][c] \in Values \cup {NULL}
        BY <1>0, <2>1 DEF TypeOK, CellTable
      <4>2. \E x \in {defaults[k][c], todo[r].val} : defaults' = [defaults EXCEPT ![k][c] = x]
        BY <1>12, <2>4 DEF DefaultWrite
      <4> QED  BY <2>1, <4>1, <4>2
    <3>2. [defaults[k] EXCEPT ![c] = x] \in CellTable
      BY <1>0, <2>1 DEF TypeOK, CellTable
    <3>3. TablesOK' /\ HistoryOK' /\ (served \in 0 .. MaxRequests)'
      BY <1>12, <1>0, <2>1, <2>4, <3>1, <3>2 DEF DefaultWrite, TypeOK, TablesOK, HistoryOK,
         history
    <3>4. Goto(r, "default") /\ UNCHANGED memory
      BY <1>12, <2>4 DEF DefaultWrite
    <3>5. Only(r) /\ Shapes' /\ MemOK(r)'
      BY <1>0, <2>2, <3>4 DEF Goto, Only, Shapes, MemOK, TypeOK, Labels, memory
    <3>6. InHand(r)'
      BY <1>12, <1>0, <2>1, <2>2, <3>4 DEF DefaultWrite, Goto, TypeOK, InHand, FormLabels,
         SaveLabels, DefaultLabels, Exists, memory
    <3> QED  BY <3>3, <3>5, <3>6, StepOfOne
  <2> QED  BY <2>3, <2>4
<1>13. CASE Undefault(r)
  <2>1. todo[r] \in Todo /\ job[r].campaign \in Campaigns
    BY <1>13, <1>0 DEF Undefault, TypeOK, InHand, FormLabels, SaveLabels, DefaultLabels
  <2>2. PICK c \in todo[r].cells :
          /\ defaults' = [defaults EXCEPT ![job[r].campaign][c] = NULL]
          /\ IF todo[r].cells = {c} THEN End(r)
             ELSE /\ todo' = [todo EXCEPT ![r].cells = @ \ {c}]
                  /\ UNCHANGED <<pc, job, mem, base, formMem, formBase>>
          /\ UNCHANGED <<form, campaigns, scopes, assignments, served, history>>
    BY <1>13 DEF Undefault
  <2>3. TablesOK' /\ HistoryOK' /\ (served \in 0 .. MaxRequests)'
    BY <1>0, <2>1, <2>2, NullAssumption DEF TypeOK, TablesOK, HistoryOK, history, CellTable
  <2>4. \A q \in Campaigns : Exists(q) => Exists(q)'
    BY <2>2 DEF Exists
  <2>5. CASE todo[r].cells = {c}
    BY <2>2, <2>3, <2>4, <2>5, Ending, StepOfOne
  <2>6. CASE todo[r].cells # {c}
    <3>1. PICK w : w = [todo[r] EXCEPT !.cells = @ \ {c}]
      OBVIOUS
    <3>2. w \in Todo /\ w.cur = todo[r].cur /\ w.val = todo[r].val
      BY <2>1, <3>1, TodoUpdates DEF Todo
    <3>3. /\ todo' = [todo EXCEPT ![r] = w]
          /\ UNCHANGED <<pc, job, mem, base, formMem, formBase>>
      BY <1>0, <2>2, <2>6, <3>1 DEF TypeOK
    <3>4. Only(r) /\ Shapes'
      BY <1>0, <2>4, <3>3 DEF Only, Shapes, TypeOK
    <3>5. MemOK(r)'
      BY <1>0, <3>2, <3>3 DEF MemOK, TypeOK
    <3>6. InHand(r)'
      BY <1>13, <1>0, <2>2, <3>2, <3>3 DEF Undefault, TypeOK, InHand, FormLabels,
         SaveLabels, DefaultLabels, Exists
    <3> QED  BY <2>3, <3>4, <3>5, <3>6, StepOfOne
  <2> QED  BY <2>5, <2>6
<1>14. CASE InsertCampaign(r)
  <2> DEFINE k == job[r].campaign
             row == [status |-> "DRAFT", deadline |-> job[r].deadline]
  <2>1. k \in Campaigns /\ row \in Campaign
    BY <1>14, <1>0 DEF InsertCampaign, Campaign, CampaignStatus, InHand, FormLabels,
       SaveLabels, DefaultLabels
  <2>2. campaigns' \in {campaigns, [campaigns EXCEPT ![k] = row]}
    BY <1>14 DEF InsertCampaign
  <2>3. campaigns'[k] # NULL /\ \A q \in Campaigns : Exists(q) => Exists(q)'
    <3>1. row # NULL
      BY <2>1, NullAssumption
    <3> HIDE DEF row
    <3>2. CASE Exists(k)
      <4>1. campaigns' = campaigns
        BY <1>14, <3>2 DEF InsertCampaign
      <4> QED  BY <3>2, <4>1 DEF Exists
    <3>3. CASE ~Exists(k)
      <4>1. campaigns' = [campaigns EXCEPT ![k] = row]
        BY <1>14, <3>3 DEF InsertCampaign, row
      <4> QED  BY <1>0, <2>1, <3>1, <4>1 DEF TypeOK, Exists
    <3> QED  BY <3>2, <3>3
  <2>4. TablesOK' /\ HistoryOK' /\ (served \in 0 .. MaxRequests)'
    <3>1. TablesOK'
      BY <1>14, <1>0, <2>1, <2>2 DEF InsertCampaign, TypeOK, TablesOK
    <3>2. HistoryOK'
      BY <1>14, <1>0, <2>1 DEF InsertCampaign, HistoryOK, history
    <3> QED  BY <1>14, <1>0, <3>1, <3>2 DEF InsertCampaign, TypeOK
  <2>5. CASE End(r)
    BY <2>3, <2>4, <2>5, Ending, StepOfOne
  <2>6. CASE ~End(r)
    <3>1. Goto(r, "copyScopes") /\ UNCHANGED memory /\ pc[r] = "insert"
      BY <1>14, <2>6 DEF InsertCampaign
    <3>2. Only(r) /\ Shapes' /\ MemOK(r)'
      BY <1>0, <2>3, <3>1 DEF Goto, Only, Shapes, MemOK, TypeOK, Labels, memory
    <3>3. InHand(r)'
      BY <1>0, <2>1, <2>3, <3>1 DEF Goto, TypeOK, InHand, FormLabels, SaveLabels,
         DefaultLabels, Exists, memory
    <3> QED  BY <2>4, <3>2, <3>3, StepOfOne
  <2> QED  BY <2>5, <2>6
<1>15. CASE CopyScopes(r)
  <2> DEFINE k == job[r].campaign
  <2>1. k \in Campaigns /\ Exists(k)
    BY <1>15, <1>0 DEF CopyScopes, InHand, FormLabels, SaveLabels, DefaultLabels
  <2>2. \A q \in Campaigns : Exists(q) => Exists(q)'
    BY <1>15 DEF CopyScopes, Exists
  <2>3. TablesOK' /\ (served \in 0 .. MaxRequests)'
    BY <1>15, <1>0, TemplateAssumption DEF CopyScopes, TypeOK, TablesOK
  <2>4. CASE TemplateScope \cap scopes[k] # {}
    <3>1. Die(r)
      BY <1>15, <2>4 DEF CopyScopes
    <3> QED  BY <2>2, <2>3, <3>1, Dying, StepOfOne
  <2>5. CASE TemplateScope \cap scopes[k] = {} /\ formMem[r] = NULL
    <3>1. End(r) /\ UNCHANGED history
      BY <1>15, <2>5 DEF CopyScopes
    <3>2. HistoryOK'
      BY <1>0, <3>1 DEF HistoryOK, history
    <3> QED  BY <2>2, <2>3, <3>1, <3>2, Ending, StepOfOne
  <2>6. CASE TemplateScope \cap scopes[k] = {} /\ formMem[r] # NULL
    <3>1. Goto(r, "formLoad") /\ UNCHANGED memory /\ UNCHANGED history
      BY <1>15, <2>6 DEF CopyScopes
    <3>2. Only(r) /\ Shapes' /\ MemOK(r)' /\ HistoryOK'
      BY <1>0, <2>2, <3>1 DEF Goto, Only, Shapes, MemOK, TypeOK, Labels, memory, HistoryOK,
         history
    <3>3. InHand(r)'
      BY <1>0, <2>1, <2>6, <3>1 DEF Goto, TypeOK, InHand, FormLabels, SaveLabels,
         DefaultLabels, Exists, memory
    <3> QED  BY <2>3, <3>2, <3>3, StepOfOne
  <2> QED  BY <2>4, <2>5, <2>6
<1> QED  BY <1>1, <1>2, <1>3, <1>5, <1>6, <1>7, <1>8, <1>9, <1>11, <1>12, <1>13, <1>14, <1>15
            DEF Proceed

\* TypeInv is inductive: arrivals, statements, crashes, dispatches and cancellations keep it.
LEMMA NextTyped == TypeInv /\ [Next]_vars => TypeInv'
<1> SUFFICES ASSUME TypeInv, [Next]_vars PROVE TypeInv'
  OBVIOUS
<1>0. TypeOK
  BY DEF TypeInv
<1>1. ASSUME NEW r \in Requests, Arrive(r) PROVE TypeInv'
  BY <1>1, ArriveTyped
<1>2. ASSUME NEW r \in Requests, Proceed(r) PROVE TypeInv'
  BY <1>2, ProceedTyped
<1>3. ASSUME NEW r \in Requests, Crash(r) PROVE TypeInv'
  <2>1. TablesOK' /\ (served \in 0 .. MaxRequests)'
    BY <1>0, <1>3 DEF Crash, TypeOK, TablesOK, tables
  <2>2. \A q \in Campaigns : Exists(q) => Exists(q)'
    BY <1>3 DEF Crash, Exists, tables
  <2> QED  BY <1>3, <2>1, <2>2, Dying, StepOfOne DEF Crash
<1>4. ASSUME NEW k \in Campaigns, Dispatch(k) PROVE TypeInv'
  <2>1. campaigns' \in [Campaigns -> Campaign \cup {NULL}]
    <3>1. [campaigns[k] EXCEPT !.status = "DISPATCHED"] \in Campaign
      BY <1>0, <1>4 DEF Dispatch, InDraft, Exists, TypeOK, Campaign, CampaignStatus
    <3> QED  BY <1>0, <1>4, <3>1 DEF Dispatch, TypeOK
  <2>2. assignments' \in [Campaigns -> [Orgs -> Assignment \cup {NULL}]]
    <3>1. [deadline |-> campaigns[k].deadline, cancelled |-> FALSE] \in Assignment
      BY <1>0, <1>4 DEF Dispatch, InDraft, Exists, TypeOK, Campaign, Assignment
    <3> QED  BY <1>0, <1>4, <3>1 DEF Dispatch, TypeOK
  <2>3. raced' \subseteq Campaigns
    BY <1>0, <1>4 DEF Dispatch, Race, TypeOK
  <2>4. TypeOK'
    BY <1>0, <1>4, <2>1, <2>2, <2>3 DEF Dispatch, TypeOK, memory
  <2>5. \A q \in Campaigns : Exists(q) => Exists(q)'
    <3>1. Exists(k)'
      <4>1. [campaigns[k] EXCEPT !.status = "DISPATCHED"] \in Campaign
        BY <1>0, <1>4 DEF Dispatch, InDraft, Exists, TypeOK, Campaign, CampaignStatus
      <4> QED  BY <1>0, <1>4, <4>1, NullAssumption DEF Dispatch, Exists, TypeOK
    <3> QED  BY <1>0, <1>4, <3>1 DEF Dispatch, Exists, TypeOK
  <2>6. ASSUME NEW r \in Requests PROVE InHand(r)'
    BY <1>4, <2>5 DEF TypeInv, Dispatch, InHand, FormLabels, memory
  <2> QED  BY <2>4, <2>6 DEF TypeInv
<1>5. ASSUME NEW k \in Campaigns, NEW o \in Orgs, CancelAssignment(k, o) PROVE TypeInv'
  <2>1. [assignments[k][o] EXCEPT !.cancelled = TRUE] \in Assignment
    <3>1. assignments[k][o] \in Assignment
      BY <1>0, <1>5 DEF CancelAssignment, Assigned, TypeOK
    <3> QED  BY <3>1 DEF Assignment
  <2>2. assignments' \in [Campaigns -> [Orgs -> Assignment \cup {NULL}]]
    BY <1>0, <1>5, <2>1 DEF CancelAssignment, TypeOK
  <2>3. TypeOK'
    BY <1>0, <1>5, <2>2 DEF CancelAssignment, TypeOK, memory, history
  <2>4. ASSUME NEW r \in Requests PROVE InHand(r)'
    BY <1>5 DEF TypeInv, CancelAssignment, InHand, FormLabels, Exists, memory
  <2> QED  BY <2>3, <2>4 DEF TypeInv
<1>6. CASE UNCHANGED vars
  <2>1. TypeOK'
    BY <1>0, <1>6 DEF vars, tables, memory, history, TypeOK
  <2>2. ASSUME NEW r \in Requests PROVE InHand(r)'
    BY <1>6 DEF TypeInv, InHand, FormLabels, Exists, vars, tables, memory
  <2> QED  BY <2>1, <2>2 DEF TypeInv
<1> QED  BY <1>1, <1>2, <1>3, <1>4, <1>5, <1>6 DEF Next

\* TypeOK, with what a request has in hand at each of its statements, always holds.
THEOREM CampaignTypes == Spec => []TypeInv
<1>1. Init => TypeInv
  BY InitTyped
<1>2. TypeInv /\ [Next]_vars => TypeInv'
  BY NextTyped
<1> QED  BY <1>1, <1>2, PTL DEF Spec

\* Every variable keeps its type, for any number of requests, campaigns and units.
THEOREM CampaignTypeCorrect == Spec => []TypeOK
<1>1. TypeInv => TypeOK
  BY DEF TypeInv
<1> QED  BY <1>1, CampaignTypes, PTL
-----------------------------------------------------------------------------
(* The campaign: whoever may still write to one, unless it raced, found it *)
(* in the state it is in.                                                  *)

HolderOK(r, k) ==
  /\ pc[r] = "saveWrite" => base[r].status = campaigns[k].status
  /\ \/ /\ campaigns[k].status = "DRAFT"
        /\ pc[r] \in SaveLabels => mem[r].status \in {"DRAFT", "CANCELLED"}
     \/ /\ campaigns[k].status = "DISPATCHED"
        /\ pc[r] \in SaveLabels
        /\ mem[r].status = "CLOSED" /\ mem[r].deadline = campaigns[k].deadline

HoldersInv ==
  \A k \in Campaigns \ raced : \A r \in Requests : Holding(r, k) => HolderOK(r, k)

DispatchInv == TypeInv /\ HoldersInv /\ AssignedAsScoped

\* A step of r leaves the memory of every other request alone.
Alone(r) ==
  \A q \in Requests \ {r} :
    pc'[q] = pc[q] /\ job'[q] = job[q] /\ mem'[q] = mem[q] /\ base'[q] = base[q]

\* A step of r writes scopes and default values only, of a campaign it has in hand.
Minor(r) ==
  /\ campaigns' = campaigns /\ assignments' = assignments /\ raced' = raced
  /\ \A k \in Campaigns :
       \/ scopes'[k] = scopes[k] /\ defaults'[k] = defaults[k]
       \/ Holding(r, k) /\ pc[r] \notin SaveLabels

\* After the step of r, whatever it still holds it may write to.
OwnOK(r) == \A k \in Campaigns \ raced : Holding(r, k)' => HolderOK(r, k)'

\* Who writes scopes or default values of a campaign that did not race found it in draft.
LEMMA WriterInDraft ==
  ASSUME HoldersInv, NEW r \in Requests, NEW k \in Campaigns \ raced,
         Holding(r, k), pc[r] \notin SaveLabels
  PROVE  campaigns[k].status = "DRAFT"
BY DEF HoldersInv, HolderOK

\* A request that goes on as a writer, or lets go, keeps within what it may write.
LEMMA GoesOn ==
  ASSUME HoldersInv, NEW r \in Requests, campaigns' = campaigns,
         \A k \in Campaigns : Holding(r, k)' =>
           Holding(r, k) /\ pc[r] \notin SaveLabels /\ pc'[r] \notin SaveLabels
  PROVE  OwnOK(r)
<1> SUFFICES ASSUME NEW k \in Campaigns \ raced, Holding(r, k)' PROVE HolderOK(r, k)'
  BY DEF OwnOK
<1>1. campaigns[k].status = "DRAFT" /\ pc'[r] \notin SaveLabels
  BY WriterInDraft
<1> QED  BY <1>1 DEF HolderOK, SaveLabels

\* A minor step keeps the invariant.
LEMMA MinorStep ==
  ASSUME DispatchInv, NEW r \in Requests, Minor(r), Alone(r), OwnOK(r)
  PROVE  HoldersInv' /\ AssignedAsScoped'
<1>1. ASSUME NEW k \in Campaigns \ raced', NEW q \in Requests, Holding(q, k)'
      PROVE  HolderOK(q, k)'
  <2>1. k \in Campaigns \ raced
    BY DEF Minor
  <2>2. CASE q = r
    BY <1>1, <2>1, <2>2 DEF OwnOK
  <2>3. CASE q # r
    <3>1. pc'[q] = pc[q] /\ job'[q] = job[q] /\ mem'[q] = mem[q] /\ base'[q] = base[q]
      BY <2>3 DEF Alone
    <3>2. HolderOK(q, k)
      BY <1>1, <2>1, <3>1 DEF DispatchInv, HoldersInv, Holding
    <3> QED  BY <3>1, <3>2 DEF HolderOK, Minor, SaveLabels
  <2> QED  BY <2>2, <2>3
<1>2. ASSUME NEW k \in Campaigns \ raced'
      PROVE  IF Status(k)' \in {"DISPATCHED", "CLOSED"}
             THEN /\ Assigned(k)' = Scoped(k)' /\ Assigned(k)' # {}
                  /\ \A o \in Assigned(k)' : assignments'[k][o].deadline = campaigns'[k].deadline
             ELSE Assigned(k)' = {}
  <2>1. k \in Campaigns \ raced
    BY DEF Minor
  <2>2. Status(k)' = Status(k) /\ Assigned(k)' = Assigned(k)
    BY DEF Minor, Status, Exists, Assigned
  <2>3. CASE scopes'[k] = scopes[k]
    <3>1. Scoped(k)' = Scoped(k)
      BY <2>3 DEF Scoped
    <3> QED  BY <2>1, <2>2, <3>1 DEF DispatchInv, AssignedAsScoped, Minor
  <2>4. CASE scopes'[k] # scopes[k]
    <3>1. campaigns[k].status = "DRAFT" /\ Status(k) \notin {"DISPATCHED", "CLOSED"}
      BY <2>1, <2>4, WriterInDraft DEF Minor, DispatchInv, Status
    <3> QED  BY <2>1, <2>2, <3>1 DEF DispatchInv, AssignedAsScoped
  <2> QED  BY <2>3, <2>4
<1>3. HoldersInv'
  BY <1>1 DEF HoldersInv
<1>4. AssignedAsScoped'
  BY <1>2 DEF AssignedAsScoped
<1> QED  BY <1>3, <1>4

\* Every arrival keeps it: a request that will write has just seen the draft, one that will
\* close the campaign has just seen it dispatched.
LEMMA ArriveKeeps ==
  ASSUME DispatchInv, NEW r \in Requests, Arrive(r)
  PROVE  Minor(r) /\ Alone(r) /\ OwnOK(r)
<1>0. TypeOK
  BY DEF DispatchInv, TypeInv
<1>1. ASSUME MarkFormReady(r) \/ ArchiveForm(r) \/ PatchForm(r)
      PROVE  Minor(r) /\ Alone(r) /\ OwnOK(r)
  <2>1. Minor(r) /\ Alone(r)
    BY <1>0, <1>1 DEF MarkFormReady, ArchiveForm, PatchForm, Take, Goto, Minor, Alone,
       TypeOK, tables, history
  <2>2. pc'[r] = "formLoad"
    BY <1>0, <1>1 DEF MarkFormReady, ArchiveForm, PatchForm, Take, Goto, TypeOK
  <2> QED  BY <2>1, <2>2 DEF OwnOK, Holding
<1>2. ASSUME NEW k \in Campaigns, NEW d \in Deadlines, Create(r, k, d) \/ CreateBatch(r, k, d)
      PROVE  Minor(r) /\ Alone(r) /\ OwnOK(r)
  <2>1. Minor(r) /\ Alone(r)
    BY <1>0, <1>2 DEF Create, CreateBatch, Take, Goto, Minor, Alone, TypeOK, tables, history
  <2>2. pc'[r] = "insert"
    BY <1>0, <1>2 DEF Create, CreateBatch, Take, Goto, TypeOK
  <2> QED  BY <2>1, <2>2 DEF OwnOK, Holding
<1>3. ASSUME NEW k \in Campaigns, Exists(k),
             NEW op, NEW c \in Campaign, Change(r, op, k, c),
             \/ campaigns[k].status = "DRAFT" /\ c.status \in {"DRAFT", "CANCELLED"}
             \/ /\ campaigns[k].status = "DISPATCHED" /\ c.status = "CLOSED"
                /\ c.deadline = campaigns[k].deadline
      PROVE  Minor(r) /\ Alone(r) /\ OwnOK(r)
  <2>1. Minor(r) /\ Alone(r)
    BY <1>0, <1>3 DEF Change, Take, Goto, Minor, Alone, TypeOK, tables, history
  <2>2. pc'[r] = "saveLoad" /\ job'[r].campaign = k /\ mem'[r] = c /\ campaigns' = campaigns
    BY <1>0, <1>3 DEF Change, Take, Goto, TypeOK, tables, Ask, NoJob
  <2> QED  BY <1>3, <2>1, <2>2 DEF OwnOK, Holding, HolderOK, SaveLabels
<1>4. ASSUME NEW k \in Campaigns, NEW d \in Deadlines, Patch(r, k, d)
      PROVE  Minor(r) /\ Alone(r) /\ OwnOK(r)
  <2>1. campaigns[k] \in Campaign
    BY <1>0, <1>4 DEF Patch, InDraft, Exists, TypeOK
  <2>2. PICK c \in Campaign : c = [campaigns[k] EXCEPT !.deadline = d]
    BY <2>1 DEF Campaign
  <2>3. c.status = "DRAFT"
    BY <1>4, <2>1, <2>2 DEF Patch, InDraft, Campaign
  <2> QED  BY <1>3, <1>4, <2>2, <2>3 DEF Patch, InDraft
<1>5. ASSUME NEW k \in Campaigns, Cancel(r, k)
      PROVE  Minor(r) /\ Alone(r) /\ OwnOK(r)
  <2>1. campaigns[k] \in Campaign
    BY <1>0, <1>5 DEF Cancel, InDraft, Exists, TypeOK
  <2>2. PICK c \in Campaign : c = [campaigns[k] EXCEPT !.status = "CANCELLED"]
    BY <2>1 DEF Campaign, CampaignStatus
  <2>3. c.status = "CANCELLED"
    BY <2>1, <2>2 DEF Campaign
  <2> QED  BY <1>3, <1>5, <2>2, <2>3 DEF Cancel, InDraft
<1>6. ASSUME NEW k \in Campaigns, Close(r, k)
      PROVE  Minor(r) /\ Alone(r) /\ OwnOK(r)
  <2>1. campaigns[k] \in Campaign
    BY <1>0, <1>6 DEF Close, Exists, TypeOK
  <2>2. PICK c \in Campaign : c = [campaigns[k] EXCEPT !.status = "CLOSED"]
    BY <2>1 DEF Campaign, CampaignStatus
  <2>3. c.status = "CLOSED" /\ c.deadline = campaigns[k].deadline
    BY <2>1, <2>2 DEF Campaign
  <2> QED  BY <1>3, <1>6, <2>2, <2>3 DEF Close
<1>7. ASSUME NEW k \in Campaigns, NEW l \in Labels \ SaveLabels, NEW op, NEW w,
             Edit(r, l, op, k, w)
      PROVE  Minor(r) /\ Alone(r) /\ OwnOK(r)
  <2>1. Minor(r) /\ Alone(r)
    BY <1>0, <1>7 DEF Edit, Take, Goto, Minor, Alone, TypeOK, tables, history
  <2>2. /\ pc'[r] = l /\ job'[r].campaign = k /\ campaigns' = campaigns
        /\ campaigns[k].status = "DRAFT"
    BY <1>0, <1>7 DEF Edit, InDraft, Take, Goto, TypeOK, tables, Ask, NoJob
  <2> QED  BY <1>7, <2>1, <2>2 DEF OwnOK, Holding, HolderOK, SaveLabels
<1>8. ASSUME NEW k \in Campaigns, NEW items \in SUBSET Pairs,
             UpsertScopes(r, k, items) \/ DeleteScopes(r, k, items)
      PROVE  Minor(r) /\ Alone(r) /\ OwnOK(r)
  <2>1. {"scope", "unscope"} \subseteq Labels \ SaveLabels
    BY DEF Labels, SaveLabels
  <2> QED  BY <1>7, <1>8, <2>1 DEF UpsertScopes, DeleteScopes
<1>9. ASSUME NEW k \in Campaigns, NEW cells \in SUBSET Cells, NEW val \in Values,
             UpsertDefaults(r, k, cells, val)
      PROVE  Minor(r) /\ Alone(r) /\ OwnOK(r)
  <2>1. "default" \in Labels \ SaveLabels
    BY DEF Labels, SaveLabels
  <2> QED  BY <1>7, <1>9, <2>1 DEF UpsertDefaults
<1>10. ASSUME NEW k \in Campaigns, NEW cells \in SUBSET Cells, DeleteDefaults(r, k, cells)
      PROVE  Minor(r) /\ Alone(r) /\ OwnOK(r)
  <2>1. "undefault" \in Labels \ SaveLabels
    BY DEF Labels, SaveLabels
  <2> QED  BY <1>7, <1>10, <2>1 DEF DeleteDefaults
<1> QED  BY <1>1, <1>2, <1>4, <1>5, <1>6, <1>8, <1>9, <1>10 DEF Arrive

\* So does every statement but the insert and the update of a campaign.
LEMMA StatementKeeps ==
  ASSUME DispatchInv, NEW r \in Requests, Proceed(r), ~InsertCampaign(r), ~SaveWrite(r)
  PROVE  Minor(r) /\ Alone(r) /\ OwnOK(r)
<1>0. TypeOK /\ HoldersInv /\ InHand(r)
  BY DEF DispatchInv, TypeInv
<1>1. CASE CopyScopes(r)
  <2>1. Minor(r)
    BY <1>0, <1>1 DEF CopyScopes, Die, End, Goto, memory, tables, history, TypeOK, Minor,
       Holding, SaveLabels
  <2>2. Alone(r)
    BY <1>0, <1>1 DEF CopyScopes, Die, End, Goto, memory, tables, history, TypeOK, Alone
  <2>3. \A k \in Campaigns : Holding(r, k)' =>
          Holding(r, k) /\ pc[r] \notin SaveLabels /\ pc'[r] \notin SaveLabels
    BY <1>0, <1>1 DEF CopyScopes, Die, End, Goto, memory, tables, history, TypeOK, Holding,
       SaveLabels
  <2> QED  BY <1>0, <2>1, <2>2, <2>3, GoesOn DEF Minor
<1>2. CASE FormLoad(r)
  <2>1. Minor(r)
    BY <1>0, <1>2 DEF FormLoad, Die, End, Goto, memory, tables, history, TypeOK, Minor,
       Holding, SaveLabels
  <2>2. Alone(r)
    BY <1>0, <1>2 DEF FormLoad, Die, End, Goto, memory, tables, history, TypeOK, Alone
  <2>3. \A k \in Campaigns : Holding(r, k)' =>
          Holding(r, k) /\ pc[r] \notin SaveLabels /\ pc'[r] \notin SaveLabels
    BY <1>0, <1>2 DEF FormLoad, Die, End, Goto, memory, tables, history, TypeOK, Holding,
       SaveLabels
  <2> QED  BY <1>0, <2>1, <2>2, <2>3, GoesOn DEF Minor
<1>3. CASE FormWrite(r)
  <2>1. Minor(r)
    BY <1>0, <1>3 DEF FormWrite, Die, End, Goto, memory, tables, history, TypeOK, Minor,
       Holding, SaveLabels
  <2>2. Alone(r)
    BY <1>0, <1>3 DEF FormWrite, Die, End, Goto, memory, tables, history, TypeOK, Alone
  <2>3. \A k \in Campaigns : Holding(r, k)' =>
          Holding(r, k) /\ pc[r] \notin SaveLabels /\ pc'[r] \notin SaveLabels
    BY <1>0, <1>3 DEF FormWrite, Die, End, Goto, memory, tables, history, TypeOK, Holding,
       SaveLabels
  <2> QED  BY <1>0, <2>1, <2>2, <2>3, GoesOn DEF Minor
<1>4. CASE SaveLoad(r)
  <2>1. Minor(r) /\ Alone(r)
    BY <1>0, <1>4 DEF SaveLoad, Die, End, Goto, memory, tables, history, TypeOK, Minor, Alone
  <2>2. /\ pc[r] = "saveLoad" /\ pc'[r] = "saveWrite" /\ job' = job /\ mem' = mem
        /\ base'[r] = campaigns[job[r].campaign] /\ campaigns' = campaigns
    BY <1>0, <1>4 DEF SaveLoad, Die, End, Goto, memory, tables, history, TypeOK
  <2>3. ASSUME NEW k \in Campaigns \ raced, Holding(r, k)' PROVE HolderOK(r, k)'
    <3>1. HolderOK(r, k) /\ job[r].campaign = k
      BY <1>0, <2>2, <2>3 DEF HoldersInv, Holding
    <3> QED  BY <2>2, <3>1 DEF HolderOK, SaveLabels
  <2> QED  BY <2>1, <2>3 DEF OwnOK
<1>5. CASE ScopeLookup(r)
  <2>1. Minor(r)
    BY <1>0, <1>5 DEF ScopeLookup, Die, End, Goto, memory, tables, history, TypeOK, Minor,
       Holding, SaveLabels
  <2>2. Alone(r)
    BY <1>0, <1>5 DEF ScopeLookup, Die, End, Goto, memory, tables, history, TypeOK, Alone
  <2>3. \A k \in Campaigns : Holding(r, k)' =>
          Holding(r, k) /\ pc[r] \notin SaveLabels /\ pc'[r] \notin SaveLabels
    BY <1>0, <1>5 DEF ScopeLookup, Die, End, Goto, memory, tables, history, TypeOK, Holding,
       SaveLabels
  <2> QED  BY <1>0, <2>1, <2>2, <2>3, GoesOn DEF Minor
<1>6. CASE ScopeInsert(r)
  <2>1. Minor(r)
    BY <1>0, <1>6 DEF ScopeInsert, Die, End, Goto, memory, tables, history, TypeOK, Minor,
       Holding, SaveLabels
  <2>2. Alone(r)
    BY <1>0, <1>6 DEF ScopeInsert, Die, End, Goto, memory, tables, history, TypeOK, Alone
  <2>3. \A k \in Campaigns : Holding(r, k)' =>
          Holding(r, k) /\ pc[r] \notin SaveLabels /\ pc'[r] \notin SaveLabels
    BY <1>0, <1>6 DEF ScopeInsert, Die, End, Goto, memory, tables, history, TypeOK, Holding,
       SaveLabels
  <2> QED  BY <1>0, <2>1, <2>2, <2>3, GoesOn DEF Minor
<1>7. CASE Unscope(r)
  <2>1. Minor(r)
    BY <1>0, <1>7 DEF Unscope, Die, End, Goto, memory, tables, history, TypeOK, Minor,
       Holding, SaveLabels
  <2>2. Alone(r)
    BY <1>0, <1>7 DEF Unscope, Die, End, Goto, memory, tables, history, TypeOK, Alone
  <2>3. \A k \in Campaigns : Holding(r, k)' =>
          Holding(r, k) /\ pc[r] \notin SaveLabels /\ pc'[r] \notin SaveLabels
    BY <1>0, <1>7 DEF Unscope, Die, End, Goto, memory, tables, history, TypeOK, Holding,
       SaveLabels
  <2> QED  BY <1>0, <2>1, <2>2, <2>3, GoesOn DEF Minor
<1>10. CASE DefaultLookup(r)
  <2>1. Minor(r)
    BY <1>0, <1>10 DEF DefaultLookup, Die, End, Goto, memory, tables, history, TypeOK,
       Minor, Holding, SaveLabels
  <2>2. Alone(r)
    BY <1>0, <1>10 DEF DefaultLookup, Die, End, Goto, memory, tables, history, TypeOK, Alone
  <2>3. \A k \in Campaigns : Holding(r, k)' =>
          Holding(r, k) /\ pc[r] \notin SaveLabels /\ pc'[r] \notin SaveLabels
    BY <1>0, <1>10 DEF DefaultLookup, Die, End, Goto, memory, tables, history, TypeOK,
       Holding, SaveLabels
  <2> QED  BY <1>0, <2>1, <2>2, <2>3, GoesOn DEF Minor
<1>11. CASE DefaultLoad(r)
  <2>1. Minor(r)
    BY <1>0, <1>11 DEF DefaultLoad, Die, End, Goto, memory, tables, history, TypeOK, Minor,
       Holding, SaveLabels
  <2>2. Alone(r)
    BY <1>0, <1>11 DEF DefaultLoad, Die, End, Goto, memory, tables, history, TypeOK, Alone
  <2>3. \A k \in Campaigns : Holding(r, k)' =>
          Holding(r, k) /\ pc[r] \notin SaveLabels /\ pc'[r] \notin SaveLabels
    BY <1>0, <1>11 DEF DefaultLoad, Die, End, Goto, memory, tables, history, TypeOK,
       Holding, SaveLabels
  <2> QED  BY <1>0, <2>1, <2>2, <2>3, GoesOn DEF Minor
<1>12. CASE DefaultWrite(r)
  <2>1. Minor(r)
    BY <1>0, <1>12 DEF DefaultWrite, Die, End, Goto, memory, tables, history, TypeOK, Minor,
       Holding, SaveLabels
  <2>2. Alone(r)
    BY <1>0, <1>12 DEF DefaultWrite, Die, End, Goto, memory, tables, history, TypeOK, Alone
  <2>3. \A k \in Campaigns : Holding(r, k)' =>
          Holding(r, k) /\ pc[r] \notin SaveLabels /\ pc'[r] \notin SaveLabels
    BY <1>0, <1>12 DEF DefaultWrite, Die, End, Goto, memory, tables, history, TypeOK,
       Holding, SaveLabels
  <2> QED  BY <1>0, <2>1, <2>2, <2>3, GoesOn DEF Minor
<1>13. CASE Undefault(r)
  <2>1. Minor(r)
    BY <1>0, <1>13 DEF Undefault, Die, End, Goto, memory, tables, history, TypeOK, Minor,
       Holding, SaveLabels
  <2>2. Alone(r)
    BY <1>0, <1>13 DEF Undefault, Die, End, Goto, memory, tables, history, TypeOK, Alone
  <2>3. \A k \in Campaigns : Holding(r, k)' =>
          Holding(r, k) /\ pc[r] \notin SaveLabels /\ pc'[r] \notin SaveLabels
    BY <1>0, <1>13 DEF Undefault, Die, End, Goto, memory, tables, history, TypeOK, Holding,
       SaveLabels
  <2> QED  BY <1>0, <2>1, <2>2, <2>3, GoesOn DEF Minor
<1> QED  BY <1>1, <1>2, <1>3, <1>4, <1>5, <1>6, <1>7, <1>10, <1>11, <1>12, <1>13
            DEF Proceed

\* The insert makes a campaign in draft, which nobody else can have in hand.
LEMMA InsertKeeps ==
  ASSUME DispatchInv, TypeInv', NEW r \in Requests, InsertCampaign(r)
  PROVE  HoldersInv' /\ AssignedAsScoped'
<1>0. TypeOK /\ HoldersInv /\ AssignedAsScoped /\ InHand(r)
  BY DEF DispatchInv, TypeInv
<1> DEFINE j == job[r].campaign
<1>1. j \in Campaigns /\ pc[r] = "insert" /\ raced' = raced
  BY <1>0 DEF InsertCampaign, InHand, FormLabels, history
<1>2. Alone(r)
  BY <1>0 DEF InsertCampaign, Alone, End, Goto, TypeOK, memory
<1>3. CASE Exists(j)
  <2>1. Minor(r)
    BY <1>0, <1>3 DEF InsertCampaign, Minor, history
  <2>2. pc'[r] = "idle"
    BY <1>0, <1>3 DEF InsertCampaign, End, Goto, TypeOK
  <2>3. OwnOK(r)
    BY <2>2 DEF OwnOK, Holding
  <2> QED  BY <1>2, <2>1, <2>3, MinorStep
<1>4. CASE ~Exists(j)
  <2>1. /\ campaigns'[j].status = "DRAFT" /\ campaigns'[j] # NULL
        /\ \A k \in Campaigns \ {j} : campaigns'[k] = campaigns[k]
    <3>1. PICK row : row = [status |-> "DRAFT", deadline |-> job[r].deadline]
      OBVIOUS
    <3>2. row \in Campaign /\ row.status = "DRAFT"
      BY <1>0, <1>1, <3>1 DEF InHand, Campaign, CampaignStatus
    <3>3. campaigns' = [campaigns EXCEPT ![j] = row]
      BY <1>4, <3>1 DEF InsertCampaign
    <3> QED  BY <1>0, <1>1, <3>2, <3>3, NullAssumption DEF TypeOK
  <2>2. scopes' = scopes /\ assignments' = assignments
    BY DEF InsertCampaign
  <2>3. ASSUME NEW k \in Campaigns \ raced', NEW q \in Requests, Holding(q, k)'
        PROVE  HolderOK(q, k)'
    <3>1. CASE q = r
      <4>1. pc'[r] \notin SaveLabels
        BY <1>0 DEF InsertCampaign, End, Goto, TypeOK, SaveLabels
      <4>2. k = j
        BY <1>0, <2>3, <3>1 DEF InsertCampaign, End, Goto, TypeOK, Holding, memory
      <4> QED  BY <2>1, <3>1, <4>1, <4>2 DEF HolderOK, SaveLabels
    <3>2. CASE q # r
      <4>1. pc'[q] = pc[q] /\ job'[q] = job[q] /\ mem'[q] = mem[q] /\ base'[q] = base[q]
        BY <1>2, <3>2 DEF Alone
      <4>2. Holding(q, k)
        BY <2>3, <4>1 DEF Holding
      <4>3. k # j
        BY <1>4, <4>2 DEF DispatchInv, TypeInv, InHand, Holding, FormLabels
      <4>4. HolderOK(q, k)
        BY <1>0, <1>1, <4>2 DEF HoldersInv
      <4> QED  BY <2>1, <4>1, <4>3, <4>4 DEF HolderOK, SaveLabels
    <3> QED  BY <3>1, <3>2
  <2>4. ASSUME NEW k \in Campaigns \ raced'
        PROVE  IF Status(k)' \in {"DISPATCHED", "CLOSED"}
               THEN /\ Assigned(k)' = Scoped(k)' /\ Assigned(k)' # {}
                    /\ \A o \in Assigned(k)' : assignments'[k][o].deadline = campaigns'[k].deadline
               ELSE Assigned(k)' = {}
    <3>1. Assigned(k)' = Assigned(k) /\ Scoped(k)' = Scoped(k)
      BY <2>2 DEF Assigned, Scoped
    <3>2. CASE k = j
      <4>1. Status(k) = "none" /\ Status(k)' = "DRAFT"
        BY <1>4, <2>1, <3>2 DEF Status, Exists
      <4> QED  BY <1>0, <1>1, <3>1, <4>1 DEF AssignedAsScoped
    <3>3. CASE k # j
      <4>1. Status(k)' = Status(k) /\ campaigns'[k] = campaigns[k]
        BY <2>1, <3>3 DEF Status, Exists
      <4> QED  BY <1>0, <1>1, <2>2, <3>1, <4>1 DEF AssignedAsScoped
    <3> QED  BY <3>2, <3>3
  <2> QED  BY <2>3, <2>4 DEF HoldersInv, AssignedAsScoped
<1> QED  BY <1>3, <1>4

\* What the update of a campaign that did not race makes of it: the same campaign, another
\* draft, or a draft cancelled or a dispatched one closed with nobody else around.
LEMMA UpdateOf ==
  ASSUME DispatchInv, NEW r \in Requests, SaveWrite(r), NEW k \in Campaigns \ raced
  PROVE  /\ Exists(k)' = Exists(k)
         /\ \/ campaigns'[k] = campaigns[k]
            \/ /\ campaigns[k].status = "DRAFT"
               /\ campaigns'[k].status \in {"DRAFT", "CANCELLED"}
            \/ /\ campaigns[k].status = "DISPATCHED" /\ campaigns'[k].status = "CLOSED"
               /\ campaigns'[k].deadline = campaigns[k].deadline
         /\ k \notin raced' /\ campaigns'[k].status # campaigns[k].status =>
              \A q \in Requests \ {r} : ~Holding(q, k)
<1>0. TypeOK /\ HoldersInv /\ InHand(r) /\ pc[r] = "saveWrite"
  BY DEF DispatchInv, TypeInv, SaveWrite
<1> DEFINE j == job[r].campaign
<1>1. /\ j \in Campaigns /\ campaigns[j] \in Campaign /\ campaigns[j] # NULL
      /\ mem[r] \in Campaign /\ base[r] \in Campaign
  BY <1>0 DEF InHand, FormLabels, SaveLabels, Exists, TypeOK
<1>2. PICK new : new = Merge(campaigns[j], base[r], mem[r])
  OBVIOUS
<1>3. /\ new \in Campaign
      /\ new.status = IF mem[r].status # base[r].status THEN mem[r].status ELSE campaigns[j].status
      /\ new.deadline = IF mem[r].deadline # base[r].deadline THEN mem[r].deadline
                        ELSE campaigns[j].deadline
  BY <1>1, <1>2 DEF Merge, Campaign
<1>4. campaigns' = [campaigns EXCEPT ![j] = new]
  BY <1>2 DEF SaveWrite
<1>5. /\ campaigns'[j] = new
      /\ \A q \in Campaigns \ {j} : campaigns'[q] = campaigns[q]
  BY <1>0, <1>1, <1>4 DEF TypeOK
<1>6. CASE k # j
  BY <1>5, <1>6 DEF Exists
<1>7. CASE k = j
  <2>1. Holding(r, k) /\ HolderOK(r, k)
    BY <1>0, <1>7 DEF HoldersInv, Holding
  <2>2. base[r].status = campaigns[k].status
    BY <1>0, <2>1 DEF HolderOK
  <2>3. Exists(k)' = Exists(k)
    BY <1>1, <1>3, <1>5, <1>7, NullAssumption DEF Exists
  <2>4. k \notin raced' /\ new.status # campaigns[k].status =>
          \A q \in Requests \ {r} : ~Holding(q, k)
    BY <1>5, <1>7 DEF SaveWrite, Race
  <2>5. CASE campaigns[k].status = "DRAFT"
    <3>1. mem[r].status \in {"DRAFT", "CANCELLED"}
      BY <1>0, <2>1, <2>5 DEF HolderOK, SaveLabels
    <3> QED  BY <1>3, <1>5, <1>7, <2>2, <2>3, <2>4, <2>5, <3>1
  <2>6. CASE campaigns[k].status = "DISPATCHED"
    <3>1. mem[r].status = "CLOSED" /\ mem[r].deadline = campaigns[k].deadline
      BY <2>1, <2>6 DEF HolderOK
    <3> QED  BY <1>3, <1>5, <1>7, <2>2, <2>3, <2>4, <2>6, <3>1
  <2> QED  BY <2>1, <2>5, <2>6 DEF HolderOK
<1> QED  BY <1>6, <1>7

\* So the update keeps the invariant.
LEMMA UpdateKeeps ==
  ASSUME DispatchInv, NEW r \in Requests, SaveWrite(r)
  PROVE  HoldersInv' /\ AssignedAsScoped'
<1>0. TypeOK /\ HoldersInv /\ AssignedAsScoped
  BY DEF DispatchInv, TypeInv
<1>1. Alone(r) /\ pc'[r] = "idle" /\ scopes' = scopes /\ assignments' = assignments
  BY <1>0 DEF SaveWrite, Alone, End, Goto, TypeOK
<1>2. ASSUME NEW k \in Campaigns \ raced', NEW q \in Requests, Holding(q, k)'
      PROVE  HolderOK(q, k)'
  <2>1. q # r
    BY <1>1, <1>2 DEF Holding
  <2>2. pc'[q] = pc[q] /\ job'[q] = job[q] /\ mem'[q] = mem[q] /\ base'[q] = base[q]
    BY <1>1, <2>1 DEF Alone
  <2>3. k \notin raced /\ Holding(q, k) /\ HolderOK(q, k)
    BY <1>0, <1>2, <2>2 DEF SaveWrite, Race, Holding, HoldersInv
  <2>4. /\ campaigns'[k].status = campaigns[k].status
        /\ campaigns'[k] = campaigns[k] \/ campaigns[k].status = "DRAFT"
    BY <1>2, <2>1, <2>3, UpdateOf
  <2> QED  BY <2>2, <2>3, <2>4 DEF HolderOK, SaveLabels
<1>3. ASSUME NEW k \in Campaigns \ raced'
      PROVE  IF Status(k)' \in {"DISPATCHED", "CLOSED"}
             THEN /\ Assigned(k)' = Scoped(k)' /\ Assigned(k)' # {}
                  /\ \A o \in Assigned(k)' : assignments'[k][o].deadline = campaigns'[k].deadline
             ELSE Assigned(k)' = {}
  <2>1. Assigned(k)' = Assigned(k) /\ Scoped(k)' = Scoped(k) /\ k \notin raced
    BY <1>1 DEF SaveWrite, Race, Assigned, Scoped
  <2>2. CASE campaigns'[k] = campaigns[k]
    <3>1. Status(k)' = Status(k)
      BY <2>2 DEF Status, Exists
    <3> QED  BY <1>0, <1>1, <2>1, <2>2, <3>1 DEF AssignedAsScoped
  <2>3. CASE campaigns'[k] # campaigns[k]
    <3>1. k \notin raced /\ Exists(k)' = Exists(k)
      BY <2>1, UpdateOf
    <3>2. CASE /\ campaigns[k].status = "DRAFT"
               /\ campaigns'[k].status \in {"DRAFT", "CANCELLED"}
      <4>1. Status(k) \in {"none", "DRAFT"} /\ Status(k)' \in {"none", "DRAFT", "CANCELLED"}
        BY <3>2 DEF Status
      <4> QED  BY <1>0, <2>1, <3>1, <4>1 DEF AssignedAsScoped
    <3>3. CASE /\ campaigns[k].status = "DISPATCHED" /\ campaigns'[k].status = "CLOSED"
               /\ campaigns'[k].deadline = campaigns[k].deadline
      <4>1. CASE Exists(k)
        <5>1. Status(k) = "DISPATCHED" /\ Status(k)' = "CLOSED"
          BY <3>1, <3>3, <4>1 DEF Status
        <5> QED  BY <1>0, <1>1, <2>1, <3>1, <3>3, <5>1 DEF AssignedAsScoped
      <4>2. CASE ~Exists(k)
        <5>1. Status(k) = "none" /\ Status(k)' = "none"
          BY <3>1, <4>2 DEF Status
        <5> QED  BY <1>0, <2>1, <3>1, <5>1 DEF AssignedAsScoped
      <4> QED  BY <4>1, <4>2
    <3> QED  BY <2>1, <2>3, <3>2, <3>3, UpdateOf
  <2> QED  BY <2>2, <2>3
<1> QED  BY <1>2, <1>3 DEF HoldersInv, AssignedAsScoped

\* The dispatch gives an assignment to exactly the units in the scope.
LEMMA DispatchKeeps ==
  ASSUME DispatchInv, NEW j \in Campaigns, Dispatch(j)
  PROVE  HoldersInv' /\ AssignedAsScoped'
<1>0. TypeOK /\ HoldersInv /\ AssignedAsScoped
  BY DEF DispatchInv, TypeInv
<1>1. /\ campaigns[j] \in Campaign /\ campaigns[j].status = "DRAFT" /\ Status(j) = "DRAFT"
  BY <1>0 DEF Dispatch, InDraft, Exists, Status, TypeOK
<1>2. PICK new : new = [campaigns[j] EXCEPT !.status = "DISPATCHED"]
  OBVIOUS
<1>3. new \in Campaign /\ new.status = "DISPATCHED" /\ new.deadline = campaigns[j].deadline
  BY <1>1, <1>2 DEF Campaign, CampaignStatus
<1>4. campaigns'[j] = new /\ \A k \in Campaigns \ {j} : campaigns'[k] = campaigns[k]
  BY <1>0, <1>2 DEF Dispatch, TypeOK
<1>5. /\ scopes' = scopes /\ pc' = pc /\ job' = job /\ mem' = mem /\ base' = base
      /\ \A k \in Campaigns \ {j} : assignments'[k] = assignments[k]
  BY <1>0 DEF Dispatch, memory, TypeOK
<1>6. raced \subseteq raced' /\ (j \notin raced' => \A q \in Requests : ~Holding(q, j))
  BY <1>1, <1>3, <1>4 DEF Dispatch, Race
<1>7. ASSUME NEW k \in Campaigns \ raced', NEW q \in Requests, Holding(q, k)'
      PROVE  HolderOK(q, k)'
  <2>1. Holding(q, k)
    BY <1>5, <1>7 DEF Holding
  <2>2. k # j
    BY <1>6, <1>7, <2>1
  <2>3. HolderOK(q, k)
    BY <1>0, <1>6, <2>1 DEF HoldersInv
  <2> QED  BY <1>4, <1>5, <2>2, <2>3 DEF HolderOK, SaveLabels
<1>8. ASSUME NEW k \in Campaigns \ raced'
      PROVE  IF Status(k)' \in {"DISPATCHED", "CLOSED"}
             THEN /\ Assigned(k)' = Scoped(k)' /\ Assigned(k)' # {}
                  /\ \A o \in Assigned(k)' : assignments'[k][o].deadline = campaigns'[k].deadline
             ELSE Assigned(k)' = {}
  <2>1. Scoped(k)' = Scoped(k) /\ k \notin raced
    BY <1>5, <1>6 DEF Scoped
  <2>2. CASE k = j
    <3>1. Status(k)' = "DISPATCHED"
      BY <1>3, <1>4, <2>2, NullAssumption DEF Status, Exists
    <3>2. Assigned(k) = {}
      BY <1>0, <1>1, <2>1, <2>2 DEF AssignedAsScoped
    <3>3. Scoped(k) \subseteq Orgs /\ Scoped(k) # {}
      <4>1. scopes[k] \subseteq Pairs /\ scopes[k] # {}
        BY <1>0, <2>2 DEF Dispatch, TypeOK
      <4> QED  BY <4>1 DEF Scoped, Pairs
    <3>4. PICK new_a : new_a = [deadline |-> campaigns[j].deadline, cancelled |-> FALSE]
      OBVIOUS
    <3>5. new_a \in Assignment /\ new_a # NULL /\ new_a.deadline = campaigns[j].deadline
      <4>1. campaigns[j].deadline \in Deadlines
        BY <1>1 DEF Campaign
      <4>2. new_a \in Assignment
        BY <3>4, <4>1 DEF Assignment
      <4> QED  BY <3>4, <4>2, NullAssumption
    <3>6. \A o \in Orgs : assignments'[j][o] = IF o \in Scoped(j) THEN new_a ELSE NULL
      BY <1>0, <2>2, <3>2, <3>4 DEF Dispatch, Assigned, TypeOK
    <3>7. Assigned(k)' = Scoped(k)
      BY <2>2, <3>3, <3>5, <3>6 DEF Assigned
    <3> QED  BY <1>3, <1>4, <2>1, <2>2, <3>1, <3>3, <3>5, <3>6, <3>7
  <2>3. CASE k # j
    <3>1. Status(k)' = Status(k) /\ Assigned(k)' = Assigned(k)
      BY <1>4, <1>5, <2>3 DEF Status, Exists, Assigned
    <3> QED  BY <1>0, <1>4, <1>5, <2>1, <2>3, <3>1 DEF AssignedAsScoped
  <2> QED  BY <2>2, <2>3
<1> QED  BY <1>7, <1>8 DEF HoldersInv, AssignedAsScoped

\* Cancelling an assignment leaves it in place, with its deadline.
LEMMA CancelKeeps ==
  ASSUME DispatchInv, NEW j \in Campaigns, NEW u \in Orgs, CancelAssignment(j, u)
  PROVE  HoldersInv' /\ AssignedAsScoped'
<1>0. TypeOK /\ HoldersInv /\ AssignedAsScoped
  BY DEF DispatchInv, TypeInv
<1>1. /\ campaigns' = campaigns /\ scopes' = scopes /\ raced' = raced
      /\ pc' = pc /\ job' = job /\ mem' = mem /\ base' = base
  BY DEF CancelAssignment, memory, history
<1>2. HoldersInv'
  BY <1>0, <1>1 DEF HoldersInv, HolderOK, Holding, SaveLabels
<1>3. assignments[j][u] \in Assignment
  BY <1>0 DEF CancelAssignment, Assigned, TypeOK
<1>4. PICK new : new = [assignments[j][u] EXCEPT !.cancelled = TRUE]
  OBVIOUS
<1>5. new \in Assignment /\ new # NULL /\ new.deadline = assignments[j][u].deadline
  BY <1>3, <1>4, NullAssumption DEF Assignment
<1>6. assignments' = [assignments EXCEPT ![j] = [assignments[j] EXCEPT ![u] = new]]
  BY <1>0, <1>4 DEF CancelAssignment, TypeOK
<1>7. \A k \in Campaigns, o \in Orgs :
        /\ assignments'[k][o] # NULL <=> assignments[k][o] # NULL
        /\ assignments[k][o] # NULL => assignments'[k][o].deadline = assignments[k][o].deadline
  BY <1>0, <1>3, <1>5, <1>6, NullAssumption DEF TypeOK
<1>8. \A k \in Campaigns : /\ Assigned(k)' = Assigned(k) /\ Scoped(k)' = Scoped(k)
                           /\ Status(k)' = Status(k)
  BY <1>1, <1>7 DEF Assigned, Scoped, Status, Exists
<1>9. AssignedAsScoped'
  BY <1>0, <1>1, <1>7, <1>8 DEF AssignedAsScoped, Assigned
<1> QED  BY <1>2, <1>9

\* A crash only takes a request away.
LEMMA CrashKeeps ==
  ASSUME DispatchInv, NEW r \in Requests, Crash(r)
  PROVE  Minor(r) /\ Alone(r) /\ OwnOK(r)
<1>0. TypeOK
  BY DEF DispatchInv, TypeInv
<1>1. Minor(r) /\ Alone(r) /\ pc'[r] = "idle"
  BY <1>0 DEF Crash, Die, End, Goto, TypeOK, tables, Minor, Alone
<1> QED  BY <1>1 DEF OwnOK, Holding

\* DispatchInv is inductive, and holds initially.
LEMMA DispatchInvInductive ==
  /\ Init => DispatchInv
  /\ DispatchInv /\ [Next]_vars => DispatchInv'
<1>1. ASSUME Init PROVE DispatchInv
  <2>1. HoldersInv
    BY <1>1 DEF Init, HoldersInv, Holding
  <2>2. AssignedAsScoped
    BY <1>1 DEF Init, AssignedAsScoped, Status, Exists, Assigned
  <2> QED  BY <1>1, <2>1, <2>2, InitTyped DEF DispatchInv
<1>2. ASSUME DispatchInv, [Next]_vars PROVE DispatchInv'
  <2>1. TypeInv'
    BY <1>2, NextTyped DEF DispatchInv
  <2>2. ASSUME NEW r \in Requests, Arrive(r) PROVE HoldersInv' /\ AssignedAsScoped'
    BY <1>2, <2>2, ArriveKeeps, MinorStep
  <2>3. ASSUME NEW r \in Requests, Proceed(r) PROVE HoldersInv' /\ AssignedAsScoped'
    BY <1>2, <2>1, <2>3, StatementKeeps, MinorStep, InsertKeeps, UpdateKeeps
  <2>4. ASSUME NEW r \in Requests, Crash(r) PROVE HoldersInv' /\ AssignedAsScoped'
    BY <1>2, <2>4, CrashKeeps, MinorStep
  <2>5. ASSUME NEW k \in Campaigns, Dispatch(k) PROVE HoldersInv' /\ AssignedAsScoped'
    BY <1>2, <2>5, DispatchKeeps
  <2>6. ASSUME NEW k \in Campaigns, NEW o \in Orgs, CancelAssignment(k, o)
        PROVE  HoldersInv' /\ AssignedAsScoped'
    BY <1>2, <2>6, CancelKeeps
  <2>7. ASSUME UNCHANGED vars PROVE HoldersInv' /\ AssignedAsScoped'
    <3>1. HoldersInv'
      BY <1>2, <2>7 DEF vars, tables, memory, history, DispatchInv, HoldersInv, HolderOK,
         Holding,
                        SaveLabels
    <3>2. AssignedAsScoped'
      BY <1>2, <2>7 DEF vars, tables, history, DispatchInv, AssignedAsScoped, Assigned, Scoped,
                        Status, Exists
    <3> QED  BY <3>1, <3>2
  <2>8. HoldersInv' /\ AssignedAsScoped'
    <3>1. CASE Next
      BY <2>2, <2>3, <2>4, <2>5, <2>6, <3>1 DEF Next
    <3> QED  BY <1>2, <2>7, <3>1
  <2> QED  BY <2>1, <2>8 DEF DispatchInv
<1> QED  BY <1>1, <1>2

\* The inductive invariant: whoever may still write to a campaign that did not race found it
\* in the state it is in.
THEOREM CampaignInvariant == Spec => []DispatchInv
BY DispatchInvInductive, PTL DEF Spec

\* What a dispatch gave out is what the campaign shows, for any number of requests, units
\* and campaigns, in any interleaving in which no request was let in before the dispatch
\* and wrote after it.
THEOREM DispatchGivesOut == Spec => []AssignedAsScoped
<1>1. DispatchInv => AssignedAsScoped
  BY DEF DispatchInv
<1> QED  BY <1>1, CampaignInvariant, PTL

\* No step takes back what a dispatch gave out.
LEMMA StepIsFinal ==
  ASSUME DispatchInv, [Next]_vars, NEW k \in Campaigns \ raced,
         Status(k) \in {"DISPATCHED", "CLOSED", "CANCELLED"}
  PROVE  /\ scopes'[k] = scopes[k] /\ defaults'[k] = defaults[k]
         /\ campaigns'[k].deadline = campaigns[k].deadline
         /\ \/ campaigns'[k].status = campaigns[k].status
            \/ campaigns[k].status = "DISPATCHED" /\ campaigns'[k].status = "CLOSED"
<1>0. TypeOK /\ HoldersInv /\ \A r \in Requests : InHand(r)
  BY DEF DispatchInv, TypeInv
<1>1. Exists(k) /\ campaigns[k].status \in {"DISPATCHED", "CLOSED", "CANCELLED"}
  BY DEF Status
<1>2. ASSUME NEW r \in Requests, Minor(r)
      PROVE  scopes'[k] = scopes[k] /\ defaults'[k] = defaults[k] /\ campaigns' = campaigns
  BY <1>0, <1>1, <1>2, WriterInDraft DEF Minor
<1>3. ASSUME NEW r \in Requests, Arrive(r) \/ Crash(r)
      PROVE  scopes'[k] = scopes[k] /\ defaults'[k] = defaults[k] /\ campaigns' = campaigns
  BY <1>2, <1>3, ArriveKeeps, CrashKeeps
<1>4. ASSUME NEW r \in Requests, InsertCampaign(r)
      PROVE  /\ scopes'[k] = scopes[k] /\ defaults'[k] = defaults[k]
             /\ campaigns'[k] = campaigns[k]
  BY <1>0, <1>1, <1>4 DEF InsertCampaign, Exists, TypeOK
<1>5. ASSUME NEW r \in Requests, SaveWrite(r)
      PROVE  /\ scopes'[k] = scopes[k] /\ defaults'[k] = defaults[k]
             /\ campaigns'[k].deadline = campaigns[k].deadline
             /\ \/ campaigns'[k].status = campaigns[k].status
                \/ campaigns[k].status = "DISPATCHED" /\ campaigns'[k].status = "CLOSED"
  BY <1>1, <1>5, UpdateOf DEF SaveWrite
<1>6. ASSUME NEW r \in Requests, Proceed(r), ~InsertCampaign(r), ~SaveWrite(r)
      PROVE  scopes'[k] = scopes[k] /\ defaults'[k] = defaults[k] /\ campaigns' = campaigns
  BY <1>2, <1>6, StatementKeeps
<1>7. ASSUME NEW j \in Campaigns, Dispatch(j)
      PROVE  /\ scopes'[k] = scopes[k] /\ defaults'[k] = defaults[k]
             /\ campaigns'[k] = campaigns[k]
  BY <1>0, <1>1, <1>7 DEF Dispatch, InDraft, TypeOK
<1>8. ASSUME NEW j \in Campaigns, NEW o \in Orgs, CancelAssignment(j, o)
      PROVE  scopes'[k] = scopes[k] /\ defaults'[k] = defaults[k] /\ campaigns' = campaigns
  BY <1>8 DEF CancelAssignment
<1>9. CASE UNCHANGED vars
  BY <1>9 DEF vars, tables
<1>10. CASE Next
  BY <1>3, <1>4, <1>5, <1>6, <1>7, <1>8, <1>10 DEF Next
<1> QED  BY <1>9, <1>10

\* A dispatch is final, for any number of requests and campaigns: scope, default values and
\* deadline stand, and a dispatched campaign can only be closed, unless a request was let in
\* before the status moved and wrote after it.
THEOREM DispatchStands == Spec => DispatchIsFinal
<1>1. DispatchInv /\ [Next]_vars =>
        [\A k \in Campaigns \ raced :
           Status(k) \in {"DISPATCHED", "CLOSED", "CANCELLED"} =>
             /\ scopes'[k] = scopes[k] /\ defaults'[k] = defaults[k]
             /\ campaigns'[k].deadline = campaigns[k].deadline
             /\ \/ campaigns'[k].status = campaigns[k].status
                \/ campaigns[k].status = "DISPATCHED" /\ campaigns'[k].status = "CLOSED"]_vars
  BY StepIsFinal
<1> QED  BY <1>1, CampaignInvariant, PTL DEF Spec, DispatchIsFinal

\* No step touches an assignment but to cancel it: a dispatch passes over the units that
\* have one.
LEMMA StepKeepsAssignments ==
  ASSUME TypeInv, [Next]_vars, NEW k \in Campaigns, NEW o \in Orgs, assignments[k][o] # NULL
  PROVE  /\ assignments'[k][o] # NULL
         /\ assignments'[k][o].deadline = assignments[k][o].deadline
         /\ assignments[k][o].cancelled => assignments'[k][o].cancelled
<1>0. TypeOK /\ assignments[k][o] \in Assignment
  BY DEF TypeInv, TypeOK
<1>1. ASSUME NEW r \in Requests, Arrive(r)
      PROVE  assignments' = assignments
  BY <1>1 DEF Arrive, MarkFormReady, ArchiveForm, PatchForm, Create, CreateBatch, Patch, Cancel,
              Close, Change, UpsertScopes, DeleteScopes, UpsertDefaults,
              DeleteDefaults, Edit, tables
<1>2. ASSUME NEW r \in Requests, Proceed(r) \/ Crash(r)
      PROVE  assignments' = assignments
  BY <1>2 DEF Proceed, InsertCampaign, CopyScopes, FormLoad, FormWrite, SaveLoad, SaveWrite,
              ScopeLookup, ScopeInsert, Unscope, DefaultLookup,
              DefaultLoad, DefaultWrite, Undefault, Crash, tables
<1>3. ASSUME NEW j \in Campaigns, Dispatch(j)
      PROVE  assignments'[k][o] = assignments[k][o]
  BY <1>0, <1>3 DEF Dispatch, Assigned, TypeOK
<1>4. ASSUME NEW j \in Campaigns, NEW u \in Orgs, CancelAssignment(j, u)
      PROVE  \/ assignments'[k][o] = assignments[k][o]
             \/ assignments'[k][o] = [assignments[k][o] EXCEPT !.cancelled = TRUE]
  BY <1>0, <1>4 DEF CancelAssignment, TypeOK
<1>5. CASE UNCHANGED vars
  BY <1>5 DEF vars, tables
<1>6. CASE Next
  <2>1. \/ assignments'[k][o] = assignments[k][o]
        \/ assignments'[k][o] = [assignments[k][o] EXCEPT !.cancelled = TRUE]
    BY <1>1, <1>2, <1>3, <1>4, <1>6 DEF Next
  <2>2. PICK new : new = [assignments[k][o] EXCEPT !.cancelled = TRUE]
    OBVIOUS
  <2>3. new \in Assignment /\ new.deadline = assignments[k][o].deadline /\ new.cancelled
    BY <1>0, <2>2 DEF Assignment
  <2>4. new # NULL
    BY <2>3, NullAssumption
  <2> QED  BY <2>1, <2>2, <2>3, <2>4
<1> QED  BY <1>5, <1>6

\* Whatever the requests do, an assignment stays, keeps its deadline, and once cancelled
\* stays cancelled.
THEOREM AssignmentsStay == Spec => AssignmentsEndure
<1>1. TypeInv /\ [Next]_vars =>
        [\A k \in Campaigns, o \in Orgs :
           assignments[k][o] # NULL =>
             /\ assignments'[k][o] # NULL
             /\ assignments'[k][o].deadline = assignments[k][o].deadline
             /\ assignments[k][o].cancelled => assignments'[k][o].cancelled]_vars
  BY StepKeepsAssignments
<1> QED  BY <1>1, CampaignTypes, PTL DEF Spec, AssignmentsEndure

-----------------------------------------------------------------------------
(* The template: what a request is about to write is never behind what is  *)
(* there, while no status moved under another one's feet.                  *)

FormOK(r) ==
  /\ formMem[r] # NULL => Rank[form] <= Rank[formMem[r]]
  /\ pc[r] = "formWrite" => formBase[r] # NULL /\ Rank[formBase[r]] <= Rank[form]
  /\ job[r].op = "create" => \/ formMem[r] = "IN_USE"
                             \/ formMem[r] = NULL /\ form \in {"IN_USE", "ARCHIVED"}

Finishing(r, k) ==
  job[r].campaign = k /\ job[r].op = "create" /\ pc[r] \in {"copyScopes"} \cup FormLabels

FormInv ==
  ~formRaced =>
    /\ \A r \in Requests : FormOK(r)
    /\ \A k \in made \ died :
         form \in {"IN_USE", "ARCHIVED"} \/ \E r \in Requests : Finishing(r, k)

\* How the states of a template follow each other.
LEMMA Ranks ==
  /\ \A f \in FormStatus : Rank[f] \in 1 .. 4
  /\ \A f, g \in FormStatus :
       f \in {"IN_USE", "ARCHIVED"} /\ Rank[f] <= Rank[g] => g \in {"IN_USE", "ARCHIVED"}
  /\ Rank["DRAFT"] = 1 /\ Rank["READY"] = 2 /\ Rank["IN_USE"] = 3 /\ Rank["ARCHIVED"] = 4
<1>1. Rank["DRAFT"] = 1 /\ Rank["READY"] = 2 /\ Rank["IN_USE"] = 3 /\ Rank["ARCHIVED"] = 4
  BY DEF Rank
<1> QED  BY <1>1 DEF FormStatus

\* A step of r that leaves the template alone.
Aside(r) ==
  /\ form' = form /\ formRaced' = formRaced /\ died \subseteq died'
  /\ \A k \in made' : k \in made \/ Finishing(r, k)'
  /\ \A q \in Requests \ {r} :
       /\ pc'[q] = pc[q] /\ job'[q] = job[q]
       /\ formMem'[q] = formMem[q] /\ formBase'[q] = formBase[q]

\* Such a step keeps the invariant, if r keeps to it and finishes what it had begun.
LEMMA AsideKeeps ==
  ASSUME FormInv, NEW r \in Requests, Aside(r),
         ~formRaced => /\ FormOK(r)'
                       /\ \A k \in made : Finishing(r, k) =>
                            Finishing(r, k)' \/ k \in died' \/ form \in {"IN_USE", "ARCHIVED"}
  PROVE  FormInv'
<1> SUFFICES ASSUME ~formRaced'
             PROVE  /\ \A q \in Requests : FormOK(q)'
                    /\ \A k \in made' \ died' :
                         form' \in {"IN_USE", "ARCHIVED"} \/ \E q \in Requests : Finishing(q, k)'
  BY DEF FormInv
<1>1. ~formRaced
  BY DEF Aside
<1>2. ASSUME NEW q \in Requests PROVE FormOK(q)'
  BY <1>1 DEF FormInv, Aside, FormOK
<1>3. ASSUME NEW k \in made' \ died', form' \notin {"IN_USE", "ARCHIVED"}
      PROVE  \E q \in Requests : Finishing(q, k)'
  <2>1. CASE k \notin made
    BY <1>3, <2>1 DEF Aside
  <2>2. CASE k \in made
    <3>1. PICK q \in Requests : Finishing(q, k)
      BY <1>1, <1>3, <2>2 DEF FormInv, Aside
    <3>2. Finishing(q, k)'
      BY <1>1, <1>3, <2>2, <3>1 DEF Aside, Finishing
    <3> QED  BY <3>2
  <2> QED  BY <2>1, <2>2
<1> QED  BY <1>2, <1>3

\* A request that is over holds nothing of the template.
LEMMA OverIsFormOK ==
  ASSUME TypeOK, NEW r \in Requests, End(r)
  PROVE  FormOK(r)'
<1>1. pc'[r] = "idle" /\ formMem'[r] = NULL /\ job'[r].op = "none"
  BY DEF End, Goto, TypeOK, NoJob
<1> QED  BY <1>1 DEF FormOK

\* A request that is taken leaves the template alone, and starts within the invariant.
LEMMA ArriveAside ==
  ASSUME TypeInv, FormInv, NEW r \in Requests, Arrive(r)
  PROVE  FormInv'
<1>0. TypeOK
  BY DEF TypeInv
<1>1. ASSUME NEW l \in Labels \ {"formWrite"}, NEW j \in Job, Take(r, l, j),
             UNCHANGED <<tables, history, formBase>>,
             formMem' = [formMem EXCEPT ![r] = formMem'[r]],
             formMem'[r] # NULL => Rank[form] <= Rank[formMem'[r]],
             j.op = "create" => \/ formMem'[r] = "IN_USE"
                                \/ formMem'[r] = NULL /\ form \in {"IN_USE", "ARCHIVED"}
      PROVE  FormInv'
  <2>1. pc[r] = "idle" /\ pc'[r] = l /\ job'[r] = j
    BY <1>0, <1>1 DEF Take, Goto, TypeOK
  <2>2. Aside(r)
    BY <1>0, <1>1 DEF Take, Goto, TypeOK, Aside, tables, history
  <2>3. FormOK(r)'
    BY <1>1, <2>1 DEF FormOK, tables
  <2>4. \A k : ~Finishing(r, k)
    BY <2>1 DEF Finishing, FormLabels
  <2> QED  BY <2>2, <2>3, <2>4, AsideKeeps
<1>2. \A l \in {"formLoad", "insert", "saveLoad", "scope", "unscope", "default", "undefault"} :
        l \in Labels \ {"formWrite"}
  BY DEF Labels
<1>3. CASE MarkFormReady(r)
  <2>1. [NoJob EXCEPT !.op = "markFormReady"] \in Job /\ [NoJob EXCEPT !.op = "markFormReady"].op # "create"
    BY DEF NoJob, Job, Ops
  <2>2. formMem'[r] = "READY" /\ formMem' = [formMem EXCEPT ![r] = formMem'[r]]
    BY <1>0, <1>3 DEF MarkFormReady, TypeOK
  <2>3. Rank[form] <= Rank["READY"]
    BY <1>3, Ranks DEF MarkFormReady
  <2> QED  BY <1>1, <1>2, <1>3, <2>1, <2>2, <2>3 DEF MarkFormReady
<1>4. CASE ArchiveForm(r)
  <2>1. [NoJob EXCEPT !.op = "archiveForm"] \in Job /\ [NoJob EXCEPT !.op = "archiveForm"].op # "create"
    BY DEF NoJob, Job, Ops
  <2>2. formMem'[r] = "ARCHIVED" /\ formMem' = [formMem EXCEPT ![r] = formMem'[r]]
    BY <1>0, <1>4 DEF ArchiveForm, TypeOK
  <2>3. Rank[form] <= Rank["ARCHIVED"]
    BY <1>4, Ranks DEF ArchiveForm
  <2> QED  BY <1>1, <1>2, <1>4, <2>1, <2>2, <2>3 DEF ArchiveForm
<1>5. CASE PatchForm(r)
  <2>1. [NoJob EXCEPT !.op = "patchForm"] \in Job /\ [NoJob EXCEPT !.op = "patchForm"].op # "create"
    BY DEF NoJob, Job, Ops
  <2>2. Rank[form] <= Rank[form]
    BY <1>0, Ranks DEF TypeOK
  <2> QED  BY <1>0, <1>1, <1>2, <1>5, <2>1, <2>2 DEF PatchForm, TypeOK
<1>6. ASSUME NEW k \in Campaigns, NEW d \in Deadlines, Create(r, k, d) PROVE FormInv'
  <2>1. [op |-> "create", campaign |-> k, deadline |-> d] \in Job
    BY DEF Job, Ops
  <2>2. formMem'[r] = IF form = "READY" THEN "IN_USE" ELSE NULL
    BY <1>0, <1>6 DEF Create, TypeOK
  <2>3. "IN_USE" # NULL
    BY NullAssumption DEF FormStatus
  <2> QED  BY <1>0, <1>1, <1>2, <1>6, <2>1, <2>2, <2>3, Ranks DEF Create, TypeOK
<1>7. ASSUME NEW l \in Labels \ {"formWrite"}, NEW j \in Job, j.op # "create", Take(r, l, j),
             UNCHANGED <<tables, history, formMem, formBase>>
      PROVE  FormInv'
  <2>1. pc[r] = "idle" /\ pc'[r] = l /\ job'[r] = j
    BY <1>0, <1>7 DEF Take, Goto, TypeOK
  <2>2. Aside(r)
    BY <1>0, <1>7 DEF Take, Goto, TypeOK, Aside, tables, history
  <2>3. ~formRaced => FormOK(r)'
    BY <1>7, <2>1 DEF FormOK, FormInv, tables
  <2>4. \A k : ~Finishing(r, k)
    BY <2>1 DEF Finishing, FormLabels
  <2> QED  BY <2>2, <2>3, <2>4, AsideKeeps
<1>8. ASSUME NEW k \in Campaigns, NEW d \in Deadlines, CreateBatch(r, k, d) PROVE FormInv'
  <2>1. /\ [op |-> "createBatch", campaign |-> k, deadline |-> d] \in Job
        /\ [op |-> "createBatch", campaign |-> k, deadline |-> d].op # "create"
    BY DEF Job, Ops
  <2> QED  BY <1>2, <1>7, <1>8, <2>1 DEF CreateBatch
<1>9. ASSUME NEW k \in Campaigns, NEW op \in Ops \ {"create"}
      PROVE  Ask(op, k) \in Job /\ Ask(op, k).op # "create"
  BY DEF Ask, NoJob, Job
<1>10. {"patch", "cancel", "close", "upsertScopes", "deleteScopes",
        "upsertDefaults", "deleteDefaults"} \subseteq Ops \ {"create"}
  BY DEF Ops
<1>11. ASSUME NEW k \in Campaigns, NEW op \in Ops \ {"create"}, NEW c, Change(r, op, k, c)
       PROVE  FormInv'
  BY <1>2, <1>7, <1>9, <1>11 DEF Change
<1>12. ASSUME NEW k \in Campaigns, NEW op \in Ops \ {"create"}, NEW w,
              NEW l \in Labels \ {"formWrite"}, Edit(r, l, op, k, w)
       PROVE  FormInv'
  BY <1>7, <1>9, <1>12 DEF Edit
<1>13. ASSUME NEW k \in Campaigns, NEW d \in Deadlines,
              Patch(r, k, d)
       PROVE  FormInv'
  BY <1>10, <1>11, <1>13 DEF Patch
<1>14. ASSUME NEW k \in Campaigns, Cancel(r, k) \/ Close(r, k) PROVE FormInv'
  BY <1>10, <1>11, <1>14 DEF Cancel, Close
<1>15. ASSUME NEW k \in Campaigns, NEW items \in SUBSET Pairs,
              UpsertScopes(r, k, items) \/ DeleteScopes(r, k, items)
       PROVE  FormInv'
  BY <1>2, <1>10, <1>12, <1>15 DEF UpsertScopes, DeleteScopes
<1>16. ASSUME NEW k \in Campaigns, NEW cells \in SUBSET Cells, NEW val \in Values,
              UpsertDefaults(r, k, cells, val)
       PROVE  FormInv'
  BY <1>2, <1>10, <1>12, <1>16 DEF UpsertDefaults
<1>17. ASSUME NEW k \in Campaigns, NEW cells \in SUBSET Cells, DeleteDefaults(r, k, cells)
       PROVE  FormInv'
  BY <1>2, <1>10, <1>12, <1>17 DEF DeleteDefaults
<1> QED  BY <1>3, <1>4, <1>5, <1>6, <1>8, <1>13, <1>14, <1>15, <1>16, <1>17 DEF Arrive

\* Statements on a campaign's tables leave the template alone.
LEMMA StatementAside ==
  ASSUME TypeInv, FormInv, NEW r \in Requests,
         SaveLoad(r) \/ SaveWrite(r) \/ ScopeLookup(r) \/ ScopeInsert(r) \/ Unscope(r)
           \/ DefaultLookup(r) \/ DefaultLoad(r) \/ DefaultWrite(r) \/ Undefault(r)
  PROVE  FormInv'
<1>0. TypeOK
  BY DEF TypeInv
<1>1. pc[r] \notin {"idle", "insert", "copyScopes"} \cup FormLabels /\ \A k : ~Finishing(r, k)
  BY DEF SaveLoad, SaveWrite, ScopeLookup, ScopeInsert, Unscope,
     DefaultLookup, DefaultLoad, DefaultWrite, Undefault, Finishing, FormLabels
<1>2. Aside(r)
  <2>1. CASE SaveLoad(r)
    BY <1>0, <2>1 DEF SaveLoad, End, Die, Goto, memory, tables, history, TypeOK, Aside
  <2>2. CASE SaveWrite(r)
    BY <1>0, <2>2 DEF SaveWrite, End, Die, Goto, memory, tables, history, TypeOK, Aside
  <2>3. CASE ScopeLookup(r)
    BY <1>0, <2>3 DEF ScopeLookup, End, Die, Goto, memory, tables, history, TypeOK, Aside
  <2>4. CASE ScopeInsert(r)
    BY <1>0, <2>4 DEF ScopeInsert, End, Die, Goto, memory, tables, history, TypeOK, Aside
  <2>5. CASE Unscope(r)
    BY <1>0, <2>5 DEF Unscope, End, Die, Goto, memory, tables, history, TypeOK, Aside
  <2>8. CASE DefaultLookup(r)
    BY <1>0, <2>8 DEF DefaultLookup, End, Die, Goto, memory, tables, history, TypeOK, Aside
  <2>9. CASE DefaultLoad(r)
    BY <1>0, <2>9 DEF DefaultLoad, End, Die, Goto, memory, tables, history, TypeOK, Aside
  <2>10. CASE DefaultWrite(r)
    BY <1>0, <2>10 DEF DefaultWrite, End, Die, Goto, memory, tables, history, TypeOK, Aside
  <2>11. CASE Undefault(r)
    BY <1>0, <2>11 DEF Undefault, End, Die, Goto, memory, tables, history, TypeOK, Aside
  <2> QED  BY <2>1, <2>2, <2>3, <2>4, <2>5, <2>8, <2>9, <2>10, <2>11
<1>3. End(r) \/ /\ UNCHANGED <<form, job, formMem>> /\ pc'[r] # "formWrite"
  <2>1. CASE SaveLoad(r)
    BY <1>0, <2>1 DEF SaveLoad, Die, Goto, memory, tables, history, TypeOK
  <2>2. CASE SaveWrite(r)
    BY <1>0, <2>2 DEF SaveWrite, Die, Goto, memory, tables, history, TypeOK
  <2>3. CASE ScopeLookup(r)
    BY <1>0, <2>3 DEF ScopeLookup, Die, Goto, memory, tables, history, TypeOK
  <2>4. CASE ScopeInsert(r)
    BY <1>0, <2>4 DEF ScopeInsert, Die, Goto, memory, tables, history, TypeOK
  <2>5. CASE Unscope(r)
    BY <1>0, <2>5 DEF Unscope, Die, Goto, memory, tables, history, TypeOK
  <2>8. CASE DefaultLookup(r)
    BY <1>0, <2>8 DEF DefaultLookup, Die, Goto, memory, tables, history, TypeOK
  <2>9. CASE DefaultLoad(r)
    BY <1>0, <2>9 DEF DefaultLoad, Die, Goto, memory, tables, history, TypeOK
  <2>10. CASE DefaultWrite(r)
    BY <1>0, <2>10 DEF DefaultWrite, Die, Goto, memory, tables, history, TypeOK
  <2>11. CASE Undefault(r)
    BY <1>0, <2>11 DEF Undefault, Die, Goto, memory, tables, history, TypeOK
  <2> QED  BY <2>1, <2>2, <2>3, <2>4, <2>5, <2>8, <2>9, <2>10, <2>11
<1>4. ~formRaced => FormOK(r)'
  <2>1. CASE End(r)
    BY <1>0, <2>1, OverIsFormOK
  <2>2. CASE UNCHANGED <<form, job, formMem>> /\ pc'[r] # "formWrite"
    BY <2>2 DEF FormOK, FormInv
  <2> QED  BY <1>3, <2>1, <2>2
<1> QED  BY <1>1, <1>2, <1>4, AsideKeeps

\* The statements of a campaign that is being made: the template is still to be put in use,
\* or is in use already.
LEMMA MakingAside ==
  ASSUME TypeInv, FormInv, NEW r \in Requests,
         InsertCampaign(r) \/ CopyScopes(r) \/ FormLoad(r) \/ Crash(r)
  PROVE  FormInv'
<1>0. TypeOK /\ InHand(r)
  BY DEF TypeInv
<1>1. CASE InsertCampaign(r)
  <2>1. \A k : ~Finishing(r, k)
    BY <1>1 DEF InsertCampaign, Finishing, FormLabels
  <2>2. Aside(r)
    BY <1>0, <1>1 DEF InsertCampaign, Aside, End, Die, Goto, memory, tables, history,
       TypeOK, Finishing
  <2>3. ~formRaced => FormOK(r)'
    <3>1. CASE End(r)
      BY <1>0, <3>1, OverIsFormOK
    <3>2. CASE ~End(r)
      BY <1>0, <1>1, <3>2 DEF InsertCampaign, FormOK, FormInv, Die, Goto, memory, tables,
         history, TypeOK
    <3> QED  BY <3>1, <3>2
  <2> QED  BY <2>1, <2>2, <2>3, AsideKeeps
<1>2. CASE CopyScopes(r)
  <2>1. Aside(r)
    BY <1>0, <1>2 DEF CopyScopes, Aside, End, Die, Goto, memory, tables, history, TypeOK
  <2>2. ~formRaced => FormOK(r)'
    <3>1. CASE End(r)
      BY <1>0, <3>1, OverIsFormOK
    <3>2. CASE ~End(r)
      BY <1>0, <1>2, <3>2 DEF CopyScopes, FormOK, FormInv, Die, Goto, memory, tables,
         history, TypeOK
    <3> QED  BY <3>1, <3>2
  <2>3. ASSUME ~formRaced, NEW k \in made, Finishing(r, k)
        PROVE  Finishing(r, k)' \/ k \in died' \/ form \in {"IN_USE", "ARCHIVED"}
    <3>1. CASE Die(r)
      BY <1>2, <2>3, <3>1 DEF CopyScopes, Die, Finishing
    <3>2. CASE ~Die(r) /\ formMem[r] = NULL
      BY <2>3, <3>2, NullAssumption DEF Finishing, FormInv, FormOK, FormStatus
    <3>3. CASE ~Die(r) /\ formMem[r] # NULL
      BY <1>0, <1>2, <2>3, <3>3 DEF CopyScopes, Finishing, FormLabels, Goto, memory, tables,
         history, TypeOK
    <3> QED  BY <3>1, <3>2, <3>3
  <2> QED  BY <2>1, <2>2, <2>3, AsideKeeps
<1>3. CASE FormLoad(r)
  <2>1. Aside(r)
    BY <1>0, <1>3 DEF FormLoad, Aside, Die, Goto, memory, tables, history, TypeOK
  <2>2. ~formRaced => FormOK(r)'
    <3>1. form \in FormStatus /\ form # NULL /\ Rank[form] <= Rank[form]
      BY <1>0, NullAssumption, Ranks DEF TypeOK
    <3> QED  BY <1>0, <1>3, <3>1 DEF FormLoad, FormOK, FormInv, Die, Goto, memory, tables,
                history, TypeOK
  <2>3. \A k : Finishing(r, k) => Finishing(r, k)'
    BY <1>0, <1>3 DEF FormLoad, Finishing, FormLabels, Die, Goto, memory, tables, history,
       TypeOK
  <2> QED  BY <2>1, <2>2, <2>3, AsideKeeps
<1>4. CASE Crash(r)
  <2>1. Aside(r)
    BY <1>0, <1>4 DEF Crash, Aside, End, Die, Goto, memory, tables, history, TypeOK
  <2>2. FormOK(r)'
    BY <1>0, <1>4, OverIsFormOK DEF Crash, Die
  <2>3. \A k : Finishing(r, k) => k \in died'
    BY <1>4 DEF Crash, Die, Finishing, FormLabels
  <2> QED  BY <2>1, <2>2, <2>3, AsideKeeps
<1> QED  BY <1>1, <1>2, <1>3, <1>4

\* The write of a status moves the template forward, or raced.
LEMMA WriteForward ==
  ASSUME TypeInv, FormInv, NEW r \in Requests, FormWrite(r), ~formRaced
  PROVE  /\ form' \in FormStatus /\ Rank[form] <= Rank[form']
         /\ job[r].op = "create" => form' \in {"IN_USE", "ARCHIVED"}
<1>0. TypeOK /\ InHand(r) /\ FormOK(r) /\ pc[r] = "formWrite"
  BY DEF TypeInv, FormInv, FormWrite
<1>1. /\ form \in FormStatus /\ formMem[r] \in FormStatus /\ formMem[r] # NULL
      /\ form' = IF formMem[r] # formBase[r] THEN formMem[r] ELSE form
  BY <1>0, NullAssumption DEF InHand, FormLabels, TypeOK, FormWrite
<1>2. form' \in FormStatus /\ Rank[form] <= Rank[form']
  BY <1>0, <1>1, Ranks DEF FormOK
<1>3. ASSUME job[r].op = "create" PROVE form' \in {"IN_USE", "ARCHIVED"}
  <2>1. formMem[r] = "IN_USE"
    BY <1>0, <1>1, <1>3 DEF FormOK
  <2>2. CASE formBase[r] # "IN_USE"
    BY <1>1, <2>1, <2>2
  <2>3. CASE formBase[r] = "IN_USE"
    <3>1. Rank["IN_USE"] <= Rank[form]
      BY <1>0, <2>3 DEF FormOK
    <3>2. "IN_USE" \in FormStatus
      BY DEF FormStatus
    <3> QED  BY <1>1, <2>1, <2>3, <3>1, <3>2, Ranks
  <2> QED  BY <2>2, <2>3
<1> QED  BY <1>2, <1>3

\* So it keeps the invariant.
LEMMA WriteKeeps ==
  ASSUME TypeInv, FormInv, NEW r \in Requests, FormWrite(r)
  PROVE  FormInv'
<1> SUFFICES ASSUME ~formRaced'
             PROVE  /\ \A q \in Requests : FormOK(q)'
                    /\ \A k \in made' \ died' :
                         form' \in {"IN_USE", "ARCHIVED"} \/ \E q \in Requests : Finishing(q, k)'
  BY DEF FormInv
<1>0. TypeOK /\ ~formRaced /\ form \in FormStatus
  BY DEF TypeInv, TypeOK, FormWrite
<1>1. /\ form' \in FormStatus /\ Rank[form] <= Rank[form']
      /\ job[r].op = "create" => form' \in {"IN_USE", "ARCHIVED"}
  BY <1>0, WriteForward
<1>2. form \in {"IN_USE", "ARCHIVED"} => form' \in {"IN_USE", "ARCHIVED"}
  BY <1>0, <1>1, Ranks
<1>3. \A q \in Requests \ {r} : /\ pc'[q] = pc[q] /\ job'[q] = job[q]
                                /\ formMem'[q] = formMem[q] /\ formBase'[q] = formBase[q]
  BY <1>0 DEF FormWrite, End, Goto, TypeOK
<1>4. made' = made /\ died' = died
  BY DEF FormWrite
<1>5. ASSUME NEW q \in Requests PROVE FormOK(q)'
  <2>1. CASE q = r
    BY <1>0, <2>1, OverIsFormOK DEF FormWrite
  <2>2. CASE q # r
    <3>1. FormOK(q)
      BY <1>0 DEF FormInv
    <3>2. form' # form => formMem[q] \in {NULL, form'}
      BY <1>0, <2>2 DEF FormWrite
    <3>3. formMem[q] # NULL => Rank[form'] <= Rank[formMem[q]]
      <4>1. Rank[form'] <= Rank[form']
        BY <1>1, Ranks
      <4> QED  BY <3>1, <3>2, <4>1 DEF FormOK
    <3>4. pc[q] = "formWrite" => formBase[q] # NULL /\ Rank[formBase[q]] <= Rank[form']
      <4>1. ASSUME pc[q] = "formWrite" PROVE formBase[q] \in FormStatus /\ Rank[formBase[q]] <= Rank[form]
        BY <1>0, <3>1, <4>1 DEF FormOK, TypeOK
      <4> QED  BY <1>0, <1>1, <4>1, Ranks, NullAssumption
    <3> QED  BY <1>2, <1>3, <2>2, <3>1, <3>3, <3>4 DEF FormOK
  <2> QED  BY <2>1, <2>2
<1>6. ASSUME NEW k \in made' \ died', form' \notin {"IN_USE", "ARCHIVED"}
      PROVE  \E q \in Requests : Finishing(q, k)'
  <2>1. PICK q \in Requests : Finishing(q, k)
    BY <1>0, <1>2, <1>4, <1>6 DEF FormInv
  <2>2. q # r
    BY <1>1, <1>6, <2>1 DEF Finishing
  <2>3. Finishing(q, k)'
    BY <1>3, <2>1, <2>2 DEF Finishing
  <2> QED  BY <2>3
<1> QED  BY <1>5, <1>6

\* FormInv is inductive.
LEMMA FormInvInductive ==
  /\ Init => FormInv
  /\ TypeInv /\ FormInv /\ [Next]_vars => FormInv'
<1>1. ASSUME Init PROVE FormInv
  <2>1. \A r \in Requests : FormOK(r)
    BY <1>1 DEF Init, FormOK, NoJob
  <2>2. made = {}
    BY <1>1 DEF Init
  <2> QED  BY <2>1, <2>2 DEF FormInv
<1>2. ASSUME TypeInv, FormInv, [Next]_vars PROVE FormInv'
  <2>1. ASSUME NEW r \in Requests, Arrive(r) PROVE FormInv'
    BY <1>2, <2>1, ArriveAside
  <2>2. ASSUME NEW r \in Requests, Proceed(r) PROVE FormInv'
    BY <1>2, <2>2, StatementAside, MakingAside, WriteKeeps DEF Proceed
  <2>3. ASSUME NEW r \in Requests, Crash(r) PROVE FormInv'
    BY <1>2, <2>3, MakingAside
  <2>4. ASSUME UNCHANGED <<form, formRaced, made, died, pc, job, formMem, formBase>>
        PROVE  FormInv'
    BY <1>2, <2>4 DEF FormInv, FormOK, Finishing
  <2>5. ASSUME NEW k \in Campaigns, Dispatch(k) PROVE FormInv'
    BY <2>4, <2>5 DEF Dispatch, memory
  <2>6. ASSUME NEW k \in Campaigns, NEW o \in Orgs, CancelAssignment(k, o) PROVE FormInv'
    BY <2>4, <2>6 DEF CancelAssignment, memory, history
  <2>7. CASE UNCHANGED vars
    BY <2>4, <2>7 DEF vars, tables, memory, history
  <2>8. CASE Next
    BY <2>1, <2>2, <2>3, <2>5, <2>6, <2>8 DEF Next
  <2> QED  BY <1>2, <2>7, <2>8
<1> QED  BY <1>1, <1>2

\* What a request is about to write is never behind the status of the template, unless a
\* status moved under it.
THEOREM FormInvariant == Spec => []FormInv
BY FormInvInductive, CampaignTypes, PTL DEF Spec

\* A template from which a campaign was made is in use once create is over, for any number
\* of requests, unless that request died or the status moved under another one.
THEOREM TemplateInUse == Spec => []TemplatePutInUse
<1>1. FormInv => TemplatePutInUse
  BY DEF FormInv, TemplatePutInUse, Finishing
<1> QED  BY <1>1, FormInvariant, PTL

\* The status of a template never moves back, unless it moved under a request that had
\* another one in hand.
THEOREM TemplateForward == Spec => TemplateMovesForward
<1>1. TypeInv /\ FormInv /\ [Next]_vars => [formRaced \/ Rank[form] <= Rank[form']]_vars
  <2> SUFFICES ASSUME TypeInv, FormInv, [Next]_vars, ~formRaced
               PROVE  Rank[form] <= Rank[form'] \/ UNCHANGED vars
    OBVIOUS
  <2>1. Rank[form] <= Rank[form]
    BY Ranks DEF TypeInv, TypeOK
  <2>2. ASSUME NEW r \in Requests, FormWrite(r) PROVE Rank[form] <= Rank[form']
    BY <2>2, WriteForward
  <2>3. ASSUME NEW r \in Requests, Arrive(r) PROVE form' = form
    BY <2>3 DEF Arrive, MarkFormReady, ArchiveForm, PatchForm, Create, CreateBatch, Patch,
       Cancel,
                Close, Change, UpsertScopes, DeleteScopes, UpsertDefaults,
                DeleteDefaults, Edit, tables
  <2>4. ASSUME NEW r \in Requests, Proceed(r) \/ Crash(r), ~FormWrite(r) PROVE form' = form
    BY <2>4 DEF Proceed, InsertCampaign, CopyScopes, FormLoad, SaveLoad, SaveWrite,
                ScopeLookup, ScopeInsert, Unscope, DefaultLookup,
                DefaultLoad, DefaultWrite, Undefault, Crash, tables
  <2>5. ASSUME NEW k \in Campaigns, Dispatch(k) \/ \E o \in Orgs : CancelAssignment(k, o)
        PROVE  form' = form
    BY <2>5 DEF Dispatch, CancelAssignment
  <2> QED  BY <2>1, <2>2, <2>3, <2>4, <2>5 DEF Next
<1> QED  BY <1>1, CampaignTypes, FormInvariant, PTL DEF Spec, TemplateMovesForward
=============================================================================
