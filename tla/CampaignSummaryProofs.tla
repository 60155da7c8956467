------------------------ MODULE CampaignSummaryProofs ------------------------
(***************************************************************************)
(* What is shown of a settled campaign is final, for any number of         *)
(* requests, units, reports and cells.  In a settled campaign every report *)
(* that counts is closed and no request is on its way to open another, so  *)
(* each thing the readers look at is left alone by every step.             *)
(***************************************************************************)
EXTENDS CampaignSummary, SubmissionProofs

\* Every unit at work in a settled campaign has reported, and all it has reported
\* is closed.
LEMMA SettledClosed ==
  ASSUME Settled, NEW a \in Assignments, ~cancelled[a]
  PROVE  Reports(a) # {} /\ \A s \in Reports(a) : Closed(s)
<1>1. \A i \in Items : StatusOf(i[2]) = "DISTRICT_APPROVED"
  BY DEF Settled, Readiness, Approved
<1>2. Reports(a) # {}
  <2>1. SUFFICES ASSUME Reports(a) = {} PROVE FALSE
    OBVIOUS
  <2>2. <<a, NULL>> \in Items
    BY <2>1 DEF Items
  <2> QED  BY <1>1, <2>2 DEF StatusOf
<1>3. ASSUME NEW s \in Reports(a) PROVE Closed(s)
  <2>1. s \in Submissions /\ Exists(s) /\ rows[s].assignment = a
    BY DEF Reports
  <2>2. <<a, s>> \in Items
    BY <1>2, <2>1 DEF Items
  <2>3. rows[s].status = "DISTRICT_APPROVED"
    BY <1>1, <2>1, <2>2, NullAssumption DEF StatusOf
  <2>4. \A r \in Requests : ~Writing(r, s)
    BY <2>1 DEF Settled
  <2> QED  BY <2>1, <2>3, <2>4 DEF Closed
<1> QED  BY <1>2, <1>3

-----------------------------------------------------------------------------
(* Which reports there are.                                                *)

\* An arrival, a crash and a cancellation write no report.
LEMMA OnlyProceedWrites ==
  ASSUME Next, rows' # rows
  PROVE  \E r \in Requests : Proceed(r)
<1>1. ASSUME NEW r \in Requests, Arrive(r) PROVE rows' = rows
  BY <1>1 DEF Arrive, Create, GetByAssignment, OpenAbsent, GetOne, Submit,
     CancelSubmit, PatchCells, ApproveDepartment, RejectDepartment,
     ApproveDistrict, RejectDistrict, Change, tables
<1>2. ASSUME NEW r \in Requests, Crash(r) PROVE rows' = rows
  BY <1>2 DEF Crash, tables
<1>3. ASSUME NEW a \in Assignments, CancelAssignment(a) PROVE rows' = rows
  BY <1>3 DEF CancelAssignment
<1> QED  BY <1>1, <1>2, <1>3 DEF Next

\* A save writes a report that exists, and leaves it with its assignment.
LEMMA SaveKeepsReports ==
  ASSUME TypeInv, SafetyInv, NEW r \in Requests, SaveWrite(r), NEW t \in Submissions
  PROVE  /\ Exists(t)' <=> Exists(t)
         /\ Exists(t) => rows'[t].assignment = rows[t].assignment
<1>1. Sound(r) /\ InHand(r) /\ pc[r] = "saveWrite"
  BY DEF SafetyInv, RequestsSound, TypeInv, InHandOK, SaveWrite
<1>2. PICK s \in Submissions : s = job[r].sub /\ Exists(s)
  BY <1>1 DEF InHand
<1>3. PICK merged : merged = Merge(rows[s], base[r], mem[r])
  OBVIOUS
<1>4. rows' = [rows EXCEPT ![s] = merged]
  BY <1>2, <1>3 DEF SaveWrite
<1>5. rows[s] \in Row /\ mem[r] \in Row
  BY <1>1, <1>2 DEF InHand, TypeInv, TypeOK, TablesOK, Exists
<1>6. merged # NULL
  BY <1>3, <1>5, MergeType, NullAssumption
<1>7. merged.assignment = rows[s].assignment
  <2>1. merged.assignment \in {rows[s].assignment, mem[r].assignment}
    BY <1>3 DEF Merge
  <2>2. mem[r].assignment = rows[s].assignment
    BY <1>1, <1>2 DEF Sound, CopyLabels
  <2> QED  BY <2>1, <2>2
<1>8. rows'[t] = IF t = s THEN merged ELSE rows[t]
  BY <1>4 DEF TypeInv, TypeOK, TablesOK
<1> QED  BY <1>2, <1>6, <1>7, <1>8 DEF Exists

\* While nobody is about to insert a report, the reports of an assignment stay
\* the same.
LEMMA ReportsStay ==
  ASSUME TypeInv, SafetyInv, Next, \A r \in Requests : pc[r] # "insert"
  PROVE  /\ \A s \in Submissions : /\ Exists(s)' <=> Exists(s)
                                   /\ Exists(s) => rows'[s].assignment = rows[s].assignment
         /\ \A a \in Assignments : Reports(a)' = Reports(a)
<1>1. ASSUME NEW s \in Submissions
      PROVE  /\ Exists(s)' <=> Exists(s)
             /\ Exists(s) => rows'[s].assignment = rows[s].assignment
  <2>1. CASE rows' = rows
    BY <2>1 DEF Exists
  <2>2. CASE rows' # rows
    <3>1. PICK r \in Requests : Proceed(r)
      BY <2>2, OnlyProceedWrites
    <3>2. SaveWrite(r)
      BY <2>2, <3>1 DEF Proceed, PickCode, InsertSubmission, View, CellRead, CellWrite,
         Count, SaveLoad, LogCells, LogRow, LogWrite, Notify, tables
    <3> QED  BY <3>2, SaveKeepsReports
  <2> QED  BY <2>1, <2>2
<1> QED  BY <1>1 DEF Reports

-----------------------------------------------------------------------------
(* Settled for good.                                                       *)

\* Nobody sets out to open a report of a settled campaign.
LEMMA NobodyOpens ==
  ASSUME TypeInv, Settled, Next, NEW q \in Requests
  PROVE  pc'[q] \notin {"code", "insert"}
<1> USE DEF TypeInv, TypeOK, RequestsOK
<1>1. \A r \in Requests : pc[r] \notin {"code", "insert"}
  BY DEF Settled
<1>2. ASSUME NEW r \in Requests, NEW label, label \notin {"code", "insert"},
             pc' = [pc EXCEPT ![r] = label]
      PROVE  pc'[q] \notin {"code", "insert"}
  BY <1>1, <1>2
<1>3. ASSUME NEW r \in Requests, Arrive(r) PROVE pc'[q] \notin {"code", "insert"}
  <2>1. ASSUME NEW u \in Reporters, NEW a \in Assignments, NEW op
        PROVE  ~OpenAbsent(r, u, a, op)
    BY <2>1, SettledClosed DEF OpenAbsent, Reports
  <2>2. ASSUME NEW u \in Reporters, NEW a \in Assignments,
               Create(r, u, a) \/ GetByAssignment(r, u, a)
        PROVE  pc' = [pc EXCEPT ![r] = "view"]
    BY <2>1, <2>2 DEF Create, GetByAssignment, Take
  <2>3. ASSUME NEW u, NEW s, GetOne(r, u, s)
        PROVE  pc' = [pc EXCEPT ![r] = "view"]
    BY <2>3 DEF GetOne, Take
  <2>4. ASSUME NEW u, NEW s, NEW changes, NEW val, PatchCells(r, u, s, changes, val)
        PROVE  pc' = [pc EXCEPT ![r] = "cell"]
    BY <2>4 DEF PatchCells, Take
  <2>5. ASSUME NEW u, NEW s,
               \/ Submit(r, u, s) \/ CancelSubmit(r, u, s)
               \/ ApproveDepartment(r, u, s) \/ RejectDepartment(r, u, s)
               \/ ApproveDistrict(r, u, s) \/ RejectDistrict(r, u, s)
        PROVE  pc' = [pc EXCEPT ![r] = "saveLoad"]
    BY <2>5 DEF Submit, CancelSubmit, ApproveDepartment, RejectDepartment,
       ApproveDistrict, RejectDistrict, Change, Take
  <2> QED  BY <1>2, <1>3, <2>2, <2>3, <2>4, <2>5 DEF Arrive
<1>4. ASSUME NEW r \in Requests, Proceed(r) \/ Crash(r)
      PROVE  \E label \in LabelSet \ {"code", "insert"} : pc' = [pc EXCEPT ![r] = label]
  <2>1. pc[r] \notin {"code", "insert"}
    BY <1>1
  <2> QED  BY <1>4, <2>1 DEF Proceed, Crash, Die, PickCode, InsertSubmission, View, CellRead,
              CellWrite, Count, SaveLoad, SaveWrite, LogCells, LogRow, LogWrite, Notify,
              End, Goto, LabelSet
<1>5. ASSUME NEW a \in Assignments, CancelAssignment(a) PROVE pc' = pc
  BY <1>5 DEF CancelAssignment
<1> QED  BY <1>1, <1>2, <1>3, <1>4, <1>5 DEF Next

\* What one step leaves alone in a settled campaign.
LEMMA SettledStep ==
  ASSUME TypeInv, SafetyInv, Settled, Next, UNCHANGED cancelled
  PROVE  /\ Items' = Items
         /\ \A a \in Assignments : Reports(a)' = Reports(a)
         /\ \A s \in Submissions :
              /\ Exists(s)' <=> Exists(s)
              /\ Exists(s) => rows'[s].assignment = rows[s].assignment
         /\ \A a \in Assignments : ~cancelled[a] =>
              \A s \in Reports(a) : Closed(s)' /\ rows'[s] = rows[s] /\ cells'[s] = cells[s]
<1>1. \A r \in Requests : pc[r] # "insert"
  BY DEF Settled
<1>2. /\ \A s \in Submissions : /\ Exists(s)' <=> Exists(s)
                                /\ Exists(s) => rows'[s].assignment = rows[s].assignment
      /\ \A a \in Assignments : Reports(a)' = Reports(a)
  BY <1>1, ReportsStay
<1>3. Items' = Items
  BY <1>2 DEF Items
<1>4. ASSUME NEW a \in Assignments, ~cancelled[a], NEW s \in Reports(a)
      PROVE  Closed(s)' /\ rows'[s] = rows[s] /\ cells'[s] = cells[s]
  <2>1. s \in Submissions /\ Closed(s)
    BY <1>4, SettledClosed DEF Reports
  <2> QED  BY <2>1, ClosedStep
<1> QED  BY <1>2, <1>3, <1>4

\* Each item of a settled campaign is an approved report that stays as it is.
LEMMA ItemsStay ==
  ASSUME TypeInv, SafetyInv, Settled, Next, UNCHANGED cancelled, NEW i \in Items
  PROVE  /\ i[1] \in Assignments /\ ~cancelled[i[1]] /\ i[2] \in Reports(i[1])
         /\ StatusOf(i[2]) = "DISTRICT_APPROVED" /\ StatusOf(i[2])' = StatusOf(i[2])
<1>1. i[1] \in Assignments /\ ~cancelled[i[1]]
  BY DEF Items
<1>2. i[2] \in Reports(i[1])
  BY <1>1, SettledClosed DEF Items
<1>3. rows'[i[2]] = rows[i[2]] /\ i[2] # NULL
  BY <1>1, <1>2, SettledStep, NullAssumption DEF Reports
<1>4. StatusOf(i[2]) = "DISTRICT_APPROVED"
  BY DEF Settled, Readiness, Approved
<1> QED  BY <1>1, <1>2, <1>3, <1>4 DEF StatusOf

\* A settled campaign stays settled.
LEMMA SettledStays ==
  ASSUME TypeInv, SafetyInv, Settled, Next, UNCHANGED cancelled
  PROVE  Settled' /\ Approved(Items) = Items /\ Approved(Items)' = Items
<1>1. Items' = Items /\ Items # {}
  BY SettledStep DEF Settled, Readiness
<1>2. Approved(Items) = Items /\ Approved(Items)' = Items
  BY <1>1, ItemsStay DEF Approved
<1>3. Readiness.canAggregate'
  BY <1>1, <1>2 DEF Readiness
<1>4. ASSUME NEW r \in Requests, NEW s \in Submissions,
             Exists(s)', ~cancelled'[rows'[s].assignment]
      PROVE  ~Writing(r, s)'
  <2>1. Exists(s) /\ rows'[s].assignment = rows[s].assignment
    BY <1>4, SettledStep
  <2>2. rows[s] \in Row
    BY <2>1 DEF Exists, TypeInv, TypeOK, TablesOK
  <2>3. PICK a \in Assignments : a = rows[s].assignment
    BY <2>2 DEF Row
  <2>4. s \in Reports(a) /\ ~cancelled[a]
    BY <1>4, <2>1, <2>3 DEF Reports
  <2>5. Closed(s)'
    BY <2>4, SettledStep
  <2> QED  BY <2>5 DEF Closed
<1>5. \A r \in Requests : pc'[r] \notin {"code", "insert"}
  BY NobodyOpens
<1> QED  BY <1>2, <1>3, <1>4, <1>5 DEF Settled

-----------------------------------------------------------------------------
(* What the readers show.                                                  *)

\* The key figures count what stays.
LEMMA KpisStay ==
  ASSUME TypeInv, SafetyInv, Settled, Next, UNCHANGED cancelled
  PROVE  Kpis' = Kpis
<1> DEFINE live == {s \in Submissions : Exists(s) /\ ~cancelled[rows[s].assignment]}
<1>1. ASSUME NEW s \in Submissions, Exists(s), ~cancelled[rows[s].assignment]
      PROVE  rows'[s] = rows[s]
  <2>1. rows[s] \in Row
    BY <1>1 DEF Exists, TypeInv, TypeOK, TablesOK
  <2>2. PICK a \in Assignments : a = rows[s].assignment
    BY <2>1 DEF Row
  <2> QED  BY <1>1, <2>2, SettledStep DEF Reports
<1>2. live' = live
  BY SettledStep
<1>3. {s \in live : rows[s].status \notin {"NOT_STARTED", "DRAFT"}}'
        = {s \in live : rows[s].status \notin {"NOT_STARTED", "DRAFT"}}
  BY <1>1, <1>2
<1>4. {s \in live : rows[s].status = "DISTRICT_APPROVED"}'
        = {s \in live : rows[s].status = "DISTRICT_APPROVED"}
  BY <1>1, <1>2
<1>5. {a \in Assignments : ~cancelled[a]}' = {a \in Assignments : ~cancelled[a]}
  OBVIOUS
<1> QED  BY <1>3, <1>4, <1>5 DEF Kpis

\* The report a reader picks of a unit at work is one of its reports, before the
\* step and after it, and its row and cells stay.
LEMMA PickStays ==
  ASSUME TypeInv, SafetyInv, Settled, Next, UNCHANGED cancelled, NEW pick \in Picks
  PROVE  /\ pick \in Picks'
         /\ \A a \in Assignments : ~cancelled[a] =>
              /\ pick[a] # NULL /\ rows'[pick[a]] = rows[pick[a]]
              /\ StatusOf(pick[a])' = StatusOf(pick[a])
              /\ AdminView(a, pick)' = AdminView(a, pick)
<1>1. pick \in Picks'
  BY SettledStep DEF Picks
<1>2. ASSUME NEW a \in Assignments, ~cancelled[a]
      PROVE  /\ pick[a] # NULL /\ rows'[pick[a]] = rows[pick[a]]
             /\ cells'[pick[a]] = cells[pick[a]]
  <2>1. pick[a] \in Reports(a)
    BY <1>2, SettledClosed DEF Picks
  <2> QED  BY <1>2, <2>1, SettledStep, NullAssumption DEF Reports
<1> QED  BY <1>1, <1>2 DEF StatusOf, AdminView

\* The preview sums the same views.
LEMMA PreviewStays ==
  ASSUME TypeInv, SafetyInv, Settled, Next, UNCHANGED cancelled, NEW pick \in Picks
  PROVE  Preview(pick)' = Preview(pick)
<1>1. /\ Items' = Items /\ Approved(Items) = Items /\ Approved(Items)' = Items
  BY SettledStep, SettledStays
<1>2. \A i \in Items : AdminView(i[1], pick)' = AdminView(i[1], pick)
  BY ItemsStay, PickStays
<1>3. ASSUME NEW c \in Cells PROVE Merged(c, pick)' = Merged(c, pick)
  <2> DEFINE filled == {i \in Approved(Items) : c \in DOMAIN AdminView(i[1], pick)}
             given == [i \in filled |-> AdminView(i[1], pick)[c]]
  <2>1. filled' = filled
    BY <1>1, <1>2
  <2>2. given' = given
    BY <1>1, <1>2, <2>1
  <2>3. SumFunction(given)' = SumFunction(given)
    BY <2>2
  <2> QED  BY <2>1, <2>3 DEF Merged
<1>4. [c \in Cells |-> Merged(c, pick)]' = [c \in Cells |-> Merged(c, pick)]
  BY <1>3
<1> QED  BY <1>1, <1>4 DEF Preview

\* The dashboard shows the same reports.
LEMMA FieldReportsStay ==
  ASSUME TypeInv, SafetyInv, Settled, Next, UNCHANGED cancelled, NEW pick \in Picks
  PROVE  FieldReports(pick)' = FieldReports(pick)
BY PickStays DEF FieldReports

-----------------------------------------------------------------------------
\* Once a campaign can be aggregated and nobody is still at work on its reports, what
\* the readers show of it is final until an assignment is cancelled, whatever
\* is asked for and whichever report they pick (getSummaryPreview, kpis,
\* getFieldCategoryReports).
THEOREM SummaryStands == Spec => SummaryIsFinal
<1> DEFINE Final == /\ Settled'
                    /\ Kpis' = Kpis
                    /\ \A pick \in Picks : /\ pick \in Picks'
                                           /\ Preview(pick)' = Preview(pick)
                                           /\ FieldReports(pick)' = FieldReports(pick)
<1>1. TypeInv /\ SafetyInv /\ [Next]_vars => [Settled /\ UNCHANGED cancelled => Final]_vars
  BY SettledStays, KpisStay, PickStays, PreviewStays, FieldReportsStay
<1> QED  BY <1>1, SafetyInvariant, PTL DEF Spec, SummaryIsFinal

=============================================================================
