--------------------------- MODULE CampaignSummary ---------------------------
(***************************************************************************)
(* What is read of a dispatched campaign while its units report: the       *)
(* readiness and the preview of its summary (ReportCampaignService), the   *)
(* figures of SummaryAnalyticsAnalyticsService and the reports of          *)
(* DashboardService.  None of them writes; each is a function of the       *)
(* tables of SubmissionApproval.                                           *)
(*                                                                         *)
(* Where an assignment has several submissions the readers differ: some    *)
(* list them all, some take one that nothing in the tables here decides    *)
(* (no order, or the column created_at): pick says which.                  *)
(*                                                                         *)
(* A reader is one step although it runs several queries: it is asked      *)
(* about states in which nothing it reads changes.  Values are numbers;    *)
(* texts, pages and the filters but that of the status are left out.       *)
(***************************************************************************)
EXTENDS SubmissionApproval, Functions

Picks ==
  {pick \in [Assignments -> Submissions \cup {NULL}] :
     \A a \in Assignments : IF Reports(a) = {} THEN pick[a] = NULL ELSE pick[a] \in Reports(a)}

StatusOf(s) == IF s = NULL THEN "NOT_STARTED" ELSE rows[s].status

\* listAssignments: a left join, one item per submission or one without.
Items ==
  {i \in Assignments \X (Submissions \cup {NULL}) :
     /\ ~cancelled[i[1]]
     /\ IF Reports(i[1]) = {} THEN i[2] = NULL ELSE i[2] \in Reports(i[1])}

Approved(items) == {i \in items : StatusOf(i[2]) = "DISTRICT_APPROVED"}

\* getSummaryReadiness.
Readiness ==
  [totalAssignments |-> Cardinality(Items),
   readyAssignments |-> Cardinality(Approved(Items)),
   blockedAssignments |-> Items \ Approved(Items),
   canAggregate |-> Items # {} /\ Items \ Approved(Items) = {}]

\* getAssignmentAdminView: the cells of one submission of the assignment.
AdminView(a, pick) == [c \in {c \in Cells : cells[pick[a]][c] # NULL} |-> cells[pick[a]][c]]

\* The merge of buildSummaryPreview: the number of a cell is the sum of those
\* in the views, one view for each approved item; a default value stands alone.
Merged(c, pick) ==
  LET filled == {i \in Approved(Items) : c \in DOMAIN AdminView(i[1], pick)}
  IN  IF c \in DefaultCells THEN "default"
      ELSE IF filled = {} THEN NULL
      ELSE SumFunction([i \in filled |-> AdminView(i[1], pick)[c]])

\* getSummaryPreview and recomputeSummary, which does not store what it computes.
Preview(pick) ==
  [indicators |-> [c \in Cells |-> Merged(c, pick)],
   status |-> IF Approved(Items) # {} THEN "FINAL" ELSE "DRAFT",
   totalUnits |-> Cardinality(Items),
   submittedUnits |-> Cardinality({i \in Items : i[2] # NULL}),
   approvedUnits |-> Cardinality(Approved(Items))]

\* kpis, but for what is overdue.
Kpis ==
  LET live == {s \in Submissions : Exists(s) /\ ~cancelled[rows[s].assignment]}
  IN  [assigned |-> Cardinality({a \in Assignments : ~cancelled[a]}),
       submitted |-> Cardinality({s \in live : rows[s].status \notin {"NOT_STARTED", "DRAFT"}}),
       approved |-> Cardinality({s \in live : rows[s].status = "DISTRICT_APPROVED"})]

\* getFieldCategoryReports, of every status.
FieldReports(pick) ==
  [a \in {a \in Assignments : ~cancelled[a]} |->
     [status |-> StatusOf(pick[a]),
      completionPct |-> IF pick[a] = NULL THEN NULL ELSE rows[pick[a]].completionPct,
      cells |-> IF pick[a] = NULL THEN << >> ELSE AdminView(a, pick)]]
-----------------------------------------------------------------------------
\* The campaign can be aggregated, and no request is still going to open a report
\* or to write one of an assignment that is not cancelled.
Settled ==
  /\ Readiness.canAggregate
  /\ \A r \in Requests :
       /\ pc[r] \notin {"code", "insert"}
       /\ \A s \in Submissions :
            Exists(s) /\ ~cancelled[rows[s].assignment] => ~Writing(r, s)

\* A campaign that can be aggregated stays so, whatever the units and the
\* approvers ask for later: what the readers show of it never changes, unless
\* one of its assignments is cancelled.
SummaryIsFinal ==
  [][Settled /\ UNCHANGED cancelled =>
       /\ Settled'
       /\ Kpis' = Kpis
       /\ \A pick \in Picks : /\ pick \in Picks'
                              /\ Preview(pick)' = Preview(pick)
                              /\ FieldReports(pick)' = FieldReports(pick)]_vars
=============================================================================
