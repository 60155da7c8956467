--------------------------- MODULE ReportWorkflow ---------------------------
(***************************************************************************)
(* What the two-level approval of reports promises, with none of the       *)
(* requests, copies and statements it is made of: an assignment has one    *)
(* report; its cells change only while it may be edited; its status moves  *)
(* along the approval flow; a district-approved report never changes.      *)
(* This is the workflow of the code. The one docs/canonical/flow.md:48-61  *)
(* draws has a step more: see Flow.                                        *)
(***************************************************************************)
CONSTANTS Assignments, Cells, Values, Editable, NULL

VARIABLES
  status,   \* status[a]: where the report of assignment a is
  content   \* content[a][c]: cell c of it, NULL while nobody filled it in

Blank == [c \in Cells |-> NULL]

Init ==
  /\ status = [a \in Assignments |-> "NOT_OPENED"]
  /\ content = [a \in Assignments |-> Blank]

Open(a) ==
  /\ status[a] = "NOT_OPENED"
  /\ status' = [status EXCEPT ![a] = "DRAFT"]
  /\ UNCHANGED content

Fill(a) ==
  /\ status[a] \in Editable
  /\ \E c \in Cells, v \in Values : content' = [content EXCEPT ![a][c] = v]
  /\ UNCHANGED status

\* The flow of the two levels; everything that ends a round leads back to the unit.
\* flow.md forwards a department-approved report to PENDING_DISTRICT, where the
\* district decides and to where a report it rejected is resubmitted; the code has
\* no such status, the district decides on DEPARTMENT_APPROVED, and a report it
\* rejected goes to the department again. The way from PENDING_DEPARTMENT back to
\* DRAFT (cancelSubmit) is not in flow.md. Nor is a report asked to be complete
\* when it is submitted, as rules.md:45 wants.
Flow ==
  {<<from, "PENDING_DEPARTMENT">> : from \in Editable} \cup
  {<<"PENDING_DEPARTMENT", to>> :
     to \in {"DRAFT", "DEPARTMENT_APPROVED", "REJECTED_DEPARTMENT"}} \cup
  {<<"DEPARTMENT_APPROVED", to>> : to \in {"DISTRICT_APPROVED", "REJECTED_DISTRICT"}}

Move(a) ==
  /\ \E to \in {f[2] : f \in Flow} :
       <<status[a], to>> \in Flow /\ status' = [status EXCEPT ![a] = to]
  /\ UNCHANGED content

Next == \E a \in Assignments : Open(a) \/ Fill(a) \/ Move(a)

Spec == Init /\ [][Next]_<<status, content>>

=============================================================================
