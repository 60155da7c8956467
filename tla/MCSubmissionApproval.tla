------------------------ MODULE MCSubmissionApproval ------------------------
(* Small instances of SubmissionApproval for TLC: one unit with one        *)
(* assignment, a reporter and an approver of the unit, and a district      *)
(* approver of no unit.                                                    *)
EXTENDS CampaignSummary, TLC

MCUsers  == {"ann", "dora", "dan"}
MCOrgs   == {"unit"}
MCOrgOf  == [ann |-> "unit", dora |-> "unit", dan |-> NULL]
MCReporters == {"ann"}

\* A second reporter of the unit, who works on the same reports.
MCTwoUsers  == {"ann", "abe", "dora", "dan"}
MCTwoOrgOf  == [ann |-> "unit", abe |-> "unit", dora |-> "unit", dan |-> NULL]
MCTwoReporters == {"ann", "abe"}
MCDeptApprovers == {"dora"}
MCDistrictApprovers == {"dan"}

MCAssignments == {"a1"}
MCAssignedOrg == [a1 |-> "unit"]
CONSTANTS i1, i2, t1
MCIndicators == {i1, i2}
MCAttributes == {t1}
MCDefaultCells == {<<i2, t1>>}
MCScope == [a1 |-> {}]

\* Requests are interchangeable.
MCSymmetry == Permutations(Requests)

=============================================================================
