\* Two requests at a time, any of which may die.
SPECIFICATION Spec
CONSTANTS
  Requests = {r1, r2}
  MaxRequests = 5
  Crashes = TRUE
  Submissions = {s1, s2}
  i1 = i1
  i2 = i2
  t1 = t1
  Indicators <- MCIndicators
  Attributes <- MCAttributes
  DefaultCells <- MCDefaultCells
  Values = {1}
  NULL = NULL
  Users <- MCUsers
  Orgs <- MCOrgs
  OrgOf <- MCOrgOf
  Reporters <- MCReporters
  DeptApprovers <- MCDeptApprovers
  DistrictApprovers <- MCDistrictApprovers
  Assignments <- MCAssignments
  AssignedOrg <- MCAssignedOrg
  Scope <- MCScope
SYMMETRY MCSymmetry
INVARIANTS
  TypeOK
  TwoLevelApproval
  Attribution
  LogsAreCommitted
  OnlyWritableCells
PROPERTIES
  ClosedForGood
  SummaryIsFinal
CHECK_DEADLOCK FALSE
