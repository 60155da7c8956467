\* Two requests at a time, neither waits for the other.
SPECIFICATION Spec
CONSTANTS
  Requests = {r1, r2}
  MaxRequests = 4
  Crashes = TRUE
  Submissions = {s1}
  i1 = i1
  i2 = i2
  t1 = t1
  Indicators <- MCIndicators
  Attributes <- MCAttributes
  DefaultCells <- MCDefaultCells
  Values = {v1}
  NULL = NULL
  Users <- MCUsers
  Orgs <- MCOrgs
  OrgOf <- MCOrgOf
  Reporters <- MCReporters
  DeptApprovers <- MCDeptApprovers
  DistrictApprovers <- MCDistrictApprovers
  Assignments <- MCAssignments
  AssignedOrg <- MCAssignedOrg
  Scope <- MCScope
PROPERTY CellsLockedOnceSubmitted
CHECK_DEADLOCK FALSE
