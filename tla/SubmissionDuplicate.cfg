\* Two requests at a time, two codes to draw.
SPECIFICATION Spec
CONSTANTS
  Requests = {r1, r2}
  MaxRequests = 4
  Crashes = TRUE
  Submissions = {s1, s2}
  i1 = i1
  i2 = i2
  t1 = t1
  Indicators <- MCIndicators
  Attributes <- MCAttributes
  DefaultCells <- MCDefaultCells
  Values = {v1}
  NULL = NULL
  Users <- MCUsers
  Orgs <- MCOrgs
  OrgOf <- MCOrgOf
  Reporters <- MCReporters
  DeptApprovers <- MCDeptApprovers
  DistrictApprovers <- MCDistrictApprovers
  Assignments <- MCAssignments
  AssignedOrg <- MCAssignedOrg
  Scope <- MCScope
INVARIANT OneSubmissionPerAssignment
CHECK_DEADLOCK FALSE
