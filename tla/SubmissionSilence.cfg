\* One request at a time, none dies.
SPECIFICATION FairSpec
CONSTANTS
  Requests = {r1}
  MaxRequests = 4
  Crashes = FALSE
  Submissions = {s1}
  i1 = i1
  i2 = i2
  t1 = t1
  Indicators <- MCIndicators
  Attributes <- MCAttributes
  DefaultCells <- MCDefaultCells
  Values = {v1}
  NULL = NULL
  Users <- MCUsers
  Orgs <- MCOrgs
  OrgOf <- MCOrgOf
  Reporters <- MCReporters
  DeptApprovers <- MCDeptApprovers
  DistrictApprovers <- MCDistrictApprovers
  Assignments <- MCAssignments
  AssignedOrg <- MCAssignedOrg
  Scope <- MCScope
PROPERTY SubmitterIsTold
CHECK_DEADLOCK FALSE
