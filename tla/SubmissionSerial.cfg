\* One request at a time; it may die half-way.
SPECIFICATION Spec
CONSTANTS
  Requests = {r1}
  MaxRequests = 6
  Crashes = TRUE
  Submissions = {s1, s2}
  i1 = i1
  i2 = i2
  t1 = t1
  Indicators <- MCIndicators
  Attributes <- MCAttributes
  DefaultCells <- MCDefaultCells
  Values = {v1, v2}
  NULL = NULL
  Users <- MCTwoUsers
  Orgs <- MCOrgs
  OrgOf <- MCTwoOrgOf
  Reporters <- MCTwoReporters
  DeptApprovers <- MCDeptApprovers
  DistrictApprovers <- MCDistrictApprovers
  Assignments <- MCAssignments
  AssignedOrg <- MCAssignedOrg
  Scope <- MCScope
INVARIANTS
  OneSubmissionPerAssignment
  DeskShowsSubmitted
  LogIsChain
  VersionIdentifiesContent
  CompletionIsCurrent
PROPERTY ImplementsWorkflow
CHECK_DEADLOCK FALSE
