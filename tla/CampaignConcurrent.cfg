\* Two requests at a time, with dispatches and cancellations in between; any may die.
SPECIFICATION Spec
CONSTANTS
  Requests = {r1, r2}
  MaxRequests = 6
  Crashes = TRUE
  Campaigns = {k1}
  Deadlines = {d1, d2}
  ValidDeadlines = {d1}
  o1 = o1
  o2 = o2
  i1 = i1
  t1 = t1
  Orgs <- MCOrgs
  ActiveOrgs <- MCOrgs
  Indicators <- MCIndicators
  TitleIndicators <- MCTitles
  Attributes <- MCAttributes
  Values = {v1, v2}
  TemplateType = "AGGREGATE"
  TemplateScope <- MCTemplateScope
  NULL = NULL
SYMMETRY MCSymmetry
INVARIANTS
  TypeOK
  AssignedAsScoped
  TemplatePutInUse
PROPERTIES
  DispatchIsFinal
  AssignmentsEndure
  TemplateMovesForward
CHECK_DEADLOCK FALSE
