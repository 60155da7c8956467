\* A writer let in before the dispatch writes after it.
SPECIFICATION Spec
CONSTANTS
  Requests = {r1, r2}
  MaxRequests = 3
  Crashes = FALSE
  Campaigns = {k1}
  Deadlines = {d1, d2}
  ValidDeadlines = {d1}
  o1 = o1
  o2 = o2
  i1 = i1
  t1 = t1
  Orgs <- MCOrgs
  ActiveOrgs <- MCOrgs
  Indicators <- MCIndicators
  TitleIndicators <- MCTitles
  Attributes <- MCAttributes
  Values = {v1}
  TemplateType = "AGGREGATE"
  TemplateScope <- MCTemplateScope
  NULL = NULL
SYMMETRY MCSymmetry
PROPERTY DispatchedIsLocked
CHECK_DEADLOCK FALSE
