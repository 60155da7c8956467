SPECIFICATION FairSpec
CONSTANTS
  Requests = {r1, r2}
  MaxRequests = 2
  Crashes = TRUE
  Forms = {f1, f2}
  f1 = f1
  Indicators <- MCIndicators
  Attributes <- MCAttributes
  c1 = c1
  c2 = c2
  c3 = c3
  c4 = c4
  c5 = c5
  Codes = {c1, c2, c3, c4, c5}
  o1 = o1
  o2 = o2
  Orgs = {o1, o2}
  e1 = e1
  e2 = e2
  Entries = {e1, e2}
  k1 = k1
  k2 = k2
  Categories = {k1, k2}
  Later <- MCLater
  SeedForm = f1
  SeedRows <- MCSeedRows
  Drafts <- MCDrafts
  Patches <- MCPatches
  Orders <- MCOrders
  Changes <- MCChanges
  Rules <- MCRules
  Sheets <- MCSheets
  NULL = NULL
  UNSET = UNSET
INVARIANTS
  TypeOK
  TreesAreForests
  OneUnitPerIndicator
  ImportAsSheet
PROPERTIES
  StructureLocked
  OrderAsAsked
  CellAsAsked
  CopyMirrors
  EditsEnd
CHECK_DEADLOCK FALSE
