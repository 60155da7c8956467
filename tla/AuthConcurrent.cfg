SPECIFICATION Spec
CONSTANTS
  Users = {u1}
  Requests = {r1, r2}
  MaxRequests = 4
  Crashes = TRUE
  Passwords = {p1, p2}
  FirstPassword = p1
  MaxFailed = 2
  LockTime = 1
  RefreshTime = 1
  ResetTime = 1
  MaxNow = 2
  NULL = NULL
SYMMETRY Symmetry
INVARIANTS
  TypeOK
  SpentOnce
  SessionsEnd
  
PROPERTIES
  SpentForGood
CHECK_DEADLOCK FALSE
