SPECIFICATION Spec
CONSTANTS
  o1 = o1
  o2 = o2
  o3 = o3
  Orgs = {o1, o2, o3}
  u1 = u1
  u2 = u2
  Users = {u1, u2}
  x1 = x1
  x2 = x2
  x3 = x3
  Roles = {x1, x2, x3}
  um = um
  om = om
  rm = rm
  Permissions = {um, om, rm}
  UsersManage = um
  OrgsManage = om
  RolesManage = rm
  Class <- MCClass
  SeedRows <- MCSeedRows
  SeededRoles <- MCSeededRoles
  Bypass = FALSE
  RoleLists <- MCRoleLists
  PermissionLists <- MCPermissionLists
  UserPatches <- MCUserPatches
  Reporting = {o2}
  Requests = {r1, r2}
  MaxRequests = 3
  Crashes = TRUE
  NULL = NULL
  UNSET = UNSET
SYMMETRY Symmetry
INVARIANTS
  TypeOK
  ClosureIsTree
  RemovedIsBare
  HangsTakeTwo
  RightsAsGiven
CHECK_DEADLOCK FALSE
