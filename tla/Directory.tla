----------------------------- MODULE Directory -----------------------------
(***************************************************************************)
(* Who is who: the organization tree (organization.service.ts) with the    *)
(* closure table a trigger keeps, the units and roles of users             *)
(* (user.service.ts), roles and permissions (role.service.ts,              *)
(* permission.service.ts, role-seeder.service.ts), and the guards that     *)
(* read them all (validateUser, PermissionsGuard).                         *)
(*                                                                         *)
(* A request is a process, a statement of its handler a step; the guards   *)
(* and the first statement of the handler are one.  save(row) selects the  *)
(* row again and updates the columns in which the copy differs from it;    *)
(* links (user_roles, role_permissions) are inserted and deleted the same  *)
(* way.  A save is one transaction.                                        *)
(*                                                                         *)
(* Left out: passwords and counters (AuthSessions), codes and names with   *)
(* their unique indexes, level and canAssignReports.  A statement on       *)
(* organizations that overlaps another one's is refused by the closure's   *)
(* primary key: to the tables that is Die.                                 *)
(***************************************************************************)
EXTENDS Integers, FiniteSets

CONSTANTS
  Orgs, Users, Roles, Permissions,            \* ids, with some to be made
  UsersManage, OrgsManage, RolesManage,       \* the permissions the routes ask for
  Class,         \* what permissionToKeyAction makes of a code
  SeedRows,      \* the rows the migrations insert, NULL for the others
  SeededRoles,   \* the roles RoleSeederService knows, and what it gives them
  Bypass,        \* AUTH_BYPASS_RBAC
  RoleLists, PermissionLists, UserPatches,    \* inputs: what may be asked for
  Reporting,     \* bound: units that may get an assignment or a summary
  Requests,      \* requests the server has in hand at the same time
  MaxRequests,   \* bound: requests served in a behaviour
  Crashes,       \* TRUE: a request may die between two statements
  NULL, UNSET    \* no value, a field the request does not have

Ids == Orgs \cup Users \cup Roles \cup Permissions

OrgRow == [parent : Orgs \cup {NULL}, active : BOOLEAN, deleted : BOOLEAN]
UserRow == [org : Orgs \cup {NULL}, active : BOOLEAN, deleted : BOOLEAN, links : SUBSET Roles]
RoleRow == [system : BOOLEAN, deleted : BOOLEAN, links : SUBSET Permissions]
PermissionRow == [deleted : BOOLEAN]
\* A permission in memory comes with the roles it is linked to.
PermissionCopy == [deleted : BOOLEAN, links : SUBSET Roles]

Row == OrgRow \cup UserRow \cup RoleRow \cup PermissionRow

\* The rows of id's table, and the copies of them a request works on.
RowOf(id) ==
  CASE id \in Orgs -> OrgRow [] id \in Users -> UserRow [] id \in Roles -> RoleRow
    [] OTHER -> PermissionRow
CopyOf(id) == IF id \in Permissions THEN PermissionCopy ELSE RowOf(id)

\* department is departmentId, another name for the same column.
UpdateUserDto ==
  [org : Orgs \cup {NULL, UNSET}, department : Orgs \cup {NULL, UNSET},
   active : BOOLEAN \cup {UNSET}, asked : (SUBSET Roles) \cup {UNSET}]

ASSUME ConstantsAssumption ==
  /\ MaxRequests \in Nat /\ Crashes \in BOOLEAN /\ Bypass \in BOOLEAN
  /\ {UsersManage, OrgsManage, RolesManage} \subseteq Permissions
  /\ UserPatches \subseteq UpdateUserDto /\ Reporting \subseteq Orgs
  /\ RoleLists \subseteq SUBSET Roles /\ PermissionLists \subseteq SUBSET Permissions
  /\ DOMAIN SeededRoles \subseteq Roles /\ DOMAIN Class = Permissions
  /\ \A x \in DOMAIN SeededRoles : SeededRoles[x] \subseteq Permissions
  /\ IsFiniteSet(Orgs)

\* An id is of one table, and no id or row is a missing one.
ASSUME IdsAssumption ==
  /\ Users \cap Orgs = {} /\ Roles \cap (Orgs \cup Users) = {}
  /\ Permissions \cap (Orgs \cup Users \cup Roles) = {}
  /\ NULL \notin Ids /\ NULL \notin Row /\ NULL # UNSET
  /\ UNSET \notin Ids /\ \A S \in (SUBSET Roles) \cup (SUBSET Permissions) : S # UNSET

VARIABLES
  rows,      \* organizations, users, roles and permissions, by id
  closure,   \* organization_closure
  business,  \* units with report_assignments or report_summaries
  served,    \* requests that have arrived
  pc, job, mem, base,   \* each request: its next statement, what it is about,
             \* its copy of the row, the row save selected
  given,     \* history: the roles a user, the permissions a role was last given
  behind,    \* history: requests at work when another one wrote
  mixed,     \* history: the rows such requests wrote, with the units they named
  unseen     \* history: accounts whose unit was last written without a look at it

tables == <<rows, closure, business>>
control == <<served, pc, job, mem, base>>
history == <<given, behind, mixed, unseen>>
vars == <<tables, control, history>>

Exists(id) == rows[id] # NULL
Live(id) == Exists(id) /\ ~rows[id].deleted
-----------------------------------------------------------------------------
\* The tree.  Climb(o, parent)[k]: where k steps up from o lead, NULL past the top.
Climb(o, parent) ==
  LET up[k \in 0..Cardinality(Orgs)] ==
        IF k = 0 THEN o ELSE IF up[k - 1] = NULL THEN NULL ELSE parent[up[k - 1]]
  IN up

Above(o, parent) == {Climb(o, parent)[k] : k \in 0..Cardinality(Orgs)} \ {NULL}

ParentsIn(table) == [o \in Orgs |-> IF table[o] = NULL THEN NULL ELSE table[o].parent]

\* What assertNoCycle walks on: parents of units that are not deleted.
LiveParents == [o \in Orgs |-> IF Live(o) THEN rows[o].parent ELSE NULL]

Cyclic(table) ==
  \E o \in Orgs : LET parent == ParentsIn(table) IN
                  parent[o] # NULL /\ o \in Above(parent[o], parent)

\* What the migrations leave behind: rows of their tables, none of them deleted,
\* that refer to rows of theirs, and a tree.
ASSUME SeedAssumption ==
  /\ SeedRows \in [Ids -> Row \cup {NULL}]
  /\ \A id \in Ids : SeedRows[id] # NULL => SeedRows[id] \in RowOf(id) /\ ~SeedRows[id].deleted
  /\ \A o \in Orgs : ParentsIn(SeedRows)[o] # NULL => SeedRows[ParentsIn(SeedRows)[o]] # NULL
  /\ \A x \in Roles : SeedRows[x] # NULL => \A p \in SeedRows[x].links : SeedRows[p] # NULL
  /\ ~Cyclic(SeedRows)

Refresh_Live(table) ==   \* mutant: deleted units are left out
  LET there == {o \in Orgs : table[o] # NULL /\ ~table[o].deleted}
      tree[k \in 0..Cardinality(Orgs)] ==
        IF k = 0 THEN {<<o, o, 0>> : o \in there}
        ELSE UNION {{<<t[1], c, k>> : c \in {c \in there : table[c].parent = t[2]}} :
                    t \in tree[k - 1]}
  IN UNION {tree[k] : k \in 0..Cardinality(Orgs)}

\* refresh_organization_closure: the recursive query, a level of depth a time.
Refresh(table) ==
  LET there == {o \in Orgs : table[o] # NULL}
      tree[k \in 0..Cardinality(Orgs)] ==
        IF k = 0 THEN {<<o, o, 0>> : o \in there}
        ELSE UNION {{<<t[1], c, k>> : c \in {c \in there : table[c].parent = t[2]}} :
                    t \in tree[k - 1]}
  IN UNION {tree[k] : k \in 0..Cardinality(Orgs)}

GetAncestors(o) == {a \in Orgs : Live(a) /\ \E k \in 1..Cardinality(Orgs) : <<a, o, k>> \in closure}
GetDescendants(o) == {d \in Orgs : Live(d) /\ \E k \in 1..Cardinality(Orgs) : <<o, d, k>> \in closure}
-----------------------------------------------------------------------------
\* getUserPermissions, and what PermissionsGuard collects: links to deleted
\* roles and permissions do not count.
Rights(u) ==
  UNION {{p \in rows[x].links : Live(p)} : x \in {x \in rows[u].links : Live(x)}}

\* validateUser.
Authorize(u) ==
  /\ Live(u) /\ rows[u].active
  /\ rows[u].org # NULL => Live(rows[u].org) /\ rows[rows[u].org].active

\* canActivate, behind JwtAuthGuard.
MayCall(permission) == \E u \in Users : Authorize(u) /\ (Bypass \/ permission \in Rights(u))

\* What a request is about: asked is what is to be linked, unit what
\* assertFkReferences is called with, NULL when there is nothing to look for.
About(op, id, asked) == [op |-> op, id |-> id, asked |-> asked, unit |-> NULL]
NoJob == About("none", NULL, UNSET)
Jobs ==
  [op : {"none", "org", "user", "role", "permission", "save", "assign", "remove"}, id : Ids \cup {NULL},
   asked : (SUBSET Roles) \cup (SUBSET Permissions) \cup {UNSET}, unit : Orgs \cup {NULL}]

Points == {"idle", "parent", "walk", "children", "tenants", "business", "org", "insert",
           "find", "roles", "permissions", "resolve", "load", "write", "hung"}

Init ==
  /\ rows = SeedRows
  /\ closure = Refresh(SeedRows)
  /\ business = {}
  /\ served = 0
  /\ pc = [r \in Requests |-> "idle"]
  /\ job = [r \in Requests |-> NoJob]
  /\ mem = [r \in Requests |-> NULL]
  /\ base = [r \in Requests |-> NULL]
  /\ given = [id \in Users \cup Roles |-> IF SeedRows[id] = NULL THEN {} ELSE SeedRows[id].links]
  /\ behind = {}
  /\ mixed = {}
  /\ unseen = {}
-----------------------------------------------------------------------------
\* Steps of a request.  A refusal ends the request where it is and writes nothing.
Goto(r, point) ==
  /\ pc' = [pc EXCEPT ![r] = point]
  /\ UNCHANGED <<served, job, mem, base>>

Answer(r) ==
  /\ pc' = [pc EXCEPT ![r] = "idle"]
  /\ job' = [job EXCEPT ![r] = NoJob]
  /\ mem' = [mem EXCEPT ![r] = NULL]
  /\ base' = [base EXCEPT ![r] = NULL]
  /\ UNCHANGED served

Still == UNCHANGED <<tables, given, mixed, unseen>>

End(r) == Answer(r) /\ behind' = behind \ {r} /\ Still

\* A check of a handler: the request goes on at point, or is refused.
Check(r, good, point) == IF good THEN Goto(r, point) /\ Still /\ UNCHANGED behind ELSE End(r)

\* A request arrives and has copy in hand.
Arrival(r, about, copy, point) ==
  /\ served' = served + 1
  /\ pc' = [pc EXCEPT ![r] = point]
  /\ job' = [job EXCEPT ![r] = about]
  /\ mem' = [mem EXCEPT ![r] = copy]
  /\ UNCHANGED <<base, behind>>
  /\ Still

\* The same behind the guards of a route.
Begin(r, permission, op, id, asked, copy, point) ==
  MayCall(permission) /\ Arrival(r, About(op, id, asked), copy, point)

\* The four findOne: a user comes without roles, a role with the permissions,
\* a permission with the roles that are not deleted.
FindOne(id) ==
  CASE id \in Users -> [rows[id] EXCEPT !.links = {}]
    [] id \in Roles -> [rows[id] EXCEPT !.links = {p \in @ : Live(p)}]
    [] id \in Permissions ->
         [deleted |-> rows[id].deleted, links |-> {x \in Roles : Live(x) /\ id \in rows[x].links}]
    [] OTHER -> rows[id]

\* What save selects: the row with all its links.
Select(id) ==
  IF id \in Permissions
  THEN [deleted |-> rows[id].deleted, links |-> {x \in Roles : Exists(x) /\ id \in rows[x].links}]
  ELSE rows[id]

Merge_AddLinks(row, copy, from) ==   \* mutant: links are only added
  [c \in DOMAIN row |->
     IF c = "links" THEN row[c] \cup (copy[c] \ from[c])
     ELSE IF copy[c] # from[c] THEN copy[c] ELSE row[c]]

\* The columns in which the copy differs from the row save selected, and the
\* links it has more or less.
Merge(row, copy, from) ==
  [c \in DOMAIN row |->
     IF c = "links" THEN (row[c] \ (from[c] \ copy[c])) \cup (copy[c] \ from[c])
     ELSE IF copy[c] # from[c] THEN copy[c] ELSE row[c]]

\* A link to insert is there already: the primary key refuses the whole save.
Clash(row, copy, from) ==
  "links" \in DOMAIN row /\ (copy.links \ from.links) \cap row.links # {}

\* The tables with row id written.
Stored(id, row) ==
  IF id \in Permissions
  THEN [x \in Ids |->
          IF x = id THEN [deleted |-> row.deleted]
          ELSE IF x \in Roles /\ Exists(x)
          THEN [rows[x] EXCEPT !.links = IF x \in row.links THEN @ \cup {id} ELSE @ \ {id}]
          ELSE rows[x]]
  ELSE [rows EXCEPT ![id] = row]

\* History of a write: who is behind now, and what was written from behind.
Named(table) ==
  {table[id].parent : id \in {id \in Orgs : table[id] # rows[id]}}
    \cup {table[id].org : id \in {id \in Users : table[id] # rows[id]}}

Record(r, id, table, done) ==
  LET wrote == {x \in Ids : table[x] # rows[x]}
      others == {q \in Requests \ {r} : pc[q] # "idle"}
  IN
  /\ behind' = (IF wrote = {} THEN behind ELSE behind \cup others) \ (IF done THEN {r} ELSE {})
  /\ mixed' = IF r \in behind THEN mixed \cup wrote \cup {id} \cup (Named(table) \ {NULL}) ELSE mixed
-----------------------------------------------------------------------------
\* OrganizationService.
CreateOrg(r, parent) ==
  /\ parent # NULL => Live(parent)
  /\ Begin(r, OrgsManage, "org", NULL, UNSET,
           [parent |-> parent, active |-> TRUE, deleted |-> FALSE], "insert")

UpdateOrg_Blank(r, o, parent) ==   \* mutant: an absent parent is assigned too
  /\ Live(o) /\ parent # o
  /\ Begin(r, OrgsManage, "save", o, UNSET, [rows[o] EXCEPT !.parent = parent],
           IF parent \in Orgs THEN "parent" ELSE "load")

\* update: another name, or another parent; null makes it a root.
UpdateOrg(r, o, parent) ==
  /\ Live(o) /\ parent # o
  /\ Begin(r, OrgsManage, "save", o, UNSET,
           IF parent = UNSET THEN rows[o] ELSE [rows[o] EXCEPT !.parent = parent],
           IF parent \in Orgs THEN "parent" ELSE "load")

AssertOrgExists(r) == pc[r] = "parent" /\ Check(r, Live(mem[r].parent), "walk")

AssertNoCycle_Direct(r) ==   \* mutant: only the parent's parent is looked at
  /\ pc[r] = "walk"
  /\ Check(r, LiveParents[mem[r].parent] # job[r].id, "load")

AssertNoCycle(r) ==
  /\ pc[r] = "walk"
  /\ Check(r, job[r].id \notin Above(mem[r].parent, LiveParents), "load")

\* lock, unlock: nothing to do when it is so already.
SetActive(r, o, active) ==
  /\ Live(o) /\ rows[o].active # active
  /\ Begin(r, OrgsManage, "save", o, UNSET, [rows[o] EXCEPT !.active = active], "load")

RemoveOrg(r, o) ==
  /\ Live(o)
  /\ Begin(r, OrgsManage, "remove", o, UNSET, rows[o], "children")

NoChildren(r) ==
  /\ pc[r] = "children"
  /\ Check(r, \A o \in Orgs : Live(o) => rows[o].parent # job[r].id, "tenants")

NoTenants_Live(r) ==   \* mutant: deleted users do not count
  /\ pc[r] = "tenants"
  /\ Check(r, \A u \in Users : Live(u) => rows[u].org # job[r].id, "business")

NoTenants(r) ==   \* plain SQL: deleted users count
  /\ pc[r] = "tenants"
  /\ Check(r, \A u \in Users : Exists(u) => rows[u].org # job[r].id, "business")

NoBusiness(r) == pc[r] = "business" /\ Check(r, job[r].id \notin business, "load")
-----------------------------------------------------------------------------
\* UserService.
CreateUser(r, org, asked) ==
  /\ Live(org)
  /\ Begin(r, UsersManage, "user", NULL, asked,
           [org |-> org, active |-> TRUE, deleted |-> FALSE, links |-> {}], "insert")

\* The unit that update looks for: orgId comes first, and null stands for the
\* unit the account is under.
UnitChecked(u, dto) ==
  CASE dto.org \in Orgs -> dto.org
    [] dto.org = NULL -> rows[u].org
    [] dto.department \in Orgs -> dto.department
    [] OTHER -> NULL

\* The unit that it writes: departmentId comes first, null is null.
UnitWritten(u, dto) ==
  IF dto.department # UNSET THEN dto.department ELSE IF dto.org # UNSET THEN dto.org ELSE rows[u].org

\* update, updateStatus, activate, deactivate, resetPassword.
UpdateUser(r, u, dto) ==
  LET unit == UnitChecked(u, dto) IN
  /\ Live(u) /\ MayCall(UsersManage)
  /\ Arrival(r, [About("save", u, dto.asked) EXCEPT !.unit = unit],
             [FindOne(u) EXCEPT !.org = UnitWritten(u, dto),
                                !.active = IF dto.active = UNSET THEN @ ELSE dto.active],
             IF unit = NULL THEN "load" ELSE "org")

\* changePassword and resetPassword of AuthService save the account in the same
\* way and ask for no permission.
ChangePassword(r, u) == Live(u) /\ Arrival(r, About("save", u, UNSET), FindOne(u), "load")

AssertFkReferences(r) == pc[r] = "org" /\ Check(r, Live(job[r].unit), "load")

RemoveUser(r, u) ==
  /\ Live(u)
  /\ Begin(r, UsersManage, "remove", u, UNSET, FindOne(u), "load")

AssignRoles(r, u, asked) ==
  /\ Live(u)
  /\ Begin(r, UsersManage, "assign", u, asked, FindOne(u), "roles")

\* assignRoles of create and update starts with a findOne of its own.
Find(r) ==
  /\ pc[r] = "find"
  /\ IF Live(job[r].id)
     THEN /\ mem' = [mem EXCEPT ![r] = FindOne(job[r].id)]
          /\ job' = [job EXCEPT ![r] = About("assign", job[r].id, job[r].asked)]
          /\ pc' = [pc EXCEPT ![r] = "roles"]
          /\ Still /\ UNCHANGED <<served, base, behind>>
     ELSE End(r)

\* Every id asked for must be found; then the copy gets them.
FindAll(r) ==
  /\ pc[r] \in {"roles", "permissions"}
  /\ IF \A x \in job[r].asked : Live(x)
     THEN /\ mem' = [mem EXCEPT ![r].links = job[r].asked]
          /\ pc' = [pc EXCEPT ![r] = "load"]
          /\ Still /\ UNCHANGED <<served, job, base, behind>>
     ELSE End(r)
-----------------------------------------------------------------------------
\* RoleService and PermissionService.
RoleEditable(x) == Live(x) /\ ~rows[x].system

\* A role group is asked for by keys and actions: all the permissions these stand
\* for, and of them what resolvePermissionsFromRoleGroupPayload finds.
InClasses(wanted) == {p \in Permissions : Class[p] \in {Class[q] : q \in wanted}}
Resolved(wanted) == {p \in InClasses(wanted) : Live(p)}

CreateRole(r) ==
  Begin(r, RolesManage, "role", NULL, UNSET,
        [system |-> FALSE, deleted |-> FALSE, links |-> {}], "insert")

CreateRoleGroup(r, wanted) ==
  Begin(r, RolesManage, "role", NULL, UNSET,
        [system |-> FALSE, deleted |-> FALSE, links |-> Resolved(wanted)], "insert")

UpdateRole(r, x) ==
  /\ RoleEditable(x)
  /\ Begin(r, RolesManage, "save", x, UNSET, FindOne(x), "load")

PatchRoleGroup(r, x, wanted) ==
  /\ RoleEditable(x)
  /\ Begin(r, RolesManage, "assign", x, InClasses(wanted), FindOne(x), "resolve")

Resolve(r) ==
  /\ pc[r] = "resolve"
  /\ mem' = [mem EXCEPT ![r].links = Resolved(job[r].asked)]
  /\ pc' = [pc EXCEPT ![r] = "load"]
  /\ Still /\ UNCHANGED <<served, job, base, behind>>

RemoveRole(r, x) ==
  /\ RoleEditable(x)
  /\ Begin(r, RolesManage, "remove", x, UNSET, FindOne(x), "load")

UpdatePermissions(r, x, asked) ==   \* system roles too
  /\ Live(x)
  /\ Begin(r, RolesManage, "assign", x, asked, FindOne(x), "permissions")

CreatePermission(r) ==
  Begin(r, RolesManage, "permission", NULL, UNSET, [deleted |-> FALSE], "insert")

UpdatePermission(r, p) ==
  /\ Live(p)
  /\ Begin(r, RolesManage, "save", p, UNSET, FindOne(p), "load")

RemovePermission(r, p) ==
  /\ Live(p)
  /\ Begin(r, RolesManage, "remove", p, UNSET, FindOne(p), "load")

\* RoleSeederService.seed for one of its roles, before the server listens; the
\* migrations have made them all.  It starts with the permissions: one that was
\* deleted it tries to make again, and the unique code stops the start.
SeedRole(x) ==
  /\ \A r \in Requests : pc[r] = "idle"
  /\ \A y \in DOMAIN SeededRoles, p \in Permissions : p \in SeededRoles[y] => Live(p)
  /\ Live(x)
  /\ rows' = [rows EXCEPT ![x].links = SeededRoles[x]]
  /\ given' = [given EXCEPT ![x] = SeededRoles[x]]
  /\ mixed' = mixed \ {x}
  /\ UNCHANGED <<closure, business, control, behind, unseen>>
-----------------------------------------------------------------------------
\* One statement, on organizations with its trigger: the update that would
\* close a cycle never returns from the recursive query, and holds the rows of
\* the closure that every other one has to delete.
TreeFree(id) == id \in Orgs => \A q \in Requests : pc[q] # "hung"

\* A row of the kind the request makes, under an id that is new.
Insert(r) ==
  LET kind == CASE job[r].op = "org" -> Orgs [] job[r].op = "user" -> Users
                [] job[r].op = "role" -> Roles [] OTHER -> Permissions
      more == job[r].asked \notin {UNSET, {}}   \* roles to assign
  IN
  /\ pc[r] = "insert"
  /\ \E id \in kind :
       LET table == [rows EXCEPT ![id] = mem[r]] IN
       /\ ~Exists(id) /\ TreeFree(id)
       /\ rows' = table
       /\ closure' = IF id \in Orgs THEN Refresh(table) ELSE closure
       /\ given' = IF id \in DOMAIN given THEN [given EXCEPT ![id] = mem[r].links] ELSE given
       /\ Record(r, id, table, ~more)
       /\ IF more
          THEN /\ job' = [job EXCEPT ![r].id = id]
               /\ pc' = [pc EXCEPT ![r] = "find"]
               /\ UNCHANGED <<served, mem, base>>
          ELSE Answer(r)
  /\ UNCHANGED <<business, unseen>>

\* softRemove writes deleted_at and, of the copy, the links only.
Removal(row, copy) ==
  [c \in DOMAIN row |->
     IF c = "deleted" THEN TRUE ELSE IF c = "links" THEN copy[c] ELSE row[c]]

SaveLoad(r) ==
  LET row == Select(job[r].id) IN
  /\ pc[r] = "load"
  /\ base' = [base EXCEPT ![r] = row]
  /\ mem' = [mem EXCEPT ![r] = IF job[r].op = "remove" THEN Removal(row, @) ELSE @]
  /\ pc' = [pc EXCEPT ![r] = "write"]
  /\ Still /\ UNCHANGED <<served, job, behind>>

SaveWrite(r) ==
  LET id == job[r].id
      table == Stored(id, Merge(Select(id), mem[r], base[r]))
      more == job[r].op = "save" /\ job[r].asked # UNSET   \* roles to assign
  IN
  /\ pc[r] = "write" /\ TreeFree(id)
  /\ ~Clash(Select(id), mem[r], base[r])
  /\ ~Cyclic(table)
  /\ rows' = table
  /\ closure' = IF id \in Orgs THEN Refresh(table) ELSE closure
  /\ given' = IF job[r].op = "assign" THEN [given EXCEPT ![id] = job[r].asked] ELSE given
  /\ Record(r, id, table, ~more)
  /\ unseen' = IF id \notin Users \/ table[id].org = rows[id].org THEN unseen
               ELSE IF table[id].org = job[r].unit THEN unseen \ {id} ELSE unseen \cup {id}
  /\ IF more THEN Goto(r, "find") ELSE Answer(r)
  /\ UNCHANGED business

SaveRefused(r) ==
  /\ pc[r] = "write" /\ Clash(Select(job[r].id), mem[r], base[r])
  /\ End(r)

SaveHangs(r) ==
  LET id == job[r].id IN
  /\ pc[r] = "write" /\ TreeFree(id)
  /\ Cyclic(Stored(id, Merge(Select(id), mem[r], base[r])))
  /\ Goto(r, "hung")
  /\ Still /\ UNCHANGED behind
-----------------------------------------------------------------------------
\* A campaign is dispatched to a unit, or summarised.
Dispatch(o) ==
  /\ Exists(o) /\ o \notin business
  /\ business' = business \cup {o}
  /\ UNCHANGED <<rows, closure, control, history>>

Die(r) == Crashes /\ pc[r] # "idle" /\ End(r)

OrganizationController(r) ==
  \E o \in Orgs :
    \/ \E parent \in Orgs \cup {NULL} : CreateOrg(r, parent)
    \/ \E parent \in Orgs \cup {NULL, UNSET} : UpdateOrg(r, o, parent)
    \/ \E active \in BOOLEAN : SetActive(r, o, active)
    \/ RemoveOrg(r, o)

\* A departmentId is that of a unit, there or deleted: no check would stop one
\* that was never given out, which the guards take for a deleted one.
Known(department) == department \in Orgs => Exists(department)

UserController(r) ==
  \/ \E org \in Orgs, asked \in RoleLists : CreateUser(r, org, asked)
  \/ \E u \in Users :
       \/ \E dto \in UserPatches : Known(dto.department) /\ UpdateUser(r, u, dto)
       \/ RemoveUser(r, u) \/ ChangePassword(r, u)
       \/ \E asked \in RoleLists : AssignRoles(r, u, asked)

RoleController(r) ==
  \/ CreateRole(r)
  \/ \E x \in Roles :
       \/ UpdateRole(r, x) \/ RemoveRole(r, x)
       \/ \E asked \in PermissionLists : UpdatePermissions(r, x, asked)

RoleGroupsController(r) ==
  \E wanted \in PermissionLists :
    \/ CreateRoleGroup(r, wanted)
    \/ \E x \in Roles : PatchRoleGroup(r, x, wanted)

PermissionController(r) ==
  \/ CreatePermission(r)
  \/ \E p \in Permissions : UpdatePermission(r, p) \/ RemovePermission(r, p)

Arrive(r) ==
  /\ pc[r] = "idle" /\ served < MaxRequests
  /\ \/ OrganizationController(r) \/ UserController(r)
     \/ RoleController(r) \/ RoleGroupsController(r) \/ PermissionController(r)

Statement(r) ==
  \/ AssertOrgExists(r) \/ AssertNoCycle(r) \/ NoChildren(r) \/ NoTenants(r) \/ NoBusiness(r)
  \/ AssertFkReferences(r) \/ Find(r) \/ FindAll(r) \/ Resolve(r)
  \/ Insert(r) \/ SaveLoad(r) \/ SaveWrite(r) \/ SaveRefused(r) \/ SaveHangs(r)

Next ==
  \/ \E r \in Requests : Arrive(r) \/ Statement(r) \/ Die(r)
  \/ \E o \in Reporting : Dispatch(o)
  \/ \E x \in DOMAIN SeededRoles : SeedRole(x)

Spec == Init /\ [][Next]_vars
-----------------------------------------------------------------------------
\* Every row, copy and link has the shape of its table.
TypeOK ==
  /\ rows \in [Ids -> Row \cup {NULL}]
  /\ \A id \in Ids : Exists(id) => rows[id] \in RowOf(id)
  /\ closure \subseteq Orgs \X Orgs \X (0..Cardinality(Orgs))
  /\ business \subseteq Orgs /\ served \in 0..MaxRequests
  /\ pc \in [Requests -> Points]
  /\ job \in [Requests -> Jobs]
  /\ mem \in [Requests -> Row \cup PermissionCopy \cup {NULL}]
  /\ base \in [Requests -> Row \cup PermissionCopy \cup {NULL}]
  /\ given \in [Users \cup Roles -> (SUBSET Roles) \cup (SUBSET Permissions)]
  /\ behind \subseteq Requests /\ mixed \subseteq Ids /\ unseen \subseteq Users

\* The tree is a tree, and the closure answers as the tree does: the units
\* above one are those its parents lead to, also past a deleted one, and the
\* units below are those it is above of (refresh_organization_closure,
\* getAncestors, getDescendants).
ClosureIsTree ==
  LET parent == ParentsIn(rows) IN
  /\ \A o \in Orgs : Climb(o, parent)[Cardinality(Orgs)] = NULL
  /\ \A t \in closure : Climb(t[2], parent)[t[3]] = t[1]
  /\ \A o \in {o \in Orgs : Live(o)} :
       /\ GetAncestors(o) = {a \in Above(o, parent) \ {o} : Live(a)}
       /\ GetDescendants(o) = {d \in Orgs \ {o} : Live(d) /\ o \in Above(d, parent)}

\* Under a deleted unit there is no unit, and no account but one whose unit was
\* last written without a look at it (a departmentId beside an orgId), unless
\* requests that overlapped others' writes brought them together (remove, create,
\* update).
RemovedIsBare ==
  \A o \in Orgs \ mixed : Exists(o) /\ rows[o].deleted =>
    /\ \A c \in Orgs : Live(c) => rows[c].parent # o
    /\ \A u \in Users : Exists(u) => rows[u].org # o \/ u \in unseen

\* A move that would close a cycle got past assertNoCycle only if somebody wrote
\* under it, or an earlier overlap had left units under a deleted one.
HangsTakeTwo ==
  \A r \in Requests : pc[r] = "hung" => r \in behind \/ mixed \cap Orgs # {}

\* Nobody may do more than the roles last given to him, as last defined, let
\* him, however users, roles and permissions were saved, deleted and saved
\* again since; what a request wrote that was overtaken is not counted
\* (assignRoles, updatePermissions, Rights).
RightsAsGiven ==
  \A u \in Users \ mixed : Exists(u) =>
    \A x \in rows[u].links \ mixed :
      Live(x) => x \in given[u] /\ {p \in rows[x].links : Live(p)} \subseteq given[x] \cup mixed
=============================================================================
