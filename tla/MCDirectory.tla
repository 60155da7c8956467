---------------------------- MODULE MCDirectory ----------------------------
(***************************************************************************)
(* A small instance of Directory: a root with a unit under it, an          *)
(* administrator with the system role, and an ordinary role.               *)
(***************************************************************************)
EXTENDS Directory, TLC

CONSTANTS o1, o2, o3, u1, u2, x1, x2, x3, um, om, rm

MCClass == [p \in Permissions |-> IF p = rm THEN "roles" ELSE "units"]

Org(parent) == [parent |-> parent, active |-> TRUE, deleted |-> FALSE]
Role(system, links) == [system |-> system, deleted |-> FALSE, links |-> links]

MCSeedRows ==
  [id \in Ids |->
     CASE id = o1 -> Org(NULL)
       [] id = o2 -> Org(o1)
       [] id = u1 -> [org |-> o1, active |-> TRUE, deleted |-> FALSE, links |-> {x1}]
       [] id = x1 -> Role(TRUE, Permissions)
       [] id = x2 -> Role(FALSE, {um, rm})
       [] id \in Permissions -> [deleted |-> FALSE]
       [] OTHER -> NULL]

MCSeededRoles == x1 :> Permissions
MCRoleLists == {{}, {x2}}
Patch == [org |-> UNSET, department |-> UNSET, active |-> UNSET, asked |-> UNSET]
MCUserPatches ==
  { [Patch EXCEPT !.active = FALSE], [Patch EXCEPT !.active = TRUE, !.asked = {x1, x2}],
    [Patch EXCEPT !.org = o2], [Patch EXCEPT !.org = o1, !.department = o2],
    [Patch EXCEPT !.org = NULL], [Patch EXCEPT !.org = NULL, !.department = o2],
    [Patch EXCEPT !.department = o2] }
MCPermissionLists == {{om}, {um, rm}}
Symmetry == Permutations(Requests)
=============================================================================
