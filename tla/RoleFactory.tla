---------------------------- MODULE RoleFactory ----------------------------
(***************************************************************************)
(* RoleFactory, RoleFlyweight and UserContext of                           *)
(* examples/flyweight/main.cpp.  An object is known by the number of its   *)
(* creation.                                                               *)
(***************************************************************************)
EXTENDS Integers, Sequences, FiniteSets

CONSTANTS
  RoleNames,  \* the names callers ask for
  NoRole,     \* no object
  MaxUsers    \* bound: the number of user contexts

VARIABLES
  roles,    \* roles_: the shared object of each name, or NoRole
  objects,  \* the RoleFlyweight objects made so far
  users     \* the user contexts: the name each asked for and its role_

vars == <<roles, objects, users>>

Permissions(role_name) ==
  CASE role_name = "admin"  -> {"read", "write", "delete", "admin"}
    [] role_name = "editor" -> {"read", "write"}
    [] role_name = "viewer" -> {"read"}
    [] OTHER                -> {}

Init ==
  /\ roles = [role_name \in RoleNames |-> NoRole]
  /\ objects = <<>>
  /\ users = <<>>

AddUser(role_name, role) == users' = Append(users, [asked |-> role_name, role |-> role])

(* A variant with a plausible slip, which takes no part in the             *)
(* specification; it serves to show that a property notices the slip.      *)
CreateWithoutStoring(role_name) ==
  /\ objects' = Append(objects, Permissions(role_name))
  /\ AddUser(role_name, Len(objects'))
  /\ UNCHANGED roles

(* A new user context whose role get_role finds in roles_ ...              *)
ReuseRole(role_name) ==
  /\ roles[role_name] # NoRole
  /\ AddUser(role_name, roles[role_name])
  /\ UNCHANGED <<roles, objects>>

(* ... or makes with create_role and stores there.                         *)
CreateRole(role_name) ==
  /\ roles[role_name] = NoRole
  /\ objects' = Append(objects, Permissions(role_name))
  /\ roles' = [roles EXCEPT ![role_name] = Len(objects')]
  /\ AddUser(role_name, Len(objects'))

Next ==
  /\ Len(users) < MaxUsers
  /\ \E role_name \in RoleNames : ReuseRole(role_name) \/ CreateRole(role_name)

Spec == Init /\ [][Next]_vars

-----------------------------------------------------------------------------
(* The roles are objects that exist.                                       *)
TypeOK ==
  /\ roles \in [RoleNames -> DOMAIN objects \cup {NoRole}]
  /\ \A i \in DOMAIN users : users[i].asked \in RoleNames /\ users[i].role \in DOMAIN objects

(* Two users share a role object when and only when they asked for the     *)
(* same name, no object is made that no user refers to, and each user can  *)
(* do what the role asked for may do.                                      *)
RolesShared ==
  /\ \A i, j \in DOMAIN users :
       users[i].role = users[j].role <=> users[i].asked = users[j].asked
  /\ DOMAIN objects = {users[i].role : i \in DOMAIN users}
  /\ \A i \in DOMAIN users : objects[users[i].role] = Permissions(users[i].asked)
=============================================================================
