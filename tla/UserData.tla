------------------------------ MODULE UserData ------------------------------
(***************************************************************************)
(* The data of user and role administration, and the checks that need no   *)
(* store.                                                                  *)
(*                                                                         *)
(* Usernames, emails and role codes are strings that stand for their       *)
(* trimmed, case-folded form, "" for blank or not given.  A phone number   *)
(* is checked exactly as an email is, so email stands for both; nickname,  *)
(* avatar, timestamps and a role's name are left out.  A stored hash is    *)
(* represented by the password it accepts.                                 *)
(***************************************************************************)
EXTENDS Integers, FiniteSets

CONSTANTS
  NoUser,              \* the zero domain.User
  Catalog,             \* the registered permission codes
  AcceptablePasswords  \* the passwords the password policy accepts

----------------------------------------------------------------------------
(* Types *)

Statuses == {"active", "disabled"}

User == [username : STRING, email : STRING, password : STRING,
         roleIDs : SUBSET Nat, status : Statuses]

Role == [code : STRING, permissions : SUBSET STRING]

UserWrites == {"createUser", "updateUser", "setStatus", "deleteUser"}
RoleWrites == {"createRole", "updateRole", "deleteRole"}
SelfWrites == {"updateProfile", "changePassword"}
Operations == UserWrites \cup RoleWrites \cup SelfWrites

(* A request body with the subject of the bearer token (actor) and the ID  *)
(* in the path (target); an operation ignores the fields it does not have. *)
CallOf(ops) ==
  [op : ops, actor : Nat, target : Nat,
   username : STRING, email : STRING, status : STRING,
   password : STRING, current : STRING, roleIDs : SUBSET Nat,
   code : STRING, permissions : SUBSET STRING]
Call == CallOf(Operations)

ASSUME UserDataAssumption ==
  /\ NoUser \notin User
  /\ Catalog \subseteq STRING
  /\ AcceptablePasswords \subseteq STRING \ {""}
  /\ {""} \cup Statuses \subseteq STRING

----------------------------------------------------------------------------
(* Users and roles *)

(* A map with key k set to v, and a map with key k removed. *)
Put(f, k, v) == [x \in DOMAIN f \cup {k} |-> IF x = k THEN v ELSE f[x]]
Without(f, k) == [x \in DOMAIN f \ {k} |-> f[x]]

UserMap(us) == /\ DOMAIN us \subseteq Nat \ {0}
               /\ us \in [DOMAIN us -> User]
RoleMap(rs) == /\ DOMAIN rs \subseteq Nat \ {0}
               /\ rs \in [DOMAIN rs -> Role]

RolesKnown(us, rs) == \A id \in DOMAIN us : us[id].roleIDs \subseteq DOMAIN rs

(* No two users share a username or a contact; no two roles share a code.  *)
UniqueUsers(us) ==
  \A x, y \in DOMAIN us :
    x # y => /\ us[x].username # us[y].username
             /\ us[x].email # "" => us[x].email # us[y].email

UniqueRoles(rs) ==
  \A x, y \in DOMAIN rs : x # y => rs[x].code # rs[y].code

(* security.Policy: a grant of "*" or of the permission itself by any of   *)
(* the roles; a role ID without a role grants nothing.                     *)
Allows(rs, roleIDs, permission) ==
  \E id \in roleIDs \cap DOMAIN rs :
    rs[id].permissions \cap {"*", permission} # {}

(* adminRoleID: ListRoles is sorted by ID and the first match is taken. *)
AdminRoles(rs) == {id \in DOMAIN rs : rs[id].code = "admin"}
FirstAdminRole(rs, a) == a \in AdminRoles(rs) /\ \A b \in AdminRoles(rs) : a <= b

ActiveUsers(us) == {id \in DOMAIN us : us[id].status = "active"}

Administrators(us, rs) ==
  {id \in ActiveUsers(us) : us[id].roleIDs \cap AdminRoles(rs) # {}}

----------------------------------------------------------------------------
(* What a request carries *)

RequiredPermission ==
  [createUser |-> "system:user:create", updateUser |-> "system:user:update",
   setStatus |-> "system:user:update", deleteUser |-> "system:user:delete",
   createRole |-> "system:role:create", updateRole |-> "system:role:update",
   deleteRole |-> "system:role:delete",
   updateProfile |-> "", changePassword |-> ""]

(* A path ID for management writes, the caller's own ID for self service. *)
Target(c) == IF c.op \in SelfWrites THEN c.actor ELSE c.target

(* Faulty variant of NormalStatus: a blank status is stored as it is. *)
NormalStatusKept(status) == status

(* normalizeUserStatus *)
NormalStatus(status) == IF status = "" THEN "active" ELSE status

(* cleanPermissions *)
CleanPermissions(ps) == IF "*" \in ps THEN {"*"} ELSE ps \ {""}

(* The checks that need no store, made before the first service store call. *)
InvalidInput(c) ==
  \/ /\ c.op \in {"createUser", "updateUser"}
     /\ c.username = "" \/ c.status \notin Statuses \cup {""}
  \/ c.op = "createUser" /\ c.password \notin AcceptablePasswords
  \/ c.op = "setStatus" /\ c.status \notin Statuses
  \/ /\ c.op = "changePassword"
     /\ c.current = "" \/ c.password \notin AcceptablePasswords
  \/ /\ c.op \in {"createRole", "updateRole"}
     /\ c.code = "" \/ ~(c.permissions \subseteq Catalog \cup {"", "*"})

(* Faulty variant of StaysAdministrator: the next status is not looked at. *)
StaysAdministratorByRole(c, u, a) ==
  CASE c.op = "updateUser" -> a \in c.roleIDs
    [] c.op = "setStatus"  -> a \in u.roleIDs
    [] c.op = "deleteUser" -> FALSE

(* The arguments removesLastActiveAdministrator gets for the next state. *)
StaysAdministrator(c, u, a) ==
  CASE c.op = "updateUser" -> NormalStatus(c.status) = "active" /\ a \in c.roleIDs
    [] c.op = "setStatus"  -> c.status = "active" /\ a \in u.roleIDs
    [] c.op = "deleteUser" -> FALSE
============================================================================
