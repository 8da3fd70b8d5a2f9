---------------------------- MODULE MCUserAdmin ----------------------------
(* Instances of UserAdmin for TLC. *)
EXTENDS UserAdmin, Sequences, TLC

Symmetry == Permutations(Requests)

(* The users and roles of the store's Seed; the operator role is cut down to *)
(* one of its read permissions.                                              *)
Person(name, password, held) ==
  [username |-> name, email |-> "", password |-> password, roleIDs |-> held,
   status |-> "active"]

SeedUsers == <<Person("admin", "admin123", {1}), Person("operator", "admin123", {2})>>
SeedRoles == <<[code |-> "admin", permissions |-> {"*"}],
               [code |-> "operator", permissions |-> {"system:user:list"}]>>

(* A second administrator. *)
UsersWithSecond == SeedUsers \o <<Person("second", "admin123", {1})>>

(* Two active administrators. *)
TwoAdministrators ==
  <<Person("admin", "admin123", {1}), Person("operator", "admin123", {1, 2})>>

SystemCatalog == {"system:user:list", "system:user:create", "system:user:update",
                  "system:user:delete", "system:role:update"}

GoodPasswords == {"admin123", "changed1"}

(* A call with the fields it does not use left blank. *)
Blank(op, actor) ==
  [op |-> op, actor |-> actor, target |-> 0, username |-> "", email |-> "",
   status |-> "", password |-> "", current |-> "", roleIDs |-> {},
   code |-> "", permissions |-> {}]

Creation(actor, name, email, held) ==
  [Blank("createUser", actor) EXCEPT !.username = name, !.email = email,
     !.roleIDs = held, !.password = "admin123"]
Update(actor, id, name, held, status) ==
  [Blank("updateUser", actor) EXCEPT !.target = id, !.username = name,
     !.roleIDs = held, !.status = status]
Status(actor, id, status) ==
  [Blank("setStatus", actor) EXCEPT !.target = id, !.status = status]
Deletion(actor, id) == [Blank("deleteUser", actor) EXCEPT !.target = id]
Profile(actor, email) == [Blank("updateProfile", actor) EXCEPT !.email = email]
Password(actor, current, new) ==
  [Blank("changePassword", actor) EXCEPT !.current = current, !.password = new]
RoleCreation(actor, code, ps) ==
  [Blank("createRole", actor) EXCEPT !.code = code, !.permissions = ps]
RoleUpdate(actor, id, code, ps) ==
  [Blank("updateRole", actor) EXCEPT !.target = id, !.code = code, !.permissions = ps]
RoleDeletion(actor, id) == [Blank("deleteRole", actor) EXCEPT !.target = id]

(* Every operation, with the inputs that reach each of its answers, and       *)
(* writes of different callers to the same users, names, contacts and roles.  *)
AllCalls ==
  {Creation(1, "carol", "c@x", {2}), Creation(1, "carol", "", {3}),
   Creation(3, "carol", "c@x", {}),
   [Creation(1, "carol", "", {}) EXCEPT !.password = "short"],
   Update(1, 2, "operator", {1}, "active"), Update(1, 1, "admin", {2}, ""),
   Update(1, 2, "carol", {}, "active"), Update(3, 1, "admin", {1}, "disabled"),
   [Update(1, 2, "carol", {}, "") EXCEPT !.password = "short"],
   [Update(1, 1, "admin", {1}, "") EXCEPT !.email = "c@x"],
   Status(1, 1, "disabled"), Status(1, 2, "bogus"), Status(1, 2, "disabled"),
   Status(1, 3, "disabled"), Status(3, 1, "disabled"),
   Deletion(1, 1), Deletion(1, 2), Deletion(1, 3), Deletion(3, 1),
   Profile(2, "c@x"), Profile(2, ""),
   Password(2, "admin123", "changed1"), Password(2, "changed1", "admin123"),
   RoleCreation(1, "auditor", {"system:user:list", ""}),
   RoleUpdate(1, 1, "root", {"*", "system:user:list"}),
   RoleUpdate(1, 2, "admin", {"*"}), RoleUpdate(1, 2, "auditor", {}),
   RoleDeletion(1, 2)}

(* Two administrators disable, demote or delete each other. *)
MutualRemovals ==
  {Status(1, 2, "disabled"), Deletion(2, 1), Update(2, 1, "admin", {2}, "active")}
============================================================================
