----------------------------- MODULE MCSqlUsers -----------------------------
(* Instances of SqlUsers for TLC. *)
EXTENDS SqlUsers, Sequences

(* The administrator and the operator of the seeds, and a second             *)
(* administrator.                                                            *)
Person(name) ==
  [username |-> name, email |-> "", password |-> "admin123", status |-> "active"]
SeedAccounts == <<Person("admin"), Person("operator"), Person("second")>>
SeedUserRoles == {<<1, 1>>, <<2, 2>>, <<3, 1>>}
SeedRoles == <<[code |-> "admin", permissions |-> {"*"}],
               [code |-> "operator", permissions |-> {"system:user:list"}]>>

(* The permission of a module that was not seeded is registered, not stored. *)
SeedPermissions == {"*", "system:user:list"}
SystemCatalog == {"system:user:list", "reports:list"}
GoodPasswords == {"admin123", "changed1"}

(* A call with the fields it does not use left blank. *)
Blank(op, id) ==
  [op |-> op, actor |-> 1, target |-> id, username |-> "", email |-> "",
   status |-> "", password |-> "", current |-> "", roleIDs |-> {},
   code |-> "", permissions |-> {}]

Creation(name, email, held) ==
  [Blank("createUser", 0) EXCEPT !.username = name, !.email = email,
     !.roleIDs = held, !.password = "admin123"]
Update(id, name, held) ==
  [Blank("updateUser", id) EXCEPT !.username = name, !.roleIDs = held]
Status(id, status) == [Blank("setStatus", id) EXCEPT !.status = status]
Deletion(id) == Blank("deleteUser", id)
Profile(actor, email) ==
  [Blank("updateProfile", 0) EXCEPT !.actor = actor, !.email = email]
Password(actor, current) ==
  [Blank("changePassword", 0) EXCEPT !.actor = actor, !.current = current,
     !.password = "changed1"]
RoleCreation(code, ps) ==
  [Blank("createRole", 0) EXCEPT !.code = code, !.permissions = ps]
RoleUpdate(id, code, ps) ==
  [Blank("updateRole", id) EXCEPT !.code = code, !.permissions = ps]
RoleDeletion(id) == Blank("deleteRole", id)
Reset(name, password) ==
  [Blank("resetPassword", 0) EXCEPT !.actor = 0, !.username = name,
     !.password = password]

(* Every operation, with the inputs that reach each of its answers, and       *)
(* requests that write the same users, names, contacts and roles.             *)
AllCalls ==
  {Creation("carol", "c@x", {2}), Creation("carol", "", {}), Creation("", "", {}),
   Update(2, "carol", {1}), Update(1, "admin", {2}), Update(2, "operator", {2}),
   [Update(3, "second", {}) EXCEPT !.password = "short"],
   Status(1, "disabled"), Status(2, "disabled"), Status(3, "disabled"),
   Deletion(1), Deletion(2), Deletion(3),
   Profile(2, "c@x"), Profile(2, ""), Password(2, "admin123"), Password(2, "wrong123"),
   RoleCreation("auditor", {"system:user:list", ""}),
   RoleCreation("auditor", {"reports:list"}),
   RoleUpdate(1, "root", {"*"}), RoleUpdate(2, "auditor", {"reports:list"}),
   RoleUpdate(2, "auditor", {}), RoleDeletion(2),
   Reset("admin", "changed1"), Reset("operator", "changed1"), Reset("nobody", "changed1"),
   Reset("admin", "short")}
============================================================================
