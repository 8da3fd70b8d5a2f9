----------------------------- MODULE MCSqlMenu -----------------------------
(* Instances of SqlMenu for TLC. *)
EXTENDS SqlMenu

Entry(parent, name) == [parent |-> parent, name |-> name]

(* The menus of the seed file, of which users was moved below dashboard and   *)
(* roles below users.                                                         *)
SeedMenus == <<Entry(0, "dashboard"), Entry(0, "system"), Entry(1, "users"),
               Entry(3, "roles")>>

SeedPermissions == {"system:menu:list"}

Create(parent, name) ==
  [op |-> "create", target |-> 0, parent |-> parent, name |-> name,
   permission |-> "", valid |-> TRUE]
Move(id, parent, name) == [Create(parent, name) EXCEPT !.op = "update", !.target = id]
Delete(id) == [Create(0, "") EXCEPT !.op = "delete", !.target = id]
Needing(permission, c) == [c EXCEPT !.permission = permission]

(* Every operation, with the inputs that reach each of its answers, and       *)
(* writes of different requests to the same menus and names.  The permission  *)
(* of a module that was not seeded is registered but not stored; the system   *)
(* menu may be emptied and deleted before the seed file is run again.         *)
MenuCalls ==
  {Create(0, "audit"), Needing("system:menu:list", Create(4, "audit")),
   Create(0, "roles"), Create(9, "audit"), Needing("reports:list", Create(0, "audit")),
   Move(1, 2, "dashboard"), Move(1, 3, "dashboard"), Move(1, 4, "dashboard"),
   Move(2, 3, "system"), Move(2, 4, "system"), Move(3, 0, "users"),
   Move(3, 0, "dashboard"), Move(4, 2, "audit"), Move(9, 0, "audit"),
   Needing("reports:list", Move(4, 0, "roles")),
   [Move(4, 0, "roles") EXCEPT !.valid = FALSE],
   Delete(2), Delete(3), Delete(4), Delete(9)}

(* The seed file, cut down to two roots and two menus below the second.     *)
Below(parent, name) == [name |-> name, parent |-> parent]
SystemSeed == <<Below("", "dashboard"), Below("", "system"),
                Below("system", "users"), Below("system", "roles")>>

(* Two menus are moved below each other. *)
MutualMoves == {Move(1, 2, "dashboard"), Move(2, 4, "system")}
============================================================================
