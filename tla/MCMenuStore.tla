---------------------------- MODULE MCMenuStore ----------------------------
(* Instances of MenuStore for TLC. *)
EXTENDS MenuStore

Entry(parent, name) == [parent |-> parent, name |-> name]

(* Two roots, the second with a chain of two menus below it. *)
SeedMenus == <<Entry(0, "dashboard"), Entry(0, "system"), Entry(2, "users"),
               Entry(3, "roles")>>

Create(parent, name) ==
  [op |-> "create", target |-> 0, parent |-> parent, name |-> name, valid |-> TRUE]
Move(id, parent, name) == [Create(parent, name) EXCEPT !.op = "update", !.target = id]
Delete(id) == [Create(0, "") EXCEPT !.op = "delete", !.target = id]

(* Moves that close a cycle alone or together, names that collide, parents *)
(* and targets that are deleted or do not exist, and input refused early.  *)
MenuCalls ==
  {Create(4, "audit"), Create(0, "roles"), Create(9, "audit"),
   Move(1, 4, "dashboard"), Move(2, 1, "system"), Move(2, 4, "system"),
   Move(3, 0, "dashboard"), Move(4, 1, "roles"), Move(1, 5, "dashboard"),
   Move(9, 0, "audit"), [Move(4, 0, "roles") EXCEPT !.valid = FALSE],
   Delete(3), Delete(4), Delete(9)}
============================================================================
