----------------------------- MODULE MenuForest -----------------------------
(***************************************************************************)
(* What menu administration promises, whatever store is behind it: the     *)
(* menus are a forest with unique names; a step creates one menu under an  *)
(* ID never used before, replaces one menu, removes one menu without       *)
(* children, or gives up an ID that will not be used.                      *)
(***************************************************************************)
EXTENDS MenuData

VARIABLES
  menus,      \* the menus by ID
  nextMenuID  \* no ID from here on was ever used

vars == <<menus, nextMenuID>>

Init ==
  /\ Forest(menus)
  /\ \A id \in DOMAIN menus : id < nextMenuID

Created ==
  \E id \in DOMAIN menus' :
    /\ id >= nextMenuID
    /\ menus' = Put(menus, id, menus'[id])
    /\ nextMenuID' > id

Replaced ==
  \E id \in DOMAIN menus \cap DOMAIN menus' :
    /\ menus' = Put(menus, id, menus'[id])
    /\ UNCHANGED nextMenuID

Removed ==
  \E id \in DOMAIN menus :
    /\ ~HasChildren(menus, id)
    /\ menus' = Without(menus, id)
    /\ UNCHANGED nextMenuID

Skipped == nextMenuID' > nextMenuID /\ UNCHANGED menus

Next ==
  /\ Created \/ Replaced \/ Removed \/ Skipped
  /\ Forest(menus')

Spec == Init /\ [][Next]_vars
============================================================================
