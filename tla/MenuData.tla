------------------------------ MODULE MenuData ------------------------------
(***************************************************************************)
(* The menus a store holds, as a map from IDs to records.  A menu names    *)
(* its parent by ID, 0 for none.  Names stand for their trimmed, case-     *)
(* folded form; title, path, icon, component, permission, sort and hidden  *)
(* are replaced with the name by every write and are left out.             *)
(***************************************************************************)
EXTENDS Integers

Menu == [parent : Nat, name : STRING]

MenuMap(ms) == /\ DOMAIN ms \subseteq Nat \ {0}
               /\ ms \in [DOMAIN ms -> Menu]

(* A map with key k set to v, and a map with key k removed. *)
Put(f, k, v) == [x \in DOMAIN f \cup {k} |-> IF x = k THEN v ELSE f[x]]
Without(f, k) == [x \in DOMAIN f \ {k} |-> f[x]]

----------------------------------------------------------------------------
(* What makes the menus a forest: however menus are collected, one of them *)
(* has its parent outside the collection, so no parent chain closes; every *)
(* parent is a menu; and no name is used twice.                            *)

Acyclic(ms) ==
  \A S \in SUBSET DOMAIN ms : S # {} => \E id \in S : ms[id].parent \notin S

ParentsExist(ms) == \A id \in DOMAIN ms : ms[id].parent \in DOMAIN ms \cup {0}

NamesUnique(ms) == \A x, y \in DOMAIN ms : x # y => ms[x].name # ms[y].name

Forest(ms) == Acyclic(ms) /\ ParentsExist(ms) /\ NamesUnique(ms)

----------------------------------------------------------------------------
(* Questions the stores ask *)

(* menuNameExistsLocked, menuIDByName: another menu has the name. *)
NameTaken(ms, id, name) == \E x \in DOMAIN ms \ {id} : ms[x].name = name

HasChildren(ms, id) == \E x \in DOMAIN ms : ms[x].parent = id

(* The menu and everything above it: the least set that holds the menu and *)
(* the parent of each member.  Empty when there is no such menu.           *)
ClosedUpwards(ms, S) ==
  \A x \in S : ms[x].parent \in DOMAIN ms => ms[x].parent \in S
Chain(ms, id) ==
  {x \in DOMAIN ms : \A S \in SUBSET DOMAIN ms :
     (id \in DOMAIN ms => id \in S) /\ ClosedUpwards(ms, S) => x \in S}

(* What UpdateMenu's look into the listed tree may find, and what it must.  *)
(* The tree shows the children of a root, but may lack what is deeper: that *)
(* a tree built from the menus keeps to this is proved about MenuTree.      *)
MayBeFound(ms, id, parent) == id \in Chain(ms, parent)
MustBeFound(ms, id, parent) ==
  MayBeFound(ms, id, parent) /\ ms[id].parent = 0 /\ ms[parent].parent = id
============================================================================
