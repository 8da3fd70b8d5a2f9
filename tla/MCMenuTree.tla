----------------------------- MODULE MCMenuTree -----------------------------
(* Instances of MenuTree for TLC. *)
EXTENDS MenuTree

(* The parents of n menus; the parent 9 is not stored. *)
AnyParents(n) == [1..n -> (0..n) \cup {9}]
Parents(n) == {p \in AnyParents(n) : Acyclic([id \in 1..n |-> [parent |-> p[id]]])}

(* Four menus in every shape, of equal sort (so that they are listed in every *)
(* order) and of two mixed ones, open to everyone.                            *)
PlainMenus ==
  {[id \in 1..4 |-> [parent |-> p[id], sort |-> s[id], hidden |-> FALSE,
                     layout |-> FALSE, permission |-> ""]] :
     p \in Parents(4), s \in {<<1, 1, 1, 1>>, <<2, 1, 2, 1>>, <<3, 2, 1, 1>>}}

(* Three menus in every shape, the first after the others, with every way to be shown or not. *)
Kinds == {<<TRUE, "">>, <<FALSE, "">>, <<FALSE, "granted">>, <<FALSE, "other">>,
          <<TRUE, "other">>}
GuardedMenus ==
  {[id \in 1..3 |-> [parent |-> p[id], sort |-> IF id = 1 THEN 2 ELSE 1, hidden |-> h[id],
                     layout |-> k[id][1], permission |-> k[id][2]]] :
     p \in {q \in Parents(3) : \A id \in 1..3 : q[id] # 9},
     h \in [1..3 -> BOOLEAN], k \in [1..3 -> Kinds]}

(* Three menus whose parents may close a cycle, as two moves in the SQL store can. *)
CyclicMenus ==
  {[id \in 1..3 |-> [parent |-> p[id], sort |-> 1, hidden |-> FALSE,
                     layout |-> TRUE, permission |-> "granted"]] :
     p \in AnyParents(3)}

(* A menu below a menu below a root. *)
ThreeLevels ==
  {[id \in 1..3 |-> [parent |-> id - 1, sort |-> 10 * id, hidden |-> FALSE,
                     layout |-> id < 3, permission |-> IF id = 3 THEN "granted" ELSE ""]]}

AllMenus == PlainMenus \cup GuardedMenus \cup CyclicMenus
ProfileGrants == {{"granted"}, {"*"}}
============================================================================
