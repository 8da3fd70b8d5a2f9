----------------------------- MODULE MCSession -----------------------------
(* Instances of Session for TLC. *)
EXTENDS Session, TLC

Symmetry == Permutations(Tabs) \cup Permutations(Calls) \cup Permutations(Users)
=============================================================================
