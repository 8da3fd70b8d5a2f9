---------------------------- MODULE NamedRecords ----------------------------
(***************************************************************************)
(* What the administration of a table of named records promises: no two    *)
(* records share a name; a step stores one record, under its own ID or one *)
(* never used before, or removes one for good; an ID that was used up      *)
(* without a record is not used again either.                              *)
(***************************************************************************)

VARIABLES
  records,  \* the records by ID
  ids       \* every ID that was ever used

vars == <<records, ids>>

Unique(rs) == \A x, y \in DOMAIN rs : rs[x].name = rs[y].name => x = y

OthersKept(id) ==
  /\ DOMAIN records' \ {id} = DOMAIN records \ {id}
  /\ \A x \in DOMAIN records \ {id} : records'[x] = records[x]

Init == Unique(records) /\ DOMAIN records \subseteq ids

Store ==
  \E id \in DOMAIN records' :
    /\ id \in DOMAIN records \/ id \notin ids
    /\ OthersKept(id)
    /\ ids' = ids \cup {id}

Remove ==
  \E id \in DOMAIN records :
    /\ id \notin DOMAIN records' /\ OthersKept(id)
    /\ UNCHANGED ids

LoseID == ids \subseteq ids' /\ UNCHANGED records

Next == (Store \/ Remove \/ LoseID) /\ Unique(records')

Spec == Init /\ [][Next]_vars
============================================================================
