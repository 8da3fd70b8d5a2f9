--------------------------- MODULE UserDirectory ---------------------------
(***************************************************************************)
(* What user and role administration promises, whatever store is behind    *)
(* it: a step stores one user or one role, under the ID it has or under    *)
(* one never issued before, or removes one; no two users share a username  *)
(* or a contact and no two roles share a code.  What was removed is gone   *)
(* for good.                                                               *)
(***************************************************************************)
EXTENDS UserData

VARIABLES
  users,    \* the users by ID
  roles,    \* the roles by ID
  userIDs,  \* the user IDs issued so far
  roleIDs   \* the role IDs issued so far

vars == <<users, roles, userIDs, roleIDs>>

(* The map g differs from f in the value of id alone. *)
Stores(f, g, id) ==
  /\ DOMAIN g = DOMAIN f \cup {id}
  /\ \A x \in DOMAIN f \ {id} : g[x] = f[x]

Removes(f, g, id) ==
  /\ DOMAIN g = DOMAIN f \ {id}
  /\ \A x \in DOMAIN g : g[x] = f[x]

Init ==
  /\ UniqueUsers(users) /\ UniqueRoles(roles)
  /\ DOMAIN users \subseteq userIDs /\ DOMAIN roles \subseteq roleIDs

StoreUser ==
  \E id \in DOMAIN users' :
    /\ id \in DOMAIN users \/ id \notin userIDs
    /\ Stores(users, users', id)
    /\ userIDs' = userIDs \cup {id}
    /\ UNCHANGED <<roles, roleIDs>>

RemoveUser ==
  \E id \in DOMAIN users :
    /\ Removes(users, users', id)
    /\ UNCHANGED <<roles, userIDs, roleIDs>>

StoreRole ==
  \E id \in DOMAIN roles' :
    /\ id \in DOMAIN roles \/ id \notin roleIDs
    /\ Stores(roles, roles', id)
    /\ roleIDs' = roleIDs \cup {id}
    /\ UNCHANGED <<users, userIDs>>

RemoveRole ==
  \E id \in DOMAIN roles :
    /\ Removes(roles, roles', id)
    /\ UNCHANGED <<users, userIDs, roleIDs>>

(* An ID that is issued and then not used is not issued again. *)
LoseIDs ==
  /\ userIDs \subseteq userIDs' /\ roleIDs \subseteq roleIDs'
  /\ UNCHANGED <<users, roles>>

Next ==
  /\ StoreUser \/ RemoveUser \/ StoreRole \/ RemoveRole \/ LoseIDs
  /\ UniqueUsers(users') /\ UniqueRoles(roles')

Spec == Init /\ [][Next]_vars
============================================================================
