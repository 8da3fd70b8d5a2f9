----------------------------- MODULE MenuStore -----------------------------
(***************************************************************************)
(* Menu administration over the in-memory store.  A request runs in its    *)
(* own goroutine and takes the store's one lock for each store call; the   *)
(* lock is shown where a call holds it over a loop: UpdateMenu climbs from *)
(* the new parent to the root, menu by menu, before it writes.  If the     *)
(* climb did not end, no request of any kind would be served again.        *)
(*                                                                         *)
(* Requests arrive authorized (the authorization is that of UserAdmin).    *)
(***************************************************************************)
EXTENDS MenuData

CONSTANTS
  Requests,      \* the authorized requests of a behaviour
  NoRequest,     \* not a request: the lock is free
  Calls,         \* the calls the requests may make
  InitialMenus,  \* the menus the store holds at the start
  FirstMenuID    \* the first menu ID the store will hand out

VARIABLES
  menus,       \* the store's menus by ID
  nextMenuID,  \* the store's next menu ID
  lock,        \* the request that holds the store's lock over a loop
  pc,          \* per request: the store call it makes next
  call,        \* per request: what it asks for
  cursor,      \* per request: candidateID of its climb
  response,    \* per request: the answer it was given
  audit        \* the requests with an entry in the audit log

store == <<menus, nextMenuID>>
vars == <<store, lock, pc, call, cursor, response, audit>>

(* valid: whether title, path and permission pass normalizeMenuInput. *)
Call == [op : {"create", "update", "delete"}, target : Nat, parent : Nat,
         name : STRING, valid : BOOLEAN]

Steps == {"new", "list", "write", "climb", "audit", "done"}
Responses == {"none", "ok", "invalid", "notFound", "conflict"}

ASSUME MenuStoreAssumption ==
  /\ NoRequest \notin Requests
  /\ Calls \subseteq Call
  /\ MenuMap(InitialMenus) /\ Forest(InitialMenus)
  /\ FirstMenuID \in Nat \ {0}
  /\ \A id \in DOMAIN InitialMenus : id < FirstMenuID

----------------------------------------------------------------------------
(* How a step of a request ends *)

Continue(r, step) ==
  /\ pc' = [pc EXCEPT ![r] = step]
  /\ UNCHANGED <<call, response, audit>>

(* The store call returns an error and the handler answers with it. *)
Refuse(r, answer) ==
  /\ pc' = [pc EXCEPT ![r] = "done"]
  /\ response' = [response EXCEPT ![r] = answer]
  /\ UNCHANGED <<store, call, cursor, audit>>

(* The menu a write stores. *)
Written(c) == [parent |-> c.parent, name |-> c.name]

(* Faulty variant of Insert: the menu keeps the ID the caller left blank. *)
InsertAsGiven(c) ==
  /\ menus' = Put(menus, c.target, Written(c))
  /\ nextMenuID' = nextMenuID + 1

(* insertMenuLocked *)
Insert(c) ==
  /\ menus' = Put(menus, nextMenuID, Written(c))
  /\ nextMenuID' = nextMenuID + 1

(* The menu of an update is replaced; the store call returns. *)
Save(r) ==
  /\ menus' = Put(menus, call[r].target, Written(call[r]))
  /\ Continue(r, "audit")
  /\ UNCHANGED <<nextMenuID, cursor>>

Unlocked == lock = NoRequest /\ UNCHANGED lock

----------------------------------------------------------------------------
(* Initial state *)

Init ==
  /\ menus = InitialMenus /\ nextMenuID = FirstMenuID
  /\ lock = NoRequest
  /\ pc = [r \in Requests |-> "new"]
  /\ call \in [Requests -> Calls]
  /\ cursor = [r \in Requests |-> 0]
  /\ response = [r \in Requests |-> "none"]
  /\ audit = {}

----------------------------------------------------------------------------
(* The service *)

(* normalizeMenuInput refuses input that lacks a field. *)
InvalidInput(c) == c.op # "delete" /\ (~c.valid \/ c.name = "")

Start(r) ==
  /\ pc[r] = "new"
  /\ LET c == call[r] IN
     \/ InvalidInput(c) /\ Refuse(r, "invalid")
     \/ /\ ~InvalidInput(c)
        /\ Continue(r, IF c.op = "update" THEN "list" ELSE "write")
        /\ UNCHANGED <<store, cursor>>
  /\ UNCHANGED lock

(* The service looks for the new parent below the menu in the listed tree; *)
(* a descendant the tree lacks is left to the store.                       *)
CheckListedTree(r) ==
  /\ pc[r] = "list"
  /\ LET id == call[r].target
         parent == call[r].parent
     IN
     \/ (parent = id \/ MayBeFound(menus, id, parent)) /\ Refuse(r, "invalid")
     \/ /\ parent # id /\ ~MustBeFound(menus, id, parent)
        /\ Continue(r, "write") /\ UNCHANGED <<store, cursor>>
  /\ Unlocked

----------------------------------------------------------------------------
(* The store *)

CreateMenu(r) ==
  /\ pc[r] = "write" /\ call[r].op = "create"
  /\ LET c == call[r]
         taken == NameTaken(menus, 0, c.name)
         orphan == c.parent # 0 /\ c.parent \notin DOMAIN menus
     IN
     \/ taken /\ Refuse(r, "conflict")
     \/ ~taken /\ orphan /\ Refuse(r, "notFound")
     \/ /\ ~taken /\ ~orphan
        /\ Insert(c)
        /\ Continue(r, "audit")
        /\ UNCHANGED cursor
  /\ Unlocked

(* UpdateMenu up to its loop; the lock is kept if the loop is needed. *)
UpdateMenu(r) ==
  /\ pc[r] = "write" /\ call[r].op = "update"
  /\ lock = NoRequest
  /\ LET c == call[r]
         known == c.target \in DOMAIN menus
         taken == NameTaken(menus, c.target, c.name)
         orphan == c.parent # 0 /\ c.parent \notin DOMAIN menus
     IN
     \/ ~known /\ Refuse(r, "notFound") /\ UNCHANGED lock
     \/ known /\ taken /\ Refuse(r, "conflict") /\ UNCHANGED lock
     \/ known /\ ~taken /\ orphan /\ Refuse(r, "notFound") /\ UNCHANGED lock
     \/ known /\ ~taken /\ c.parent = 0 /\ Save(r) /\ UNCHANGED lock
     \/ /\ known /\ ~taken /\ c.parent \in DOMAIN menus /\ c.parent = c.target
        /\ Refuse(r, "conflict") /\ UNCHANGED lock
     \/ /\ known /\ ~taken /\ c.parent \in DOMAIN menus /\ c.parent # c.target
        /\ lock' = r
        /\ cursor' = [cursor EXCEPT ![r] = c.parent]
        /\ Continue(r, "climb")
        /\ UNCHANGED store

(* Faulty variant of Climb: the loop gives up after the first menu. *)
ClimbOnce(r) ==
  /\ pc[r] = "climb" /\ lock = r
  /\ LET above == menus[cursor[r]].parent IN
     \/ above = call[r].target /\ Refuse(r, "conflict")
     \/ above # call[r].target /\ Save(r)
  /\ lock' = NoRequest

(* Faulty variant of Climb: it is the new parent that is looked for. *)
ClimbForParent(r) ==
  /\ pc[r] = "climb" /\ lock = r
  /\ LET at == cursor[r]
         above == menus[at].parent
         top == at \notin DOMAIN menus
     IN
     \/ top /\ Save(r) /\ lock' = NoRequest
     \/ ~top /\ above = call[r].parent /\ Refuse(r, "conflict") /\ lock' = NoRequest
     \/ /\ ~top /\ above # call[r].parent
        /\ cursor' = [cursor EXCEPT ![r] = above]
        /\ Continue(r, "climb")
        /\ UNCHANGED <<store, lock>>

(* One turn of the loop of menuHasAncestorLocked, and what UpdateMenu does  *)
(* when it ends.                                                            *)
Climb(r) ==
  /\ pc[r] = "climb" /\ lock = r
  /\ LET at == cursor[r]
         above == menus[at].parent
         top == at \notin DOMAIN menus
     IN
     \/ top /\ Save(r) /\ lock' = NoRequest
     \/ ~top /\ above = call[r].target /\ Refuse(r, "conflict") /\ lock' = NoRequest
     \/ ~top /\ above # call[r].target /\ above = at /\ Save(r) /\ lock' = NoRequest
     \/ /\ ~top /\ above \notin {call[r].target, at}
        /\ cursor' = [cursor EXCEPT ![r] = above]
        /\ Continue(r, "climb")
        /\ UNCHANGED <<store, lock>>

DeleteMenu(r) ==
  /\ pc[r] = "write" /\ call[r].op = "delete"
  /\ LET id == call[r].target IN
     \/ id \notin DOMAIN menus /\ Refuse(r, "notFound")
     \/ id \in DOMAIN menus /\ HasChildren(menus, id) /\ Refuse(r, "conflict")
     \/ /\ id \in DOMAIN menus /\ ~HasChildren(menus, id)
        /\ menus' = Without(menus, id)
        /\ Continue(r, "audit")
        /\ UNCHANGED <<nextMenuID, cursor>>
  /\ Unlocked

(* The audit entry, then the answer. *)
WriteAudit(r) ==
  /\ pc[r] = "audit"
  /\ pc' = [pc EXCEPT ![r] = "done"]
  /\ response' = [response EXCEPT ![r] = "ok"]
  /\ audit' = audit \cup {r}
  /\ Unlocked
  /\ UNCHANGED <<store, call, cursor>>

(* All requests were answered: the server waits for others. *)
Quiescent ==
  /\ \A r \in Requests : pc[r] = "done"
  /\ UNCHANGED vars

----------------------------------------------------------------------------
(* The specification *)

Handle(r) ==
  \/ Start(r) \/ CheckListedTree(r)
  \/ CreateMenu(r) \/ UpdateMenu(r) \/ Climb(r) \/ DeleteMenu(r)
  \/ WriteAudit(r)

Next == (\E r \in Requests : Handle(r)) \/ Quiescent

Spec == Init /\ [][Next]_vars

(* A goroutine that can run, or can have the lock, eventually does. *)
FairSpec == Spec /\ \A r \in Requests : WF_vars(Handle(r))

TypeOK ==
  /\ MenuMap(menus) /\ nextMenuID \in Nat \ {0}
  /\ lock \in Requests \cup {NoRequest}
  /\ pc \in [Requests -> Steps]
  /\ call \in [Requests -> Call]
  /\ cursor \in [Requests -> Nat]
  /\ response \in [Requests -> Responses]
  /\ audit \subseteq Requests

----------------------------------------------------------------------------
(* Properties *)

(* The store implements the abstract menu administration: whatever moves,     *)
(* creations and deletions interleave, no menu becomes its own ancestor, for   *)
(* UpdateMenu's climb sees every ancestor a move could close a cycle through;  *)
(* no two menus share a name, a menu with children is never removed and no ID  *)
(* is used again.                                                              *)
Administration == INSTANCE MenuForest WITH menus <- menus, nextMenuID <- nextMenuID
ImplementsForest == Administration!Spec

(* Every request is answered: menuHasAncestorLocked, which has no bound of    *)
(* its own and holds the store's lock, always reaches a root.                 *)
RequestsAnswered == \A r \in Requests : <>(pc[r] = "done")
============================================================================
