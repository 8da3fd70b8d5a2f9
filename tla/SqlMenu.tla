------------------------------ MODULE SqlMenu ------------------------------
(***************************************************************************)
(* Menu administration over the PostgreSQL store.  A write is a series of  *)
(* statements: reads that look for a reason to refuse, each of which sees  *)
(* the rows committed by then, and one transaction that changes one row.   *)
(* Nothing is held between the statements, so statements of different      *)
(* requests interleave.  Deletion is soft; menus holds the live rows, and  *)
(* the row of a deleted menu stays behind.  The seed file is run besides,  *)
(* by a starting server or by a command, in a transaction of its own.      *)
(*                                                                         *)
(* Requests arrive authorized (the authorization is that of UserAdmin).    *)
(***************************************************************************)
EXTENDS MenuData, Sequences

CONSTANTS
  Requests,          \* the authorized requests of a behaviour
  StoreFaults,       \* TRUE: a statement may fail
  Calls,             \* the calls the requests may make
  InitialMenus,      \* the live menus at the start
  FirstMenuID,       \* the first value the identity column will produce
  StoredPermissions, \* the codes in gov2_permissions
  SeedRows,          \* the menus of the seed file, no two of one name, each with
                     \* the name of its parent in the file, or "" for a root
  MaxSeedRuns        \* how often the seed file is run

VARIABLES
  menus,       \* the live rows of gov2_menus by ID
  nextMenuID,  \* the next value of the identity column
  pc,          \* per request: the statement it executes next
  call,        \* per request: what it asks for
  written,     \* per request: the ID of the row it wrote, 0 before
  response,    \* per request: the answer it was given
  audit,       \* the requests with an entry in the audit log
  deletedNames, \* the names in the rows of deleted menus
  seedRuns,    \* how often the seed file was run
  seedAnswer,   \* how its last run ended
  undisturbed   \* history: the requests between whose start and whose write
                \* no other has written

store == <<menus, nextMenuID, deletedNames>>
seed == <<seedRuns, seedAnswer>>
vars == <<store, pc, call, written, response, audit, seed, undisturbed>>

(* valid: whether title, path and permission pass normalizeMenuInput. *)
Call == [op : {"create", "update", "delete"}, target : Nat, parent : Nat,
         name : STRING, permission : STRING, valid : BOOLEAN]

Steps == {"new", "list", "get", "name", "parent", "ancestors", "insert", "update",
          "children", "remove", "reread", "audit", "done", "endless"}
Responses == {"none", "ok", "invalid", "notFound", "conflict", "internal"}

ASSUME SqlMenuAssumption ==
  /\ StoreFaults \in BOOLEAN
  /\ Calls \subseteq Call
  /\ MenuMap(InitialMenus) /\ Forest(InitialMenus)
  /\ FirstMenuID \in Nat \ {0}
  /\ \A id \in DOMAIN InitialMenus : id < FirstMenuID
  /\ SeedRows \in Seq([name : STRING, parent : STRING])
  /\ \A i, j \in DOMAIN SeedRows : i # j => SeedRows[i].name # SeedRows[j].name
  /\ \A i \in DOMAIN SeedRows :
       SeedRows[i].parent # "" =>
         \E j \in DOMAIN SeedRows : SeedRows[j].name = SeedRows[i].parent
  /\ MaxSeedRuns \in Nat

----------------------------------------------------------------------------
(* How a statement ends *)

Unwritten == UNCHANGED <<store, written, seed, undisturbed>>

Continue(r, step) ==
  /\ pc' = [pc EXCEPT ![r] = step]
  /\ UNCHANGED <<call, response, audit>>

Finish(r, answer) ==
  /\ pc' = [pc EXCEPT ![r] = "done"]
  /\ response' = [response EXCEPT ![r] = answer]
  /\ UNCHANGED call

Refuse(r, answer) == Finish(r, answer) /\ UNCHANGED audit

(* A read either refuses or lets the next statement be executed. *)
Check(r, refused, answer, step) ==
  /\ \/ refused /\ Refuse(r, answer)
     \/ ~refused /\ Continue(r, step)
  /\ Unwritten

Unfinished == {x \in Requests : written[x] = 0}

(* The transaction that wrote the row is committed. *)
Commit(r, id, step) ==
  /\ Continue(r, step)
  /\ written' = [written EXCEPT ![r] = id]
  /\ undisturbed' = undisturbed \ (Unfinished \ {r})
  /\ UNCHANGED seed

Written(c) == [parent |-> c.parent, name |-> c.name]

----------------------------------------------------------------------------
(* Initial state *)

Init ==
  /\ menus = InitialMenus /\ nextMenuID = FirstMenuID
  /\ pc = [r \in Requests |-> "new"]
  /\ call \in [Requests -> Calls]
  /\ written = [r \in Requests |-> 0]
  /\ response = [r \in Requests |-> "none"]
  /\ audit = {} /\ undisturbed = {}
  /\ deletedNames = {}
  /\ seedRuns = 0 /\ seedAnswer = "none"

----------------------------------------------------------------------------
(* The service *)

InvalidInput(c) == c.op # "delete" /\ (~c.valid \/ c.name = "")

FirstStep == [create |-> "name", update |-> "list", delete |-> "children"]

Start(r) ==
  /\ pc[r] = "new"
  /\ \/ InvalidInput(call[r]) /\ Refuse(r, "invalid")
     \/ ~InvalidInput(call[r]) /\ Continue(r, FirstStep[call[r].op])
  /\ undisturbed' = undisturbed \cup {r}
  /\ UNCHANGED <<store, written, seed>>

(* The service looks for the new parent below the menu in the listed tree; *)
(* a descendant the tree lacks is left to the store.                       *)
CheckListedTree(r) ==
  /\ pc[r] = "list"
  /\ LET id == call[r].target
         parent == call[r].parent
     IN
     \/ (parent = id \/ MayBeFound(menus, id, parent)) /\ Refuse(r, "invalid")
     \/ parent # id /\ ~MustBeFound(menus, id, parent) /\ Continue(r, "get")
  /\ Unwritten

----------------------------------------------------------------------------
(* The store's reads *)

(* GetMenu of the menu to be updated *)
GetTarget(r) ==
  /\ pc[r] = "get"
  /\ Check(r, call[r].target \notin DOMAIN menus, "notFound", "name")

WriteStep(c) == IF c.op = "create" THEN "insert" ELSE "update"

(* menuIDByName; without a parent there is nothing else to look up *)
CheckName(r) ==
  /\ pc[r] = "name"
  /\ LET c == call[r]
         id == IF c.op = "create" THEN 0 ELSE c.target
     IN  Check(r, \/ NameTaken(menus, id, c.name)
                  \/ c.op = "update" /\ c.parent = c.target,
               "conflict", IF c.parent = 0 THEN WriteStep(c) ELSE "parent")

(* ensureMenuParent *)
CheckParent(r) ==
  /\ pc[r] = "parent"
  /\ Check(r, call[r].parent \notin DOMAIN menus, "notFound",
           IF call[r].op = "create" THEN "insert" ELSE "ancestors")

(* A chain that runs into a cycle: the recursive query, a UNION ALL, yields *)
(* its menus again and again and returns only if the one sought is there.   *)
Endless(id) ==
  \E S \in SUBSET Chain(menus, id) : S # {} /\ \A x \in S : menus[x].parent \in S

(* Faulty variant of CheckAncestors: only the parent's parent is looked at. *)
CheckGrandparent(r) ==
  /\ pc[r] = "ancestors"
  /\ LET id == call[r].target
         parent == call[r].parent
         found == parent \in DOMAIN menus /\ menus[parent].parent = id
     IN
     \/ found /\ Refuse(r, "conflict")
     \/ ~found /\ Endless(parent) /\ Continue(r, "endless")
     \/ ~found /\ ~Endless(parent) /\ Continue(r, "update")
  /\ Unwritten

(* menuHasAncestor *)
CheckAncestors(r) ==
  /\ pc[r] = "ancestors"
  /\ LET id == call[r].target
         parent == call[r].parent
         found == id \in Chain(menus, parent)
     IN
     \/ found /\ Refuse(r, "conflict")
     \/ ~found /\ Endless(parent) /\ Continue(r, "endless")
     \/ ~found /\ ~Endless(parent) /\ Continue(r, "update")
  /\ Unwritten

(* Faulty variant of CountChildren: the count is not looked at. *)
CountNoChildren(r) ==
  /\ pc[r] = "children"
  /\ Check(r, FALSE, "conflict", "remove")

CountChildren(r) ==
  /\ pc[r] = "children"
  /\ Check(r, HasChildren(menus, call[r].target), "conflict", "remove")

----------------------------------------------------------------------------
(* The store's transactions *)

UnknownPermission(c) == c.permission # "" /\ c.permission \notin StoredPermissions

(* Faulty variant of Duplicate: there is no unique index. *)
NoIndex(id, name) == FALSE

(* gov2_menus_name_lower_uq: another live row has the name. *)
Duplicate(id, name) == NameTaken(menus, id, name)

(* Faulty variant of InsertRow: the row keeps the ID the caller left blank. *)
InsertRowAsGiven(r) ==
  /\ menus' = Put(menus, call[r].target, Written(call[r]))
  /\ nextMenuID' = nextMenuID + 1
  /\ Commit(r, nextMenuID, "reread")
  /\ UNCHANGED deletedNames

InsertRow(r) ==
  /\ menus' = Put(menus, nextMenuID, Written(call[r]))
  /\ nextMenuID' = nextMenuID + 1
  /\ Commit(r, nextMenuID, "reread")
  /\ UNCHANGED deletedNames

(* The value of the identity column is used up even if the insert fails. *)
CreateMenu(r) ==
  /\ pc[r] = "insert"
  /\ LET c == call[r] IN
     \/ UnknownPermission(c) /\ Refuse(r, "invalid") /\ Unwritten
     \/ /\ ~UnknownPermission(c) /\ Duplicate(0, c.name)
        /\ nextMenuID' = nextMenuID + 1
        /\ Refuse(r, "conflict")
        /\ UNCHANGED <<menus, deletedNames, written, seed, undisturbed>>
     \/ ~UnknownPermission(c) /\ ~Duplicate(0, c.name) /\ InsertRow(r)

UpdateMenu(r) ==
  /\ pc[r] = "update"
  /\ LET c == call[r]
         live == c.target \in DOMAIN menus
     IN
     \/ UnknownPermission(c) /\ Refuse(r, "invalid") /\ Unwritten
     \/ ~UnknownPermission(c) /\ ~live /\ Refuse(r, "notFound") /\ Unwritten
     \/ /\ ~UnknownPermission(c) /\ live /\ Duplicate(c.target, c.name)
        /\ Refuse(r, "conflict") /\ Unwritten
     \/ /\ ~UnknownPermission(c) /\ live /\ ~Duplicate(c.target, c.name)
        /\ menus' = Put(menus, c.target, Written(c))
        /\ Commit(r, c.target, "reread")
        /\ UNCHANGED <<nextMenuID, deletedNames>>

DeleteMenu(r) ==
  /\ pc[r] = "remove"
  /\ LET id == call[r].target IN
     \/ id \notin DOMAIN menus /\ Refuse(r, "notFound") /\ Unwritten
     \/ /\ id \in DOMAIN menus
        /\ menus' = Without(menus, id)
        /\ deletedNames' = deletedNames \cup {menus[id].name}
        /\ Commit(r, id, "audit")
        /\ UNCHANGED nextMenuID

(* GetMenu of the row just written; the write stands if the row is gone. *)
Reread(r) ==
  /\ pc[r] = "reread"
  /\ Check(r, written[r] \notin DOMAIN menus, "notFound", "audit")

WriteAudit(r) ==
  /\ pc[r] = "audit"
  /\ audit' = audit \cup {r}
  /\ Finish(r, "ok")
  /\ Unwritten

(* Faulty variant of StoreFault: an audit entry that is lost goes unnoticed. *)
StoreFaultIgnoredByAudit(r) ==
  /\ StoreFaults
  /\ pc[r] \notin {"new", "done", "endless"}
  /\ Refuse(r, IF pc[r] = "audit" THEN "ok" ELSE "internal")
  /\ Unwritten

(* A statement or transaction fails without effect. *)
StoreFault(r) ==
  /\ StoreFaults
  /\ pc[r] \notin {"new", "done", "endless"}
  /\ Refuse(r, "internal")
  /\ Unwritten

----------------------------------------------------------------------------
(* The seed file *)

(* Faulty variant of SeedID: rows are always inserted. *)
NewSeedID(ms, next, i) == next + i - 1

(* A menu of the file is inserted under the ID that its turn draws from the   *)
(* identity column, or the live row with its name is updated in its place.    *)
SeedID(ms, next, i) ==
  IF NameTaken(ms, 0, SeedRows[i].name)
  THEN CHOOSE x \in DOMAIN ms : ms[x].name = SeedRows[i].name
  ELSE next + i - 1

(* Below a parent a row is put under the parent's row; a root row that exists *)
(* keeps its place.                                                           *)
SeedMenu(ms, next, i) ==
  LET row == SeedRows[i]
      id == SeedID(ms, next, i)
      place == IF row.parent # ""
               THEN SeedID(ms, next, CHOOSE j \in DOMAIN SeedRows :
                                       SeedRows[j].name = row.parent)
               ELSE IF id \in DOMAIN ms THEN ms[id].parent ELSE 0
  IN  [parent |-> place, name |-> row.name]

Seeded(ms, next) ==
  LET at(id) == {i \in DOMAIN SeedRows : SeedID(ms, next, i) = id}
      ids == {SeedID(ms, next, i) : i \in DOMAIN SeedRows}
  IN  [id \in DOMAIN ms \cup ids |->
         IF id \in ids THEN SeedMenu(ms, next, CHOOSE i \in at(id) : TRUE) ELSE ms[id]]

(* The rows to put below a parent are found by a join on the parent's name,   *)
(* which a deleted row satisfies as well as the live one: each row then comes *)
(* twice, and PostgreSQL does not update a row twice in one statement.  Names *)
(* are those the unique index compares, case-folded: that the join compares   *)
(* them exactly, and misses a parent spelled otherwise, is left out.          *)
JoinedTwice == \E i \in DOMAIN SeedRows : SeedRows[i].parent \in deletedNames

(* One step for the transaction: its first statement locks the root rows it   *)
(* writes, so what another transaction commits before its second one might as *)
(* well have come before both.                                                *)
RunSeeds ==
  /\ seedRuns < MaxSeedRuns
  /\ seedRuns' = seedRuns + 1
  /\ nextMenuID' = nextMenuID + Len(SeedRows)
  /\ \/ JoinedTwice /\ seedAnswer' = "failed" /\ UNCHANGED <<menus, undisturbed>>
     \/ /\ ~JoinedTwice /\ seedAnswer' = "ok"
        /\ menus' = Seeded(menus, nextMenuID)
        /\ undisturbed' = undisturbed \ Unfinished
  /\ UNCHANGED <<deletedNames, pc, call, written, response, audit>>

(* Requests that were not answered wait for a query that does not return. *)
Quiescent ==
  /\ \A r \in Requests : pc[r] \in {"done", "endless"}
  /\ UNCHANGED vars

----------------------------------------------------------------------------
(* The specification *)

Handle(r) ==
  \/ Start(r) \/ CheckListedTree(r)
  \/ GetTarget(r) \/ CheckName(r) \/ CheckParent(r) \/ CheckAncestors(r)
  \/ CountChildren(r)
  \/ CreateMenu(r) \/ UpdateMenu(r) \/ DeleteMenu(r)
  \/ Reread(r) \/ WriteAudit(r)

Next ==
  \/ \E r \in Requests : Handle(r) \/ StoreFault(r)
  \/ RunSeeds
  \/ Quiescent

Spec == Init /\ [][Next]_vars

(* Every goroutine that serves a request is scheduled again, and PostgreSQL *)
(* executes the statements it is sent; none has to fail.                    *)
FairSpec == Spec /\ \A r \in Requests : WF_vars(Handle(r))

TypeOK ==
  /\ MenuMap(menus) /\ nextMenuID \in Nat \ {0}
  /\ pc \in [Requests -> Steps]
  /\ call \in [Requests -> Call]
  /\ written \in [Requests -> Nat]
  /\ response \in [Requests -> Responses]
  /\ audit \subseteq Requests /\ undisturbed \subseteq Requests
  /\ deletedNames \subseteq STRING
  /\ seedRuns \in 0..MaxSeedRuns /\ seedAnswer \in {"none", "ok", "failed"}

----------------------------------------------------------------------------
(* Properties *)

(* The requests that write in this step. *)
Committing == {r \in Requests : written[r] # written'[r]}

(* Over a forest a request that no other disturbs does what the abstract menu *)
(* administration allows, as over the in-memory store: the checks that come   *)
(* before the transaction see to it that no menu becomes its own ancestor and *)
(* none loses its parent.                                                     *)
Administration == INSTANCE MenuForest WITH menus <- menus, nextMenuID <- nextMenuID
ImplementsForest ==
  [][Forest(menus) /\ UNCHANGED seed /\ Committing \subseteq undisturbed
       => [Administration!Next]_(Administration!vars)]_vars

(* However requests overlap, names stay unique, for the unique index over the *)
(* live rows decides when two have found the name free; and a deleted menu    *)
(* does not come back through an update that read it before the deletion, nor *)
(* does its ID.                                                               *)
RowsStayDistinct ==
  [][/\ NamesUnique(menus) => NamesUnique(menus')
     /\ \A id \in 0..(nextMenuID - 1) :
          id \notin DOMAIN menus => id \notin DOMAIN menus']_vars

(* A request is answered with success only after its write and its audit      *)
(* entry; and one that has written is told of success, of an internal error,  *)
(* or, by the read after the commit, that its menu is not there, which is     *)
(* then true.                                                                 *)
AnswersFitEffects ==
  \A r \in Requests :
    /\ response[r] = "ok" => written[r] # 0 /\ r \in audit
    /\ written[r] # 0 => response[r] \in {"none", "ok", "internal", "notFound"}
    /\ written[r] # 0 /\ response[r] = "notFound" => written[r] \notin DOMAIN menus

(* Seed data is idempotent: right after a run, whatever requests have done to *)
(* the menus before, another run would change nothing.                        *)
SeedIdempotent ==
  [][seedRuns' # seedRuns /\ seedAnswer' = "ok"
       => Seeded(menus', nextMenuID') = menus']_vars

(* Menus are protected against cycles, whoever writes their parents.          *)
NoCycles == Acyclic(menus)

(* As long as writes do not overlap, and the seed file is not run, every      *)
(* request is answered: menuHasAncestor's recursive query, which has no bound *)
(* of its own, never runs over a cycle.                                       *)
RequestsAnswered ==
  []((Requests \ Unfinished) \subseteq undisturbed /\ seedRuns = 0)
    => \A r \in Requests : <>(pc[r] = "done")
============================================================================
