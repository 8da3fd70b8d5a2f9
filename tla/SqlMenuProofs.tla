--------------------------- MODULE SqlMenuProofs ---------------------------
(***************************************************************************)
(* Theorems about SqlMenu, for all requests, calls, seed files and initial *)
(* menus: what holds of the rows and the answers however statements        *)
(* interleave; that a request which no other disturbs implements           *)
(* MenuForest; and that seeding twice is seeding once.                     *)
(***************************************************************************)
EXTENDS SqlMenu, MenuDataProofs

(* The live rows: what their unique index and identity column guarantee. *)
Rows ==
  /\ MenuMap(menus) /\ nextMenuID \in Nat \ {0}
  /\ NamesUnique(menus)
  /\ \A id \in DOMAIN menus : id < nextMenuID  \* every ID was handed out

(* The rest of TypeOK. *)
LocalTypeOK ==
  /\ pc \in [Requests -> Steps]
  /\ call \in [Requests -> Call]
  /\ written \in [Requests -> Nat]
  /\ response \in [Requests -> Responses]
  /\ audit \subseteq Requests /\ undisturbed \subseteq Requests
  /\ deletedNames \subseteq STRING
  /\ seedRuns \in 0..MaxSeedRuns /\ seedAnswer \in {"none", "ok", "failed"}

(* How far a request has come: which operation a statement belongs to, and   *)
(* which requests have written.                                              *)
Progress(r) ==
  /\ pc[r] \in {"list", "get", "ancestors", "update"} => call[r].op = "update"
  /\ pc[r] \in {"name", "parent"} => call[r].op # "delete"
  /\ pc[r] = "insert" => call[r].op = "create"
  /\ pc[r] \in {"reread", "audit"} => written[r] # 0
  /\ written[r] # 0 => pc[r] \in {"reread", "audit", "done"} /\ written[r] < nextMenuID
  /\ response[r] # "none" => pc[r] = "done"

(* AnswersFitEffects, of one request. *)
Answered(r) ==
  /\ response[r] = "ok" => written[r] # 0 /\ r \in audit
  /\ written[r] # 0 => response[r] \in {"none", "ok", "internal", "notFound"}
  /\ written[r] # 0 /\ response[r] = "notFound" => written[r] \notin DOMAIN menus

(* What a request that is about to execute a statement has found out. *)
Found(ms, c, step) ==
  /\ step \in {"parent", "ancestors", "update"} /\ c.op = "update" => c.parent # c.target
  /\ step \in {"ancestors", "insert", "update"} => c.parent \in DOMAIN ms \cup {0}
  /\ step = "update" => c.target \notin Chain(ms, c.parent)
  /\ step = "remove" => ~HasChildren(ms, c.target)

(* ... is still so for a request that no other has disturbed. *)
StillFound ==
  \A r \in undisturbed : written[r] = 0 => Found(menus, call[r], pc[r])

(* The inductive invariant. *)
IInv ==
  /\ Rows /\ LocalTypeOK
  /\ \A r \in Requests : Progress(r) /\ Answered(r)
  /\ StillFound

(* What the theorems say of a step: the invariant is kept, no ID comes back, *)
(* an undisturbed write is one of the abstract administration, and only a    *)
(* cycle makes a query endless.                                              *)
NoReturn ==
  \A id \in 0..(nextMenuID - 1) : id \notin DOMAIN menus => id \notin DOMAIN menus'

Administered ==
  Forest(menus) /\ UNCHANGED seed /\ Committing \subseteq undisturbed
    => [Administration!Next]_(Administration!vars)

NoNewLoop ==
  Acyclic(menus) => \A r \in Requests : pc'[r] = "endless" => pc[r] = "endless"

Good == IInv' /\ NoReturn /\ Administered /\ NoNewLoop

----------------------------------------------------------------------------
(* Steps that write no row *)

LEMMA SkipAdministered ==
  ASSUME UNCHANGED menus, nextMenuID \in Nat, nextMenuID' \in Nat,
         nextMenuID' >= nextMenuID
  PROVE  Administered
<1>1. nextMenuID' = nextMenuID \/ nextMenuID' > nextMenuID
  OBVIOUS
<1>2. Forest(menus) => Administration!Forest(menus')
  BY DEF Forest, Acyclic, ParentsExist, NamesUnique,
         Administration!Forest, Administration!Acyclic,
         Administration!ParentsExist, Administration!NamesUnique
<1> QED
  BY <1>1, <1>2 DEF Administered, Administration!Next, Administration!Skipped,
                    Administration!vars

(* A step of r that leaves the rows alone, and what every request has written. *)
LEMMA QuietStep ==
  ASSUME IInv, NEW r \in Requests,
         UNCHANGED <<menus, call, written>>, nextMenuID' \in Nat,
         nextMenuID' >= nextMenuID,
         LocalTypeOK', undisturbed' \subseteq undisturbed \cup {r}, audit \subseteq audit',
         \A q \in Requests \ {r} : pc'[q] = pc[q] /\ response'[q] = response[q],
         Progress(r)', Answered(r)',
         r \in undisturbed' /\ written[r] = 0 => Found(menus, call[r], pc'[r]),
         Acyclic(menus) => pc'[r] # "endless"
  PROVE  Good
<1>1. menus' = menus /\ call' = call /\ written' = written
  OBVIOUS
<1>2. nextMenuID \in Nat /\ nextMenuID \in Nat \ {0}
  BY DEF IInv, Rows
<1>3. Rows'
  <2>1. \A id \in DOMAIN menus : id \in Nat /\ id < nextMenuID
    BY DEF IInv, Rows, MenuMap
  <2> QED
    BY <1>1, <1>2, <2>1 DEF IInv, Rows
<1>4. ASSUME NEW q \in Requests PROVE Progress(q)' /\ Answered(q)'
  <2>1. CASE q = r
    BY <2>1
  <2>2. CASE q # r
    <3>1. Progress(q) /\ Answered(q) /\ written[q] \in Nat
      BY DEF IInv, LocalTypeOK
    <3>2. pc'[q] = pc[q] /\ response'[q] = response[q]
      BY <2>2
    <3>3. Progress(q)'
      BY <1>1, <1>2, <3>1, <3>2 DEF Progress
    <3>4. Answered(q)'
      BY <1>1, <3>1, <3>2 DEF Answered
    <3> QED
      BY <3>3, <3>4
  <2> QED
    BY <2>1, <2>2
<1>5. StillFound'
  <2>1. SUFFICES ASSUME NEW q \in undisturbed', written[q] = 0
                 PROVE  Found(menus, call[q], pc'[q])
    BY <1>1 DEF StillFound
  <2>2. CASE q = r
    BY <2>1, <2>2
  <2>3. CASE q # r
    BY <2>1, <2>3 DEF IInv, StillFound, LocalTypeOK
  <2> QED
    BY <2>2, <2>3
<1>6. NoReturn /\ NoNewLoop
  BY <1>1 DEF NoReturn, NoNewLoop
<1> QED
  BY <1>1, <1>2, <1>3, <1>4, <1>5, <1>6, SkipAdministered DEF Good, IInv

(* A request is refused. *)
LEMMA RefuseStep ==
  ASSUME IInv, NEW r \in Requests, NEW answer \in {"invalid", "notFound", "conflict", "internal"},
         Refuse(r, answer), Unwritten,
         written[r] # 0 =>
           \/ answer = "internal"
           \/ answer = "notFound" /\ written[r] \notin DOMAIN menus
  PROVE  Good
<1>1. /\ pc' = [pc EXCEPT ![r] = "done"] /\ response' = [response EXCEPT ![r] = answer]
      /\ UNCHANGED <<menus, nextMenuID, call, written, audit, deletedNames, seedRuns,
                     seedAnswer, undisturbed>>
  BY DEF Refuse, Finish, Unwritten, store, seed
<1>2. LocalTypeOK'
  BY <1>1 DEF IInv, LocalTypeOK, Steps, Responses
<1>3. pc'[r] = "done" /\ response'[r] = answer
  BY <1>1 DEF IInv, LocalTypeOK
<1>4. Progress(r)'
  BY <1>1, <1>3 DEF IInv, Progress
<1>5. Answered(r)'
  BY <1>1, <1>3 DEF IInv, Answered
<1>6. \A q \in Requests \ {r} : pc'[q] = pc[q] /\ response'[q] = response[q]
  BY <1>1 DEF IInv, LocalTypeOK
<1>7. Found(menus, call[r], pc'[r])
  BY <1>3 DEF Found
<1>8. nextMenuID' \in Nat /\ nextMenuID' >= nextMenuID
  BY <1>1 DEF IInv, Rows
<1> QED
  BY <1>1, <1>2, <1>3, <1>4, <1>5, <1>6, <1>7, <1>8, QuietStep

(* A request goes on to its next statement. *)
LEMMA ContinueStep ==
  ASSUME IInv, NEW r \in Requests, NEW step \in Steps \ {"done", "reread"},
         Continue(r, step), Unwritten, response[r] = "none",
         step \in {"list", "get", "ancestors", "update"} => call[r].op = "update",
         step \in {"name", "parent"} => call[r].op # "delete",
         step = "insert" => call[r].op = "create",
         IF step = "audit" THEN written[r] # 0 ELSE written[r] = 0,
         r \in undisturbed => Found(menus, call[r], step),
         Acyclic(menus) => step # "endless"
  PROVE  Good
<1>1. /\ pc' = [pc EXCEPT ![r] = step]
      /\ UNCHANGED <<menus, nextMenuID, call, written, audit, response, deletedNames,
                     seedRuns, seedAnswer, undisturbed>>
  BY DEF Continue, Unwritten, store, seed
<1>2. LocalTypeOK'
  BY <1>1 DEF IInv, LocalTypeOK
<1>3. pc'[r] = step
  BY <1>1 DEF IInv, LocalTypeOK
<1>4. Progress(r)'
  BY <1>1, <1>3 DEF IInv, Progress
<1>5. Answered(r)'
  BY <1>1 DEF IInv, Answered
<1>6. \A q \in Requests \ {r} : pc'[q] = pc[q] /\ response'[q] = response[q]
  BY <1>1 DEF IInv, LocalTypeOK
<1>7. nextMenuID' \in Nat /\ nextMenuID' >= nextMenuID
  BY <1>1 DEF IInv, Rows
<1> QED
  BY <1>1, <1>2, <1>3, <1>4, <1>5, <1>6, <1>7, QuietStep

(* A request that has not written and was not answered. *)
LEMMA Reading ==
  ASSUME IInv, NEW r \in Requests, pc[r] \notin {"reread", "audit", "done"}
  PROVE  written[r] = 0 /\ response[r] = "none"
  BY DEF IInv, Progress

(* The reads: each refuses, or goes on with what it has found out. *)
LEMMA CheckStep ==
  ASSUME IInv, NEW r \in Requests, pc[r] \notin {"reread", "audit", "done"},
         NEW refused \in BOOLEAN, NEW answer \in {"invalid", "notFound", "conflict"},
         NEW step \in Steps \ {"done", "reread", "audit", "endless"},
         Check(r, refused, answer, step),
         step \in {"list", "get", "ancestors", "update"} => call[r].op = "update",
         step \in {"name", "parent"} => call[r].op # "delete",
         step = "insert" => call[r].op = "create",
         ~refused /\ r \in undisturbed => Found(menus, call[r], step)
  PROVE  Good
<1>1. written[r] = 0 /\ response[r] = "none"
  BY Reading
<1>2. CASE refused /\ Refuse(r, answer) /\ Unwritten
  BY <1>1, <1>2, RefuseStep
<1>3. CASE ~refused /\ Continue(r, step) /\ Unwritten
  BY <1>1, <1>3, ContinueStep
<1> QED
  BY <1>2, <1>3 DEF Check

LEMMA StartStep ==
  ASSUME IInv, NEW r \in Requests, Start(r)
  PROVE  Good
<1> DEFINE c == call[r]
<1>1. /\ UNCHANGED <<menus, nextMenuID, call, written, audit, deletedNames, seedRuns,
                     seedAnswer>>
      /\ undisturbed' = undisturbed \cup {r}
  BY DEF Start, Refuse, Finish, Continue, store, seed
<1>2. c \in Call /\ c.op \in {"create", "update", "delete"}
  <2>1. c \in Call
    BY DEF IInv, LocalTypeOK
  <2> QED
    BY <2>1 DEF Call
<1>3. written[r] = 0 /\ response[r] = "none"
  BY Reading DEF Start
<1>4. nextMenuID' \in Nat /\ nextMenuID' >= nextMenuID
  BY <1>1 DEF IInv, Rows
<1>5. CASE Refuse(r, "invalid")
  <2>1. pc' = [pc EXCEPT ![r] = "done"] /\ response' = [response EXCEPT ![r] = "invalid"]
    BY <1>5 DEF Refuse, Finish
  <2>2. LocalTypeOK' /\ pc'[r] = "done" /\ response'[r] = "invalid"
    BY <1>1, <2>1 DEF IInv, LocalTypeOK, Steps, Responses
  <2>3. Progress(r)' /\ Answered(r)'
    BY <1>1, <1>3, <2>2 DEF Progress, Answered
  <2>4. \A q \in Requests \ {r} : pc'[q] = pc[q] /\ response'[q] = response[q]
    BY <2>1 DEF IInv, LocalTypeOK
  <2>5. Found(menus, call[r], pc'[r])
    BY <2>2 DEF Found
  <2> QED
    BY <1>1, <1>4, <2>2, <2>3, <2>4, <2>5, QuietStep
<1>6. CASE Continue(r, FirstStep[c.op])
  <2> DEFINE step == FirstStep[c.op]
  <2>1. /\ step \in {"list", "name", "children"} /\ step \in Steps
        /\ step = "list" => c.op = "update"
        /\ step = "name" => c.op # "delete"
    BY <1>2 DEF FirstStep, Steps
  <2>2. pc' = [pc EXCEPT ![r] = step] /\ UNCHANGED response
    BY <1>6 DEF Continue
  <2> HIDE DEF step
  <2>3. LocalTypeOK' /\ pc'[r] = step
    BY <1>1, <2>1, <2>2 DEF IInv, LocalTypeOK
  <2>4. Progress(r)' /\ Answered(r)'
    BY <1>1, <1>3, <2>1, <2>2, <2>3 DEF Progress, Answered
  <2>5. \A q \in Requests \ {r} : pc'[q] = pc[q] /\ response'[q] = response[q]
    BY <2>2 DEF IInv, LocalTypeOK
  <2>6. Found(menus, call[r], pc'[r])
    BY <2>1, <2>3 DEF Found
  <2> QED
    BY <1>1, <1>4, <2>1, <2>3, <2>4, <2>5, <2>6, QuietStep
<1> QED
  BY <1>5, <1>6 DEF Start

LEMMA CheckListedTreeStep ==
  ASSUME IInv, NEW r \in Requests, CheckListedTree(r)
  PROVE  Good
<1>1. written[r] = 0 /\ response[r] = "none" /\ call[r].op = "update" /\ Unwritten
  BY Reading DEF CheckListedTree, IInv, Progress
<1>2. CASE Refuse(r, "invalid")
  BY <1>1, <1>2, RefuseStep
<1>3. CASE Continue(r, "get")
  <2>1. Found(menus, call[r], "get")
    BY DEF Found
  <2> QED
    BY <1>1, <1>3, <2>1, ContinueStep DEF Steps
<1> QED
  BY <1>2, <1>3 DEF CheckListedTree

LEMMA GetTargetStep ==
  ASSUME IInv, NEW r \in Requests, GetTarget(r)
  PROVE  Good
<1>1. pc[r] = "get" /\ call[r].op = "update"
  BY DEF GetTarget, IInv, Progress
<1>2. Found(menus, call[r], "name")
  BY DEF Found
<1>3. Check(r, call[r].target \notin DOMAIN menus, "notFound", "name")
  BY DEF GetTarget
<1> QED
  BY <1>1, <1>2, <1>3, CheckStep DEF Steps

LEMMA CheckNameStep ==
  ASSUME IInv, NEW r \in Requests, CheckName(r)
  PROVE  Good
<1> DEFINE c == call[r]
           refused == \/ NameTaken(menus, IF c.op = "create" THEN 0 ELSE c.target, c.name)
                      \/ c.op = "update" /\ c.parent = c.target
           step == IF c.parent = 0 THEN WriteStep(c) ELSE "parent"
<1>1. pc[r] = "name" /\ Check(r, refused, "conflict", step)
  BY DEF CheckName
<1>2. c.op \in {"create", "update"}
  <2>1. c \in Call /\ c.op # "delete"
    BY <1>1 DEF IInv, LocalTypeOK, Progress
  <2> QED
    BY <2>1 DEF Call
<1>3. 0 \notin DOMAIN menus
  BY DEF IInv, Rows, MenuMap
<1>4. /\ step \in {"insert", "update", "parent"}
      /\ step = "update" => c.op = "update"
      /\ step = "insert" => c.op = "create"
      /\ step \in {"insert", "update"} => c.parent = 0
  BY <1>2 DEF WriteStep
<1>5. c.parent = 0 => Chain(menus, c.parent) = {}
  BY <1>3, ChainOfNone
<1> HIDE DEF refused, step
<1>6. ASSUME ~refused PROVE Found(menus, c, step)
  <2>1. ~(c.op = "update" /\ c.parent = c.target)
    BY <1>6 DEF refused
  <2> QED
    BY <1>4, <1>5, <2>1 DEF Found
<1>7. refused \in BOOLEAN
  BY DEF refused, NameTaken
<1>8. step \in Steps \ {"done", "reread", "audit", "endless"}
  BY <1>4 DEF Steps
<1> QED
  BY <1>1, <1>2, <1>4, <1>6, <1>7, <1>8, CheckStep

LEMMA CheckParentStep ==
  ASSUME IInv, NEW r \in Requests, CheckParent(r)
  PROVE  Good
<1> DEFINE c == call[r]
           step == IF c.op = "create" THEN "insert" ELSE "ancestors"
<1>1. pc[r] = "parent" /\ Check(r, c.parent \notin DOMAIN menus, "notFound", step)
  BY DEF CheckParent
<1>2. c.op \in {"create", "update"}
  <2>1. c \in Call /\ c.op # "delete"
    BY <1>1 DEF IInv, LocalTypeOK, Progress
  <2> QED
    BY <2>1 DEF Call
<1>3. written[r] = 0 /\ (r \in undisturbed => Found(menus, c, "parent"))
  BY <1>1, Reading DEF IInv, StillFound
<1>4. /\ step \in {"insert", "ancestors"} /\ step \in Steps
      /\ step = "insert" => c.op = "create"
      /\ step = "ancestors" => c.op = "update"
  BY <1>2 DEF Steps
<1> HIDE DEF step
<1>5. c.parent \in DOMAIN menus /\ r \in undisturbed => Found(menus, c, step)
  BY <1>3, <1>4 DEF Found
<1> QED
  BY <1>1, <1>2, <1>4, <1>5, CheckStep

(* In a forest, menuHasAncestor's query comes to an end. *)
LEMMA AcyclicNotEndless ==
  ASSUME Acyclic(menus), NEW id
  PROVE  ~Endless(id)
  BY DEF Acyclic, Endless, Chain

LEMMA CheckAncestorsStep ==
  ASSUME IInv, NEW r \in Requests, CheckAncestors(r)
  PROVE  Good
<1> DEFINE c == call[r]
<1>1. pc[r] = "ancestors" /\ c.op = "update" /\ Unwritten
  BY DEF CheckAncestors, IInv, Progress
<1>2. written[r] = 0 /\ response[r] = "none"
  BY <1>1, Reading
<1>3. r \in undisturbed => Found(menus, c, "ancestors")
  BY <1>1, <1>2 DEF IInv, StillFound
<1>4. CASE Refuse(r, "conflict")
  BY <1>1, <1>2, <1>4, RefuseStep
<1>5. CASE Endless(c.parent) /\ Continue(r, "endless")
  <2>1. Found(menus, c, "endless")
    BY DEF Found
  <2> QED
    BY <1>1, <1>2, <1>5, <2>1, AcyclicNotEndless, ContinueStep DEF Steps
<1>6. CASE c.target \notin Chain(menus, c.parent) /\ Continue(r, "update")
  <2>1. r \in undisturbed => Found(menus, c, "update")
    BY <1>1, <1>3, <1>6 DEF Found
  <2> QED
    BY <1>1, <1>2, <1>6, <2>1, ContinueStep DEF Steps
<1> QED
  BY <1>4, <1>5, <1>6 DEF CheckAncestors

LEMMA CountChildrenStep ==
  ASSUME IInv, NEW r \in Requests, CountChildren(r)
  PROVE  Good
<1>1. pc[r] = "children" /\ Check(r, HasChildren(menus, call[r].target), "conflict", "remove")
  BY DEF CountChildren
<1>2. ~HasChildren(menus, call[r].target) => Found(menus, call[r], "remove")
  BY DEF Found
<1>3. HasChildren(menus, call[r].target) \in BOOLEAN
  BY DEF HasChildren
<1> QED
  BY <1>1, <1>2, <1>3, CheckStep DEF Steps

LEMMA RereadStep ==
  ASSUME IInv, NEW r \in Requests, Reread(r)
  PROVE  Good
<1>1. pc[r] = "reread" /\ written[r] # 0 /\ response[r] = "none" /\ Unwritten
  BY DEF Reread, Check, IInv, Progress
<1>2. CASE written[r] \notin DOMAIN menus /\ Refuse(r, "notFound")
  BY <1>1, <1>2, RefuseStep
<1>3. CASE Continue(r, "audit")
  <2>1. Found(menus, call[r], "audit")
    BY DEF Found
  <2> QED
    BY <1>1, <1>3, <2>1, ContinueStep DEF Steps
<1> QED
  BY <1>2, <1>3 DEF Reread, Check

LEMMA WriteAuditStep ==
  ASSUME IInv, NEW r \in Requests, WriteAudit(r)
  PROVE  Good
<1>1. /\ pc' = [pc EXCEPT ![r] = "done"] /\ response' = [response EXCEPT ![r] = "ok"]
      /\ audit' = audit \cup {r}
      /\ UNCHANGED <<menus, nextMenuID, call, written, deletedNames, seedRuns,
                     seedAnswer, undisturbed>>
  BY DEF WriteAudit, Finish, Unwritten, store, seed
<1>2. written[r] # 0
  BY DEF WriteAudit, IInv, Progress
<1>3. LocalTypeOK' /\ pc'[r] = "done" /\ response'[r] = "ok"
  BY <1>1 DEF IInv, LocalTypeOK, Steps, Responses
<1>4. Progress(r)' /\ Answered(r)'
  BY <1>1, <1>2, <1>3 DEF IInv, Progress, Answered
<1>5. \A q \in Requests \ {r} : pc'[q] = pc[q] /\ response'[q] = response[q]
  BY <1>1 DEF IInv, LocalTypeOK
<1>6. nextMenuID' \in Nat /\ nextMenuID' >= nextMenuID
  BY <1>1 DEF IInv, Rows
<1> QED
  BY <1>1, <1>2, <1>3, <1>4, <1>5, <1>6, QuietStep

LEMMA StoreFaultStep ==
  ASSUME IInv, NEW r \in Requests, StoreFault(r)
  PROVE  Good
<1>1. Refuse(r, "internal") /\ Unwritten
  BY DEF StoreFault
<1> QED
  BY <1>1, RefuseStep

----------------------------------------------------------------------------
(* The transactions *)

LEMMA WrittenType ==
  ASSUME NEW c \in Call
  PROVE  Written(c) \in Menu /\ Written(c).parent = c.parent /\ Written(c).name = c.name
  BY DEF Call, Written, Menu

(* The abstract administration means the same by a forest. *)
LEMMA SameForest ==
  Forest(menus') => Administration!Forest(menus')
  BY DEF Forest, Acyclic, ParentsExist, NamesUnique,
         Administration!Forest, Administration!Acyclic,
         Administration!ParentsExist, Administration!NamesUnique

(* What the unique index and the identity column guarantee of a written row. *)
LEMMA PutKeepsRows ==
  ASSUME Rows, NEW id \in Nat \ {0}, NEW m \in Menu, ~NameTaken(menus, id, m.name),
         menus' = Put(menus, id, m), nextMenuID' \in Nat \ {0},
         nextMenuID' >= nextMenuID, id < nextMenuID'
  PROVE  Rows'
<1>1. MenuMap(menus')
  BY DEF Rows, MenuMap, Put
<1>2. NamesUnique(menus')
  BY DEF Rows, NamesUnique, Put, NameTaken
<1>3. \A x \in DOMAIN menus' : x < nextMenuID'
  BY DEF Rows, MenuMap, Put
<1> QED
  BY <1>1, <1>2, <1>3 DEF Rows

(* What the commit of r does to the requests: r has written, and the others  *)
(* that have not are disturbed.                                              *)
LEMMA CommitStep ==
  ASSUME IInv, NEW r \in Requests, NEW id \in Nat \ {0}, NEW step \in {"reread", "audit"},
         Commit(r, id, step), written[r] = 0, response[r] = "none",
         Rows', nextMenuID' >= nextMenuID, id < nextMenuID',
         NoReturn, deletedNames' \subseteq STRING,
         Forest(menus) /\ r \in undisturbed => Administration!Next
  PROVE  Good
<1>1. /\ pc' = [pc EXCEPT ![r] = step] /\ written' = [written EXCEPT ![r] = id]
      /\ undisturbed' = undisturbed \ (Unfinished \ {r})
      /\ UNCHANGED <<call, response, audit, seedRuns, seedAnswer>>
  BY DEF Commit, Continue, seed
<1>2. LocalTypeOK'
  BY <1>1 DEF IInv, LocalTypeOK, Steps
<1>3. pc'[r] = step /\ written'[r] = id
  BY <1>1 DEF IInv, LocalTypeOK
<1>4. \A q \in Requests \ {r} : pc'[q] = pc[q] /\ written'[q] = written[q]
  BY <1>1 DEF IInv, LocalTypeOK
<1>5. nextMenuID \in Nat /\ nextMenuID' \in Nat
  BY DEF IInv, Rows
<1>6. ASSUME NEW q \in Requests PROVE Progress(q)' /\ Answered(q)'
  <2>1. CASE q = r
    BY <1>1, <1>3, <2>1 DEF Progress, Answered
  <2>2. CASE q # r
    <3>1. Progress(q) /\ Answered(q) /\ written[q] \in Nat
      BY DEF IInv, LocalTypeOK
    <3>2. pc'[q] = pc[q] /\ written'[q] = written[q]
      BY <1>4, <2>2
    <3>3. Progress(q)'
      BY <1>1, <1>5, <3>1, <3>2 DEF Progress
    <3>4. written[q] # 0 => written[q] \in 0..(nextMenuID - 1)
      BY <1>5, <3>1 DEF Progress
    <3>5. Answered(q)'
      BY <1>1, <3>1, <3>2, <3>4 DEF Answered, NoReturn
    <3> QED
      BY <3>3, <3>5
  <2> QED
    BY <2>1, <2>2
<1>7. StillFound'
  <2>1. SUFFICES ASSUME NEW q \in undisturbed', written'[q] = 0 PROVE FALSE
    BY DEF StillFound
  <2>2. q \in Requests /\ q # r
    BY <1>2, <1>3, <2>1 DEF LocalTypeOK
  <2>3. q \in Unfinished \ {r}
    BY <1>4, <2>1, <2>2 DEF Unfinished
  <2> QED
    BY <1>1, <2>1, <2>3
<1>8. Administered
  <2>1. r \in Committing
    BY <1>3 DEF Committing
  <2> QED
    BY <2>1 DEF Administered
<1>9. NoNewLoop
  BY <1>3, <1>4 DEF NoNewLoop
<1> QED
  BY <1>2, <1>6, <1>7, <1>8, <1>9 DEF Good, IInv

LEMMA CreateMenuStep ==
  ASSUME IInv, NEW r \in Requests, CreateMenu(r)
  PROVE  Good
<1> DEFINE c == call[r]
           m == Written(c)
           id == nextMenuID
<1>1. pc[r] = "insert" /\ written[r] = 0 /\ response[r] = "none"
  BY Reading DEF CreateMenu
<1>2. Rows /\ id \in Nat \ {0} /\ (\A x \in DOMAIN menus : x \in Nat \ {0} /\ x < id)
  BY DEF IInv, Rows, MenuMap
<1>3. c \in Call
  BY DEF IInv, LocalTypeOK
<1>4. m \in Menu /\ m.parent = c.parent /\ m.name = c.name
  BY <1>3, WrittenType
<1>5. CASE Refuse(r, "invalid") /\ Unwritten
  BY <1>1, <1>5, RefuseStep
<1>6. CASE /\ nextMenuID' = nextMenuID + 1
           /\ Refuse(r, "conflict")
           /\ UNCHANGED <<menus, deletedNames, written, seed, undisturbed>>
  <2>1. /\ pc' = [pc EXCEPT ![r] = "done"]
        /\ response' = [response EXCEPT ![r] = "conflict"]
        /\ UNCHANGED <<menus, call, written, audit, deletedNames, seedRuns,
                       seedAnswer, undisturbed>>
    BY <1>6 DEF Refuse, Finish, seed
  <2>2. LocalTypeOK' /\ pc'[r] = "done" /\ response'[r] = "conflict"
    BY <2>1 DEF IInv, LocalTypeOK, Steps, Responses
  <2>3. Progress(r)' /\ Answered(r)'
    BY <1>1, <2>1, <2>2 DEF Progress, Answered
  <2>4. \A q \in Requests \ {r} : pc'[q] = pc[q] /\ response'[q] = response[q]
    BY <2>1 DEF IInv, LocalTypeOK
  <2>5. Found(menus, call[r], pc'[r])
    BY <2>2 DEF Found
  <2>6. nextMenuID' \in Nat /\ nextMenuID' >= nextMenuID
    BY <1>2, <1>6
  <2> QED
    BY <2>1, <2>2, <2>3, <2>4, <2>5, <2>6, QuietStep
<1>7. CASE ~Duplicate(0, c.name) /\ InsertRow(r)
  <2>1. /\ menus' = Put(menus, id, m) /\ nextMenuID' = id + 1
        /\ Commit(r, id, "reread") /\ UNCHANGED deletedNames
    BY <1>7 DEF InsertRow
  <2> HIDE DEF c, m, id
  <2>2. ~NameTaken(menus, id, m.name)
    BY <1>2, <1>4, <1>7 DEF Duplicate, NameTaken
  <2>3. Rows'
    BY <1>2, <1>4, <2>1, <2>2, PutKeepsRows DEF id
  <2>4. NoReturn
    BY <1>2, <2>1 DEF NoReturn, Put, id
  <2>5. ASSUME Forest(menus), r \in undisturbed PROVE Administration!Next
    <3>1. c.parent \in DOMAIN menus \cup {0}
      BY <1>1, <2>5 DEF IInv, StillFound, Found, c
    <3>2. m.parent # id /\ id \notin Chain(menus, m.parent)
      BY <1>2, <1>4, <3>1 DEF Chain
    <3>3. Forest(menus')
      BY <1>2, <1>4, <2>1, <2>2, <2>5, <3>1, <3>2, PutKeepsForest DEF Rows
    <3>4. id \in DOMAIN menus' /\ menus'[id] = m
      BY <2>1 DEF Put
    <3>5. Administration!Created
      BY <1>2, <2>1, <3>4 DEF Administration!Created, Administration!Put, Put, id
    <3> QED
      BY <3>3, <3>5, SameForest DEF Administration!Next
  <2>6. deletedNames' \subseteq STRING
    BY <2>1 DEF IInv, LocalTypeOK
  <2>7. nextMenuID' >= nextMenuID /\ id < nextMenuID'
    BY <1>2, <2>1 DEF id
  <2> QED
    BY <1>1, <1>2, <2>1, <2>3, <2>4, <2>5, <2>6, <2>7, CommitStep
<1> QED
  BY <1>5, <1>6, <1>7 DEF CreateMenu

LEMMA UpdateMenuStep ==
  ASSUME IInv, NEW r \in Requests, UpdateMenu(r)
  PROVE  Good
<1> DEFINE c == call[r]
           m == Written(c)
           id == c.target
<1>1. pc[r] = "update" /\ c.op = "update" /\ written[r] = 0 /\ response[r] = "none"
  BY Reading DEF UpdateMenu, IInv, Progress
<1>2. /\ Rows /\ nextMenuID \in Nat \ {0}
      /\ \A x \in DOMAIN menus : x \in Nat \ {0} /\ x < nextMenuID
  BY DEF IInv, Rows, MenuMap
<1>3. c \in Call
  BY DEF IInv, LocalTypeOK
<1>4. m \in Menu /\ m.parent = c.parent /\ m.name = c.name
  BY <1>3, WrittenType
<1>5. CASE \E answer \in {"invalid", "notFound", "conflict"} : Refuse(r, answer) /\ Unwritten
  BY <1>1, <1>5, RefuseStep
<1>6. CASE /\ id \in DOMAIN menus /\ ~Duplicate(id, c.name)
           /\ menus' = Put(menus, id, m)
           /\ Commit(r, id, "reread")
           /\ UNCHANGED <<nextMenuID, deletedNames>>
  <2> HIDE DEF c, m, id
  <2>1. ~NameTaken(menus, id, m.name)
    BY <1>4, <1>6 DEF Duplicate
  <2>2. id \in Nat \ {0} /\ id < nextMenuID' /\ nextMenuID' = nextMenuID
    BY <1>2, <1>6
  <2>3. nextMenuID' \in Nat \ {0} /\ nextMenuID' >= nextMenuID
    BY <1>2, <2>2
  <2>4. Rows'
    BY <1>2, <1>4, <1>6, <2>1, <2>2, <2>3, PutKeepsRows
  <2>5. DOMAIN menus' = DOMAIN menus /\ menus'[id] = m
    BY <1>6 DEF Put
  <2>6. NoReturn
    BY <2>5 DEF NoReturn
  <2>7. ASSUME Forest(menus), r \in undisturbed PROVE Administration!Next
    <3>1. /\ c.parent \in DOMAIN menus \cup {0} /\ c.parent # id
          /\ id \notin Chain(menus, c.parent)
      BY <1>1, <2>7 DEF IInv, StillFound, Found, c, id
    <3>2. Forest(menus')
      BY <1>2, <1>4, <1>6, <2>1, <2>2, <2>7, <3>1, PutKeepsForest DEF Rows
    <3>3. Administration!Replaced
      BY <1>6, <2>5 DEF Administration!Replaced, Administration!Put, Put
    <3> QED
      BY <3>2, <3>3, SameForest DEF Administration!Next
  <2>8. deletedNames' \subseteq STRING
    BY <1>6 DEF IInv, LocalTypeOK
  <2> QED
    BY <1>1, <1>6, <2>2, <2>3, <2>4, <2>6, <2>7, <2>8, CommitStep
<1> QED
  BY <1>5, <1>6 DEF UpdateMenu

LEMMA DeleteMenuStep ==
  ASSUME IInv, NEW r \in Requests, DeleteMenu(r)
  PROVE  Good
<1> DEFINE id == call[r].target
<1>1. pc[r] = "remove" /\ written[r] = 0 /\ response[r] = "none"
  BY Reading DEF DeleteMenu
<1>2. /\ Rows /\ nextMenuID \in Nat \ {0}
      /\ \A x \in DOMAIN menus : x \in Nat \ {0} /\ x < nextMenuID
  BY DEF IInv, Rows, MenuMap
<1>3. CASE Refuse(r, "notFound") /\ Unwritten
  BY <1>1, <1>3, RefuseStep
<1>4. CASE /\ id \in DOMAIN menus
           /\ menus' = Without(menus, id)
           /\ deletedNames' = deletedNames \cup {menus[id].name}
           /\ Commit(r, id, "audit")
           /\ UNCHANGED nextMenuID
  <2> HIDE DEF id
  <2>1. id \in Nat \ {0} /\ id < nextMenuID' /\ nextMenuID' = nextMenuID
    BY <1>2, <1>4
  <2>2. nextMenuID' >= nextMenuID
    BY <1>2, <2>1
  <2>3. /\ DOMAIN menus' = DOMAIN menus \ {id}
        /\ \A x \in DOMAIN menus' : menus'[x] = menus[x]
        /\ menus' = [x \in DOMAIN menus' |-> menus'[x]]
    BY <1>4 DEF Without
  <2>4. MenuMap(menus')
    BY <1>2, <2>3 DEF Rows, MenuMap
  <2>5. Rows'
    BY <1>2, <2>1, <2>3, <2>4 DEF Rows, NamesUnique
  <2>6. NoReturn
    BY <2>3 DEF NoReturn
  <2>7. ASSUME Forest(menus), r \in undisturbed PROVE Administration!Next
    <3>1. ~HasChildren(menus, id)
      BY <1>1, <2>7 DEF IInv, StillFound, Found, id
    <3>2. Forest(menus')
      BY <1>2, <1>4, <2>7, <3>1, WithoutKeepsForest DEF Rows
    <3>3. Administration!Removed
      BY <1>4, <3>1 DEF Administration!Removed, Administration!Without, Without,
                        Administration!HasChildren, HasChildren
    <3> QED
      BY <3>2, <3>3, SameForest DEF Administration!Next
  <2>8. deletedNames' \subseteq STRING
    <3>1. menus[id].name \in STRING
      BY <1>4 DEF IInv, Rows, MenuMap, Menu
    <3> QED
      BY <1>4, <3>1 DEF IInv, LocalTypeOK
  <2> QED
    BY <1>1, <1>4, <2>1, <2>2, <2>5, <2>6, <2>7, <2>8, CommitStep
<1> QED
  BY <1>3, <1>4 DEF DeleteMenu

----------------------------------------------------------------------------
(* The seed file *)

(* Rows, of any menus. *)
RowsOf(ms, next) ==
  /\ MenuMap(ms) /\ next \in Nat \ {0}
  /\ NamesUnique(ms)
  /\ \A id \in DOMAIN ms : id < next

LEMMA SeedRowsType ==
  /\ Len(SeedRows) \in Nat /\ DOMAIN SeedRows = 1..Len(SeedRows)
  /\ \A i \in DOMAIN SeedRows : SeedRows[i].name \in STRING
<1> DEFINE Row == [name : STRING, parent : STRING]
<1>1. SeedRows \in Seq(Row)
  BY SqlMenuAssumption
<1>2. \A row \in Row : row.name \in STRING
  OBVIOUS
<1> HIDE DEF Row
<1>3. /\ Len(SeedRows) \in Nat /\ DOMAIN SeedRows = 1..Len(SeedRows)
      /\ \A i \in DOMAIN SeedRows : SeedRows[i] \in Row
  BY <1>1
<1> QED
  BY <1>2, <1>3

(* A row of the file goes to the live row of its name, or to a new one. *)
LEMMA SeedIDCases ==
  ASSUME NEW ms, NEW next, RowsOf(ms, next), NEW i \in DOMAIN SeedRows
  PROVE  \/ /\ SeedID(ms, next, i) \in DOMAIN ms
            /\ ms[SeedID(ms, next, i)].name = SeedRows[i].name
         \/ /\ SeedID(ms, next, i) = next + i - 1
            /\ \A x \in DOMAIN ms : ms[x].name # SeedRows[i].name
<1>1. DOMAIN ms \ {0} = DOMAIN ms
  BY DEF RowsOf, MenuMap
<1> QED
  BY <1>1 DEF SeedID, NameTaken

LEMMA SeedIDType ==
  ASSUME NEW ms, NEW next, RowsOf(ms, next), NEW i \in DOMAIN SeedRows
  PROVE  SeedID(ms, next, i) \in Nat \ {0} /\ SeedID(ms, next, i) < next + Len(SeedRows)
<1>1. Len(SeedRows) \in Nat /\ i \in 1..Len(SeedRows)
  BY SeedRowsType
<1>2. next \in Nat \ {0} /\ \A x \in DOMAIN ms : x \in Nat \ {0} /\ x < next
  BY DEF RowsOf, MenuMap
<1> QED
  BY <1>1, <1>2, SeedIDCases

(* No two rows of the file go to the same row. *)
LEMMA SeedIDInjective ==
  ASSUME NEW ms, NEW next, RowsOf(ms, next),
         NEW i \in DOMAIN SeedRows, NEW j \in DOMAIN SeedRows,
         SeedID(ms, next, i) = SeedID(ms, next, j)
  PROVE  i = j
<1>1. i \in Nat \ {0} /\ j \in Nat \ {0}
  BY SeedRowsType
<1>2. next \in Nat \ {0} /\ \A x \in DOMAIN ms : x \in Nat \ {0} /\ x < next
  BY DEF RowsOf, MenuMap
<1>3. SeedRows[i].name = SeedRows[j].name => i = j
  BY SqlMenuAssumption
<1> QED
  BY <1>1, <1>2, <1>3, SeedIDCases

(* The row the seeds put a child under. *)
ParentRow(i) == CHOOSE j \in DOMAIN SeedRows : SeedRows[j].name = SeedRows[i].parent

LEMMA ParentRowExists ==
  ASSUME NEW i \in DOMAIN SeedRows, SeedRows[i].parent # ""
  PROVE  ParentRow(i) \in DOMAIN SeedRows
  BY SqlMenuAssumption DEF ParentRow

LEMMA SeedMenuType ==
  ASSUME NEW ms, NEW next, RowsOf(ms, next), NEW i \in DOMAIN SeedRows
  PROVE  SeedMenu(ms, next, i) \in Menu /\ SeedMenu(ms, next, i).name = SeedRows[i].name
<1> DEFINE id == SeedID(ms, next, i)
           place == SeedMenu(ms, next, i).parent
<1>1. SeedRows[i].name \in STRING
  BY SeedRowsType
<1>2. CASE SeedRows[i].parent # ""
  <2>1. place = SeedID(ms, next, ParentRow(i))
    BY <1>2 DEF SeedMenu, ParentRow
  <2> QED
    BY <1>1, <1>2, <2>1, ParentRowExists, SeedIDType DEF SeedMenu, Menu
<1>3. CASE SeedRows[i].parent = ""
  <2>1. id \in DOMAIN ms => ms[id].parent \in Nat
    BY DEF RowsOf, MenuMap, Menu
  <2> QED
    BY <1>1, <1>3, <2>1 DEF SeedMenu, Menu
<1> QED
  BY <1>2, <1>3

LEMMA SeededRows ==
  ASSUME NEW ms, NEW next, RowsOf(ms, next)
  PROVE  LET new == Seeded(ms, next) IN
         /\ DOMAIN new = DOMAIN ms \cup {SeedID(ms, next, i) : i \in DOMAIN SeedRows}
         /\ new = [id \in DOMAIN new |-> new[id]]
         /\ \A i \in DOMAIN SeedRows :
              new[SeedID(ms, next, i)] = SeedMenu(ms, next, i)
         /\ \A id \in DOMAIN ms :
              (\A i \in DOMAIN SeedRows : SeedID(ms, next, i) # id) => new[id] = ms[id]
<1> DEFINE new == Seeded(ms, next)
           at(id) == {i \in DOMAIN SeedRows : SeedID(ms, next, i) = id}
           ids == {SeedID(ms, next, i) : i \in DOMAIN SeedRows}
           row(id) == IF id \in ids THEN SeedMenu(ms, next, CHOOSE i \in at(id) : TRUE)
                                    ELSE ms[id]
<1>1. new = [id \in DOMAIN ms \cup ids |-> row(id)]
  BY DEF Seeded
<1>2. ASSUME NEW i \in DOMAIN SeedRows
      PROVE  (CHOOSE j \in at(SeedID(ms, next, i)) : TRUE) = i
  <2> DEFINE A == at(SeedID(ms, next, i))
  <2>1. i \in A
    OBVIOUS
  <2>2. \A j \in A : j = i
    BY SeedIDInjective
  <2> HIDE DEF A
  <2>3. (CHOOSE j \in A : TRUE) = i
    BY <2>1, <2>2
  <2> QED
    BY <2>3 DEF A
<1>3. \A i \in DOMAIN SeedRows : row(SeedID(ms, next, i)) = SeedMenu(ms, next, i)
  BY <1>2
<1>4. \A id : (\A i \in DOMAIN SeedRows : SeedID(ms, next, i) # id) => row(id) = ms[id]
  OBVIOUS
<1>5. \A i \in DOMAIN SeedRows : SeedID(ms, next, i) \in ids
  OBVIOUS
<1> HIDE DEF row, new
<1> SUFFICES /\ DOMAIN new = DOMAIN ms \cup ids
             /\ new = [id \in DOMAIN new |-> new[id]]
             /\ \A i \in DOMAIN SeedRows :
                  new[SeedID(ms, next, i)] = SeedMenu(ms, next, i)
             /\ \A id \in DOMAIN ms :
                  (\A i \in DOMAIN SeedRows : SeedID(ms, next, i) # id) => new[id] = ms[id]
  BY DEF new
<1> QED
  BY <1>1, <1>3, <1>4, <1>5

LEMMA SeededKeepsRows ==
  ASSUME NEW ms, NEW next, RowsOf(ms, next)
  PROVE  RowsOf(Seeded(ms, next), next + Len(SeedRows))
<1> DEFINE new == Seeded(ms, next)
           id(i) == SeedID(ms, next, i)
           old == {x \in DOMAIN ms : \A i \in DOMAIN SeedRows : id(i) # x}
<1>1. /\ DOMAIN new = DOMAIN ms \cup {id(i) : i \in DOMAIN SeedRows}
      /\ new = [x \in DOMAIN new |-> new[x]]
      /\ \A i \in DOMAIN SeedRows : new[id(i)] = SeedMenu(ms, next, i)
      /\ \A x \in old : new[x] = ms[x]
  BY SeededRows
<1>2. \A i \in DOMAIN SeedRows : id(i) \in Nat \ {0} /\ id(i) < next + Len(SeedRows)
  BY SeedIDType
<1>3. \A i \in DOMAIN SeedRows : new[id(i)] \in Menu /\ new[id(i)].name = SeedRows[i].name
  BY <1>1, SeedMenuType
<1>4. \A i \in DOMAIN SeedRows : \A x \in old : ms[x].name # SeedRows[i].name
  <2>1. SUFFICES ASSUME NEW i \in DOMAIN SeedRows, NEW x \in old
                 PROVE  ms[x].name # SeedRows[i].name
    OBVIOUS
  <2>2. x \in DOMAIN ms /\ x # id(i)
    OBVIOUS
  <2> HIDE DEF old
  <2> QED
    BY <2>2, SeedIDCases DEF RowsOf, NamesUnique
<1>5. \A i, j \in DOMAIN SeedRows : i # j => SeedRows[i].name # SeedRows[j].name
  BY SqlMenuAssumption
<1>6. \A x \in DOMAIN new : x \in old \/ \E i \in DOMAIN SeedRows : x = id(i)
  BY <1>1
<1>7. \A x \in old : x \in DOMAIN ms
  OBVIOUS
<1>8. Len(SeedRows) \in Nat
  BY SeedRowsType
<1>9. /\ next \in Nat \ {0}
      /\ \A x \in DOMAIN ms : ms[x] \in Menu /\ x \in Nat \ {0} /\ x < next
  BY DEF RowsOf, MenuMap
<1> HIDE DEF new, id, old
<1>10. MenuMap(new)
  <2>1. \A x \in DOMAIN new : new[x] \in Menu /\ x \in Nat \ {0}
    BY <1>1, <1>2, <1>3, <1>6, <1>7, <1>9
  <2> QED
    BY <1>1, <2>1 DEF MenuMap
<1>11. NamesUnique(new)
  <2>1. SUFFICES ASSUME NEW x \in DOMAIN new, NEW y \in DOMAIN new, x # y
                 PROVE  new[x].name # new[y].name
    BY DEF NamesUnique
  <2>2. CASE x \in old /\ y \in old
    BY <1>1, <1>7, <2>1, <2>2 DEF RowsOf, NamesUnique
  <2>3. CASE x \in old /\ \E j \in DOMAIN SeedRows : y = id(j)
    BY <1>1, <1>3, <1>4, <2>3
  <2>4. CASE y \in old /\ \E i \in DOMAIN SeedRows : x = id(i)
    BY <1>1, <1>3, <1>4, <2>4
  <2>5. CASE \E i, j \in DOMAIN SeedRows : x = id(i) /\ y = id(j)
    BY <1>3, <1>5, <2>1, <2>5
  <2> QED
    BY <1>6, <2>2, <2>3, <2>4, <2>5
<1>12. \A x \in DOMAIN new : x < next + Len(SeedRows)
  BY <1>2, <1>6, <1>7, <1>8, <1>9
<1>13. next + Len(SeedRows) \in Nat \ {0}
  BY <1>8, <1>9
<1> QED
  BY <1>10, <1>11, <1>12, <1>13 DEF RowsOf, new

(* Every row of the file has found its row: seeding again changes nothing. *)
LEMMA SeedingAgain ==
  ASSUME NEW ms, NEW next, RowsOf(ms, next)
  PROVE  Seeded(Seeded(ms, next), next + Len(SeedRows)) = Seeded(ms, next)
<1> DEFINE new == Seeded(ms, next)
           after == next + Len(SeedRows)
           again == Seeded(new, after)
<1>1. RowsOf(new, after)
  BY SeededKeepsRows
<1>2. /\ new = [id \in DOMAIN new |-> new[id]]
      /\ \A i \in DOMAIN SeedRows :
           /\ SeedID(ms, next, i) \in DOMAIN new
           /\ new[SeedID(ms, next, i)] = SeedMenu(ms, next, i)
  <2>1. /\ DOMAIN new = DOMAIN ms \cup {SeedID(ms, next, i) : i \in DOMAIN SeedRows}
        /\ new = [id \in DOMAIN new |-> new[id]]
        /\ \A i \in DOMAIN SeedRows : new[SeedID(ms, next, i)] = SeedMenu(ms, next, i)
    BY SeededRows
  <2> HIDE DEF new
  <2> QED
    BY <2>1
<1> HIDE DEF new, after
<1>3. ASSUME NEW i \in DOMAIN SeedRows
      PROVE  SeedID(new, after, i) = SeedID(ms, next, i)
  <2>1. new[SeedID(ms, next, i)].name = SeedRows[i].name
    BY <1>2, SeedMenuType
  <2>2. \/ /\ SeedID(new, after, i) \in DOMAIN new
           /\ new[SeedID(new, after, i)].name = SeedRows[i].name
        \/ \A x \in DOMAIN new : new[x].name # SeedRows[i].name
    BY <1>1, SeedIDCases
  <2>3. NamesUnique(new) /\ SeedID(ms, next, i) \in DOMAIN new
    BY <1>1, <1>2 DEF RowsOf
  <2> QED
    BY <2>1, <2>2, <2>3 DEF NamesUnique
<1>4. ASSUME NEW i \in DOMAIN SeedRows
      PROVE  SeedMenu(new, after, i) = SeedMenu(ms, next, i)
  <2>1. CASE SeedRows[i].parent # ""
    <3>1. SeedID(new, after, ParentRow(i)) = SeedID(ms, next, ParentRow(i))
      BY <1>3, <2>1, ParentRowExists
    <3>2. \A f, n : SeedMenu(f, n, i)
                      = [parent |-> SeedID(f, n, ParentRow(i)), name |-> SeedRows[i].name]
      BY <2>1 DEF SeedMenu, ParentRow
    <3> QED
      BY <3>1, <3>2
  <2>2. CASE SeedRows[i].parent = ""
    <3> DEFINE id == SeedID(ms, next, i)
    <3>1. SeedID(new, after, i) = id /\ id \in DOMAIN new
      BY <1>2, <1>3
    <3>2. SeedMenu(new, after, i) = [parent |-> new[id].parent, name |-> SeedRows[i].name]
      BY <2>2, <3>1 DEF SeedMenu
    <3>3. new[id] = SeedMenu(ms, next, i)
      BY <1>2
    <3>4. SeedMenu(ms, next, i)
            = [parent |-> IF id \in DOMAIN ms THEN ms[id].parent ELSE 0,
               name |-> SeedRows[i].name]
      BY <2>2 DEF SeedMenu
    <3> QED
      BY <3>2, <3>3, <3>4
  <2> QED
    BY <2>1, <2>2
<1>5. /\ DOMAIN again = DOMAIN new \cup {SeedID(new, after, i) : i \in DOMAIN SeedRows}
      /\ again = [id \in DOMAIN again |-> again[id]]
      /\ \A i \in DOMAIN SeedRows :
           again[SeedID(new, after, i)] = SeedMenu(new, after, i)
      /\ \A id \in DOMAIN new :
           (\A i \in DOMAIN SeedRows : SeedID(new, after, i) # id) => again[id] = new[id]
  BY <1>1, SeededRows
<1> HIDE DEF again
<1>6. DOMAIN again = DOMAIN new
  BY <1>2, <1>3, <1>5
<1>7. \A id \in DOMAIN new : again[id] = new[id]
  BY <1>2, <1>3, <1>4, <1>5
<1>8. again = new
  BY <1>2, <1>5, <1>6, <1>7
<1> QED
  BY <1>8 DEF again, after, new

LEMMA RunSeedsStep ==
  ASSUME IInv, RunSeeds
  PROVE  /\ Good
         /\ seedAnswer' = "ok" => Seeded(menus', nextMenuID') = menus'
<1>1. RowsOf(menus, nextMenuID)
  BY DEF IInv, Rows, RowsOf
<1>2. /\ nextMenuID' = nextMenuID + Len(SeedRows) /\ seedRuns' = seedRuns + 1
      /\ seedRuns < MaxSeedRuns /\ seedAnswer' \in {"ok", "failed"}
      /\ UNCHANGED <<deletedNames, pc, call, written, response, audit>>
  BY DEF RunSeeds
<1>3. nextMenuID \in Nat \ {0} /\ Len(SeedRows) \in Nat /\ DOMAIN SeedRows = 1..Len(SeedRows)
  BY <1>1, SeedRowsType DEF RowsOf
<1>4. undisturbed' \subseteq undisturbed
  BY DEF RunSeeds
<1>5. LocalTypeOK'
  <2>1. MaxSeedRuns \in Nat
    BY SqlMenuAssumption
  <2>2. seedRuns \in 0..MaxSeedRuns
    BY DEF IInv, LocalTypeOK
  <2>3. seedRuns' \in 0..MaxSeedRuns
    BY <1>2, <2>1, <2>2
  <2> QED
    BY <1>2, <1>4, <2>3 DEF IInv, LocalTypeOK
<1>6. \/ UNCHANGED <<menus, undisturbed>> /\ seedAnswer' # "ok"
      \/ menus' = Seeded(menus, nextMenuID) /\ undisturbed' = undisturbed \ Unfinished
  BY DEF RunSeeds
<1>7. RowsOf(menus', nextMenuID')
  <2>1. CASE menus' = menus
    BY <1>1, <1>2, <1>3, <2>1 DEF RowsOf, MenuMap
  <2>2. CASE menus' = Seeded(menus, nextMenuID)
    BY <1>1, <1>2, <2>2, SeededKeepsRows
  <2> QED
    BY <1>6, <2>1, <2>2
<1>8. Rows'
  BY <1>7 DEF Rows, RowsOf
<1>9. NoReturn
  <2>1. CASE menus' = menus
    BY <2>1 DEF NoReturn
  <2>2. CASE menus' = Seeded(menus, nextMenuID)
    <3>1. SUFFICES ASSUME NEW id \in 0..(nextMenuID - 1), id \in DOMAIN menus'
                   PROVE  id \in DOMAIN menus
      BY DEF NoReturn
    <3>2. DOMAIN menus' = DOMAIN menus \cup
                            {SeedID(menus, nextMenuID, i) : i \in DOMAIN SeedRows}
      BY <1>1, <2>2, SeededRows
    <3>3. ASSUME NEW i \in DOMAIN SeedRows, id = SeedID(menus, nextMenuID, i)
          PROVE  id \in DOMAIN menus
      BY <1>1, <1>3, <3>3, SeedIDCases
    <3> QED
      BY <3>1, <3>2, <3>3
  <2> QED
    BY <1>6, <2>1, <2>2
<1>10. ASSUME NEW r \in Requests PROVE Progress(r)' /\ Answered(r)'
  <2>1. Progress(r) /\ Answered(r) /\ written[r] \in Nat
    BY DEF IInv, LocalTypeOK
  <2>2. Progress(r)'
    BY <1>2, <1>3, <2>1 DEF Progress
  <2>3. written[r] # 0 => written[r] \in 0..(nextMenuID - 1)
    BY <1>3, <2>1 DEF Progress
  <2>4. Answered(r)'
    BY <1>2, <1>9, <2>1, <2>3 DEF Answered, NoReturn
  <2> QED
    BY <2>2, <2>4
<1>11. StillFound'
  <2>1. CASE UNCHANGED <<menus, undisturbed>>
    BY <1>2, <2>1 DEF IInv, StillFound
  <2>2. CASE undisturbed' = undisturbed \ Unfinished
    BY <1>2, <2>2 DEF IInv, LocalTypeOK, StillFound, Unfinished
  <2> QED
    BY <1>6, <2>1, <2>2
<1>12. Administered
  <2>1. seedRuns' # seedRuns
    BY <1>2 DEF IInv, LocalTypeOK
  <2> QED
    BY <2>1 DEF Administered, seed
<1>13. NoNewLoop
  BY <1>2 DEF NoNewLoop
<1>14. seedAnswer' = "ok" => Seeded(menus', nextMenuID') = menus'
  BY <1>1, <1>2, <1>6, SeedingAgain
<1> QED
  BY <1>5, <1>8, <1>9, <1>10, <1>11, <1>12, <1>13, <1>14 DEF Good, IInv

----------------------------------------------------------------------------
(* The theorems *)

LEMMA StutterStep ==
  ASSUME IInv, UNCHANGED vars
  PROVE  Good
<1>1. UNCHANGED <<menus, nextMenuID, pc, call, written, response, audit, deletedNames,
                  seedRuns, seedAnswer, undisturbed>>
  BY DEF vars, store, seed
<1>2. Rows' /\ LocalTypeOK'
  BY <1>1 DEF IInv, Rows, LocalTypeOK
<1>3. \A r \in Requests : Progress(r)' /\ Answered(r)'
  BY <1>1 DEF IInv, Progress, Answered
<1>4. StillFound' /\ NoReturn /\ NoNewLoop
  BY <1>1 DEF IInv, StillFound, NoReturn, NoNewLoop
<1>5. Administered
  BY <1>1 DEF Administered, Administration!vars
<1> QED
  BY <1>2, <1>3, <1>4, <1>5 DEF Good, IInv

LEMMA NextStep ==
  ASSUME IInv, [Next]_vars
  PROVE  /\ Good
         /\ seedRuns' # seedRuns /\ seedAnswer' = "ok"
              => Seeded(menus', nextMenuID') = menus'
<1>1. CASE UNCHANGED vars
  <2>1. seedRuns' = seedRuns
    BY <1>1 DEF vars, seed
  <2> QED
    BY <1>1, <2>1, StutterStep
<1>2. CASE \E r \in Requests : Handle(r) \/ StoreFault(r)
  <2>1. PICK r \in Requests : Handle(r) \/ StoreFault(r)
    BY <1>2
  <2>2. Good
    BY <2>1, StartStep, CheckListedTreeStep, GetTargetStep, CheckNameStep, CheckParentStep,
       CheckAncestorsStep, CountChildrenStep, CreateMenuStep, UpdateMenuStep,
       DeleteMenuStep, RereadStep, WriteAuditStep, StoreFaultStep DEF Handle
  <2>3. seedRuns' = seedRuns
    BY <2>1 DEF Handle, Start, CheckListedTree, GetTarget, CheckName, CheckParent,
                CheckAncestors, CountChildren, CreateMenu, InsertRow, UpdateMenu,
                DeleteMenu, Reread, WriteAudit, StoreFault, Check, Unwritten, Commit, seed
  <2> QED
    BY <2>2, <2>3
<1>3. CASE RunSeeds
  BY <1>3, RunSeedsStep
<1> QED
  BY <1>1, <1>2, <1>3 DEF Next, Quiescent

LEMMA InitInvariant == Init => IInv
<1> SUFFICES ASSUME Init PROVE IInv
  OBVIOUS
<1>1. Rows
  BY SqlMenuAssumption DEF Init, Rows, Forest
<1>2. LocalTypeOK
  <2>1. Calls \subseteq Call
    BY SqlMenuAssumption
  <2>2. MaxSeedRuns \in Nat
    BY SqlMenuAssumption
  <2>3. 0 \in 0..MaxSeedRuns
    BY <2>2
  <2>4. call \in [Requests -> Call]
    BY <2>1 DEF Init
  <2> QED
    BY <2>3, <2>4 DEF Init, LocalTypeOK, Steps, Responses
<1>3. \A r \in Requests : Progress(r) /\ Answered(r)
  BY DEF Init, Progress, Answered
<1>4. StillFound
  BY DEF Init, StillFound
<1> QED
  BY <1>1, <1>2, <1>3, <1>4 DEF IInv

LEMMA Invariance ==
  Spec => /\ []IInv
          /\ [][Good]_vars
          /\ SeedIdempotent
<1>1. Init => IInv
  BY InitInvariant
<1>2. IInv /\ [Next]_vars => IInv' /\ Good
  BY NextStep DEF Good
<1>3. IInv /\ [Next]_vars
        => (seedRuns' # seedRuns /\ seedAnswer' = "ok"
              => Seeded(menus', nextMenuID') = menus')
  BY NextStep
<1> QED
  BY <1>1, <1>2, <1>3, PTL DEF Spec, SeedIdempotent

(* The state of the store, of the requests and of the seeds stays within its *)
(* types.                                                                    *)
THEOREM TypeCorrect == Spec => []TypeOK
<1>1. IInv => TypeOK
  BY DEF IInv, Rows, LocalTypeOK, TypeOK
<1> QED
  BY <1>1, Invariance, PTL

(* Whatever fails and however statements interleave: success is answered only *)
(* after the write and the audit entry, and a request that has written and is *)
(* told that there is no such menu is told what will stay true.               *)
THEOREM AnswersCorrect == Spec => []AnswersFitEffects
<1>1. IInv => AnswersFitEffects
  BY DEF IInv, Answered, AnswersFitEffects
<1> QED
  BY <1>1, Invariance, PTL

(* However requests and seeds overlap, names stay unique, and the ID of a    *)
(* deleted menu does not come back.                                          *)
THEOREM RowsDistinct == Spec => RowsStayDistinct
<1>1. Good => /\ NamesUnique(menus) => NamesUnique(menus')
              /\ \A id \in 0..(nextMenuID - 1) :
                   id \notin DOMAIN menus => id \notin DOMAIN menus'
  BY DEF Good, NoReturn, IInv, Rows
<1> QED
  BY <1>1, Invariance, PTL DEF RowsStayDistinct

(* Over a forest, a write that no other disturbs is one of the abstract menu *)
(* administration: the checks made before the transaction still hold in it.  *)
THEOREM ForestImplemented == Spec => ImplementsForest
<1>1. Good => Administered
  BY DEF Good
<1> QED
  BY <1>1, Invariance, PTL DEF ImplementsForest, Administered

(* Running the seed file right after a run of it changes nothing, whatever   *)
(* requests have made of the menus before.                                   *)
THEOREM SeedRepeats == Spec => SeedIdempotent
  BY Invariance, PTL

----------------------------------------------------------------------------
(* Writes that do not overlap *)

(* The hypothesis of RequestsAnswered: no writer was disturbed before it     *)
(* wrote, and the seed file has not been run.                                *)
SerialWrites == (Requests \ Unfinished) \subseteq undisturbed /\ seedRuns = 0

NoneEndless == \A r \in Requests : pc[r] # "endless"

Serial == Forest(menus) /\ NoneEndless

(* A request that writes has started before. *)
LEMMA WritersStarted ==
  ASSUME IInv, [Next]_vars, seedRuns' = seedRuns
  PROVE  /\ UNCHANGED seed
         /\ \A r \in Committing : written'[r] # 0 /\ (r \in undisturbed' => r \in undisturbed)
<1>1. CASE UNCHANGED vars
  BY <1>1 DEF vars, store, seed, Committing
<1>2. CASE \E r \in Requests : Handle(r) \/ StoreFault(r)
  <2>1. PICK r \in Requests : Handle(r) \/ StoreFault(r)
    BY <1>2
  <2>2. CASE UNCHANGED <<written, seed>>
    BY <2>2 DEF Committing
  <2>3. CASE \E id \in Nat \ {0}, step \in Steps : Commit(r, id, step)
    <3>1. PICK id \in Nat \ {0} : written' = [written EXCEPT ![r] = id]
      BY <2>3 DEF Commit
    <3>2. UNCHANGED seed /\ undisturbed' \subseteq undisturbed
      BY <2>3 DEF Commit
    <3>3. \A q \in Committing : q = r /\ written'[q] = id
      BY <3>1 DEF Committing, IInv, LocalTypeOK
    <3> QED
      BY <3>2, <3>3
  <2>4. CASE CreateMenu(r)
    <3>1. nextMenuID \in Nat \ {0}
      BY DEF IInv, Rows
    <3>2. CASE UNCHANGED <<written, seed>>
      BY <2>2, <3>2
    <3>3. CASE InsertRow(r)
      BY <2>3, <3>1, <3>3 DEF InsertRow, Steps
    <3> QED
      BY <2>4, <3>2, <3>3 DEF CreateMenu, Unwritten, seed
  <2>5. \A id \in DOMAIN menus : id \in Nat \ {0}
    BY DEF IInv, Rows, MenuMap
  <2>6. CASE UpdateMenu(r)
    <3>1. CASE UNCHANGED <<written, seed>>
      BY <2>2, <3>1
    <3>2. CASE call[r].target \in DOMAIN menus /\ Commit(r, call[r].target, "reread")
      BY <2>3, <2>5, <3>2 DEF Steps
    <3> QED
      BY <2>6, <3>1, <3>2 DEF UpdateMenu, Unwritten
  <2>7. CASE DeleteMenu(r)
    <3>1. CASE UNCHANGED <<written, seed>>
      BY <2>2, <3>1
    <3>2. CASE call[r].target \in DOMAIN menus /\ Commit(r, call[r].target, "audit")
      BY <2>3, <2>5, <3>2 DEF Steps
    <3> QED
      BY <2>7, <3>1, <3>2 DEF DeleteMenu, Unwritten
  <2>8. CASE \/ Start(r) \/ CheckListedTree(r) \/ GetTarget(r) \/ CheckName(r)
             \/ CheckParent(r) \/ CheckAncestors(r) \/ CountChildren(r) \/ Reread(r)
             \/ WriteAudit(r) \/ StoreFault(r)
    BY <2>2, <2>8 DEF Start, CheckListedTree, GetTarget, CheckName, CheckParent,
                      CheckAncestors, CountChildren, Reread, WriteAudit, StoreFault,
                      Check, Unwritten
  <2> QED
    BY <2>1, <2>4, <2>6, <2>7, <2>8 DEF Handle
<1>3. CASE RunSeeds
  BY <1>3 DEF RunSeeds, IInv, LocalTypeOK
<1> QED
  BY <1>1, <1>2, <1>3 DEF Next, Quiescent

LEMMA SerialStep ==
  ASSUME IInv, Serial, SerialWrites, SerialWrites', [Next]_vars
  PROVE  Serial' /\ [Administration!Next]_(Administration!vars)
<1>1. Good
  BY NextStep
<1>2. /\ UNCHANGED seed
      /\ \A r \in Committing : written'[r] # 0 /\ (r \in undisturbed' => r \in undisturbed)
  BY WritersStarted DEF SerialWrites
<1>3. Committing \subseteq undisturbed
  BY <1>2 DEF SerialWrites, Unfinished, Committing
<1>4. [Administration!Next]_(Administration!vars)
  BY <1>1, <1>2, <1>3 DEF Good, Administered, Serial
<1>5. Forest(menus')
  <2>1. CASE UNCHANGED Administration!vars
    BY <2>1 DEF Administration!vars, Serial, Forest, Acyclic, ParentsExist, NamesUnique
  <2>2. CASE Administration!Forest(menus')
    BY <2>2 DEF Forest, Acyclic, ParentsExist, NamesUnique,
                Administration!Forest, Administration!Acyclic,
                Administration!ParentsExist, Administration!NamesUnique
  <2> QED
    BY <1>4, <2>1, <2>2 DEF Administration!Next
<1>6. NoneEndless'
  BY <1>1 DEF Good, NoNewLoop, Serial, Forest, NoneEndless
<1> QED
  BY <1>4, <1>5, <1>6 DEF Serial

(* As long as writes do not overlap, and before the seed file is run, the    *)
(* SQL store implements the whole abstract menu administration, and no       *)
(* request is caught in menuHasAncestor's query: what keeps a request from   *)
(* being answered in RequestsAnswered does not happen.                       *)
THEOREM SerialStoreImplementsForest ==
  Spec /\ []SerialWrites => Administration!Spec /\ []NoneEndless
<1>1. Init => Serial /\ Administration!Init
  <2>1. Init => Forest(menus) /\ \A id \in DOMAIN menus : id < nextMenuID
    BY SqlMenuAssumption DEF Init
  <2>2. Forest(menus) => Administration!Forest(menus)
    BY DEF Forest, Acyclic, ParentsExist, NamesUnique,
           Administration!Forest, Administration!Acyclic,
           Administration!ParentsExist, Administration!NamesUnique
  <2>3. Init => NoneEndless
    BY DEF Init, NoneEndless
  <2> QED
    BY <2>1, <2>2, <2>3 DEF Serial, Administration!Init
<1>2. IInv /\ Serial /\ SerialWrites /\ SerialWrites' /\ [Next]_vars
        => Serial' /\ [Administration!Next]_(Administration!vars)
  BY SerialStep
<1>3. Serial => NoneEndless
  BY DEF Serial
<1> QED
  BY <1>1, <1>2, <1>3, Invariance, PTL DEF Spec, Administration!Spec
============================================================================
