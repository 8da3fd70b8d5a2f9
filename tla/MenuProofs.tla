----------------------------- MODULE MenuProofs -----------------------------
(***************************************************************************)
(* Theorems about the menus of the in-memory store.  MenuStore, for all    *)
(* requests, calls and initial menus: the menus stay a forest, and the     *)
(* store implements MenuForest.  MenuTree, for all stored menus, orders    *)
(* and permissions, cycles included: the listed tree matches the menus,    *)
(* looking into it is sound, and a profile shows exactly what it should.   *)
(***************************************************************************)
EXTENDS MenuStore, MenuTree, MenuDataProofs, FiniteSetTheorems, SequenceTheorems

----------------------------------------------------------------------------
(* The store *)

(* No menu is its own ancestor, none has lost its parent, and no two share a *)
(* name.                                                                     *)
MenusFormForest == Forest(menus)

(* The menus are what the abstract administration allows. *)
StoreGood ==
  /\ MenuMap(menus) /\ nextMenuID \in Nat \ {0}
  /\ MenusFormForest
  /\ \A id \in DOMAIN menus : id < nextMenuID  \* every ID was handed out

(* What a climb knows: it holds the lock since the update was checked, and  *)
(* a child of the moved menu above the new parent lies ahead of the cursor. *)
ClimbKnows(r) ==
  LET c == call[r] IN
  /\ lock = r
  /\ c.op = "update" /\ c.target \in DOMAIN menus
  /\ ~NameTaken(menus, c.target, c.name)
  /\ c.parent \in DOMAIN menus /\ c.parent # c.target
  /\ \A x \in Chain(menus, c.parent) :
       menus[x].parent = c.target => x \in Chain(menus, cursor[r])

Climbing == \A r \in Requests : pc[r] = "climb" => ClimbKnows(r)

(* The inductive invariant. *)
IInv == TypeOK /\ StoreGood /\ Climbing

----------------------------------------------------------------------------
(* The climb *)

(* A menu with no child on the chain of another is not on that chain. *)
LEMMA NotAbove ==
  ASSUME NEW ms, NEW p \in DOMAIN ms, NEW id, p # id,
         \A x \in Chain(ms, p) : ms[x].parent # id
  PROVE  id \notin Chain(ms, p)
<1> DEFINE S == Chain(ms, p) \ {id}
<1>1. S \in SUBSET DOMAIN ms
  BY DEF Chain
<1>2. p \in S
  BY ChainHasStart
<1>3. ClosedUpwards(ms, S)
  BY ChainClosed DEF ClosedUpwards
<1> HIDE DEF S
<1>4. Chain(ms, p) \subseteq S
  BY <1>1, <1>2, <1>3, ChainLeast
<1> QED
  BY <1>4 DEF S

(* When the loop has left the forest, the move closes no cycle. *)
LEMMA ClimbEnds ==
  ASSUME NEW r \in Requests, ClimbKnows(r), cursor[r] \notin DOMAIN menus
  PROVE  call[r].target \notin Chain(menus, call[r].parent)
<1>1. Chain(menus, cursor[r]) = {}
  BY ChainOfNone
<1> QED
  BY <1>1, NotAbove DEF ClimbKnows

(* A turn of the loop passes no child of the moved menu. *)
LEMMA ClimbTurn ==
  ASSUME NEW r \in Requests, ClimbKnows(r), cursor[r] \in DOMAIN menus,
         menus[cursor[r]].parent # call[r].target
  PROVE  \A x \in Chain(menus, call[r].parent) :
           menus[x].parent = call[r].target
             => x \in Chain(menus, menus[cursor[r]].parent)
  BY ChainStep DEF ClimbKnows

(* While the lock is free nobody climbs. *)
LEMMA FreeLock ==
  ASSUME TypeOK, Climbing, lock = NoRequest
  PROVE  \A r \in Requests : pc[r] # "climb"
  BY MenuStoreAssumption DEF Climbing, ClimbKnows

----------------------------------------------------------------------------
(* The effects of a step on the menus *)

LEMMA WrittenType ==
  ASSUME NEW c \in Call PROVE Written(c) \in Menu
  BY DEF Call, Written, Menu

(* Saving an update whose move was found harmless. *)
LEMMA SaveEffect ==
  ASSUME IInv, NEW r \in Requests, Save(r),
         call[r].target \in DOMAIN menus,
         ~NameTaken(menus, call[r].target, call[r].name),
         call[r].parent \in DOMAIN menus \cup {0},
         call[r].parent # call[r].target,
         call[r].target \notin Chain(menus, call[r].parent)
  PROVE  StoreGood' /\ Administration!Replaced
<1> DEFINE c == call[r]
           m == Written(c)
<1>1. c \in Call /\ m \in Menu /\ m.parent = c.parent /\ m.name = c.name
  BY WrittenType DEF IInv, TypeOK, Written
<1>2. c.target \in Nat \ {0} /\ MenuMap(menus) /\ Forest(menus)
  BY DEF IInv, StoreGood, MenuMap, MenusFormForest
<1>3. menus' = Put(menus, c.target, m) /\ nextMenuID' = nextMenuID
  BY DEF Save
<1> HIDE DEF m
<1>4. Forest(menus') /\ MenuMap(menus')
  BY <1>1, <1>2, <1>3, PutKeepsForest
<1>5. DOMAIN menus' = DOMAIN menus /\ menus'[c.target] = m
  BY <1>3 DEF Put
<1>6. Administration!Replaced
  BY <1>3, <1>5 DEF Administration!Replaced, Administration!Put, Put
<1>7. \A id \in DOMAIN menus' : id < nextMenuID'
  BY <1>3, <1>5 DEF IInv, StoreGood
<1> QED
  BY <1>3, <1>4, <1>6, <1>7 DEF StoreGood, MenusFormForest, IInv

LEMMA InsertEffect ==
  ASSUME IInv, NEW c \in Call, Insert(c),
         ~NameTaken(menus, 0, c.name),
         c.parent \in DOMAIN menus \cup {0}
  PROVE  StoreGood' /\ Administration!Created
<1> DEFINE m == Written(c)
           id == nextMenuID
<1>1. m \in Menu /\ m.parent = c.parent /\ m.name = c.name
  BY WrittenType DEF Written
<1>2. /\ id \in Nat \ {0} /\ MenuMap(menus) /\ Forest(menus)
      /\ \A x \in DOMAIN menus : x < id
      /\ DOMAIN menus \subseteq Nat \ {0}
  BY DEF IInv, StoreGood, MenuMap, MenusFormForest
<1>3. menus' = Put(menus, id, m) /\ nextMenuID' = id + 1
  BY DEF Insert
<1>4. id \notin DOMAIN menus
  BY <1>2
<1> HIDE DEF m, id
<1>5. ~NameTaken(menus, id, m.name)
  BY <1>1, <1>2, <1>4 DEF NameTaken
<1>6. id \notin Chain(menus, m.parent)
  BY <1>4 DEF Chain
<1>7. m.parent \in DOMAIN menus \cup {0} /\ m.parent # id
  BY <1>1, <1>2, <1>4
<1>8. Forest(menus') /\ MenuMap(menus')
  BY <1>1, <1>2, <1>3, <1>5, <1>6, <1>7, PutKeepsForest
<1>9. DOMAIN menus' = DOMAIN menus \cup {id} /\ menus'[id] = m
  BY <1>3 DEF Put
<1>10. /\ \A x \in DOMAIN menus' : x < nextMenuID'
       /\ nextMenuID' \in Nat \ {0}
  BY <1>2, <1>3, <1>9
<1>11. Administration!Created
  <2>1. nextMenuID = id
    BY DEF id
  <2>2. id >= nextMenuID /\ nextMenuID' > id
    BY <2>1, <1>2, <1>3
  <2> QED
    BY <1>3, <1>9, <2>2 DEF Administration!Created, Administration!Put, Put
<1> QED
  BY <1>8, <1>10, <1>11 DEF StoreGood, MenusFormForest

LEMMA RemoveEffect ==
  ASSUME IInv, NEW id \in DOMAIN menus, ~HasChildren(menus, id),
         menus' = Without(menus, id), UNCHANGED nextMenuID
  PROVE  StoreGood' /\ Administration!Removed
<1>1. MenuMap(menus) /\ Forest(menus)
  BY DEF IInv, StoreGood, MenusFormForest
<1>2. Forest(menus') /\ MenuMap(menus')
  BY <1>1, WithoutKeepsForest
<1>3. DOMAIN menus' \subseteq DOMAIN menus
  BY DEF Without
<1>4. Administration!Removed
  BY DEF Administration!Removed, Administration!HasChildren, Administration!Without,
         HasChildren, Without
<1> QED
  BY <1>2, <1>3, <1>4 DEF StoreGood, MenusFormForest, IInv

LEMMA NoEffect ==
  ASSUME IInv, UNCHANGED store
  PROVE  StoreGood'
  BY DEF IInv, StoreGood, MenusFormForest, store

----------------------------------------------------------------------------
(* The steps *)

(* The state of the requests keeps its types. *)
LocalTypeOK ==
  /\ lock \in Requests \cup {NoRequest}
  /\ pc \in [Requests -> Steps]
  /\ call \in [Requests -> Call]
  /\ cursor \in [Requests -> Nat]
  /\ response \in [Requests -> Responses]
  /\ audit \subseteq Requests

LEMMA TypesTogether == TypeOK <=> LocalTypeOK /\ MenuMap(menus) /\ nextMenuID \in Nat \ {0}
  BY DEF TypeOK, LocalTypeOK

(* A request other than the one that acts goes on climbing. *)
LEMMA NobodyClimbs ==
  ASSUME IInv, NEW r \in Requests, lock = NoRequest,
         \A q \in Requests \ {r} : pc'[q] = pc[q], pc'[r] # "climb"
  PROVE  Climbing'
  BY FreeLock DEF IInv, Climbing

(* A step that takes the lock for no longer than itself, or leaves it. *)
LEMMA FreeStep ==
  ASSUME IInv, NEW r \in Requests, lock = NoRequest,
         \/ \E step \in {"list", "write", "audit"} : Continue(r, step)
         \/ \E answer \in Responses : Refuse(r, answer),
         UNCHANGED <<lock, cursor>>
  PROVE  LocalTypeOK' /\ Climbing'
<1>1. \A q \in Requests \ {r} : pc'[q] = pc[q]
  BY DEF IInv, TypeOK, Continue, Refuse
<1>2. pc'[r] # "climb"
  BY DEF IInv, TypeOK, Continue, Refuse
<1>3. LocalTypeOK'
  BY DEF IInv, TypeOK, LocalTypeOK, Continue, Refuse, Steps
<1> QED
  BY <1>1, <1>2, <1>3, NobodyClimbs

(* What every step must establish. *)
Good == IInv' /\ [Administration!Next]_store

LEMMA QuietStep ==
  ASSUME IInv, LocalTypeOK', Climbing', UNCHANGED store
  PROVE  Good
  BY NoEffect, TypesTogether DEF Good, IInv, StoreGood, LocalTypeOK, TypeOK

LEMMA EffectiveStep ==
  ASSUME LocalTypeOK', Climbing', StoreGood',
         Administration!Created \/ Administration!Replaced \/ Administration!Removed
  PROVE  Good
<1>1. TypeOK'
  BY TypesTogether DEF StoreGood, LocalTypeOK, TypeOK
<1>2. Administration!Forest(menus')
  BY DEF StoreGood, MenusFormForest, Forest, Acyclic, ParentsExist, NamesUnique,
         Administration!Forest, Administration!Acyclic,
         Administration!ParentsExist, Administration!NamesUnique
<1> QED
  BY <1>1, <1>2 DEF Good, IInv, Administration!Next

LEMMA StartStep ==
  ASSUME IInv, NEW r \in Requests, Start(r)
  PROVE  Good
<1>1. UNCHANGED <<store, lock, cursor, call>>
  BY DEF Start, Refuse, Continue
<1>2. \A q \in Requests \ {r} : pc'[q] = pc[q]
  BY DEF IInv, TypeOK, Start, Refuse, Continue
<1>3. pc'[r] # "climb"
  BY DEF IInv, TypeOK, Start, Refuse, Continue
<1>4. LocalTypeOK'
  BY DEF IInv, TypeOK, LocalTypeOK, Start, Refuse, Continue, Steps, Responses
<1>5. Climbing'
  BY <1>1, <1>2, <1>3 DEF IInv, Climbing, ClimbKnows, store
<1> QED
  BY <1>1, <1>4, <1>5, QuietStep

LEMMA CheckListedTreeStep ==
  ASSUME IInv, NEW r \in Requests, CheckListedTree(r)
  PROVE  Good
<1>1. UNCHANGED store /\ lock = NoRequest /\ UNCHANGED <<lock, cursor>>
  BY DEF CheckListedTree, Refuse, Continue, Unlocked
<1>2. Continue(r, "write") \/ Refuse(r, "invalid")
  BY DEF CheckListedTree
<1> QED
  BY <1>1, <1>2, FreeStep, QuietStep DEF Responses

LEMMA CreateMenuStep ==
  ASSUME IInv, NEW r \in Requests, CreateMenu(r)
  PROVE  Good
<1> DEFINE c == call[r]
<1>1. c \in Call
  BY DEF IInv, TypeOK
<1>2. lock = NoRequest /\ UNCHANGED <<lock, cursor>>
  BY DEF CreateMenu, Refuse, Unlocked
<1>3. CASE \E answer \in {"conflict", "notFound"} : Refuse(r, answer)
  <2>1. UNCHANGED store
    BY <1>3 DEF Refuse
  <2> QED
    BY <1>2, <1>3, <2>1, FreeStep, QuietStep DEF Responses
<1>4. CASE /\ ~NameTaken(menus, 0, c.name)
           /\ ~(c.parent # 0 /\ c.parent \notin DOMAIN menus)
           /\ Insert(c) /\ Continue(r, "audit")
  <2>1. c.parent \in DOMAIN menus \cup {0}
    BY <1>4
  <2>2. StoreGood' /\ Administration!Created
    BY <1>1, <1>4, <2>1, InsertEffect
  <2>3. LocalTypeOK' /\ Climbing'
    BY <1>2, <1>4, FreeStep
  <2> QED
    BY <2>2, <2>3, EffectiveStep
<1> QED
  BY <1>3, <1>4 DEF CreateMenu

LEMMA DeleteMenuStep ==
  ASSUME IInv, NEW r \in Requests, DeleteMenu(r)
  PROVE  Good
<1> DEFINE id == call[r].target
<1>1. lock = NoRequest /\ UNCHANGED <<lock, cursor>>
  BY DEF DeleteMenu, Refuse, Unlocked
<1>2. CASE \E answer \in {"conflict", "notFound"} : Refuse(r, answer)
  <2>1. UNCHANGED store
    BY <1>2 DEF Refuse
  <2> QED
    BY <1>1, <1>2, <2>1, FreeStep, QuietStep DEF Responses
<1>3. CASE /\ id \in DOMAIN menus /\ ~HasChildren(menus, id)
           /\ menus' = Without(menus, id) /\ UNCHANGED nextMenuID
           /\ Continue(r, "audit")
  <2>1. StoreGood' /\ Administration!Removed
    BY <1>3, RemoveEffect
  <2>2. LocalTypeOK' /\ Climbing'
    BY <1>1, <1>3, FreeStep
  <2> QED
    BY <2>1, <2>2, EffectiveStep
<1> QED
  BY <1>2, <1>3 DEF DeleteMenu

LEMMA WriteAuditStep ==
  ASSUME IInv, NEW r \in Requests, WriteAudit(r)
  PROVE  Good
<1>1. UNCHANGED store /\ lock = NoRequest
  BY DEF WriteAudit, Unlocked
<1>2. \A q \in Requests \ {r} : pc'[q] = pc[q]
  BY DEF IInv, TypeOK, WriteAudit
<1>3. pc'[r] # "climb"
  BY DEF IInv, TypeOK, WriteAudit
<1>4. LocalTypeOK'
  BY DEF IInv, TypeOK, LocalTypeOK, WriteAudit, Unlocked, Steps, Responses
<1> QED
  BY <1>1, <1>2, <1>3, <1>4, NobodyClimbs, QuietStep

LEMMA UpdateMenuStep ==
  ASSUME IInv, NEW r \in Requests, UpdateMenu(r)
  PROVE  Good
<1> DEFINE c == call[r]
<1>1. c \in Call /\ lock = NoRequest /\ c.op = "update"
  BY DEF IInv, TypeOK, UpdateMenu
<1>2. CASE \E answer \in {"conflict", "notFound"} : Refuse(r, answer) /\ UNCHANGED lock
  <2>1. UNCHANGED <<store, cursor>>
    BY <1>2 DEF Refuse
  <2> QED
    BY <1>1, <1>2, <2>1, FreeStep, QuietStep DEF Responses
<1>3. CASE /\ c.target \in DOMAIN menus /\ ~NameTaken(menus, c.target, c.name)
           /\ c.parent = 0 /\ Save(r) /\ UNCHANGED lock
  <2>1. 0 \notin DOMAIN menus
    BY DEF IInv, StoreGood, MenuMap
  <2>2. Chain(menus, c.parent) = {}
    BY <1>3, <2>1, ChainOfNone
  <2>3. StoreGood' /\ Administration!Replaced
    BY <1>3, <2>1, <2>2, SaveEffect
  <2>4. LocalTypeOK' /\ Climbing'
    BY <1>1, <1>3, FreeStep DEF Save
  <2> QED
    BY <2>3, <2>4, EffectiveStep
<1>4. CASE /\ c.target \in DOMAIN menus /\ ~NameTaken(menus, c.target, c.name)
           /\ c.parent \in DOMAIN menus /\ c.parent # c.target
           /\ lock' = r /\ cursor' = [cursor EXCEPT ![r] = c.parent]
           /\ Continue(r, "climb") /\ UNCHANGED store
  <2>1. LocalTypeOK'
    BY <1>1, <1>4 DEF IInv, TypeOK, LocalTypeOK, Continue, Steps, Call
  <2>2. \A q \in Requests \ {r} : pc'[q] # "climb"
    BY <1>1, <1>4, FreeLock DEF IInv, TypeOK, Continue
  <2>3. cursor'[r] = c.parent /\ call' = call /\ menus' = menus
    BY <1>4 DEF IInv, TypeOK, Continue, store
  <2>4. ClimbKnows(r)'
    BY <1>1, <1>4, <2>3 DEF ClimbKnows
  <2> QED
    BY <1>4, <2>1, <2>2, <2>4, QuietStep DEF Climbing
<1> QED
  BY <1>2, <1>3, <1>4 DEF UpdateMenu

LEMMA ClimbStep ==
  ASSUME IInv, NEW r \in Requests, Climb(r)
  PROVE  Good
<1> DEFINE c == call[r]
           at == cursor[r]
           above == menus[at].parent
<1>1. ClimbKnows(r) /\ lock = r /\ lock \in Requests
  BY DEF IInv, TypeOK, Climbing, Climb
<1>2. \A q \in Requests \ {r} : pc[q] # "climb"
  BY <1>1 DEF IInv, Climbing, ClimbKnows
<1>3. CASE at \notin DOMAIN menus /\ Save(r) /\ lock' = NoRequest
  <2>1. StoreGood' /\ Administration!Replaced
    BY <1>1, <1>3, ClimbEnds, SaveEffect DEF ClimbKnows
  <2>2. LocalTypeOK'
    BY <1>3 DEF IInv, TypeOK, LocalTypeOK, Save, Continue, Steps
  <2>3. Climbing'
    BY <1>2, <1>3 DEF IInv, TypeOK, Climbing, Save, Continue
  <2> QED
    BY <2>1, <2>2, <2>3, EffectiveStep
<1>4. CASE Refuse(r, "conflict") /\ lock' = NoRequest
  <2>1. LocalTypeOK' /\ UNCHANGED store
    BY <1>4 DEF IInv, TypeOK, LocalTypeOK, Refuse, Steps, Responses
  <2>2. Climbing'
    BY <1>2, <1>4 DEF IInv, TypeOK, Climbing, Refuse
  <2> QED
    BY <2>1, <2>2, QuietStep
<1>5. CASE at \in DOMAIN menus /\ above = at
  <2>1. Acyclic(menus)
    BY DEF IInv, StoreGood, MenusFormForest, Forest
  <2> QED
    BY <1>5, <2>1, NoSelfParent
<1>6. CASE /\ at \in DOMAIN menus /\ above # c.target
           /\ cursor' = [cursor EXCEPT ![r] = above]
           /\ Continue(r, "climb") /\ UNCHANGED <<store, lock>>
  <2>1. above \in Nat
    BY <1>6 DEF IInv, StoreGood, MenuMap, Menu
  <2>2. LocalTypeOK'
    BY <1>6, <2>1 DEF IInv, TypeOK, LocalTypeOK, Continue, Steps
  <2>3. cursor'[r] = above /\ call' = call /\ menus' = menus /\ lock' = r
    BY <1>1, <1>6 DEF IInv, TypeOK, Continue, store
  <2>4. \A x \in Chain(menus, c.parent) :
          menus[x].parent = c.target => x \in Chain(menus, above)
    BY <1>1, <1>6, ClimbTurn
  <2>5. ClimbKnows(r)'
    BY <1>1, <2>3, <2>4 DEF ClimbKnows
  <2>6. \A q \in Requests \ {r} : pc'[q] # "climb"
    BY <1>2, <1>6 DEF IInv, TypeOK, Continue
  <2> QED
    BY <1>6, <2>2, <2>5, <2>6, QuietStep DEF Climbing
<1> QED
  BY <1>3, <1>4, <1>5, <1>6 DEF Climb

LEMMA NextStep ==
  ASSUME IInv, [Next]_vars
  PROVE  Good
<1>1. CASE UNCHANGED vars
  <2>1. LocalTypeOK' /\ Climbing' /\ UNCHANGED store
    BY <1>1 DEF vars, store, IInv, TypeOK, LocalTypeOK, Climbing, ClimbKnows
  <2> QED
    BY <2>1, QuietStep
<1>2. CASE \E r \in Requests : Handle(r)
  BY <1>2, StartStep, CheckListedTreeStep, CreateMenuStep, UpdateMenuStep,
     ClimbStep, DeleteMenuStep, WriteAuditStep DEF Handle
<1> QED
  BY <1>1, <1>2 DEF Next, Quiescent

LEMMA InitInvariant == Init => IInv /\ Administration!Init
<1> SUFFICES ASSUME Init PROVE IInv /\ Administration!Init
  OBVIOUS
<1>1. StoreGood
  BY MenuStoreAssumption DEF Init, StoreGood, MenusFormForest
<1>2. LocalTypeOK
  BY MenuStoreAssumption DEF Init, LocalTypeOK, Steps, Responses
<1>3. Climbing
  BY DEF Init, Climbing
<1>4. Administration!Init
  BY <1>1 DEF StoreGood, MenusFormForest, Forest, Acyclic, ParentsExist, NamesUnique,
              Administration!Init, Administration!Forest, Administration!Acyclic,
              Administration!ParentsExist, Administration!NamesUnique
<1> QED
  BY <1>1, <1>2, <1>3, <1>4, TypesTogether DEF IInv, StoreGood

----------------------------------------------------------------------------
(* The theorems *)

(* The inductive invariant holds, and every step is one of the abstract       *)
(* administration or leaves the menus as they are.                            *)
LEMMA Invariance == Spec => []IInv /\ [][Administration!Next]_store
<1>1. Init => IInv
  BY InitInvariant
<1>2. IInv /\ [Next]_vars => IInv' /\ [Administration!Next]_store
  BY NextStep DEF Good
<1> QED
  BY <1>1, <1>2, PTL DEF Spec

(* The state of the store and of its requests stays within its types: in      *)
(* particular no menu is stored under ID 0, which stands for no parent.       *)
THEOREM TypeCorrect == Spec => []TypeOK
<1>1. IInv => TypeOK
  BY DEF IInv
<1> QED
  BY <1>1, Invariance, PTL

(* Creations, moves and deletions, however they interleave, leave a forest    *)
(* with unique names: UpdateMenu's climb finds every cycle before it is made. *)
THEOREM ForestKept == Spec => []MenusFormForest
<1>1. IInv => MenusFormForest
  BY DEF IInv, StoreGood
<1> QED
  BY <1>1, Invariance, PTL

(* The in-memory store implements the abstract menu administration.           *)
THEOREM StoreImplementsForest == Spec => ImplementsForest
<1>1. Init => Administration!Init
  BY InitInvariant
<1> QED
  BY <1>1, Invariance, PTL
     DEF Spec, ImplementsForest, Administration!Spec, Administration!vars, store

----------------------------------------------------------------------------
(* Every request comes nearer to its answer *)

(* The parent's chain lacks the menu: a turn of the climb leaves it behind. *)
LEMMA ChainShrinks ==
  ASSUME NEW ms, Acyclic(ms), NEW id \in DOMAIN ms
  PROVE  /\ Chain(ms, ms[id].parent) \subseteq Chain(ms, id)
         /\ id \notin Chain(ms, ms[id].parent)
<1> DEFINE P == ms[id].parent
           T == {x \in Chain(ms, P) : id \in Chain(ms, x)}
<1>1. Chain(ms, P) \subseteq DOMAIN ms
  BY DEF Chain
<1>2. Chain(ms, P) \subseteq Chain(ms, id)
  <2>1. CASE P \in DOMAIN ms
    BY <2>1, ChainUp
  <2>2. CASE P \notin DOMAIN ms
    BY <2>2, ChainOfNone
  <2> QED
    BY <2>1, <2>2
<1>3. SUFFICES ASSUME id \in Chain(ms, P) PROVE FALSE
  BY <1>2
<1>4. T \in SUBSET DOMAIN ms /\ id \in T
  BY <1>1, <1>3, ChainHasStart
<1>5. ASSUME NEW x \in T PROVE ms[x].parent \in T
  <2>1. id \in Chain(ms, ms[x].parent)
    <3>1. x \in DOMAIN ms /\ id \in Chain(ms, x)
      BY <1>1
    <3>2. CASE x = id
      BY <1>3, <3>2
    <3>3. CASE x # id
      BY <3>1, <3>3, ChainStep
    <3> QED
      BY <3>2, <3>3
  <2>2. ms[x].parent \in DOMAIN ms
    BY <2>1, ChainOfNone
  <2>3. ms[x].parent \in Chain(ms, P)
    BY <2>2, ChainClosed DEF ClosedUpwards
  <2> QED
    BY <2>1, <2>3
<1> HIDE DEF T
<1> QED
  BY <1>4, <1>5 DEF Acyclic

(* The order in which a request takes its steps. *)
Later(step) ==
  CASE step = "new"   -> {"list", "write", "climb", "audit", "done"}
    [] step = "list"  -> {"write", "climb", "audit", "done"}
    [] step = "write" -> {"climb", "audit", "done"}
    [] step = "climb" -> {"audit", "done"}
    [] step = "audit" -> {"done"}
    [] OTHER -> {}

(* A turn of the climb: it leaves less of the forest above the cursor. *)
Nearer(r) ==
  /\ pc[r] = "climb" /\ pc'[r] = "climb" /\ UNCHANGED menus
  /\ Chain(menus, cursor'[r]) \subseteq Chain(menus, cursor[r])
  /\ Chain(menus, cursor'[r]) # Chain(menus, cursor[r])

(* A step of a request brings it nearer to its answer; others do not move it. *)
Advances(r) ==
  IF Handle(r) THEN pc'[r] \in Later(pc[r]) \/ Nearer(r)
               ELSE UNCHANGED <<pc[r], cursor[r]>>

(* The lock is held over a loop only, and a menu is deleted or moved only  *)
(* while it is free, so the chain in front of a climb does not grow again. *)
LockIsOfClimb ==
  /\ lock # NoRequest => lock \in Requests /\ pc[lock] = "climb"
  /\ \A r \in Requests : pc[r] = "climb" => lock = r

LEMMA HandleStep ==
  ASSUME IInv, LockIsOfClimb, NEW r \in Requests, Handle(r)
  PROVE  /\ LockIsOfClimb'
         /\ pc'[r] \in Later(pc[r]) \/ Nearer(r)
         /\ \A q \in Requests \ {r} : UNCHANGED <<pc[q], cursor[q]>>
<1>0. pc \in [Requests -> Steps] /\ cursor \in [Requests -> Nat]
      /\ NoRequest \notin Requests
  BY MenuStoreAssumption DEF IInv, TypeOK
<1>1. CASE Climb(r) /\ pc'[r] = "climb"
  <2>1. /\ pc[r] = "climb" /\ lock = r /\ cursor[r] \in DOMAIN menus
        /\ cursor' = [cursor EXCEPT ![r] = menus[cursor[r]].parent]
        /\ pc' = [pc EXCEPT ![r] = "climb"] /\ UNCHANGED <<store, lock>>
    BY <1>0, <1>1 DEF Climb, Save, Refuse, Continue
  <2>2. Nearer(r)
    <3>1. Acyclic(menus)
      BY DEF IInv, StoreGood, MenusFormForest, Forest
    <3>2. cursor'[r] = menus[cursor[r]].parent /\ pc'[r] = "climb" /\ menus' = menus
      BY <1>0, <2>1 DEF store
    <3>3. cursor[r] \in Chain(menus, cursor[r])
      BY <2>1, ChainHasStart
    <3> QED
      BY <2>1, <3>1, <3>2, <3>3, ChainShrinks DEF Nearer
  <2>3. \A q \in Requests \ {r} : UNCHANGED <<pc[q], cursor[q]>>
    BY <1>0, <2>1
  <2> QED
    BY <1>0, <2>1, <2>2, <2>3 DEF LockIsOfClimb
<1>2. ASSUME ~(Climb(r) /\ pc'[r] = "climb")
      PROVE  /\ pc'[r] \in Later(pc[r])
             /\ pc' = [pc EXCEPT ![r] = pc'[r]]
             /\ \A q \in Requests \ {r} : cursor'[q] = cursor[q]
             /\ IF pc'[r] = "climb" THEN lock = NoRequest /\ lock' = r
                ELSE IF pc[r] = "climb" THEN lock' = NoRequest ELSE UNCHANGED lock
  <2> USE <1>0
  <2>1. CASE Start(r)
    BY <2>1 DEF Start, Refuse, Continue, Later
  <2>2. CASE CheckListedTree(r)
    BY <2>2 DEF CheckListedTree, Refuse, Continue, Unlocked, Later
  <2>3. CASE CreateMenu(r)
    BY <2>3 DEF CreateMenu, Refuse, Continue, Unlocked, Later
  <2>4. CASE UpdateMenu(r)
    BY <2>4 DEF UpdateMenu, Save, Refuse, Continue, Later
  <2>5. CASE Climb(r)
    BY <1>2, <2>5 DEF Climb, Save, Refuse, Continue, Later
  <2>6. CASE DeleteMenu(r)
    BY <2>6 DEF DeleteMenu, Refuse, Continue, Unlocked, Later
  <2>7. CASE WriteAudit(r)
    BY <2>7 DEF WriteAudit, Unlocked, Later
  <2> QED
    BY <2>1, <2>2, <2>3, <2>4, <2>5, <2>6, <2>7 DEF Handle
<1>3. CASE ~(Climb(r) /\ pc'[r] = "climb")
  <2>1. \A q \in Requests \ {r} : UNCHANGED <<pc[q], cursor[q]>>
    BY <1>0, <1>2, <1>3
  <2>2. LockIsOfClimb'
    BY <1>0, <1>2, <1>3, <2>1 DEF LockIsOfClimb
  <2> QED
    BY <1>2, <1>3, <2>1, <2>2
<1> QED
  BY <1>1, <1>3

LEMMA AdvanceStep ==
  ASSUME IInv, LockIsOfClimb, [Next]_vars
  PROVE  LockIsOfClimb' /\ \A q \in Requests : Advances(q)
<1>1. \A q \in Requests : Handle(q) => pc'[q] \in Later(pc[q]) \/ Nearer(q)
  BY HandleStep
<1>2. CASE UNCHANGED vars
  <2>1. LockIsOfClimb' /\ \A q \in Requests : UNCHANGED <<pc[q], cursor[q]>>
    BY <1>2 DEF vars, LockIsOfClimb
  <2> QED
    BY <1>1, <2>1 DEF Advances
<1>3. ASSUME NEW r \in Requests, Handle(r)
      PROVE  LockIsOfClimb' /\ \A q \in Requests : Advances(q)
  <2>1. LockIsOfClimb' /\ \A q \in Requests \ {r} : UNCHANGED <<pc[q], cursor[q]>>
    BY <1>3, HandleStep
  <2> QED
    BY <1>1, <1>3, <2>1 DEF Advances
<1> QED
  BY <1>2, <1>3 DEF Next, Quiescent

(* The safety half of RequestsAnswered: each step of a request takes it to a *)
(* later step or is a turn of menuHasAncestorLocked that leaves a strictly   *)
(* smaller part of the forest above the cursor; no other request takes it    *)
(* back; and the lock is held only by the request whose climb it is.  No     *)
(* chain goes on for ever, for the menus are acyclic (ForestKept).           *)
THEOREM RequestsAdvance ==
  Spec => []LockIsOfClimb /\ [][\A r \in Requests : Advances(r)]_vars
<1>1. Init => LockIsOfClimb
  BY DEF Init, LockIsOfClimb
<1>2. IInv /\ LockIsOfClimb /\ [Next]_vars
      => LockIsOfClimb' /\ [\A r \in Requests : Advances(r)]_vars
  BY AdvanceStep
<1> QED
  BY <1>1, <1>2, Invariance, PTL DEF Spec

----------------------------------------------------------------------------
(* The stored menus and their orders *)

RowsGood ==
  /\ IsFiniteSet(DOMAIN rows) /\ DOMAIN rows \subseteq Nat \ {0}
  /\ rows \in [DOMAIN rows -> Row]

LEMMA InputGood ==
  ASSUME rows \in Inputs PROVE RowsGood
  BY MenuTreeAssumption DEF RowsGood

(* The order of siblings is total and strict. *)
LEMMA BeforeOrders ==
  ASSUME RowsGood
  PROVE  \A a, b, c \in DOMAIN rows :
           /\ ~Before(a, a)
           /\ Before(a, b) /\ Before(b, c) => Before(a, c)
           /\ a # b => Before(a, b) \/ Before(b, a)
<1>1. \A a \in DOMAIN rows : rows[a].sort \in Int /\ a \in Nat
  BY DEF RowsGood, Row
<1> QED
  BY <1>1 DEF Before

Arranges(o, S) ==
  /\ o \in Seq(S) /\ DOMAIN o = 1..Len(o)
  /\ \A x \in S : \E i \in DOMAIN o : o[i] = x
  /\ \A i, j \in DOMAIN o : i # j => o[i] # o[j]

(* A sequence of as many different members as there are has them all. *)
LEMMA Arrangement ==
  ASSUME NEW S, IsFiniteSet(S), NEW o \in SetToSeqs(S)
  PROVE  Arranges(o, S) /\ Len(o) = Cardinality(S)
<1> DEFINE n == Cardinality(S)
<1>1. n \in Nat
  BY FS_CardinalityType
<1>2. o \in [1..n -> S] /\ \A i, j \in 1..n : i # j => o[i] # o[j]
  BY DEF SetToSeqs
<1> HIDE DEF n
<1>3. o \in Seq(S) /\ Len(o) = n /\ DOMAIN o = 1..Len(o)
  BY <1>1, <1>2
<1>4. o \in Injection(1..n, S)
  BY <1>2 DEF Injection, IsInjective
<1>5. Cardinality(1..n) = n
  BY <1>1, FS_Interval
<1>6. o \in Surjection(1..n, S)
  BY <1>4, <1>5, FS_Injection DEF n
<1>7. \A x \in S : \E i \in 1..n : o[i] = x
  BY <1>6 DEF Surjection
<1> QED
  BY <1>2, <1>3, <1>7 DEF n, Arranges

(* One more member can be put at the end. *)
LEMMA ArrangeOneMore ==
  ASSUME NEW S, IsFiniteSet(S), NEW x, x \notin S, NEW o \in SetToSeqs(S)
  PROVE  \E p \in SetToSeqs(S \cup {x}) :
           /\ DOMAIN p = 1..(Cardinality(S) + 1)
           /\ \A i \in 1..Cardinality(S) : p[i] = o[i]
           /\ p[Cardinality(S) + 1] = x
<1> DEFINE n == Cardinality(S)
<1>1. n \in Nat
  BY FS_CardinalityType
<1>2. Cardinality(S \cup {x}) = n + 1
  BY FS_AddElement
<1>3. o \in [1..n -> S] /\ \A i, j \in 1..n : i # j => o[i] # o[j]
  BY DEF SetToSeqs
<1> HIDE DEF n
<1>4. o \in Seq(S \cup {x}) /\ Len(o) = n
  BY <1>1, <1>3
<1>5. /\ Append(o, x) \in [1..(n + 1) -> S \cup {x}]
      /\ \A i \in 1..n : Append(o, x)[i] = o[i]
      /\ Append(o, x)[n + 1] = x
  <2>1. x \in S \cup {x}
    OBVIOUS
  <2>2. /\ Append(o, x) \in Seq(S \cup {x}) /\ Len(Append(o, x)) = n + 1
        /\ \A i \in 1..n : Append(o, x)[i] = o[i]
        /\ Append(o, x)[n + 1] = x
    BY <1>4, <2>1, AppendProperties
  <2> QED
    BY <2>2, LenProperties
<1>6. \A i, j \in 1..(n + 1) : i # j => Append(o, x)[i] # Append(o, x)[j]
  BY <1>1, <1>3, <1>5
<1> QED
  BY <1>2, <1>5, <1>6 DEF SetToSeqs, n

(* A collection of finite sets that is not empty has one that includes no *)
(* other: the form of induction the provers can use.                      *)
LEMMA LeastSet ==
  ASSUME NEW D, IsFiniteSet(D), NEW Sets \in SUBSET SUBSET D, Sets # {}
  PROVE  \E S \in Sets : \A T \in Sets : T \subseteq S => T = S
<1>1. IsWellFoundedOn(StrictSubsetOrdering(D), SUBSET D)
  BY FS_StrictSubsetOrderingWellFounded, FS_FiniteSubsetsOfFinite
<1>2. \E S \in Sets : \A T \in Sets : ~ (<<T, S>> \in StrictSubsetOrdering(D))
  BY <1>1, WFMin
<1> QED
  BY <1>2 DEF StrictSubsetOrdering

LEMMA LastSibling ==
  ASSUME RowsGood, NEW S \in SUBSET DOMAIN rows, S # {}
  PROVE  \E x \in S : \A y \in S \ {x} : Before(y, x)
<1> DEFINE After(x) == {y \in S : Before(x, y)}
           Sets == {After(x) : x \in S}
<1>1. IsFiniteSet(DOMAIN rows)
  BY DEF RowsGood
<1>2. Sets \in SUBSET SUBSET DOMAIN rows /\ Sets # {}
  OBVIOUS
<1>3. PICK A \in Sets : \A T \in Sets : T \subseteq A => T = A
  <2> HIDE DEF Sets
  <2> QED  BY <1>1, <1>2, LeastSet
<1>4. PICK x \in S : A = After(x)
  OBVIOUS
<1>5. ASSUME NEW y \in S, y # x PROVE Before(y, x)
  <2>1. SUFFICES ASSUME Before(x, y) PROVE FALSE
    BY <1>5, BeforeOrders
  <2>2. After(y) \subseteq After(x) /\ y \in After(x) /\ y \notin After(y)
    BY <2>1, BeforeOrders
  <2> QED
    BY <1>3, <1>4, <2>2
<1> QED
  BY <1>5

Ascends(o) == \A i, j \in DOMAIN o : i < j => Before(o[i], o[j])

LEMMA SortingExists ==
  ASSUME RowsGood, NEW S \in SUBSET DOMAIN rows
  PROVE  \E o \in SetToSeqs(S) : Ascends(o)
<1> DEFINE Unsorted == {T \in SUBSET DOMAIN rows :
                          ~ \E o \in SetToSeqs(T) : Ascends(o)}
<1>1. SUFFICES ASSUME Unsorted # {} PROVE FALSE
  OBVIOUS
<1>2. IsFiniteSet(DOMAIN rows)
  BY DEF RowsGood
<1>3. PICK T \in Unsorted : \A U \in Unsorted : U \subseteq T => U = T
  <2>1. Unsorted \in SUBSET SUBSET DOMAIN rows
    OBVIOUS
  <2> HIDE DEF Unsorted
  <2> QED  BY <1>1, <1>2, <2>1, LeastSet
<1>4. T # {}
  <2>1. << >> \in SetToSeqs({}) /\ DOMAIN << >> = {}
    BY FS_EmptySet DEF SetToSeqs
  <2>2. Ascends(<< >>)
    BY <2>1 DEF Ascends
  <2> QED
    BY <2>1, <2>2
<1>5. PICK x \in T : \A y \in T \ {x} : Before(y, x)
  BY <1>4, LastSibling
<1> DEFINE S0 == T \ {x}
<1>6. S0 \notin Unsorted /\ S0 \in SUBSET DOMAIN rows
  <2>1. S0 \subseteq T /\ S0 # T
    OBVIOUS
  <2> QED
    BY <1>3, <2>1
<1>7. PICK o \in SetToSeqs(S0) : Ascends(o)
  BY <1>6
<1>8. IsFiniteSet(S0)
  BY <1>2, <1>6, FS_Subset
<1>9. Cardinality(S0) \in Nat /\ o \in [1..Cardinality(S0) -> S0]
  BY <1>8, FS_CardinalityType DEF SetToSeqs
<1>10. x \notin S0 /\ S0 \cup {x} = T
  OBVIOUS
<1> HIDE DEF S0
<1>11. PICK p \in SetToSeqs(T) : /\ DOMAIN p = 1..(Cardinality(S0) + 1)
                                  /\ \A i \in 1..Cardinality(S0) : p[i] = o[i]
                                  /\ p[Cardinality(S0) + 1] = x
  BY <1>8, <1>10, ArrangeOneMore
<1>12. Ascends(p)
  <2>1. SUFFICES ASSUME NEW i \in DOMAIN p, NEW j \in DOMAIN p, i < j
                 PROVE  Before(p[i], p[j])
    BY DEF Ascends
  <2>2. i \in 1..Cardinality(S0) /\ o[i] \in S0 /\ p[i] = o[i]
    BY <1>9, <1>11, <2>1
  <2>3. CASE j = Cardinality(S0) + 1
    BY <1>5, <1>11, <2>2, <2>3 DEF S0
  <2>4. CASE j \in 1..Cardinality(S0)
    BY <1>7, <1>9, <1>11, <2>1, <2>2, <2>4 DEF Ascends
  <2> QED
    BY <1>9, <1>11, <2>3, <2>4
<1> QED
  BY <1>11, <1>12

(* sortMenus returns the menus of a list in order. *)
LEMMA SortMenusSorts ==
  ASSUME RowsGood, NEW S \in SUBSET DOMAIN rows
  PROVE  /\ Arranges(SortMenus(S), S)
         /\ Ascends(SortMenus(S))
         /\ ToSet(SortMenus(S)) = S
<1>1. SortMenus(S) \in SetToSeqs(S) /\ Ascends(SortMenus(S))
  BY SortingExists DEF SortMenus, Ascends
<1>2. IsFiniteSet(S)
  BY FS_Subset DEF RowsGood
<1>3. Arranges(SortMenus(S), S)
  BY <1>1, <1>2, Arrangement
<1> QED
  BY <1>1, <1>3 DEF Arranges, ToSet

----------------------------------------------------------------------------
(* Looking down and up a tree *)

LEMMA BelowLeast ==
  ASSUME NEW lists, NEW id, NEW S \in SUBSET DOMAIN lists,
         lists[id] \subseteq S, \A x \in S : lists[x] \subseteq S
  PROVE  Below(lists, id) \subseteq S
  BY DEF Below

LEMMA BelowClosed ==
  ASSUME NEW lists, \A x \in DOMAIN lists : lists[x] \subseteq DOMAIN lists,
         NEW id \in DOMAIN lists
  PROVE  /\ lists[id] \subseteq Below(lists, id)
         /\ Below(lists, id) \subseteq DOMAIN lists
         /\ \A x \in Below(lists, id) : lists[x] \subseteq Below(lists, id)
  BY DEF Below

(* What a finished listing is: each list is that of the stored children, of *)
(* those listed before the menu itself unless the menu is a root.           *)
ListsGood ==
  /\ DOMAIN Lists = DOMAIN rows \cup {0}
  /\ Lists[0] = Roots
  /\ \A id \in DOMAIN rows :
       Lists[id] = {x \in DOMAIN rows :
                      rows[x].parent = id /\ (id \in Roots \/ ListedBefore(x, id))}

LEMMA ListsStay ==
  ASSUME RowsGood, ListsGood
  PROVE  /\ \A id \in DOMAIN Lists : Lists[id] \subseteq DOMAIN Lists
         /\ 0 \in DOMAIN Lists /\ 0 \notin DOMAIN rows
         /\ Listed \subseteq DOMAIN rows
         /\ Roots \subseteq Listed
         /\ \A id \in Listed : Lists[id] \subseteq Listed
<1>1. \A id \in DOMAIN Lists : Lists[id] \subseteq DOMAIN rows
  BY DEF ListsGood, Roots
<1>2. DOMAIN rows \in SUBSET DOMAIN Lists /\ 0 \in DOMAIN Lists /\ 0 \notin DOMAIN rows
  BY DEF ListsGood, RowsGood
<1>3. Listed \subseteq DOMAIN rows
  BY <1>1, <1>2, BelowLeast DEF Listed
<1>4. /\ Lists[0] \subseteq Listed
      /\ \A id \in Listed : Lists[id] \subseteq Listed
  BY <1>1, <1>2, BelowClosed DEF Listed
<1> QED
  BY <1>1, <1>2, <1>3, <1>4 DEF ListsGood

(* A listed menu is a root or in the list of its parent, which is listed. *)
LEMMA ListedUp ==
  ASSUME RowsGood, ListsGood, NEW id \in Listed
  PROVE  /\ id \in DOMAIN rows
         /\ \/ id \in Roots
            \/ rows[id].parent \in Listed /\ id \in Lists[rows[id].parent]
<1> DEFINE S == {x \in Listed : \/ x \in Roots
                                \/ rows[x].parent \in Listed /\ x \in Lists[rows[x].parent]}
<1>1. S \in SUBSET DOMAIN Lists
  BY ListsStay DEF ListsGood
<1>2. Lists[0] \subseteq S
  BY ListsStay DEF ListsGood
<1>3. ASSUME NEW x \in S PROVE Lists[x] \subseteq S
  <2>1. x \in DOMAIN rows /\ x \in Listed /\ Lists[x] \subseteq Listed
    BY ListsStay
  <2>2. \A y \in Lists[x] : rows[y].parent = x
    BY <2>1 DEF ListsGood
  <2> QED
    BY <2>1, <2>2
<1>4. Listed \subseteq S
  BY <1>1, <1>2, <1>3, BelowLeast DEF Listed
<1> QED
  BY <1>4, ListsStay

LEMMA ListedChain ==
  ASSUME RowsGood, ListsGood, NEW id \in Listed
  PROVE  Chain(rows, id) \subseteq Listed
<1>1. Listed \in SUBSET DOMAIN rows
  BY ListsStay
<1>2. ClosedUpwards(rows, Listed)
  BY ListedUp DEF ClosedUpwards, Roots
<1> QED
  BY <1>1, <1>2, ChainLeast

(* What is found below a menu has it in its chain. *)
LEMMA FoundBelow ==
  ASSUME RowsGood, ListsGood, NEW id \in DOMAIN rows, NEW x \in Below(Lists, id)
  PROVE  x \in DOMAIN rows /\ id \in Chain(rows, x)
<1> DEFINE S == {y \in DOMAIN rows : id \in Chain(rows, y)}
<1>1. S \in SUBSET DOMAIN Lists
  BY DEF ListsGood
<1>2. \A p, y \in DOMAIN rows : y \in Lists[p] => rows[y].parent = p
  BY DEF ListsGood
<1>3. \A p \in DOMAIN rows : Lists[p] \subseteq DOMAIN rows
  BY DEF ListsGood
<1>4. Lists[id] \subseteq S
  BY <1>2, <1>3, ChainUp
<1>5. ASSUME NEW p \in S PROVE Lists[p] \subseteq S
  BY <1>2, <1>3, ChainUp
<1>6. Below(Lists, id) \subseteq S
  BY <1>1, <1>4, <1>5, BelowLeast
<1> QED
  BY <1>6

----------------------------------------------------------------------------
(* The tree matches the rows *)

(* The children of a menu among the first n menus of the list. *)
Earlier(id, n) ==
  {x \in DOMAIN rows : rows[x].parent = id /\ \E i \in 1..n : order[i] = x}

TreeTypeOK ==
  /\ rows \in Inputs
  /\ stage \in Stages
  /\ stage # "stored" => order \in Orders
  /\ handled \in Nat
  /\ children \in [DOMAIN rows -> SUBSET DOMAIN rows]
  /\ copied \in [DOMAIN rows -> SUBSET DOMAIN rows]
  /\ DOMAIN tree = DOMAIN rows \cup {0}
  /\ permissions \in Grants \cup {{}}
  /\ DOMAIN kept \subseteq DOMAIN rows \cup {0}
  /\ kept \in [DOMAIN kept -> SUBSET DOMAIN rows]

(* The loop: a menu in nodes has the children handled so far, its copy those *)
(* that were handled before it.                                              *)
Attached ==
  /\ stage = "stored" => handled = 0 /\ \A id \in DOMAIN rows : children[id] = {}
  /\ stage # "stored" =>
       /\ handled <= Len(order)
       /\ \A id \in DOMAIN rows : children[id] = Earlier(id, handled)
       /\ \A k \in 1..handled :
            order[k] \notin Roots => copied[order[k]] = Earlier(order[k], k - 1)

Sorted ==
  Built =>
    /\ handled = Len(order)
    /\ \A id \in DOMAIN rows \cup {0} : tree[id] = SortMenus(Placed(id))

ListInv == TreeTypeOK /\ Attached /\ Sorted

LEMMA OrderFacts ==
  ASSUME RowsGood, NEW o \in Orders
  PROVE  Arranges(o, DOMAIN rows)
<1>1. o \in SetToSeqs(DOMAIN rows) /\ IsFiniteSet(DOMAIN rows)
  BY DEF Orders, RowsGood
<1> QED
  BY <1>1, Arrangement

LEMMA ListInvInit == TreeInit => ListInv
<1> SUFFICES ASSUME TreeInit PROVE ListInv
  OBVIOUS
<1>1. TreeTypeOK
  BY DEF TreeInit, TreeTypeOK, Stages
<1>2. Attached /\ Sorted
  BY DEF TreeInit, Attached, Sorted, Built
<1> QED
  BY <1>1, <1>2 DEF ListInv

LEMMA ListMenusStep ==
  ASSUME ListInv, ListMenus PROVE ListInv'
<1> USE DEF ListInv
<1>1. RowsGood /\ RowsGood'
  BY InputGood DEF TreeTypeOK, ListMenus, RowsGood
<1>2. TreeTypeOK'
  BY DEF TreeTypeOK, ListMenus, Stages, Orders
<1>3. Arranges(order', DOMAIN rows')
  BY <1>1, OrderFacts DEF ListMenus
<1>4. Attached'
  <2>1. handled' = 0 /\ \A id \in DOMAIN rows' : children'[id] = {}
    BY DEF Attached, ListMenus
  <2>2. Len(order') \in Nat
    BY <1>3 DEF Arranges
  <2> QED
    BY <2>1, <2>2 DEF Attached, Earlier, ListMenus
<1>5. Sorted'
  BY DEF Sorted, Built, ListMenus
<1> QED
  BY <1>2, <1>4, <1>5

LEMMA AttachStep ==
  ASSUME ListInv, Attach PROVE ListInv'
<1> USE DEF ListInv
<1> DEFINE id == order[handled + 1]
           parent == rows[id].parent
           n == handled + 1
<1>1. /\ RowsGood
      /\ UNCHANGED <<rows, order, tree, permissions, kept, stage>>
      /\ handled' = handled + 1 /\ stage = "attaching" /\ handled < Len(order)
  BY InputGood DEF TreeTypeOK, Attach
<1>2. Arranges(order, DOMAIN rows)
  BY <1>1, OrderFacts DEF TreeTypeOK
<1>3. /\ handled \in Nat /\ n \in DOMAIN order /\ id \in DOMAIN rows
      /\ \A k \in 1..handled : k \in DOMAIN order /\ order[k] \in DOMAIN rows /\ order[k] # id
  <2>1. handled \in Nat /\ Len(order) \in Nat /\ n \in 1..Len(order)
    BY <1>1, <1>2 DEF TreeTypeOK, Arranges
  <2>2. \A k \in DOMAIN order : order[k] \in DOMAIN rows
    BY <1>2 DEF Arranges
  <2>3. \A k \in 1..handled : k \in DOMAIN order /\ k # n
    BY <2>1, <1>2 DEF Arranges
  <2> QED
    BY <2>1, <2>2, <2>3, <1>2 DEF Arranges
<1>4. \A x \in DOMAIN rows :
        Earlier(x, n) = Earlier(x, handled) \cup (IF parent = x THEN {id} ELSE {})
  <2>1. 1..n = 1..handled \cup {n}
    BY <1>3
  <2> QED
    BY <1>3, <2>1 DEF Earlier
<1>5. \A x, k : Earlier(x, k)' = Earlier(x, k)
  BY <1>1 DEF Earlier
<1>6. Roots' = Roots
  BY <1>1 DEF Roots
<1>7. \A k \in 1..n : k = n \/ k \in 1..handled
  BY <1>3
<1>8. /\ handled <= Len(order)
      /\ \A x \in DOMAIN rows : children[x] = Earlier(x, handled)
      /\ \A k \in 1..handled :
           order[k] \notin Roots => copied[order[k]] = Earlier(order[k], k - 1)
      /\ children \in [DOMAIN rows -> SUBSET DOMAIN rows]
      /\ copied \in [DOMAIN rows -> SUBSET DOMAIN rows]
  BY <1>1 DEF Attached, TreeTypeOK
<1>9. /\ IF parent \in DOMAIN rows
         THEN /\ children' = [children EXCEPT ![parent] = @ \cup {id}]
              /\ copied' = [copied EXCEPT ![id] = children[id]]
         ELSE UNCHANGED <<children, copied>>
  BY DEF Attach
<1>10. Len(order) \in Nat /\ n <= Len(order) /\ n - 1 = handled
  BY <1>1, <1>2, <1>3 DEF Arranges
<1> HIDE DEF id, parent, n
<1>11. /\ children' \in [DOMAIN rows -> SUBSET DOMAIN rows]
       /\ copied' \in [DOMAIN rows -> SUBSET DOMAIN rows]
  BY <1>3, <1>8, <1>9
<1>12. \A x \in DOMAIN rows : children'[x] = Earlier(x, n)
  <2>1. CASE parent \in DOMAIN rows
    <3>1. SUFFICES ASSUME NEW x \in DOMAIN rows PROVE children'[x] = Earlier(x, n)
      OBVIOUS
    <3>2. children' = [children EXCEPT ![parent] = @ \cup {id}]
      BY <1>9, <2>1
    <3>3. children[x] = Earlier(x, handled)
          /\ Earlier(x, n) = Earlier(x, handled) \cup (IF parent = x THEN {id} ELSE {})
      BY <1>4, <1>8
    <3>4. children'[x] = IF parent = x THEN children[x] \cup {id} ELSE children[x]
      BY <1>8, <3>2
    <3> QED
      BY <3>3, <3>4
  <2>2. CASE parent \notin DOMAIN rows
    BY <1>4, <1>8, <1>9, <2>2
  <2> QED
    BY <2>1, <2>2
<1>13. \A k \in 1..handled : copied'[order[k]] = copied[order[k]]
  BY <1>3, <1>8, <1>9
<1>14. id \notin Roots => copied'[id] = Earlier(id, handled)
  <2>1. id \notin Roots => parent \in DOMAIN rows
    BY <1>3 DEF Roots, parent
  <2> QED
    BY <1>3, <1>8, <1>9, <2>1
<1>15. \A k \in 1..n : order[k] \notin Roots => copied'[order[k]] = Earlier(order[k], k - 1)
  <2>1. order[n] = id
    BY DEF id, n
  <2> QED
    BY <1>7, <1>8, <1>10, <1>13, <1>14, <2>1
<1>16. TreeTypeOK'
  <2>1. handled' \in Nat
    BY <1>1, <1>3
  <2>2. Orders' = Orders
    BY <1>1 DEF Orders
  <2> QED
    BY <1>1, <1>11, <2>1, <2>2 DEF TreeTypeOK
<1>17. Attached'
  <2>1. handled' = n
    BY <1>1 DEF n
  <2> QED
    BY <1>1, <1>5, <1>6, <1>10, <1>12, <1>15, <2>1 DEF Attached
<1>18. Sorted'
  BY <1>1 DEF Sorted, Built
<1> QED
  BY <1>16, <1>17, <1>18

LEMMA SortTreeStep ==
  ASSUME ListInv, SortTree PROVE ListInv'
<1> USE DEF ListInv
<1>1. /\ UNCHANGED <<rows, order, handled, children, copied, permissions, kept>>
      /\ stage = "attaching" /\ stage' = "listed" /\ handled = Len(order)
      /\ tree' = [id \in DOMAIN rows \cup {0} |-> SortMenus(Placed(id))]
  BY DEF SortTree
<1>2. Orders' = Orders /\ Roots' = Roots /\ (\A x, k : Earlier(x, k)' = Earlier(x, k))
  BY <1>1 DEF Orders, Roots, Earlier
<1>3. TreeTypeOK'
  BY <1>1, <1>2 DEF TreeTypeOK, Stages
<1>4. Attached'
  BY <1>1, <1>2 DEF Attached
<1>5. \A S : SortMenus(S)' = SortMenus(S)
  BY <1>1 DEF SortMenus, Before
<1>6. \A id : Placed(id)' = Placed(id)
  BY <1>1, <1>2 DEF Placed
<1>7. Sorted'
  BY <1>1, <1>5, <1>6 DEF Sorted
<1> QED
  BY <1>3, <1>4, <1>7

(* The finished tree. *)
LEMMA BuiltLists ==
  ASSUME RowsGood, ListInv, Built
  PROVE  /\ ListsGood
         /\ \A id \in DOMAIN rows \cup {0} :
              /\ Arranges(tree[id], Lists[id]) /\ Ascends(tree[id])
              /\ Lists[id] \subseteq DOMAIN rows
<1>1. /\ order \in Orders /\ DOMAIN tree = DOMAIN rows \cup {0}
      /\ copied \in [DOMAIN rows -> SUBSET DOMAIN rows]
      /\ handled = Len(order)
      /\ \A id \in DOMAIN rows \cup {0} : tree[id] = SortMenus(Placed(id))
      /\ \A id \in DOMAIN rows : children[id] = Earlier(id, handled)
      /\ \A k \in 1..handled :
           order[k] \notin Roots => copied[order[k]] = Earlier(order[k], k - 1)
  BY DEF ListInv, TreeTypeOK, Attached, Sorted, Built
<1>2. Arranges(order, DOMAIN rows) /\ DOMAIN order = 1..handled /\ handled \in Nat
  BY <1>1, OrderFacts DEF Arranges
<1>3. 0 \notin DOMAIN rows /\ Roots \subseteq DOMAIN rows
  BY DEF RowsGood, Roots
<1>4. Placed(0) = Roots
  BY <1>3 DEF Placed
<1>5. ASSUME NEW id \in DOMAIN rows
      PROVE  Placed(id) = {x \in DOMAIN rows :
                rows[x].parent = id /\ (id \in Roots \/ ListedBefore(x, id))}
  <2>1. CASE id \in Roots
    <3>1. Placed(id) = Earlier(id, handled)
      BY <1>1, <1>3, <2>1 DEF Placed
    <3> QED
      BY <1>2, <2>1, <3>1 DEF Earlier, Arranges
  <2>2. CASE id \notin Roots
    <3>1. PICK k \in 1..handled : order[k] = id
      BY <1>2 DEF Arranges
    <3>2. Placed(id) = Earlier(id, k - 1)
      BY <1>1, <1>3, <2>2, <3>1 DEF Placed
    <3>3. \A x : ListedBefore(x, id) <=> \E i \in 1..(k - 1) : order[i] = x
      <4>1. \A j \in DOMAIN order : order[j] = id => j = k
        BY <1>2, <3>1 DEF Arranges
      <4>2. \A i : i \in 1..(k - 1) <=> i \in DOMAIN order /\ i < k
        BY <1>2
      <4> QED
        BY <1>2, <3>1, <4>1, <4>2 DEF ListedBefore
    <3> QED
      BY <2>2, <3>2, <3>3 DEF Earlier
  <2> QED
    BY <2>1, <2>2
<1>6. \A id \in DOMAIN rows \cup {0} : Placed(id) \in SUBSET DOMAIN rows
  BY <1>3, <1>4, <1>5
<1>7. \A id \in DOMAIN rows \cup {0} :
        /\ Arranges(tree[id], Placed(id)) /\ Ascends(tree[id])
        /\ ToSet(tree[id]) = Placed(id)
  BY <1>1, <1>6, SortMenusSorts
<1>8. DOMAIN Lists = DOMAIN rows \cup {0}
      /\ \A id \in DOMAIN rows \cup {0} : Lists[id] = Placed(id)
  BY <1>1, <1>7 DEF Lists
<1> QED
  BY <1>4, <1>5, <1>6, <1>7, <1>8 DEF ListsGood

(* The steps of a profile leave the listing alone. *)
Settled == <<rows, order, handled, children, copied, tree>>

LEMMA SettledTree ==
  ASSUME UNCHANGED Settled
  PROVE  /\ Lists' = Lists /\ Listed' = Listed /\ Roots' = Roots /\ Orders' = Orders
         /\ \A x, y : Before(x, y)' = Before(x, y)
         /\ \A x, y : ListedBefore(x, y)' = ListedBefore(x, y)
         /\ \A x, k : Earlier(x, k)' = Earlier(x, k)
         /\ \A S : SortMenus(S)' = SortMenus(S)
         /\ \A x : Placed(x)' = Placed(x)
<1> USE DEF Settled
<1>1. Lists' = Lists /\ Roots' = Roots /\ Orders' = Orders
  BY DEF Lists, Roots, Orders
<1>2. \A x, y : Before(x, y)' = Before(x, y)
  BY DEF Before
<1>3. \A S : SortMenus(S)' = SortMenus(S)
  BY DEF SortMenus, Before
<1>4. \A x : Placed(x)' = Placed(x)
  BY <1>1 DEF Placed
<1>5. Listed' = Listed
  BY <1>1 DEF Listed
<1> QED
  BY <1>1, <1>2, <1>3, <1>4, <1>5 DEF ListedBefore, Earlier

LEMMA ProfileKeepsList ==
  ASSUME ListInv, UNCHANGED Settled,
         stage \in {"listed", "walking", "shown"},
         stage' \in {"listed", "walking", "shown"},
         permissions' \in Grants \cup {{}}, DOMAIN kept' \subseteq DOMAIN rows \cup {0},
         kept' \in [DOMAIN kept' -> SUBSET DOMAIN rows]
  PROVE  ListInv'
<1> USE SettledTree DEF ListInv, Settled
<1>1. TreeTypeOK'
  BY DEF TreeTypeOK, Stages
<1>2. Attached'
  BY DEF Attached
<1>3. Sorted'
  BY DEF Sorted, Built
<1> QED
  BY <1>1, <1>2, <1>3

LEMMA ListInvStep == ListInv /\ [TreeNext]_treeVars => ListInv'
<1> SUFFICES ASSUME ListInv, [TreeNext]_treeVars PROVE ListInv'
  OBVIOUS
<1>1. CASE UNCHANGED treeVars
  <2>1. UNCHANGED Settled /\ UNCHANGED <<permissions, kept, stage>>
    BY <1>1 DEF treeVars, Settled
  <2> USE SettledTree DEF ListInv, Settled
  <2>2. TreeTypeOK'
    BY <2>1 DEF TreeTypeOK
  <2>3. Attached' /\ Sorted'
    BY <2>1 DEF Attached, Sorted, Built
  <2> QED
    BY <2>2, <2>3
<1>2. CASE ListMenus
  BY <1>2, ListMenusStep
<1>3. CASE Attach
  BY <1>3, AttachStep
<1>4. CASE SortTree
  BY <1>4, SortTreeStep
<1>5. CASE Profile
  BY <1>5, ProfileKeepsList DEF Profile, Settled, ListInv, TreeTypeOK
<1>6. ASSUME NEW id \in DOMAIN rows \cup {0}, Walk(id) PROVE ListInv'
  <2>1. UNCHANGED Settled /\ permissions' = permissions
        /\ stage = "walking" /\ stage' \in {"walking", "shown"}
    BY <1>6 DEF Walk, Settled
  <2>2. /\ DOMAIN kept \subseteq DOMAIN rows \cup {0}
        /\ kept \in [DOMAIN kept -> SUBSET DOMAIN rows]
        /\ permissions \in Grants \cup {{}}
    BY DEF ListInv, TreeTypeOK
  <2>3. kept' = Put(kept, id, Staying(id)) /\ id \in DOMAIN rows \cup {0}
    BY <1>6 DEF Walk
  <2>4. Staying(id) \in SUBSET DOMAIN rows
    <3>1. RowsGood /\ ListInv /\ Built
      BY <2>1, InputGood DEF ListInv, TreeTypeOK, Built
    <3>2. \A x \in DOMAIN rows \cup {0} : Lists[x] \subseteq DOMAIN rows
      BY <3>1, BuiltLists, ListsStay DEF ListsGood, Roots
    <3> QED
      BY <2>3, <3>2 DEF Staying
  <2>5. /\ DOMAIN kept' \subseteq DOMAIN rows \cup {0}
        /\ kept' \in [DOMAIN kept' -> SUBSET DOMAIN rows]
    BY <2>2, <2>3, <2>4 DEF Put
  <2> QED
    BY <2>1, <2>2, <2>5, ProfileKeepsList
<1>7. CASE Answered
  BY <1>1, <1>7 DEF Answered
<1> QED
  BY <1>1, <1>2, <1>3, <1>4, <1>5, <1>6, <1>7 DEF TreeNext

LEMMA TreeProperties == ListInv => TreeMatchesRows /\ TreeCheckSound
<1> SUFFICES ASSUME ListInv, Built
             PROVE  TreeMatchesRows /\ TreeCheckSound
  BY DEF TreeMatchesRows, TreeCheckSound, Built
<1>1. RowsGood /\ ListsGood
  BY InputGood, BuiltLists DEF ListInv, TreeTypeOK
<1> USE <1>1
<1>2. \A id \in DOMAIN rows \cup {0} :
        Arranges(tree[id], Lists[id]) /\ Ascends(tree[id]) /\ Lists[id] \subseteq DOMAIN rows
  BY BuiltLists
<1>3. TreeFollowsParents
  <2>1. ASSUME NEW id \in Listed \cup {0}
        PROVE  /\ \A x \in Lists[id] : IF id = 0 THEN x \in Roots ELSE rows[x].parent = id
               /\ \A i, j \in DOMAIN tree[id] : i # j => tree[id][i] # tree[id][j]
    <3>1. id \in DOMAIN rows \cup {0}
      BY ListsStay
    <3>2. \A x \in Lists[id] : IF id = 0 THEN x \in Roots ELSE rows[x].parent = id
      BY <3>1 DEF ListsGood
    <3> QED
      BY <1>2, <3>1, <3>2 DEF Arranges
  <2> QED
    BY <2>1 DEF TreeFollowsParents
<1>4. SiblingsSorted
  BY <1>2, ListsStay DEF SiblingsSorted, Ascends
<1>5. TwoLevelsListed
  <2>1. SUFFICES ASSUME NEW id \in DOMAIN rows, rows[id].parent \in Roots
                 PROVE  id \in Listed
    BY ListsStay DEF TwoLevelsListed
  <2>2. id \in Lists[rows[id].parent] /\ rows[id].parent \in Listed
    BY <2>1, ListsStay DEF ListsGood, Roots
  <2> QED
    BY <2>2, ListsStay
<1>6. ChildrenListed
  BY ListsStay DEF ChildrenListed, ListsGood
<1>7. TreeCheckSound
  <2>1. SUFFICES ASSUME NEW id \in DOMAIN rows, NEW parent \in DOMAIN rows, id # parent
                 PROVE  /\ MenuTreeContainsDescendant(id, parent) => id \in Chain(rows, parent)
                        /\ rows[parent].parent = id /\ id \in Roots
                             => MenuTreeContainsDescendant(id, parent)
    BY DEF TreeCheckSound
  <2>2. MenuTreeContainsDescendant(id, parent) => id \in Chain(rows, parent)
    BY FoundBelow DEF MenuTreeContainsDescendant
  <2>3. ASSUME rows[parent].parent = id, id \in Roots
        PROVE  MenuTreeContainsDescendant(id, parent)
    <3>1. parent \in Lists[id] /\ id \in Listed /\ id \in DOMAIN Lists
      BY <2>3, ListsStay DEF ListsGood
    <3>2. parent \in Below(Lists, id)
      BY <3>1, ListsStay, BelowClosed
    <3> QED
      BY <3>1, <3>2, ListsStay DEF MenuTreeContainsDescendant
  <2> QED
    BY <2>2, <2>3
<1> QED
  BY <1>3, <1>4, <1>5, <1>6, <1>7 DEF TreeMatchesRows

(* However the rows are ordered, the tree agrees with them: see the property. *)
THEOREM TreeAgreesWithRows == TreeSpec => []TreeMatchesRows
<1>1. ListInv => TreeMatchesRows
  BY TreeProperties
<1> QED
  BY <1>1, ListInvInit, ListInvStep, PTL DEF TreeSpec

(* The service's look into the tree finds only menus that lie below, and *)
(* every child of a root: see the property.                              *)
THEOREM TreeCheckCorrect == TreeSpec => []TreeCheckSound
<1>1. ListInv => TreeCheckSound
  BY TreeProperties
<1> QED
  BY <1>1, ListInvInit, ListInvStep, PTL DEF TreeSpec

----------------------------------------------------------------------------
(* A profile shows what is allowed *)

(* Down from a menu, past no hidden one, lies an allowed menu of the tree. *)
LeadsToAllowed(x) ==
  \E id \in Listed :
    /\ SelfAllowed(id)
    /\ x \in Chain(rows, id)
    /\ \A y \in Chain(rows, id) \ Chain(rows, x) : ~rows[y].hidden

(* What walk has returned is final, and no menu is kept without a reason. *)
Walked ==
  /\ stage \notin {"walking", "shown"} => DOMAIN kept = {}
  /\ stage = "shown" => 0 \in DOMAIN kept
  /\ \A id \in DOMAIN kept :
       /\ id \in Listed \cup {0}
       /\ \A x \in Lists[id] : rows[x].hidden \/ x \in DOMAIN kept
       /\ kept[id] = Staying(id)
       /\ \A x \in kept[id] : LeadsToAllowed(x)

LEMMA StayingLeads ==
  ASSUME RowsGood, ListsGood, Walked, NEW id \in Listed \cup {0},
         \A x \in Lists[id] : rows[x].hidden \/ x \in DOMAIN kept,
         NEW x \in Staying(id)
  PROVE  LeadsToAllowed(x)
<1>1. x \in Lists[id] /\ ~rows[x].hidden /\ (SelfAllowed(x) \/ kept[x] # {})
  BY DEF Staying
<1>2. x \in Listed /\ x \in DOMAIN rows
  BY <1>1, ListsStay DEF ListsGood
<1>3. CASE SelfAllowed(x)
  <2>1. x \in Chain(rows, x)
    BY <1>2, ChainHasStart
  <2> QED
    BY <1>2, <1>3, <2>1 DEF LeadsToAllowed
<1>4. CASE kept[x] # {}
  <2>1. PICK k \in kept[x] : TRUE
    BY <1>4
  <2>2. x \in DOMAIN kept
    BY <1>1
  <2>3. k \in Lists[x] /\ ~rows[k].hidden /\ LeadsToAllowed(k)
    BY <2>1, <2>2 DEF Walked, Staying
  <2>4. k \in DOMAIN rows /\ rows[k].parent = x
    BY <1>2, <2>3 DEF ListsGood
  <2>5. PICK d \in Listed :
          /\ SelfAllowed(d)
          /\ k \in Chain(rows, d)
          /\ \A y \in Chain(rows, d) \ Chain(rows, k) : ~rows[y].hidden
    BY <2>3 DEF LeadsToAllowed
  <2>6. x \in Chain(rows, k)
    BY <1>2, <2>4, ChainUp
  <2>7. Chain(rows, k) \subseteq Chain(rows, d)
    BY <2>5, ChainOfMember
  <2>8. Chain(rows, k) \subseteq {k} \cup Chain(rows, x)
    BY <2>4, ChainStep
  <2> QED
    BY <2>3, <2>5, <2>6, <2>7, <2>8 DEF LeadsToAllowed
<1> QED
  BY <1>1, <1>3, <1>4

LEMMA WalkStep ==
  ASSUME ListInv, Walked, NEW id \in DOMAIN rows \cup {0}, Walk(id)
  PROVE  Walked'
<1>1. /\ UNCHANGED Settled /\ permissions' = permissions /\ rows' = rows
      /\ stage = "walking" /\ stage' = IF id = 0 THEN "shown" ELSE "walking"
      /\ kept' = Put(kept, id, Staying(id)) /\ id \notin DOMAIN kept
      /\ \A x \in Lists[id] : rows[x].hidden \/ x \in DOMAIN kept
      /\ id \in Listed \cup {0}
  BY DEF Walk, Settled
<1>2. RowsGood /\ ListsGood
  BY <1>1, InputGood, BuiltLists DEF ListInv, TreeTypeOK, Built
<1>3. Lists' = Lists /\ Listed' = Listed
  BY <1>1, SettledTree
<1>4. \A x : SelfAllowed(x)' = SelfAllowed(x)
  BY <1>1 DEF SelfAllowed, MenuAllowed
<1>5. \A x : LeadsToAllowed(x) => LeadsToAllowed(x)'
  BY <1>1, <1>3, <1>4 DEF LeadsToAllowed
<1>6. /\ DOMAIN kept' = DOMAIN kept \cup {id} /\ kept'[id] = Staying(id)
      /\ \A x \in DOMAIN kept : kept'[x] = kept[x]
  BY <1>1 DEF Put
<1>7. \A x \in DOMAIN kept' : \A y \in Lists[x] : rows[y].hidden \/ y \in DOMAIN kept
  BY <1>1, <1>6 DEF Walked
<1>8. ASSUME NEW x \in DOMAIN kept' PROVE Staying(x)' = Staying(x)
  <2>1. \A y \in Lists[x] : ~rows[y].hidden => kept'[y] = kept[y]
    BY <1>6, <1>7
  <2> QED
    BY <1>1, <1>3, <1>4, <2>1 DEF Staying
<1>9. \A x \in Staying(id) : LeadsToAllowed(x)
  BY <1>1, <1>2, StayingLeads
<1>10. ASSUME NEW x \in DOMAIN kept'
       PROVE  /\ x \in Listed \cup {0}
              /\ \A y \in Lists[x] : rows[y].hidden \/ y \in DOMAIN kept'
              /\ kept'[x] = Staying(x)
              /\ \A y \in kept'[x] : LeadsToAllowed(y)
  BY <1>1, <1>6, <1>7, <1>9 DEF Walked
<1>11. stage' \in {"walking", "shown"} /\ (stage' = "shown" => 0 \in DOMAIN kept')
  BY <1>1, <1>6
<1> QED
  BY <1>1, <1>3, <1>5, <1>8, <1>10, <1>11 DEF Walked

TreeIInv == ListInv /\ Walked

LEMMA TreeIInvInit == TreeInit => TreeIInv
<1> SUFFICES ASSUME TreeInit PROVE Walked
  BY ListInvInit DEF TreeIInv
<1> QED
  BY DEF TreeInit, Walked

LEMMA TreeIInvStep == TreeIInv /\ [TreeNext]_treeVars => TreeIInv'
<1> SUFFICES ASSUME TreeIInv, [TreeNext]_treeVars PROVE Walked'
  BY ListInvStep DEF TreeIInv
<1> USE DEF TreeIInv
<1>1. CASE UNCHANGED treeVars
  <2>1. UNCHANGED Settled /\ UNCHANGED <<rows, permissions, kept, stage>>
    BY <1>1 DEF treeVars, Settled
  <2>2. Lists' = Lists /\ Listed' = Listed
    BY <2>1, SettledTree
  <2>3. \A x : SelfAllowed(x)' = SelfAllowed(x)
    BY <2>1 DEF SelfAllowed, MenuAllowed
  <2>4. \A x : Staying(x)' = Staying(x)
    BY <2>1, <2>2, <2>3 DEF Staying
  <2>5. \A x : LeadsToAllowed(x) => LeadsToAllowed(x)'
    BY <2>1, <2>2, <2>3 DEF LeadsToAllowed
  <2> QED
    BY <2>1, <2>2, <2>4, <2>5 DEF Walked
<1>2. CASE ListMenus \/ Attach \/ SortTree \/ Profile
  <2>1. stage \notin {"walking", "shown"} /\ kept' = kept /\ stage' # "shown"
    BY <1>2 DEF ListMenus, Attach, SortTree, Profile
  <2>2. DOMAIN kept = {}
    BY <2>1 DEF Walked
  <2> QED
    BY <2>1, <2>2 DEF Walked
<1>3. ASSUME NEW id \in DOMAIN rows \cup {0}, Walk(id) PROVE Walked'
  BY <1>3, WalkStep
<1>4. CASE Answered
  BY <1>1, <1>4 DEF Answered
<1> QED
  BY <1>1, <1>2, <1>3, <1>4 DEF TreeNext

(* Nothing more: what is shown has no hidden menu above it. *)
LEMMA ShownIsAllowed ==
  ASSUME RowsGood, ListsGood, Walked, stage = "shown", NEW x \in Shown
  PROVE  \E id \in Reachable(Listed) : x \in Chain(rows, id)
<1> DEFINE S == {y \in DOMAIN kept : /\ y \in Listed /\ LeadsToAllowed(y)
                                     /\ \A z \in Chain(rows, y) : ~rows[z].hidden}
<1>1. 0 \in DOMAIN kept /\ Listed \subseteq DOMAIN rows /\ 0 \notin DOMAIN rows
  BY ListsStay DEF Walked
<1>2. ASSUME NEW p \in DOMAIN kept, NEW y \in kept[p]
      PROVE  /\ y \in Lists[p] /\ y \in DOMAIN kept /\ y \in Listed /\ y \in DOMAIN rows
             /\ ~rows[y].hidden /\ LeadsToAllowed(y)
  <2>1. y \in Lists[p] /\ ~rows[y].hidden /\ LeadsToAllowed(y) /\ y \in DOMAIN kept
    BY DEF Walked, Staying
  <2>2. p \in Listed \cup {0}
    BY DEF Walked
  <2>3. y \in Listed
    BY <2>1, <2>2, ListsStay DEF ListsGood
  <2> QED
    BY <1>1, <2>1, <2>3
<1>3. kept[0] \subseteq S
  <2>1. SUFFICES ASSUME NEW y \in kept[0]
                 PROVE  \A z \in Chain(rows, y) : ~rows[z].hidden
    BY <1>1, <1>2
  <2>2. y \in Roots /\ y \in DOMAIN rows /\ ~rows[y].hidden
    BY <1>1, <1>2 DEF ListsGood
  <2>3. Chain(rows, rows[y].parent) = {}
    BY <2>2, ChainOfNone DEF Roots
  <2> QED
    BY <2>2, <2>3, ChainStep
<1>4. ASSUME NEW p \in S PROVE kept[p] \subseteq S
  <2>1. SUFFICES ASSUME NEW y \in kept[p]
                 PROVE  \A z \in Chain(rows, y) : ~rows[z].hidden
    BY <1>2
  <2>2. y \in DOMAIN rows /\ y \in Lists[p] /\ ~rows[y].hidden /\ p \in DOMAIN rows
    BY <1>1, <1>2
  <2>3. rows[y].parent = p
    BY <2>2 DEF ListsGood
  <2> QED
    BY <2>2, <2>3, ChainStep
<1>5. x \in S
  <2>1. S \in SUBSET DOMAIN kept
    OBVIOUS
  <2> HIDE DEF S
  <2> QED
    BY <1>3, <1>4, <2>1, BelowLeast DEF Shown
<1>6. PICK id \in Listed :
        /\ SelfAllowed(id)
        /\ x \in Chain(rows, id)
        /\ \A y \in Chain(rows, id) \ Chain(rows, x) : ~rows[y].hidden
  BY <1>5 DEF LeadsToAllowed
<1>7. \A y \in Chain(rows, id) : ~rows[y].hidden
  BY <1>5, <1>6
<1> QED
  BY <1>6, <1>7 DEF Reachable

(* The list a listed menu is in. *)
Over(x) == IF x \in Roots THEN 0 ELSE rows[x].parent

(* Nothing less: first, going down, walk has returned for every menu above *)
(* an allowed one; then, going up, each of these menus was kept; and so,   *)
(* going down again, each of them is shown.                                *)
LEMMA AllowedIsShown ==
  ASSUME RowsGood, ListsGood, Walked, stage = "shown", NEW d \in Reachable(Listed)
  PROVE  Chain(rows, d) \subseteq Shown
<1> DEFINE C == Chain(rows, d)
<1>1. /\ d \in Listed /\ SelfAllowed(d) /\ \A x \in C : ~rows[x].hidden
      /\ C \subseteq Listed /\ C \subseteq DOMAIN rows /\ d \in C
      /\ \A x \in C : rows[x].parent \in DOMAIN rows => rows[x].parent \in C
  BY ListsStay, ListedChain, ChainHasStart, ChainClosed DEF Reachable, ClosedUpwards
<1>2. /\ 0 \in DOMAIN kept /\ 0 \notin DOMAIN rows
      /\ Listed \subseteq DOMAIN rows /\ DOMAIN Lists = DOMAIN rows \cup {0}
      /\ Lists[0] = Roots /\ Roots \subseteq Listed
      /\ \A p \in Listed : Lists[p] \subseteq Listed
      /\ \A p \in Listed : \A y \in Lists[p] : rows[y].parent = p
  BY ListsStay DEF Walked, ListsGood
<1>3. \A x \in C : x \in Lists[Over(x)] /\ (x \notin Roots => Over(x) \in C)
  BY <1>1, <1>2, ListedUp DEF Over
<1>4. ASSUME NEW x \in Roots PROVE Over(x) = 0
  BY <1>4 DEF Over
<1>5. ASSUME NEW p \in Listed, NEW y \in Lists[p] PROVE Over(y) = p
  BY <1>2 DEF Over, Roots
<1> HIDE DEF C
<1>6. \A x \in C : x \in DOMAIN kept
  <2> DEFINE V == {y \in Listed : y \in C => y \in DOMAIN kept}
  <2>1. \A p \in DOMAIN kept : \A y \in Lists[p] : rows[y].hidden \/ y \in DOMAIN kept
    BY DEF Walked
  <2>2. Lists[0] \subseteq V
    BY <1>1, <1>2, <2>1
  <2>3. ASSUME NEW p \in V PROVE Lists[p] \subseteq V
    <3>1. SUFFICES ASSUME NEW y \in Lists[p], y \in C PROVE y \in DOMAIN kept
      BY <1>2
    <3>2. p \in C
      BY <1>1, <1>2, <3>1
    <3> QED
      BY <1>1, <2>1, <3>1, <3>2
  <2>4. V \in SUBSET DOMAIN Lists
    BY <1>2
  <2>5. Listed \subseteq V
    <3> HIDE DEF V
    <3> QED
      BY <2>2, <2>3, <2>4, BelowLeast DEF Listed
  <2> QED
    BY <1>1, <2>5
<1>7. \A x \in C : Over(x) \in DOMAIN kept
  BY <1>2, <1>3, <1>4, <1>6
<1>8. \A x \in C : SelfAllowed(x) \/ kept[x] # {} => x \in kept[Over(x)]
  BY <1>1, <1>3, <1>7 DEF Walked, Staying
<1>9. C \subseteq {x \in C : x \in kept[Over(x)]}
  <2> DEFINE U == {x \in C : x \in kept[Over(x)]}
  <2>1. d \in U /\ U \in SUBSET DOMAIN rows
    BY <1>1, <1>8
  <2>2. ASSUME NEW x \in U, rows[x].parent \in DOMAIN rows PROVE rows[x].parent \in U
    <3>1. Over(x) = rows[x].parent /\ rows[x].parent \in C
      BY <1>1, <2>2 DEF Over, Roots
    <3> QED
      BY <1>8, <2>2, <3>1
  <2>3. ClosedUpwards(rows, U)
    BY <2>2 DEF ClosedUpwards
  <2> HIDE DEF U
  <2>4. C \subseteq U
    BY <2>1, <2>3, ChainLeast DEF C
  <2> QED
    BY <2>4 DEF U
<1>10. /\ kept[0] \subseteq Shown
       /\ \A x \in Shown : kept[x] \subseteq Shown
  <2>1. \A x \in DOMAIN kept : kept[x] \subseteq DOMAIN kept
    BY DEF Walked, Staying
  <2> QED
    BY <1>2, <2>1, BelowClosed DEF Shown
<1>11. Listed \subseteq {y \in Listed : y \in C => y \in Shown}
  <2> DEFINE E == {y \in Listed : y \in C => y \in Shown}
  <2>1. Lists[0] \subseteq E
    BY <1>2, <1>4, <1>9, <1>10
  <2>2. ASSUME NEW p \in E PROVE Lists[p] \subseteq E
    <3>1. SUFFICES ASSUME NEW y \in Lists[p], y \in C PROVE y \in Shown
      BY <1>2
    <3>2. p \in C /\ p \in Shown
      BY <1>1, <1>2, <2>2, <3>1
    <3> QED
      BY <1>5, <1>9, <1>10, <3>1, <3>2
  <2>3. E \in SUBSET DOMAIN Lists
    BY <1>2
  <2> HIDE DEF E
  <2>4. Listed \subseteq E
    BY <2>1, <2>2, <2>3, BelowLeast DEF Listed
  <2> QED
    BY <2>4 DEF E
<1> QED
  BY <1>1, <1>11 DEF C

LEMMA TreeIInvProfile == TreeIInv => ProfileShowsAllowed
<1> SUFFICES ASSUME TreeIInv, stage = "shown"
             PROVE  Shown = UNION {Chain(rows, id) : id \in Reachable(Listed)}
  BY DEF ProfileShowsAllowed
<1>1. RowsGood /\ ListsGood /\ Walked
  BY InputGood, BuiltLists DEF TreeIInv, ListInv, TreeTypeOK, Built
<1> QED
  BY <1>1, ShownIsAllowed, AllowedIsShown

(* A profile shows no more and no less than leads to the allowed menus of *)
(* the tree: see the property.                                            *)
THEOREM ProfileCorrect == TreeSpec => []ProfileShowsAllowed
<1>1. TreeIInv => ProfileShowsAllowed
  BY TreeIInvProfile
<1> QED
  BY <1>1, TreeIInvInit, TreeIInvStep, PTL DEF TreeSpec

(* Every menu has no stored parent or a parent that has none. *)
TwoLevels == \A id \in DOMAIN rows : id \in Roots \/ rows[id].parent \in Roots

(* The depth at which children are lost: as long as no menu lies more than *)
(* one level below a root, a profile has all the menus its permissions     *)
(* allow.  The run MenuTreeDepth shows that a third level may be missing.  *)
THEOREM TwoLevelsShown == TreeSpec => [](TwoLevels => AllowedMenusShown)
<1>1. ASSUME TreeIInv PROVE TwoLevels => AllowedMenusShown
  <2>1. SUFFICES ASSUME TwoLevels, stage = "shown", NEW d \in Reachable(DOMAIN rows)
                 PROVE  d \in Shown
    BY DEF AllowedMenusShown
  <2>2. TwoLevelsListed
    BY <1>1, <2>1, TreeProperties DEF TreeIInv, TreeMatchesRows, Built
  <2>3. d \in DOMAIN rows /\ d \in Listed
    BY <2>1, <2>2 DEF TwoLevels, TwoLevelsListed, Reachable
  <2>4. d \in Reachable(Listed) /\ d \in Chain(rows, d)
    BY <2>1, <2>3, ChainHasStart DEF Reachable
  <2>5. Shown = UNION {Chain(rows, id) : id \in Reachable(Listed)}
    BY <1>1, <2>1, TreeIInvProfile DEF ProfileShowsAllowed
  <2> QED
    BY <2>4, <2>5
<1> QED
  BY <1>1, TreeIInvInit, TreeIInvStep, PTL DEF TreeSpec

----------------------------------------------------------------------------
(* The look into the listed tree, as the stores' modules have it *)

(* The tree was listed from the menus ms of a store. *)
ListedFrom(ms) ==
  /\ stage = "listed" /\ DOMAIN rows = DOMAIN ms
  /\ \A id \in DOMAIN ms : rows[id].parent = ms[id].parent

LEMMA SameChains ==
  ASSUME NEW ms, ListedFrom(ms), NEW id
  PROVE  Chain(rows, id) = Chain(ms, id)
<1>1. \A S \in SUBSET DOMAIN ms : ClosedUpwards(rows, S) <=> ClosedUpwards(ms, S)
  BY DEF ListedFrom, ClosedUpwards
<1> QED
  BY <1>1 DEF ListedFrom, Chain

(* Whatever menus a store holds, UpdateMenu's look into the tree listed from *)
(* them has an outcome that CheckListedTree of MenuStore and SqlMenu allow:  *)
(* MenuTreeContainsDescendant finds no more than it may and all it must.     *)
THEOREM ListedTreeChecked ==
  TreeSpec => [](\A ms : ListedFrom(ms) => \A id, parent \in Nat : id # parent =>
                   LET found == MenuTreeContainsDescendant(id, parent) IN
                   /\ found => MayBeFound(ms, id, parent)
                   /\ MustBeFound(ms, id, parent) => found)
<1>1. ASSUME ListInv, NEW ms, ListedFrom(ms), NEW id \in Nat, NEW parent \in Nat, id # parent
      PROVE  LET found == MenuTreeContainsDescendant(id, parent) IN
             /\ found => MayBeFound(ms, id, parent)
             /\ MustBeFound(ms, id, parent) => found
  <2>1. RowsGood /\ ListsGood
    BY <1>1, InputGood, BuiltLists DEF ListInv, TreeTypeOK, Built, ListedFrom
  <2>2. ASSUME MenuTreeContainsDescendant(id, parent) PROVE MayBeFound(ms, id, parent)
    <3>1. id \in DOMAIN rows /\ parent \in Below(Lists, id)
      BY <2>1, <2>2, ListsStay DEF MenuTreeContainsDescendant
    <3> QED
      BY <1>1, <2>1, <3>1, FoundBelow, SameChains DEF MayBeFound
  <2>3. ASSUME MustBeFound(ms, id, parent) PROVE MenuTreeContainsDescendant(id, parent)
    <3>1. id \in Chain(ms, parent) /\ ms[id].parent = 0 /\ ms[parent].parent = id
      BY <2>3 DEF MustBeFound, MayBeFound
    <3>2. id \in DOMAIN rows /\ parent \in DOMAIN rows
      BY <1>1, <3>1, ChainOfNone DEF Chain, ListedFrom
    <3>3. id \in Roots /\ rows[parent].parent = id
      BY <1>1, <2>1, <3>1, <3>2 DEF Roots, RowsGood, ListedFrom
    <3> QED
      BY <1>1, <3>2, <3>3, TreeProperties DEF TreeCheckSound, ListedFrom
  <2> QED
    BY <2>2, <2>3
<1>2. ListInv => \A ms : ListedFrom(ms) => \A id, parent \in Nat : id # parent =>
        LET found == MenuTreeContainsDescendant(id, parent) IN
        /\ found => MayBeFound(ms, id, parent)
        /\ MustBeFound(ms, id, parent) => found
  BY <1>1
<1> QED
  BY <1>2, ListInvInit, ListInvStep, PTL DEF TreeSpec
============================================================================
