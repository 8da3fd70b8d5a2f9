--------------------------- MODULE MenuDataProofs ---------------------------
(* Facts about menu maps: what a write of one menu does to the forest. *)
EXTENDS MenuData, TLAPS

----------------------------------------------------------------------------
(* Chains *)

LEMMA ChainHasStart ==
  ASSUME NEW ms, NEW id \in DOMAIN ms
  PROVE  id \in Chain(ms, id)
  BY DEF Chain

LEMMA ChainClosed ==
  ASSUME NEW ms, NEW id
  PROVE  ClosedUpwards(ms, Chain(ms, id))
  BY DEF Chain, ClosedUpwards

LEMMA ChainLeast ==
  ASSUME NEW ms, NEW id, NEW S \in SUBSET DOMAIN ms,
         id \in DOMAIN ms => id \in S, ClosedUpwards(ms, S)
  PROVE  Chain(ms, id) \subseteq S
  BY DEF Chain

LEMMA ChainOfNone ==
  ASSUME NEW ms, NEW id, id \notin DOMAIN ms
  PROVE  Chain(ms, id) = {}
  BY ChainLeast DEF ClosedUpwards

(* The chain of a menu is the menu with the chain of its parent: one turn of *)
(* menuHasAncestorLocked's loop.                                             *)
LEMMA ChainStep ==
  ASSUME NEW ms, NEW id \in DOMAIN ms
  PROVE  Chain(ms, id) \subseteq {id} \cup Chain(ms, ms[id].parent)
<1> DEFINE P == Chain(ms, ms[id].parent)
<1>1. P \subseteq DOMAIN ms
  BY DEF Chain
<1>2. ms[id].parent \in DOMAIN ms => ms[id].parent \in P
  BY ChainHasStart
<1>3. ClosedUpwards(ms, P)
  BY ChainClosed
<1> HIDE DEF P
<1>4. ClosedUpwards(ms, {id} \cup P)
  BY <1>2, <1>3 DEF ClosedUpwards
<1>5. Chain(ms, id) \subseteq {id} \cup P
  BY <1>1, <1>4, ChainLeast
<1> QED
  BY <1>5 DEF P

(* The chain of what lies on a chain is part of it. *)
LEMMA ChainOfMember ==
  ASSUME NEW ms, NEW id, NEW x \in Chain(ms, id)
  PROVE  Chain(ms, x) \subseteq Chain(ms, id)
<1>1. Chain(ms, id) \in SUBSET DOMAIN ms
  BY DEF Chain
<1> QED
  BY <1>1, ChainClosed, ChainLeast

LEMMA ChainUp ==
  ASSUME NEW ms, NEW id \in DOMAIN ms, ms[id].parent \in DOMAIN ms
  PROVE  /\ ms[id].parent \in Chain(ms, id)
         /\ Chain(ms, ms[id].parent) \subseteq Chain(ms, id)
<1>1. ms[id].parent \in Chain(ms, id)
  BY ChainHasStart, ChainClosed DEF ClosedUpwards
<1>2. Chain(ms, id) \in SUBSET DOMAIN ms
  BY DEF Chain
<1> QED
  BY <1>1, <1>2, ChainClosed, ChainLeast

----------------------------------------------------------------------------
(* Acyclicity *)

(* Creating a menu, or moving one below a menu it is not an ancestor of,    *)
(* closes no cycle.                                                         *)
LEMMA PutKeepsAcyclic ==
  ASSUME NEW ms, MenuMap(ms), Acyclic(ms), ParentsExist(ms),
         NEW id \in Nat \ {0}, NEW m \in Menu,
         m.parent # id, id \notin Chain(ms, m.parent)
  PROVE  Acyclic(Put(ms, id, m))
<1> DEFINE new == Put(ms, id, m)
<1>1. SUFFICES ASSUME NEW S \in SUBSET DOMAIN new, S # {},
                      \A x \in S : new[x].parent \in S
               PROVE  FALSE
  BY DEF Acyclic
<1>2. /\ DOMAIN new = DOMAIN ms \cup {id}
      /\ new[id] = m
      /\ \A x \in DOMAIN new \ {id} : new[x] = ms[x]
  BY DEF Put
<1> HIDE DEF new
<1>3. CASE id \notin S
  <2>1. S \in SUBSET DOMAIN ms /\ \A x \in S : ms[x].parent \in S
    BY <1>1, <1>2, <1>3
  <2> QED
    BY <2>1, <1>1 DEF Acyclic
<1>4. CASE id \in S
  <2> DEFINE T == S \cap Chain(ms, m.parent)
  <2>1. m.parent \in S /\ m.parent \in DOMAIN ms
    BY <1>1, <1>2, <1>4
  <2>2. m.parent \in T
    BY <2>1, ChainHasStart
  <2>3. T \in SUBSET DOMAIN ms
    BY DEF Chain
  <2>4. ASSUME NEW x \in T PROVE ms[x].parent \in T
    <3>1. x \in S /\ x # id /\ x \in DOMAIN ms /\ x \in DOMAIN new
      BY <1>1, <2>3, <2>4
    <3>2. ms[x].parent \in S
      BY <3>1, <1>1, <1>2
    <3>3. ms[x].parent # 0
      BY <3>2, <1>1, <1>2 DEF MenuMap
    <3>4. ms[x].parent \in DOMAIN ms
      BY <3>1, <3>3 DEF ParentsExist
    <3> QED
      BY <3>2, <3>4, ChainClosed DEF ClosedUpwards
  <2> HIDE DEF T
  <2> QED
    BY <2>2, <2>3, <2>4 DEF Acyclic
<1> QED
  BY <1>3, <1>4

LEMMA WithoutKeepsAcyclic ==
  ASSUME NEW ms, Acyclic(ms), NEW id
  PROVE  Acyclic(Without(ms, id))
  BY DEF Acyclic, Without

(* No menu of an acyclic map is its own parent. *)
LEMMA NoSelfParent ==
  ASSUME NEW ms, Acyclic(ms), NEW id \in DOMAIN ms
  PROVE  ms[id].parent # id
<1>1. {id} \in SUBSET DOMAIN ms /\ {id} # {}
  OBVIOUS
<1> QED
  BY <1>1 DEF Acyclic

----------------------------------------------------------------------------
(* Forests *)

LEMMA PutKeepsForest ==
  ASSUME NEW ms, MenuMap(ms), Forest(ms),
         NEW id \in Nat \ {0}, NEW m \in Menu,
         m.parent \in DOMAIN ms \cup {0}, m.parent # id,
         id \notin Chain(ms, m.parent), ~NameTaken(ms, id, m.name)
  PROVE  Forest(Put(ms, id, m)) /\ MenuMap(Put(ms, id, m))
<1>1. Acyclic(Put(ms, id, m))
  BY PutKeepsAcyclic DEF Forest
<1>2. ParentsExist(Put(ms, id, m))
  BY DEF Forest, ParentsExist, Put
<1>3. NamesUnique(Put(ms, id, m))
  BY DEF Forest, NamesUnique, Put, NameTaken
<1>4. MenuMap(Put(ms, id, m))
  BY DEF MenuMap, Put
<1> QED
  BY <1>1, <1>2, <1>3, <1>4 DEF Forest

LEMMA WithoutKeepsForest ==
  ASSUME NEW ms, MenuMap(ms), Forest(ms), NEW id, ~HasChildren(ms, id)
  PROVE  Forest(Without(ms, id)) /\ MenuMap(Without(ms, id))
<1>1. Acyclic(Without(ms, id))
  BY WithoutKeepsAcyclic DEF Forest
<1>2. ParentsExist(Without(ms, id))
  BY DEF Forest, ParentsExist, Without, HasChildren
<1>3. NamesUnique(Without(ms, id))
  BY DEF Forest, NamesUnique, Without
<1>4. MenuMap(Without(ms, id))
  BY DEF MenuMap, Without
<1> QED
  BY <1>1, <1>2, <1>3, <1>4 DEF Forest
============================================================================
