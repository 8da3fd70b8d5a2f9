---------------------------- MODULE ServerProofs ----------------------------
(***************************************************************************)
(* Theorems about Server and Catalog: what is stored is well typed, the    *)
(* answers fit what was done, a graceful stop leaves nothing open,         *)
(* dictionaries and settings are tables of named records, what an          *)
(* undisturbed request is shown is what is stored, and a server that stops *)
(* gets on and closes its pool last.                                       *)
(***************************************************************************)
EXTENDS Server, TLAPS

----------------------------------------------------------------------------
(* The inductive invariant *)

(* The rows by themselves. *)
RowsTyped ==
  /\ driver \in Drivers
  /\ live \in [Kinds -> SUBSET Nat] /\ nextID \in [Kinds -> Nat \ {0}]
  /\ DOMAIN rows = Kinds
  /\ \A kind \in Kinds :
       /\ DOMAIN rows[kind] \subseteq 1..(nextID[kind] - 1)
       /\ rows[kind] \in [DOMAIN rows[kind] -> Record]
       /\ live[kind] \subseteq DOMAIN rows[kind]
       /\ \A id \in DOMAIN rows[kind] : Storable(kind, rows[kind][id].content)

NamesDiffer ==
  \A kind \in Kinds : \A x, y \in live[kind] :
    rows[kind][x].name = rows[kind][y].name => x = y

RequestsTyped ==
  /\ pc \in [Requests -> Steps] /\ call \in [Requests -> Calls]
  /\ todo \in [Requests -> SUBSET Nat] /\ shown \in [Requests -> SUBSET Shown]
  /\ response \in [Requests -> Responses] /\ written \in [Requests -> Nat]
  /\ audit \subseteq Requests /\ undisturbed \subseteq Requests

(* Nothing but checked input gets past Start; what is still to be read was a *)
(* row once; a request writes at most once, at a step of its own.            *)
Progress(r) ==
  /\ pc[r] \notin {"new", "done"} => ~InvalidInput(call[r])
  /\ todo[r] \subseteq DOMAIN rows[call[r].kind]
  /\ pc[r] = "items" => call[r].kind = "dictionary"
  /\ pc[r] = "find" => call[r].op = "get"
  /\ pc[r] = "list" => call[r].op = "list"
  /\ pc[r] = "audit" => call[r].op \in Writes
  /\ pc[r] \in {"row", "items", "audit"} /\ call[r].op \in Writes => written[r] # 0
  /\ pc[r] = "row" /\ call[r].op \in Writes => todo[r] = {written[r]}
  /\ written[r] # 0 => /\ pc[r] \in {"row", "items", "audit", "done"}
                       /\ call[r].op \in Writes
                       /\ written[r] < nextID[call[r].kind]

(* Only an answered request has an answer, and it fits what was done. *)
Answered(r) ==
  /\ pc[r] = "done" <=> response[r] # "none"
  /\ response[r] = "ok" /\ call[r].op \in Writes => written[r] # 0 /\ r \in audit
  /\ written[r] # 0 => response[r] \in {"none", "ok", "internal", "notFound"}
  /\ written[r] # 0 /\ response[r] = "notFound" => written[r] \notin live[call[r].kind]

CatalogInv ==
  /\ RowsTyped /\ NamesDiffer /\ RequestsTyped
  /\ \A r \in Requests : Progress(r) /\ Answered(r)

(* Once the store is being closed, no request is at work. *)
Closed == phase \in {"closing", "stopped"} => AtWork = {}

IInv ==
  /\ CatalogInv
  /\ phase \in Phases /\ signalled \in BOOLEAN /\ open \in BOOLEAN
  /\ Closed

----------------------------------------------------------------------------
(* Data *)

LEMMA SingletonSeq == ASSUME NEW S, NEW v \in S PROVE <<v>> \in Seq(S)
  OBVIOUS

(* Checked input is storable. *)
LEMMA SubmittedStorable ==
  ASSUME NEW c \in Calls, c.op \in {"create", "update"}, ~InvalidInput(c)
  PROVE  /\ Submitted(c) \in Record
         /\ Storable(c.kind, Submitted(c).content)
<1>1. c \in Call
  BY CatalogAssumption
<1>2. CASE c.kind = "dictionary"
  BY <1>1, <1>2 DEF Call, InvalidInput, Submitted, Record, Storable
<1>3. CASE c.kind = "setting"
  <2>1. c.content \in Seq(STRING) /\ Len(c.content) = 1
    BY <1>1, <1>3, CatalogAssumption DEF Call
  <2>2. c.content[1] \in STRING /\ c.content = <<c.content[1]>>
    BY <2>1
  <2>3. c.content[1] \in JSONValues \/ c.content[1] = ""
    BY <1>3 DEF InvalidInput
  <2>4. CASE c.content[1] = ""
    <3>1. PICK value : value = "{}"
      OBVIOUS
    <3>2. value \in JSONValues /\ value \in STRING
      BY <3>1, CatalogAssumption
    <3>3. Submitted(c) = [name |-> c.name, content |-> <<value>>]
      BY <1>3, <2>4, <3>1 DEF Submitted
    <3>4. <<value>> \in Seq(STRING) /\ c.name \in STRING
      BY <1>1, <3>2, SingletonSeq DEF Call
    <3>5. Submitted(c) \in Record /\ Submitted(c).content = <<value>>
      BY <3>3, <3>4 DEF Record
    <3> QED
      BY <1>3, <3>2, <3>5 DEF Storable
  <2>5. CASE c.content[1] # ""
    <3>1. Submitted(c) = [name |-> c.name, content |-> c.content]
      BY <2>5 DEF Submitted
    <3>2. Storable(c.kind, c.content)
      BY <1>3, <2>2, <2>3, <2>5 DEF Storable
    <3> QED
      BY <1>1, <2>1, <3>1, <3>2 DEF Call, Record
  <2> QED
    BY <2>4, <2>5
<1> QED
  BY <1>1, <1>2, <1>3 DEF Call, Kinds

LEMMA ShownTyped ==
  ASSUME RowsTyped, NEW kind \in Kinds, NEW id \in DOMAIN rows[kind]
  PROVE  /\ ShowWhole(kind, id) \in Shown
         /\ Show(kind, id, <<>>) \in Shown
<1>1. rows[kind][id] \in Record /\ id \in Nat
  BY DEF RowsTyped
<1>2. rows[kind][id].name \in STRING /\ rows[kind][id].content \in Seq(STRING)
  BY <1>1 DEF Record
<1>3. <<>> \in Seq(STRING)
  OBVIOUS
<1> QED
  BY <1>1, <1>2, <1>3 DEF ShowWhole, Show, Shown

(* Rows are never lost, and an ID below the next one does not become live   *)
(* again.                                                                   *)
RowsGrow ==
  \A kind \in Kinds :
    /\ DOMAIN rows[kind] \subseteq DOMAIN rows'[kind]
    /\ nextID[kind] <= nextID'[kind]
    /\ \A id \in live'[kind] : id < nextID[kind] => id \in live[kind]

LEMMA InsertTyped ==
  ASSUME RowsTyped, NEW r \in Requests, call[r] \in Calls,
         call[r].op \in {"create", "update"}, ~InvalidInput(call[r]),
         Insert(r), UNCHANGED driver
  PROVE  /\ RowsTyped' /\ RowsGrow
         /\ nextID[call[r].kind] \in DOMAIN rows'[call[r].kind]
         /\ nextID[call[r].kind] \in Nat \ {0}
         /\ nextID[call[r].kind] < nextID'[call[r].kind]
<1> DEFINE k == call[r].kind
           id == nextID[k]
           v == Submitted(call[r])
<1>1. call[r] \in Call /\ k \in Kinds
  BY CatalogAssumption DEF Call
<1>2. v \in Record /\ Storable(k, v.content)
  BY SubmittedStorable
<1>3. id \in Nat \ {0}
  BY <1>1 DEF RowsTyped
<1>4. /\ rows' = [rows EXCEPT ![k] = Put(rows[k], id, v)]
      /\ live' = [live EXCEPT ![k] = live[k] \cup {id}]
      /\ nextID' = [nextID EXCEPT ![k] = id + 1]
  BY DEF Insert
<1> HIDE DEF id, v
<1>5. rows'[k] = Put(rows[k], id, v) /\ live'[k] = live[k] \cup {id}
      /\ nextID'[k] = id + 1
  BY <1>1, <1>4 DEF RowsTyped
<1>6. \A x \in Kinds \ {k} : rows'[x] = rows[x] /\ live'[x] = live[x] /\ nextID'[x] = nextID[x]
  BY <1>1, <1>4 DEF RowsTyped
<1>7. /\ DOMAIN rows' = Kinds /\ live' \in [Kinds -> SUBSET Nat]
      /\ nextID' \in [Kinds -> Nat \ {0}] /\ driver' \in Drivers
  BY <1>1, <1>3, <1>4 DEF RowsTyped
<1>8. /\ DOMAIN Put(rows[k], id, v) = DOMAIN rows[k] \cup {id}
      /\ Put(rows[k], id, v)[id] = v
      /\ \A x \in DOMAIN rows[k] \ {id} : Put(rows[k], id, v)[x] = rows[k][x]
  BY DEF Put
<1>9. Put(rows[k], id, v) \in [DOMAIN rows[k] \cup {id} -> Record]
  BY <1>1, <1>2 DEF Put, RowsTyped
<1>10. id = nextID[k]
  BY DEF id
<1>11. RowsTyped'
  <2> SUFFICES ASSUME NEW x \in Kinds
               PROVE  /\ DOMAIN rows'[x] \subseteq 1..(nextID'[x] - 1)
                      /\ rows'[x] \in [DOMAIN rows'[x] -> Record]
                      /\ live'[x] \subseteq DOMAIN rows'[x]
                      /\ \A y \in DOMAIN rows'[x] : Storable(x, rows'[x][y].content)
    BY <1>7 DEF RowsTyped
  <2>1. CASE x = k
    <3>0. DOMAIN rows'[k] = DOMAIN rows[k] \cup {id}
      BY <1>5, <1>8
    <3>1. DOMAIN rows'[k] \subseteq 1..(nextID'[k] - 1)
      BY <1>1, <1>3, <1>5, <1>8, <1>10 DEF RowsTyped
    <3>2. \A y \in DOMAIN rows'[k] : Storable(k, rows'[k][y].content)
      BY <1>1, <1>2, <1>5, <1>8 DEF RowsTyped
    <3> QED
      BY <1>1, <1>5, <1>8, <1>9, <2>1, <3>1, <3>2 DEF RowsTyped
  <2>2. CASE x # k
    BY <1>6, <2>2 DEF RowsTyped
  <2> QED
    BY <2>1, <2>2
<1>12. RowsGrow
  <2> SUFFICES ASSUME NEW x \in Kinds
               PROVE  /\ DOMAIN rows[x] \subseteq DOMAIN rows'[x]
                      /\ nextID[x] <= nextID'[x]
                      /\ \A y \in live'[x] : y < nextID[x] => y \in live[x]
    BY DEF RowsGrow
  <2> QED
    BY <1>3, <1>5, <1>6, <1>8, <1>10 DEF RowsTyped
<1> QED
  BY <1>3, <1>5, <1>8, <1>10, <1>11, <1>12

LEMMA ReplaceTyped ==
  ASSUME RowsTyped, NEW r \in Requests, call[r] \in Calls,
         call[r].op \in {"create", "update"}, ~InvalidInput(call[r]),
         call[r].target \in live[call[r].kind], Replace(r), UNCHANGED driver
  PROVE  /\ RowsTyped' /\ RowsGrow
         /\ call[r].target \in DOMAIN rows'[call[r].kind]
         /\ call[r].target \in Nat \ {0} /\ call[r].target < nextID'[call[r].kind]
<1> DEFINE k == call[r].kind
           id == call[r].target
           v == Submitted(call[r])
<1>1. call[r] \in Call /\ k \in Kinds
  BY CatalogAssumption DEF Call
<1>2. v \in Record /\ Storable(k, v.content)
  BY SubmittedStorable
<1>3. rows' = [rows EXCEPT ![k] = Put(rows[k], id, v)] /\ UNCHANGED <<live, nextID>>
  BY DEF Replace
<1>4. id \in DOMAIN rows[k] /\ id \in Nat \ {0} /\ id < nextID[k]
  BY <1>1 DEF RowsTyped
<1> HIDE DEF id, v
<1>5. rows'[k] = Put(rows[k], id, v)
      /\ \A x \in Kinds \ {k} : rows'[x] = rows[x]
  BY <1>1, <1>3 DEF RowsTyped
<1>6. /\ DOMAIN Put(rows[k], id, v) = DOMAIN rows[k]
      /\ Put(rows[k], id, v)[id] = v
      /\ \A x \in DOMAIN rows[k] \ {id} : Put(rows[k], id, v)[x] = rows[k][x]
  BY <1>4 DEF Put
<1>7. Put(rows[k], id, v) \in [DOMAIN rows[k] -> Record]
  BY <1>1, <1>2, <1>4 DEF Put, RowsTyped
<1>8. \A y \in DOMAIN rows'[k] : Storable(k, rows'[k][y].content)
  BY <1>1, <1>2, <1>5, <1>6 DEF RowsTyped
<1>9. RowsTyped'
  <2> SUFFICES ASSUME NEW x \in Kinds
               PROVE  /\ DOMAIN rows'[x] \subseteq 1..(nextID'[x] - 1)
                      /\ rows'[x] \in [DOMAIN rows'[x] -> Record]
                      /\ live'[x] \subseteq DOMAIN rows'[x]
                      /\ \A y \in DOMAIN rows'[x] : Storable(x, rows'[x][y].content)
    BY <1>3 DEF RowsTyped
  <2>1. CASE x = k
    BY <1>1, <1>3, <1>5, <1>6, <1>7, <1>8, <2>1 DEF RowsTyped
  <2>2. CASE x # k
    BY <1>3, <1>5, <2>2 DEF RowsTyped
  <2> QED
    BY <2>1, <2>2
<1>10. RowsGrow
  BY <1>1, <1>3, <1>5, <1>6 DEF RowsGrow, RowsTyped
<1> QED
  BY <1>1, <1>3, <1>4, <1>5, <1>6, <1>9, <1>10 DEF id

LEMMA RemoveTyped ==
  ASSUME RowsTyped, NEW r \in Requests, call[r] \in Calls, Remove(r), UNCHANGED driver
  PROVE  RowsTyped' /\ RowsGrow
<1>1. call[r].kind \in Kinds
  BY CatalogAssumption DEF Call
<1> QED
  BY <1>1 DEF Remove, RowsTyped, RowsGrow

----------------------------------------------------------------------------
(* What a step of a request does *)

(* To the rows: nothing, the loss of an ID, or one guarded write. *)
StoreStep(r) ==
  LET c == call[r] IN
  /\ UNCHANGED driver
  /\ \/ UNCHANGED <<rows, live, nextID>>
     \/ /\ nextID' = [nextID EXCEPT ![c.kind] = @ + 1]
        /\ UNCHANGED <<rows, live>>
     \/ /\ c.op = "create" /\ ~InvalidInput(c)
        /\ ~NameTaken(c.kind, 0, c.name)
        /\ Insert(r)
     \/ /\ c.op = "update" /\ ~InvalidInput(c)
        /\ c.target \in live[c.kind] /\ ~NameTaken(c.kind, c.target, c.name)
        /\ Replace(r)
     \/ c.target \in live[c.kind] /\ Remove(r)

(* To the other requests: nothing. *)
Frame(r) ==
  /\ RequestsTyped' /\ UNCHANGED call /\ audit \subseteq audit'
  /\ \A q \in Requests \ {r} :
       /\ pc'[q] = pc[q] /\ todo'[q] = todo[q] /\ shown'[q] = shown[q]
       /\ response'[q] = response[q] /\ written'[q] = written[q]

Own(r) == Progress(r) /\ Answered(r)

LEMMA StoreStepTyped ==
  ASSUME CatalogInv, NEW r \in Requests, StoreStep(r)
  PROVE  RowsTyped' /\ RowsGrow
<1>1. RowsTyped /\ call[r] \in Calls /\ UNCHANGED driver
  BY DEF CatalogInv, RequestsTyped, StoreStep
<1>2. call[r].kind \in Kinds
  BY <1>1, CatalogAssumption DEF Call
<1>3. CASE UNCHANGED <<rows, live, nextID>>
  BY <1>1, <1>3 DEF RowsTyped, RowsGrow
<1>4. CASE /\ nextID' = [nextID EXCEPT ![call[r].kind] = @ + 1]
           /\ UNCHANGED <<rows, live>>
  BY <1>1, <1>2, <1>4 DEF RowsTyped, RowsGrow
<1>5. CASE call[r].op = "create" /\ ~InvalidInput(call[r]) /\ Insert(r)
  BY <1>1, <1>5, InsertTyped
<1>6. CASE /\ call[r].op = "update" /\ ~InvalidInput(call[r])
           /\ call[r].target \in live[call[r].kind] /\ Replace(r)
  BY <1>1, <1>6, ReplaceTyped
<1>7. CASE Remove(r)
  BY <1>1, <1>7, RemoveTyped
<1> QED
  BY <1>3, <1>4, <1>5, <1>6, <1>7 DEF StoreStep

LEMMA StoreStepNames ==
  ASSUME CatalogInv, NEW r \in Requests, StoreStep(r)
  PROVE  NamesDiffer'
<1> DEFINE c == call[r]
           k == c.kind
<1>1. RowsTyped /\ NamesDiffer /\ c \in Calls
  BY DEF CatalogInv, RequestsTyped
<1>2. k \in Kinds
  BY <1>1, CatalogAssumption DEF Call
<1>3. CASE UNCHANGED <<rows, live>>
  BY <1>1, <1>3 DEF NamesDiffer
<1>4. CASE ~NameTaken(k, 0, c.name) /\ Insert(r)
  <2> DEFINE id == nextID[k]
             v == Submitted(c)
  <2>1. id \in Nat \ {0} /\ id \notin DOMAIN rows[k] /\ v.name = c.name
    BY <1>1, <1>2 DEF RowsTyped, Submitted
  <2>2. /\ rows' = [rows EXCEPT ![k] = Put(rows[k], id, v)]
        /\ live' = [live EXCEPT ![k] = live[k] \cup {id}]
    BY <1>4 DEF Insert
  <2>3. \A x \in live[k] : rows[k][x].name # c.name
    BY <1>1, <1>2, <1>4 DEF NameTaken, RowsTyped
  <2> HIDE DEF id, v
  <2>4. live'[k] = live[k] \cup {id} /\ rows'[k] = Put(rows[k], id, v)
    BY <1>1, <1>2, <2>2 DEF RowsTyped
  <2>5. rows'[k][id] = v /\ \A x \in live[k] : rows'[k][x] = rows[k][x]
    BY <1>1, <1>2, <2>1, <2>4 DEF Put, RowsTyped
  <2>6. \A x, y \in live'[k] : rows'[k][x].name = rows'[k][y].name => x = y
    BY <1>1, <1>2, <2>1, <2>3, <2>4, <2>5 DEF NamesDiffer
  <2>7. \A x \in Kinds \ {k} : live'[x] = live[x] /\ rows'[x] = rows[x]
    BY <1>1, <1>2, <2>2 DEF RowsTyped
  <2> QED
    BY <1>1, <2>6, <2>7 DEF NamesDiffer
<1>5. CASE c.target \in live[k] /\ ~NameTaken(k, c.target, c.name) /\ Replace(r)
  <2> DEFINE id == c.target
             v == Submitted(c)
  <2>1. id \in DOMAIN rows[k] /\ v.name = c.name
    BY <1>1, <1>2, <1>5 DEF RowsTyped, Submitted
  <2>2. rows' = [rows EXCEPT ![k] = Put(rows[k], id, v)] /\ UNCHANGED live
    BY <1>5 DEF Replace
  <2>3. \A x \in live[k] \ {id} : rows[k][x].name # c.name
    BY <1>5 DEF NameTaken
  <2> HIDE DEF id, v
  <2>4. rows'[k] = Put(rows[k], id, v)
    BY <1>1, <1>2, <2>2 DEF RowsTyped
  <2>5. rows'[k][id] = v /\ \A x \in live[k] \ {id} : rows'[k][x] = rows[k][x]
    BY <1>1, <1>2, <2>1, <2>4 DEF Put, RowsTyped
  <2>6. \A x, y \in live'[k] : rows'[k][x].name = rows'[k][y].name => x = y
    BY <1>1, <1>2, <2>1, <2>2, <2>3, <2>5 DEF NamesDiffer
  <2>7. \A x \in Kinds \ {k} : rows'[x] = rows[x]
    BY <1>1, <1>2, <2>2 DEF RowsTyped
  <2> QED
    BY <1>1, <2>2, <2>6, <2>7 DEF NamesDiffer
<1>6. CASE Remove(r)
  <2>1. UNCHANGED rows /\ \A x \in Kinds : live'[x] \subseteq live[x]
    BY <1>1, <1>2, <1>6 DEF Remove, RowsTyped
  <2> QED
    BY <1>1, <2>1 DEF NamesDiffer
<1> QED
  BY <1>3, <1>4, <1>5, <1>6 DEF StoreStep

LEMMA OthersKeptGood ==
  ASSUME CatalogInv, NEW r \in Requests, StoreStep(r), Frame(r),
         NEW q \in Requests \ {r}
  PROVE  Own(q)'
<1>1. RowsGrow
  BY StoreStepTyped
<1>0. call[q] \in Calls
  BY DEF CatalogInv, RequestsTyped
<1>2. call[q].kind \in Kinds
  BY <1>0, CatalogAssumption DEF Call
<1>3. nextID[call[q].kind] \in Nat /\ nextID'[call[q].kind] \in Nat /\ written[q] \in Nat
  BY <1>2, StoreStepTyped DEF CatalogInv, RowsTyped, RequestsTyped
<1>4. Progress(q)'
  BY <1>1, <1>2, <1>3 DEF CatalogInv, Progress, Frame, RowsGrow
<1>5. Answered(q)'
  BY <1>1, <1>2, <1>3 DEF CatalogInv, Answered, Progress, Frame, RowsGrow
<1> QED
  BY <1>4, <1>5 DEF Own

LEMMA StepKeepsInv ==
  ASSUME CatalogInv, NEW r \in Requests, StoreStep(r), Frame(r), Own(r)'
  PROVE  CatalogInv'
<1>1. RowsTyped' /\ NamesDiffer' /\ RequestsTyped'
  BY StoreStepTyped, StoreStepNames DEF Frame
<1>2. \A q \in Requests : Own(q)'
  BY OthersKeptGood
<1> QED
  BY <1>1, <1>2 DEF CatalogInv, Own

----------------------------------------------------------------------------
(* Steps that write nothing *)

(* What the steps below assume of the request. *)
LEMMA OwnFacts ==
  ASSUME CatalogInv, NEW r \in Requests
  PROVE  /\ RowsTyped /\ RequestsTyped /\ Progress(r) /\ Answered(r)
         /\ call[r] \in Calls /\ call[r] \in Call /\ call[r].kind \in Kinds
         /\ pc[r] \in Steps /\ written[r] \in Nat
<1>1. /\ RowsTyped /\ RequestsTyped /\ Progress(r) /\ Answered(r)
      /\ call[r] \in Calls
  BY DEF CatalogInv, RequestsTyped
<1>2. call[r] \in Call
  BY <1>1, CatalogAssumption
<1> QED
  BY <1>1, <1>2 DEF Call, RequestsTyped

LEMMA UnwrittenStep ==
  ASSUME NEW r \in Requests, Unwritten
  PROVE  StoreStep(r)
  BY DEF Unwritten, store, StoreStep

LEMMA RefuseGood ==
  ASSUME CatalogInv, NEW r \in Requests, pc[r] \notin {"new", "done"},
         NEW answer \in {"notFound", "conflict", "internal"},
         \/ written[r] = 0
         \/ answer = "internal"
         \/ answer = "notFound" /\ written[r] \notin live[call[r].kind],
         Refuse(r, answer), UNCHANGED call
  PROVE  StoreStep(r) /\ Frame(r) /\ Own(r)'
<1>1. Unwritten /\ StoreStep(r)
  BY UnwrittenStep DEF Refuse
<1>2. /\ RequestsTyped /\ Progress(r) /\ Answered(r) /\ call[r].kind \in Kinds
      /\ written[r] \in Nat
  BY OwnFacts
<1>3. /\ pc' = [pc EXCEPT ![r] = "done"] /\ response' = [response EXCEPT ![r] = answer]
      /\ shown' = [shown EXCEPT ![r] = {}] /\ todo' = [todo EXCEPT ![r] = {}]
  BY DEF Refuse, Finish
<1>4. Frame(r)
  BY <1>1, <1>2, <1>3 DEF Frame, RequestsTyped, Unwritten, history, Steps, Responses
<1>5. /\ pc'[r] = "done" /\ response'[r] = answer /\ todo'[r] = {}
      /\ written'[r] = written[r] /\ call' = call /\ live' = live /\ nextID' = nextID
  BY <1>1, <1>2, <1>3 DEF RequestsTyped, Unwritten, history, store
<1>6. Progress(r)'
  BY <1>2, <1>5 DEF Progress
<1>7. Answered(r)'
  BY <1>2, <1>5 DEF Answered
<1> QED
  BY <1>1, <1>4, <1>6, <1>7 DEF Own

(* A statement that reads lets the next one be executed. *)
LEMMA GoOnGood ==
  ASSUME CatalogInv, NEW r \in Requests, pc[r] \notin {"new", "done"}, written[r] = 0,
         NEW step \in {"name", "write"},
         Continue(r, step), Unshown, Unwritten, UNCHANGED call
  PROVE  StoreStep(r) /\ Frame(r) /\ Own(r)'
<1>1. Unwritten /\ StoreStep(r)
  BY UnwrittenStep
<1>2. /\ RequestsTyped /\ Progress(r) /\ Answered(r) /\ call[r].kind \in Kinds
      /\ written[r] \in Nat
  BY OwnFacts
<1>3. pc' = [pc EXCEPT ![r] = step] /\ UNCHANGED <<response, shown, todo>>
  BY DEF Continue, Unshown
<1>4. Frame(r)
  BY <1>1, <1>2, <1>3 DEF Frame, RequestsTyped, Unwritten, history, Steps
<1>5. pc'[r] = step
  BY <1>2, <1>3 DEF RequestsTyped
<1>6. Progress(r)'
  BY <1>1, <1>2, <1>3, <1>5 DEF Progress, Unwritten, store, history
<1>7. Answered(r)'
  BY <1>1, <1>2, <1>3, <1>5 DEF Answered, Unwritten, store, history
<1> QED
  BY <1>1, <1>4, <1>6, <1>7 DEF Own

LEMMA StartGood ==
  ASSUME CatalogInv, NEW r \in Requests, Start(r), UNCHANGED call
  PROVE  StoreStep(r) /\ Frame(r) /\ Own(r)'
<1>1. /\ RequestsTyped /\ Progress(r) /\ Answered(r) /\ call[r] \in Call
      /\ written[r] = 0 /\ response[r] = "none" /\ pc[r] = "new"
  BY OwnFacts DEF Start, Progress, Answered
<1>2. /\ undisturbed' = undisturbed \cup {r}
      /\ UNCHANGED <<driver, rows, live, nextID, todo, shown, audit, written>>
  BY DEF Start, Unshown, store
<1>3. StoreStep(r)
  BY <1>2 DEF StoreStep
<1>4. CASE InvalidInput(call[r]) /\ Finish(r, "invalid")
  <2>1. pc' = [pc EXCEPT ![r] = "done"] /\ response' = [response EXCEPT ![r] = "invalid"]
    BY <1>4 DEF Finish
  <2>2. Frame(r)
    BY <1>1, <1>2, <2>1 DEF Frame, RequestsTyped, Steps, Responses
  <2>3. Own(r)'
    BY <1>1, <1>2, <2>1 DEF Own, Progress, Answered, RequestsTyped
  <2> QED
    BY <1>3, <2>2, <2>3
<1>5. CASE ~InvalidInput(call[r]) /\ Continue(r, FirstStep(call[r]))
  <2>1. /\ FirstStep(call[r]) \in {"memory", "name", "target", "write", "find", "list"}
        /\ FirstStep(call[r]) = "find" => call[r].op = "get"
        /\ FirstStep(call[r]) = "list" => call[r].op = "list"
    BY <1>1 DEF FirstStep, Call, Writes
  <2>2. pc' = [pc EXCEPT ![r] = FirstStep(call[r])] /\ response' = response
    BY <1>5 DEF Continue
  <2>3. Frame(r)
    BY <1>1, <1>2, <2>1, <2>2 DEF Frame, RequestsTyped, Steps
  <2>4. pc'[r] = FirstStep(call[r])
    BY <1>1, <2>2 DEF RequestsTyped
  <2>5. InvalidInput(call[r])' <=> InvalidInput(call[r])
    BY DEF InvalidInput
  <2>6. Own(r)'
    BY <1>1, <1>2, <1>5, <2>1, <2>2, <2>4, <2>5 DEF Own, Progress, Answered
  <2> QED
    BY <1>3, <2>3, <2>6
<1> QED
  BY <1>4, <1>5 DEF Start

LEMMA ReadTargetGood ==
  ASSUME CatalogInv, NEW r \in Requests, ReadTarget(r), UNCHANGED call
  PROVE  StoreStep(r) /\ Frame(r) /\ Own(r)'
<1>1. pc[r] = "target" /\ written[r] = 0
  BY OwnFacts DEF ReadTarget, Progress
<1>2. CASE Refuse(r, "notFound")
  BY <1>1, <1>2, RefuseGood
<1>3. CASE Continue(r, "name") /\ Unshown /\ Unwritten
  BY <1>1, <1>3, GoOnGood
<1> QED
  BY <1>2, <1>3 DEF ReadTarget, Check

LEMMA CheckNameGood ==
  ASSUME CatalogInv, NEW r \in Requests, CheckName(r), UNCHANGED call
  PROVE  StoreStep(r) /\ Frame(r) /\ Own(r)'
<1>1. pc[r] = "name" /\ written[r] = 0
  BY OwnFacts DEF CheckName, Progress
<1>2. CASE Refuse(r, "conflict")
  BY <1>1, <1>2, RefuseGood
<1>3. CASE Continue(r, "write") /\ Unshown /\ Unwritten
  BY <1>1, <1>3, GoOnGood
<1> QED
  BY <1>2, <1>3 DEF CheckName, Check

LEMMA StoreFaultGood ==
  ASSUME CatalogInv, NEW r \in Requests, StoreFault(r), UNCHANGED call
  PROVE  StoreStep(r) /\ Frame(r) /\ Own(r)'
  BY RefuseGood DEF StoreFault

----------------------------------------------------------------------------
(* Steps that write *)

LEMMA CommitGood ==
  ASSUME CatalogInv, NEW r \in Requests, StoreStep(r), UNCHANGED call,
         pc[r] \in {"memory", "write"}, call[r].op \in Writes,
         NEW id \in Nat \ {0}, id < nextID'[call[r].kind],
         NEW step \in {"row", "audit"}, Commit(r, id, step),
         NEW left \in SUBSET Nat, todo' = [todo EXCEPT ![r] = left],
         left \subseteq DOMAIN rows'[call[r].kind], step = "row" => left = {id},
         NEW seen \in SUBSET Shown, shown' = [shown EXCEPT ![r] = seen]
  PROVE  Frame(r) /\ Own(r)'
<1>1. /\ RequestsTyped /\ Progress(r) /\ Answered(r)
      /\ response[r] = "none"
  BY OwnFacts DEF Answered
<1>2. /\ pc' = [pc EXCEPT ![r] = step] /\ written' = [written EXCEPT ![r] = id]
      /\ undisturbed' \subseteq Requests /\ UNCHANGED <<response, audit>>
  BY <1>1 DEF Commit, Continue, RequestsTyped
<1>3. Frame(r)
  BY <1>1, <1>2 DEF Frame, RequestsTyped, Steps
<1>4. pc'[r] = step /\ written'[r] = id /\ todo'[r] = left
  BY <1>1, <1>2 DEF RequestsTyped
<1>5. InvalidInput(call[r])' <=> InvalidInput(call[r])
  BY DEF InvalidInput
<1>6. Progress(r)'
  BY <1>1, <1>4, <1>5 DEF Progress
<1>7. Answered(r)'
  BY <1>1, <1>2, <1>4 DEF Answered
<1> QED
  BY <1>3, <1>6, <1>7 DEF Own

(* A row is inserted under a new ID. *)
LEMMA InsertGood ==
  ASSUME CatalogInv, NEW r \in Requests, UNCHANGED <<call, driver>>,
         call[r].op = "create", ~InvalidInput(call[r]),
         ~NameTaken(call[r].kind, 0, call[r].name), Insert(r)
  PROVE  /\ StoreStep(r)
         /\ nextID[call[r].kind] \in DOMAIN rows'[call[r].kind]
         /\ nextID[call[r].kind] \in Nat \ {0}
         /\ nextID[call[r].kind] < nextID'[call[r].kind]
<1>1. StoreStep(r)
  BY DEF StoreStep
<1>2. RowsTyped /\ call[r] \in Calls
  BY OwnFacts
<1> QED
  BY <1>1, <1>2, InsertTyped

(* A live row is replaced. *)
LEMMA ReplaceGood ==
  ASSUME CatalogInv, NEW r \in Requests, UNCHANGED <<call, driver>>,
         call[r].op = "update", ~InvalidInput(call[r]),
         call[r].target \in live[call[r].kind],
         ~NameTaken(call[r].kind, call[r].target, call[r].name), Replace(r)
  PROVE  /\ StoreStep(r)
         /\ call[r].target \in DOMAIN rows'[call[r].kind]
         /\ call[r].target \in Nat \ {0}
         /\ call[r].target < nextID'[call[r].kind]
<1>1. StoreStep(r)
  BY DEF StoreStep
<1>2. RowsTyped /\ call[r] \in Calls
  BY OwnFacts
<1> QED
  BY <1>1, <1>2, ReplaceTyped

(* A live row is removed; what is still to be read stays a row. *)
LEMMA RemoveGood ==
  ASSUME CatalogInv, NEW r \in Requests, UNCHANGED <<call, driver>>,
         call[r].target \in live[call[r].kind], Remove(r)
  PROVE  /\ StoreStep(r)
         /\ todo[r] \in SUBSET Nat /\ todo[r] \subseteq DOMAIN rows'[call[r].kind]
         /\ call[r].target \in Nat \ {0}
         /\ call[r].target < nextID'[call[r].kind]
<1>1. StoreStep(r)
  BY DEF StoreStep
<1>2. /\ RowsTyped /\ RequestsTyped /\ Progress(r) /\ call[r].kind \in Kinds
      /\ UNCHANGED <<rows, nextID>>
  BY OwnFacts DEF Remove
<1> QED
  BY <1>1, <1>2 DEF RowsTyped, RequestsTyped, Progress

LEMMA UnchangedAt ==
  ASSUME NEW S, NEW f \in [Requests -> S], NEW r \in Requests
  PROVE  f = [f EXCEPT ![r] = f[r]]
  OBVIOUS

LEMMA InsertRowGood ==
  ASSUME CatalogInv, NEW r \in Requests, InsertRow(r), UNCHANGED call
  PROVE  StoreStep(r) /\ Frame(r) /\ Own(r)'
<1> DEFINE c == call[r]
           id == nextID[c.kind]
<1>1. /\ RequestsTyped /\ Progress(r) /\ Answered(r) /\ c.kind \in Kinds /\ RowsTyped
      /\ pc[r] = "write" /\ c.op = "create" /\ ~InvalidInput(c) /\ written[r] = 0
      /\ response[r] = "none"
  BY OwnFacts DEF InsertRow, Progress, Answered
<1>2. CASE /\ Finish(r, "conflict")
           /\ nextID' = [nextID EXCEPT ![c.kind] = id + 1]
           /\ Unshown /\ UNCHANGED <<driver, rows, live, audit, history>>
  <2>1. StoreStep(r)
    BY <1>2 DEF StoreStep
  <2>2. /\ pc' = [pc EXCEPT ![r] = "done"] /\ response' = [response EXCEPT ![r] = "conflict"]
        /\ UNCHANGED <<todo, shown, written, undisturbed>>
    BY <1>2 DEF Finish, Unshown, history
  <2>3. Frame(r)
    BY <1>1, <1>2, <2>2 DEF Frame, RequestsTyped, Steps, Responses
  <2>4. Own(r)'
    BY <1>1, <1>2, <2>2 DEF Own, Progress, Answered, RequestsTyped
  <2> QED
    BY <2>1, <2>3, <2>4
<1>3. CASE /\ ~NameTaken(c.kind, 0, c.name) /\ Insert(r)
           /\ todo' = [todo EXCEPT ![r] = {id}] /\ UNCHANGED shown
           /\ Commit(r, id, "row")
  <2>1. /\ StoreStep(r) /\ id \in DOMAIN rows'[c.kind] /\ id \in Nat \ {0}
        /\ id < nextID'[c.kind]
    BY <1>1, <1>3, InsertGood DEF Commit
  <2>2. shown' = [shown EXCEPT ![r] = shown[r]] /\ shown[r] \in SUBSET Shown
    BY <1>1, <1>3, UnchangedAt DEF RequestsTyped
  <2>3. {id} \in SUBSET Nat /\ c.op \in Writes
    BY <1>1, <2>1 DEF Writes
  <2> HIDE DEF id
  <2> QED
    BY <1>1, <1>3, <2>1, <2>2, <2>3, CommitGood
<1> QED
  BY <1>2, <1>3 DEF InsertRow

LEMMA UpdateRowGood ==
  ASSUME CatalogInv, NEW r \in Requests, UpdateRow(r), UNCHANGED call
  PROVE  StoreStep(r) /\ Frame(r) /\ Own(r)'
<1> DEFINE c == call[r]
           id == c.target
<1>1. /\ RequestsTyped /\ Progress(r) /\ pc[r] = "write" /\ c.op = "update"
      /\ ~InvalidInput(c) /\ written[r] = 0
  BY OwnFacts DEF UpdateRow, Progress
<1>2. CASE Refuse(r, IF id \notin live[c.kind] THEN "notFound" ELSE "conflict")
  BY <1>1, <1>2, RefuseGood
<1>3. CASE /\ id \in live[c.kind] /\ ~NameTaken(c.kind, id, c.name)
           /\ Replace(r)
           /\ todo' = [todo EXCEPT ![r] = {id}] /\ UNCHANGED shown
           /\ Commit(r, id, "row")
  <2>1. /\ StoreStep(r) /\ id \in DOMAIN rows'[c.kind] /\ id \in Nat \ {0}
        /\ id < nextID'[c.kind]
    BY <1>1, <1>3, ReplaceGood DEF Commit
  <2>2. shown' = [shown EXCEPT ![r] = shown[r]] /\ shown[r] \in SUBSET Shown
    BY <1>1, <1>3, UnchangedAt DEF RequestsTyped
  <2>3. {id} \in SUBSET Nat /\ c.op \in Writes
    BY <1>1, <2>1 DEF Writes
  <2> QED
    BY <1>1, <1>3, <2>1, <2>2, <2>3, CommitGood
<1> QED
  BY <1>2, <1>3 DEF UpdateRow

LEMMA DeleteRowGood ==
  ASSUME CatalogInv, NEW r \in Requests, DeleteRow(r), UNCHANGED call
  PROVE  StoreStep(r) /\ Frame(r) /\ Own(r)'
<1> DEFINE c == call[r]
           id == c.target
<1>1. /\ RequestsTyped /\ Progress(r) /\ pc[r] = "write" /\ c.op = "delete" /\ written[r] = 0
  BY OwnFacts DEF DeleteRow, Progress
<1>2. CASE Refuse(r, "notFound")
  BY <1>1, <1>2, RefuseGood
<1>3. CASE /\ id \in live[c.kind] /\ Remove(r) /\ Unshown
           /\ Commit(r, id, "audit")
  <2>1. /\ StoreStep(r) /\ todo[r] \in SUBSET Nat /\ todo[r] \subseteq DOMAIN rows'[c.kind]
        /\ id \in Nat \ {0} /\ id < nextID'[c.kind]
    BY <1>1, <1>3, RemoveGood DEF Commit
  <2>2. /\ shown' = [shown EXCEPT ![r] = shown[r]] /\ shown[r] \in SUBSET Shown
        /\ todo' = [todo EXCEPT ![r] = todo[r]]
    BY <1>1, <1>3, UnchangedAt DEF RequestsTyped, Unshown
  <2>3. c.op \in Writes
    BY <1>1 DEF Writes
  <2> QED
    BY <1>1, <1>3, <2>1, <2>2, <2>3, CommitGood
<1> QED
  BY <1>2, <1>3 DEF DeleteRow

LEMMA MemoryWriteGood ==
  ASSUME CatalogInv, NEW r \in Requests, MemoryWrite(r), UNCHANGED call
  PROVE  StoreStep(r) /\ Frame(r) /\ Own(r)'
<1> DEFINE c == call[r]
           absent == c.op # "create" /\ c.target \notin live[c.kind]
           taken == c.op # "delete"
                    /\ NameTaken(c.kind, IF c.op = "create" THEN 0 ELSE c.target, c.name)
           id == IF c.op = "create" THEN nextID[c.kind] ELSE c.target
           seen == IF c.op = "delete" THEN {}
                   ELSE {[id |-> id, name |-> c.name, content |-> Submitted(c).content]}
<1>1. /\ RequestsTyped /\ Progress(r) /\ pc[r] = "memory" /\ c.op \in Writes
      /\ ~InvalidInput(c) /\ written[r] = 0 /\ c \in Calls /\ c \in Call
  BY OwnFacts DEF MemoryWrite, Progress
<1>2. CASE Refuse(r, IF absent THEN "notFound" ELSE "conflict")
  BY <1>1, <1>2, RefuseGood
<1>3. CASE /\ ~absent /\ ~taken
           /\ \/ c.op = "create" /\ Insert(r)
              \/ c.op = "update" /\ Replace(r)
              \/ c.op = "delete" /\ Remove(r)
           /\ shown' = [shown EXCEPT ![r] = seen]
           /\ Commit(r, id, "audit")
           /\ UNCHANGED todo
  <2>1. StoreStep(r) /\ id \in Nat \ {0} /\ id < nextID'[c.kind]
    <3>1. CASE c.op = "create" /\ Insert(r)
      BY <1>1, <1>3, <3>1, InsertGood DEF Commit
    <3>2. CASE c.op = "update" /\ Replace(r)
      BY <1>1, <1>3, <3>2, ReplaceGood DEF Commit
    <3>3. CASE c.op = "delete" /\ Remove(r)
      BY <1>1, <1>3, <3>3, RemoveGood DEF Commit
    <3> QED
      BY <1>3, <3>1, <3>2, <3>3
  <2>2. seen \in SUBSET Shown
    <3>1. CASE c.op = "delete"
      BY <3>1
    <3>2. CASE c.op \in {"create", "update"}
      <4>1. Submitted(c).content \in Seq(STRING)
        BY <1>1, <3>2, SubmittedStorable DEF Record
      <4> QED
        BY <1>1, <2>1, <3>2, <4>1 DEF Shown, Call
    <3> QED
      BY <1>1, <3>1, <3>2 DEF Writes
  <2>3. /\ todo' = [todo EXCEPT ![r] = todo[r]]
        /\ todo[r] \in SUBSET Nat /\ todo[r] \subseteq DOMAIN rows'[c.kind]
    BY <1>1, <1>3, <2>1, UnchangedAt, StoreStepTyped, OwnFacts
    DEF RequestsTyped, Progress, RowsGrow
  <2> HIDE DEF id, seen
  <2> QED
    BY <1>1, <1>3, <2>1, <2>2, <2>3, CommitGood
<1> QED
  BY <1>2, <1>3 DEF MemoryWrite

----------------------------------------------------------------------------
(* Steps that read *)

(* A request that reads goes on, or is answered if it writes nothing. *)
LEMMA ReadGood ==
  ASSUME CatalogInv, NEW r \in Requests, Unwritten, UNCHANGED call,
         pc[r] \notin {"new", "done"},
         NEW left \in SUBSET Nat, todo' = [todo EXCEPT ![r] = left],
         left \subseteq DOMAIN rows[call[r].kind],
         NEW seen \in SUBSET Shown, shown' = [shown EXCEPT ![r] = seen],
         \/ call[r].op \notin Writes /\ Finish(r, "ok")
         \/ /\ call[r].op \notin Writes /\ Continue(r, "row")
            /\ pc[r] = "find"
         \/ /\ call[r].kind = "dictionary" /\ Continue(r, "items")
            /\ call[r].op \in Writes => pc[r] \in {"row", "items"}
         \/ /\ call[r].op \in Writes /\ Continue(r, "audit")
            /\ pc[r] \in {"row", "items"}
  PROVE  StoreStep(r) /\ Frame(r) /\ Own(r)'
<1>1. StoreStep(r) /\ UNCHANGED <<driver, rows, live, nextID, audit, written, undisturbed>>
  BY UnwrittenStep DEF Unwritten, store, history
<1>2. /\ RequestsTyped /\ Progress(r) /\ Answered(r) /\ call[r].kind \in Kinds
      /\ response[r] = "none"
  BY OwnFacts DEF Answered
<1>3. /\ todo'[r] = left
      /\ InvalidInput(call[r])' <=> InvalidInput(call[r])
  BY <1>2 DEF RequestsTyped, InvalidInput
<1>4. CASE call[r].op \notin Writes /\ Finish(r, "ok")
  <2>1. pc' = [pc EXCEPT ![r] = "done"] /\ response' = [response EXCEPT ![r] = "ok"]
    BY <1>4 DEF Finish
  <2>2. Frame(r)
    BY <1>1, <1>2, <2>1 DEF Frame, RequestsTyped, Steps, Responses
  <2>3. Own(r)'
    BY <1>1, <1>2, <1>3, <1>4, <2>1 DEF Own, Progress, Answered, RequestsTyped
  <2> QED
    BY <1>1, <2>2, <2>3
<1>5. CASE \E step \in {"row", "items", "audit"} :
             /\ Continue(r, step)
             /\ step = "row" => call[r].op \notin Writes /\ pc[r] = "find"
             /\ step = "items" => call[r].kind = "dictionary"
             /\ step = "audit" => call[r].op \in Writes
             /\ call[r].op \in Writes => pc[r] \in {"row", "items"}
  <2>1. PICK step \in {"row", "items", "audit"} :
             /\ Continue(r, step)
             /\ step = "row" => call[r].op \notin Writes /\ pc[r] = "find"
             /\ step = "items" => call[r].kind = "dictionary"
             /\ step = "audit" => call[r].op \in Writes
             /\ call[r].op \in Writes => pc[r] \in {"row", "items"}
    BY <1>5
  <2>2. pc' = [pc EXCEPT ![r] = step] /\ response' = response
    BY <2>1 DEF Continue
  <2>3. Frame(r)
    BY <1>1, <1>2, <2>2 DEF Frame, RequestsTyped, Steps
  <2>4. pc'[r] = step
    BY <1>2, <2>2 DEF RequestsTyped
  <2>5. Progress(r)'
    BY <1>1, <1>2, <1>3, <2>1, <2>4 DEF Progress
  <2>6. Answered(r)'
    BY <1>1, <1>2, <2>2, <2>4 DEF Answered
  <2> QED
    BY <1>1, <2>3, <2>5, <2>6 DEF Own
<1> QED
  BY <1>4, <1>5

(* What is shown of rows. *)
LEMMA RowsShown ==
  ASSUME RowsTyped, NEW kind \in Kinds, NEW read \in SUBSET DOMAIN rows[kind]
  PROVE  /\ {ShowWhole(kind, id) : id \in read} \in SUBSET Shown
         /\ {Show(kind, id, <<>>) : id \in read} \in SUBSET Shown
         /\ read \in SUBSET Nat
<1>1. read \in SUBSET Nat
  BY DEF RowsTyped
<1> QED
  BY <1>1, ShownTyped

LEMMA MemoryReadGood ==
  ASSUME CatalogInv, NEW r \in Requests, MemoryRead(r), UNCHANGED call
  PROVE  StoreStep(r) /\ Frame(r) /\ Own(r)'
<1> DEFINE c == call[r]
           asked == {id \in live[c.kind] : c.op = "list" \/ rows[c.kind][id].name = c.name}
           seen == {ShowWhole(c.kind, id) : id \in asked}
<1>1. /\ RequestsTyped /\ RowsTyped /\ Progress(r) /\ pc[r] = "memory" /\ c.op \notin Writes
      /\ c.kind \in Kinds /\ written[r] = 0
  BY OwnFacts DEF MemoryRead, Progress, Writes
<1>2. CASE Refuse(r, "notFound")
  BY <1>1, <1>2, RefuseGood
<1>3. CASE /\ shown' = [shown EXCEPT ![r] = seen]
           /\ Finish(r, "ok") /\ UNCHANGED todo /\ Unwritten
  <2>1. asked \in SUBSET DOMAIN rows[c.kind]
    BY <1>1 DEF RowsTyped
  <2>2. seen \in SUBSET Shown
    BY <1>1, <2>1, RowsShown
  <2>3. /\ todo' = [todo EXCEPT ![r] = todo[r]]
        /\ todo[r] \in SUBSET Nat /\ todo[r] \subseteq DOMAIN rows[c.kind]
    BY <1>1, <1>3, UnchangedAt DEF RequestsTyped, Progress
  <2> HIDE DEF seen
  <2> QED
    BY <1>1, <1>3, <2>2, <2>3, ReadGood
<1> QED
  BY <1>2, <1>3 DEF MemoryRead

LEMMA FindRowGood ==
  ASSUME CatalogInv, NEW r \in Requests, FindRow(r), UNCHANGED call
  PROVE  StoreStep(r) /\ Frame(r) /\ Own(r)'
<1>1. /\ RequestsTyped /\ RowsTyped /\ Progress(r) /\ pc[r] = "find"
      /\ call[r].op \notin Writes /\ call[r].kind \in Kinds /\ written[r] = 0
  BY OwnFacts DEF FindRow, Progress, Writes
<1>2. CASE Refuse(r, "notFound")
  BY <1>1, <1>2, RefuseGood
<1>3. CASE \E id \in live[call[r].kind] :
             /\ todo' = [todo EXCEPT ![r] = {id}]
             /\ Continue(r, "row") /\ UNCHANGED shown /\ Unwritten
  <2>1. PICK id \in live[call[r].kind] :
             /\ todo' = [todo EXCEPT ![r] = {id}]
             /\ Continue(r, "row") /\ UNCHANGED shown /\ Unwritten
    BY <1>3
  <2>2. {id} \in SUBSET Nat /\ {id} \subseteq DOMAIN rows[call[r].kind]
    BY <1>1 DEF RowsTyped
  <2>3. shown' = [shown EXCEPT ![r] = shown[r]] /\ shown[r] \in SUBSET Shown
    BY <1>1, <2>1, UnchangedAt DEF RequestsTyped
  <2> QED
    BY <1>1, <2>1, <2>2, <2>3, ReadGood
<1> QED
  BY <1>2, <1>3 DEF FindRow

LEMMA RowsReadGood ==
  ASSUME CatalogInv, NEW r \in Requests, UNCHANGED call,
         NEW read \in SUBSET DOMAIN rows[call[r].kind], RowsRead(r, read),
         pc[r] \in {"row", "list"}, pc[r] = "list" => call[r].op \notin Writes
  PROVE  StoreStep(r) /\ Frame(r) /\ Own(r)'
<1> DEFINE k == call[r].kind
           parts == {Show(k, id, <<>>) : id \in read}
           whole == {ShowWhole(k, id) : id \in read}
<1>1. RowsTyped /\ k \in Kinds /\ Unwritten
  BY OwnFacts DEF RowsRead
<1>2. parts \in SUBSET Shown /\ whole \in SUBSET Shown /\ read \in SUBSET Nat
  BY <1>1, RowsShown
<1>3. CASE /\ k = "dictionary"
           /\ shown' = [shown EXCEPT ![r] = parts]
           /\ todo' = [todo EXCEPT ![r] = read]
           /\ Continue(r, "items")
  <2> HIDE DEF parts
  <2> QED
    BY <1>1, <1>2, <1>3, ReadGood
<1>4. CASE /\ shown' = [shown EXCEPT ![r] = whole]
           /\ todo' = [todo EXCEPT ![r] = {}]
           /\ AfterReading(r)
  <2> HIDE DEF whole
  <2>1. {} \in SUBSET Nat /\ {} \subseteq DOMAIN rows[call[r].kind]
    OBVIOUS
  <2> QED
    BY <1>1, <1>2, <1>4, <2>1, ReadGood DEF AfterReading
<1> QED
  BY <1>3, <1>4 DEF RowsRead

LEMMA ReadRowGood ==
  ASSUME CatalogInv, NEW r \in Requests, ReadRow(r), UNCHANGED call
  PROVE  StoreStep(r) /\ Frame(r) /\ Own(r)'
<1>1. /\ Progress(r) /\ todo[r] \subseteq DOMAIN rows[call[r].kind] /\ pc[r] = "row"
      /\ written[r] # 0 => todo[r] = {written[r]}
  BY OwnFacts DEF ReadRow, Progress
<1>2. CASE ~(todo[r] \subseteq live[call[r].kind]) /\ Refuse(r, "notFound")
  BY <1>1, <1>2, RefuseGood
<1>3. CASE RowsRead(r, todo[r])
  BY <1>1, <1>3, RowsReadGood
<1> QED
  BY <1>2, <1>3 DEF ReadRow

LEMMA ListRowsGood ==
  ASSUME CatalogInv, NEW r \in Requests, ListRows(r), UNCHANGED call
  PROVE  StoreStep(r) /\ Frame(r) /\ Own(r)'
<1>1. /\ pc[r] = "list" /\ call[r].op \notin Writes
      /\ live[call[r].kind] \in SUBSET DOMAIN rows[call[r].kind]
  BY OwnFacts DEF ListRows, Progress, RowsTyped, Writes
<1> QED
  BY <1>1, RowsReadGood DEF ListRows

LEMMA ReadItemsGood ==
  ASSUME CatalogInv, NEW r \in Requests, ReadItems(r), UNCHANGED call
  PROVE  StoreStep(r) /\ Frame(r) /\ Own(r)'
<1>1. /\ RequestsTyped /\ RowsTyped /\ Progress(r) /\ pc[r] = "items"
      /\ call[r].kind = "dictionary" /\ "dictionary" \in Kinds
      /\ todo[r] \subseteq DOMAIN rows[call[r].kind] /\ Unwritten
  BY OwnFacts DEF ReadItems, Progress
<1>2. PICK id \in todo[r] :
        /\ shown' = [shown EXCEPT ![r] =
                       {IF s.id = id THEN [s EXCEPT !.content = rows["dictionary"][id].content]
                        ELSE s : s \in shown[r]}]
        /\ todo' = [todo EXCEPT ![r] = todo[r] \ {id}]
        /\ \/ todo[r] = {id} /\ AfterReading(r)
           \/ todo[r] # {id} /\ UNCHANGED <<pc, response>>
  BY DEF ReadItems
<1> DEFINE left == todo[r] \ {id}
           seen == {IF s.id = id THEN [s EXCEPT !.content = rows["dictionary"][id].content]
                    ELSE s : s \in shown[r]}
<1>3. left \in SUBSET Nat /\ left \subseteq DOMAIN rows[call[r].kind]
  BY <1>1 DEF RequestsTyped
<1>4. seen \in SUBSET Shown
  <2>1. shown[r] \in SUBSET Shown
    BY <1>1 DEF RequestsTyped
  <2>2. rows["dictionary"][id].content \in Seq(STRING)
    BY <1>1 DEF RowsTyped, Record
  <2>3. \A s \in shown[r] : [s EXCEPT !.content = rows["dictionary"][id].content] \in Shown
    BY <2>1, <2>2 DEF Shown
  <2> QED
    BY <2>1, <2>3
<1>5. CASE AfterReading(r)
  <2> HIDE DEF left, seen
  <2>1. todo' = [todo EXCEPT ![r] = left] /\ shown' = [shown EXCEPT ![r] = seen]
    BY <1>2 DEF left, seen
  <2> QED
    BY <1>1, <1>3, <1>4, <1>5, <2>1, ReadGood DEF AfterReading
<1>6. CASE UNCHANGED <<pc, response>>
  <2>1. todo' = [todo EXCEPT ![r] = left] /\ shown' = [shown EXCEPT ![r] = seen]
    BY <1>2
  <2> HIDE DEF left, seen
  <2>2. pc' = [pc EXCEPT ![r] = "items"]
    BY <1>1, <1>6 DEF RequestsTyped
  <2>3. Continue(r, "items")
    BY <1>6, <2>2 DEF Continue
  <2> QED
    BY <1>1, <1>3, <1>4, <2>1, <2>3, ReadGood
<1> QED
  BY <1>2, <1>5, <1>6

LEMMA WriteAuditGood ==
  ASSUME CatalogInv, NEW r \in Requests, WriteAudit(r), UNCHANGED call
  PROVE  StoreStep(r) /\ Frame(r) /\ Own(r)'
<1>1. /\ RequestsTyped /\ Progress(r) /\ Answered(r) /\ pc[r] = "audit" /\ written[r] # 0
  BY OwnFacts DEF WriteAudit, Progress
<1>2. /\ pc' = [pc EXCEPT ![r] = "done"] /\ response' = [response EXCEPT ![r] = "ok"]
      /\ audit' = audit \cup {r}
      /\ UNCHANGED <<driver, rows, live, nextID, todo, shown, written, undisturbed>>
  BY DEF WriteAudit, Finish, Unshown, store, history
<1>3. StoreStep(r)
  BY <1>2 DEF StoreStep
<1>4. Frame(r)
  BY <1>1, <1>2 DEF Frame, RequestsTyped, Steps, Responses
<1>5. Own(r)'
  BY <1>1, <1>2 DEF Own, Progress, Answered, RequestsTyped
<1> QED
  BY <1>3, <1>4, <1>5

LEMMA WorkGood ==
  ASSUME CatalogInv, NEW r \in Requests, Work(r)
  PROVE  StoreStep(r) /\ Frame(r) /\ CatalogInv'
<1>1. StoreStep(r) /\ Frame(r) /\ Own(r)'
  BY StartGood, MemoryReadGood, MemoryWriteGood, ReadTargetGood, CheckNameGood,
     InsertRowGood, UpdateRowGood, DeleteRowGood, FindRowGood, ReadRowGood,
     ListRowsGood, ReadItemsGood, WriteAuditGood, StoreFaultGood
  DEF Work, Handle
<1> QED
  BY <1>1, StepKeepsInv

----------------------------------------------------------------------------
(* The server *)

LEMMA InvInit == ServerInit => IInv
<1> SUFFICES ASSUME ServerInit PROVE IInv
  OBVIOUS
<1>1. RowsTyped
  <2> SUFFICES ASSUME NEW kind \in Kinds
               PROVE  /\ nextID[kind] \in Nat \ {0}
                      /\ DOMAIN rows[kind] = 1..(nextID[kind] - 1)
                      /\ rows[kind] \in [DOMAIN rows[kind] -> Record]
                      /\ live[kind] = DOMAIN rows[kind]
                      /\ \A id \in DOMAIN rows[kind] : Storable(kind, rows[kind][id].content)
    <3>1. driver \in Drivers /\ rows = InitialRows /\ DOMAIN rows = Kinds
      BY CatalogAssumption DEF ServerInit, Init
    <3>2. DOMAIN live = Kinds /\ DOMAIN nextID = Kinds
      BY DEF ServerInit, Init
    <3>3. /\ live = [kind \in Kinds |-> live[kind]]
          /\ nextID = [kind \in Kinds |-> nextID[kind]]
      BY DEF ServerInit, Init
    <3>4. \A kind \in Kinds : live[kind] \in SUBSET Nat /\ nextID[kind] \in Nat \ {0}
      OBVIOUS
    <3>5. live \in [Kinds -> SUBSET Nat] /\ nextID \in [Kinds -> Nat \ {0}]
      BY <3>3, <3>4
    <3> QED
      BY <3>1, <3>5 DEF RowsTyped
  <2>1. InitialRows[kind] \in Seq(Record)
    BY CatalogAssumption
  <2>2. /\ rows[kind] = InitialRows[kind] /\ live[kind] = DOMAIN InitialRows[kind]
        /\ nextID[kind] = Len(InitialRows[kind]) + 1
    BY DEF ServerInit, Init
  <2>3. /\ Len(InitialRows[kind]) \in Nat
        /\ DOMAIN InitialRows[kind] = 1..Len(InitialRows[kind])
        /\ InitialRows[kind] \in [DOMAIN InitialRows[kind] -> Record]
    BY <2>1
  <2>4. \A id \in DOMAIN rows[kind] : Storable(kind, rows[kind][id].content)
    BY <2>2, CatalogAssumption
  <2> QED
    BY <2>2, <2>3, <2>4
<1>2. NamesDiffer
  <2>1. rows = InitialRows /\ \A kind \in Kinds : live[kind] = DOMAIN InitialRows[kind]
    BY DEF ServerInit, Init
  <2>2. \A kind \in Kinds : \A x, y \in DOMAIN InitialRows[kind] :
          InitialRows[kind][x].name = InitialRows[kind][y].name => x = y
    BY CatalogAssumption
  <2> QED
    BY <2>1, <2>2 DEF NamesDiffer
<1>3. RequestsTyped
  BY DEF RequestsTyped, ServerInit, Init, Steps, Responses
<1>4. \A r \in Requests : Progress(r) /\ Answered(r)
  BY <1>3 DEF Progress, Answered, ServerInit, Init, RequestsTyped
<1> QED
  BY <1>1, <1>2, <1>3, <1>4 DEF IInv, CatalogInv, ServerInit, Closed, Phases

(* A step either leaves the requests and the store alone or is the work of  *)
(* one request.                                                             *)
LEMMA InvNext ==
  ASSUME IInv, [ServerNext]_serverVars
  PROVE  /\ IInv'
         /\ UNCHANGED vars \/ \E r \in Requests : StoreStep(r)
<1>1. CASE UNCHANGED vars
  <2>1. CatalogInv'
    <3>1. /\ UNCHANGED <<driver, rows, live, nextID, pc, call, todo, shown>>
          /\ UNCHANGED <<response, audit, written, undisturbed>>
      BY <1>1 DEF vars, store, history
    <3>2. RowsTyped' /\ NamesDiffer' /\ RequestsTyped'
      BY <3>1 DEF IInv, CatalogInv, RowsTyped, NamesDiffer, RequestsTyped
    <3>3. ASSUME NEW r \in Requests
          PROVE  Progress(r)' /\ Answered(r)'
      <4>1. Progress(r) /\ Answered(r)
        BY DEF IInv, CatalogInv
      <4>2. InvalidInput(call[r])' <=> InvalidInput(call[r])
        BY <3>1
      <4> QED
        BY <3>1, <4>1, <4>2 DEF Progress, Answered
    <3> QED
      BY <3>2, <3>3 DEF CatalogInv
  <2>2. CASE RunServer
    BY <1>1, <2>1, <2>2 DEF RunServer, OpenStore, ListenFailed, BeginShutdown, Drained, TimeOut,
       CloseStore, Goto, IInv, Closed, AtWork, Phases, Ends, vars
  <2>3. CASE Signal \/ Kill
    BY <1>1, <2>1, <2>3 DEF Signal, Kill, Goto, IInv, Closed, AtWork, Phases, Ends, vars
  <2>4. CASE UNCHANGED server
    BY <1>1, <2>1, <2>4 DEF IInv, Closed, AtWork, server, vars
  <2> QED
    BY <1>1, <2>2, <2>3, <2>4 DEF ServerNext, Handling, Ended, serverVars
<1>2. ASSUME NEW r \in Requests, Handling(r)
      PROVE  IInv' /\ StoreStep(r)
  <2>1. StoreStep(r) /\ CatalogInv'
    BY <1>2, WorkGood DEF Handling, IInv
  <2>2. phase \notin {"closing", "stopped"}
    <3>1. pc[r] # "done"
      BY <1>2 DEF Handling, Work, Handle, Start, MemoryRead, MemoryWrite, ReadTarget, CheckName,
         InsertRow, UpdateRow, DeleteRow, FindRow, ReadRow, ListRows, ReadItems, WriteAudit,
         StoreFault
    <3> QED
      BY <1>2, <3>1 DEF Handling, IInv, Closed, AtWork, Running, Ends
  <2> QED
    BY <1>2, <2>1, <2>2 DEF Handling, IInv, Closed, server
<1>3. RunServer \/ Signal \/ Kill \/ Ended \/ UNCHANGED serverVars => UNCHANGED vars
  BY DEF RunServer, OpenStore, ListenFailed, BeginShutdown, Drained, TimeOut,
     CloseStore, Signal, Kill, Ended, Goto, serverVars
<1> QED
  BY <1>1, <1>2, <1>3 DEF ServerNext

LEMMA Invariance == ServerSpec => []IInv
<1>1. IInv /\ [ServerNext]_serverVars => IInv'
  BY InvNext
<1> QED
  BY InvInit, <1>1, PTL DEF ServerSpec

----------------------------------------------------------------------------
(* Theorems *)

(* The variables keep their types, and nothing is stored that was not checked: *)
(* the items of a dictionary are distinct, the value of a setting is JSON.     *)
THEOREM TypeCorrect == ServerSpec => []ServerTypeOK
<1>1. IInv => ServerTypeOK
  <2> SUFFICES ASSUME IInv PROVE ServerTypeOK
    OBVIOUS
  <2>1. call \in [Requests -> Call]
    BY CatalogAssumption DEF IInv, CatalogInv, RequestsTyped
  <2> QED
    BY <2>1 DEF IInv, CatalogInv, RowsTyped, RequestsTyped, ServerTypeOK, TypeOK
<1> QED
  BY Invariance, <1>1, PTL

(* Success is answered only to an audited write, and a request whose write     *)
(* took effect is told so, told of an internal error, or told that a record    *)
(* which is indeed gone is not there.                                          *)
THEOREM AnswersCorrect == ServerSpec => []AnswersFitEffects
<1>1. IInv => AnswersFitEffects
  BY DEF IInv, CatalogInv, Answered, AnswersFitEffects
<1> QED
  BY Invariance, <1>1, PTL

(* When the store is being closed, every request that was let in has been      *)
(* answered, and every write answered with success is audited.                 *)
THEOREM StopIsGraceful == ServerSpec => []GracefulStop
<1>1. IInv => GracefulStop
  <2> SUFFICES ASSUME IInv, phase \in {"closing", "stopped"}, NEW r \in Requests
               PROVE  /\ response[r] = "none" => pc[r] = "new" /\ written[r] = 0
                      /\ written[r] # 0 => r \in audit \/ response[r] \in {"internal", "notFound"}
    BY DEF GracefulStop
  <2>1. pc[r] \in {"new", "done"} /\ Progress(r) /\ Answered(r)
    BY DEF IInv, CatalogInv, Closed, AtWork
  <2> QED
    BY <2>1 DEF Progress, Answered
<1> QED
  BY Invariance, <1>1, PTL

----------------------------------------------------------------------------
(* Tables of named records *)

RecordStored(kind) ==
  \E id \in live'[kind] :
    /\ \/ id \in live[kind] /\ nextID'[kind] = nextID[kind]
       \/ id = nextID[kind] /\ nextID'[kind] = id + 1
    /\ live'[kind] \ {id} = live[kind] \ {id}
    /\ \A x \in live[kind] \ {id} : rows'[kind][x] = rows[kind][x]

RecordRemoved(kind) ==
  /\ \E id \in live[kind] : live'[kind] = live[kind] \ {id}
  /\ rows'[kind] = rows[kind] /\ nextID'[kind] = nextID[kind]

KindStep(kind) ==
  \/ live'[kind] = live[kind] /\ rows'[kind] = rows[kind] /\ nextID'[kind] >= nextID[kind]
  \/ RecordStored(kind)
  \/ RecordRemoved(kind)

LEMMA StoreStepOfKind ==
  ASSUME CatalogInv, NEW r \in Requests, StoreStep(r), NEW kind \in Kinds
  PROVE  KindStep(kind)
<1> DEFINE c == call[r]
           k == c.kind
<1>1. RowsTyped /\ k \in Kinds
  BY OwnFacts
<1>2. nextID[kind] \in Nat \ {0} /\ nextID[k] \in Nat \ {0}
  BY <1>1 DEF RowsTyped
<1>3. CASE UNCHANGED <<rows, live>> /\ nextID' = nextID
  BY <1>2, <1>3 DEF KindStep
<1>4. CASE UNCHANGED <<rows, live>> /\ nextID' = [nextID EXCEPT ![k] = @ + 1]
  BY <1>1, <1>2, <1>4 DEF KindStep, RowsTyped
<1>5. CASE Insert(r)
  <2> DEFINE id == nextID[k]
  <2>1. /\ rows' = [rows EXCEPT ![k] = Put(rows[k], id, Submitted(c))]
        /\ live' = [live EXCEPT ![k] = live[k] \cup {id}]
        /\ nextID' = [nextID EXCEPT ![k] = id + 1]
    BY <1>5 DEF Insert
  <2>2. CASE kind = k
    <3>1. /\ rows'[kind] = Put(rows[kind], id, Submitted(c))
          /\ live'[kind] = live[kind] \cup {id} /\ nextID'[kind] = id + 1
      BY <1>1, <2>1, <2>2 DEF RowsTyped
    <3>2. \A x \in live[kind] \ {id} : rows'[kind][x] = rows[kind][x]
      BY <1>1, <3>1 DEF Put, RowsTyped
    <3> QED
      BY <2>2, <3>1, <3>2 DEF KindStep, RecordStored
  <2>3. CASE kind # k
    <3>1. rows'[kind] = rows[kind] /\ live'[kind] = live[kind] /\ nextID'[kind] = nextID[kind]
      BY <1>1, <2>1, <2>3 DEF RowsTyped
    <3> QED
      BY <1>2, <3>1 DEF KindStep
  <2> QED
    BY <2>2, <2>3
<1>6. CASE c.target \in live[k] /\ Replace(r)
  <2> DEFINE id == c.target
  <2>1. /\ rows' = [rows EXCEPT ![k] = Put(rows[k], id, Submitted(c))]
        /\ UNCHANGED <<live, nextID>>
    BY <1>6 DEF Replace
  <2>2. CASE kind = k
    <3>1. rows'[kind] = Put(rows[kind], id, Submitted(c))
      BY <1>1, <2>1, <2>2 DEF RowsTyped
    <3>2. \A x \in live[kind] \ {id} : rows'[kind][x] = rows[kind][x]
      BY <1>1, <3>1 DEF Put, RowsTyped
    <3> QED
      BY <1>6, <2>1, <2>2, <3>2 DEF KindStep, RecordStored
  <2>3. CASE kind # k
    <3>1. rows'[kind] = rows[kind]
      BY <1>1, <2>1, <2>3 DEF RowsTyped
    <3> QED
      BY <1>2, <2>1, <3>1 DEF KindStep
  <2> QED
    BY <2>2, <2>3
<1>7. CASE c.target \in live[k] /\ Remove(r)
  <2>1. /\ live' = [live EXCEPT ![k] = live[k] \ {c.target}]
        /\ UNCHANGED <<rows, nextID>>
    BY <1>7 DEF Remove
  <2>2. CASE kind = k
    BY <1>1, <1>7, <2>1, <2>2 DEF KindStep, RecordRemoved, RowsTyped
  <2>3. CASE kind # k
    <3>1. live'[kind] = live[kind]
      BY <1>1, <2>1, <2>3 DEF RowsTyped
    <3> QED
      BY <1>2, <2>1, <3>1 DEF KindStep
  <2> QED
    BY <2>2, <2>3
<1> QED
  BY <1>3, <1>4, <1>5, <1>6, <1>7 DEF StoreStep

LEMMA DictionariesStep ==
  ASSUME RowsTyped, RowsTyped', NamesDiffer', KindStep("dictionary")
  PROVE  [Dictionaries!Next]_(Dictionaries!vars)
<1> DEFINE k == "dictionary"
           rs == LiveRecords(k)
           ss == LiveRecords(k)'
           used == 1..(nextID[k] - 1)
           using == 1..(nextID'[k] - 1)
<1>1. /\ k \in Kinds /\ nextID[k] \in Nat \ {0} /\ nextID'[k] \in Nat \ {0}
      /\ live[k] \subseteq used
  BY DEF RowsTyped, Kinds
<1>2. /\ DOMAIN rs = live[k] /\ DOMAIN ss = live'[k]
      /\ \A x \in live[k] : rs[x] = rows[k][x]
      /\ \A x \in live'[k] : ss[x] = rows'[k][x]
  BY DEF LiveRecords
<1>3. Dictionaries!Unique(ss)
  BY <1>1, <1>2 DEF Dictionaries!Unique, NamesDiffer
<1> HIDE DEF k, rs, ss
<1>4. CASE live'[k] = live[k] /\ rows'[k] = rows[k] /\ nextID'[k] >= nextID[k]
  <2>1. ss = rs
    BY <1>4 DEF rs, ss, LiveRecords
  <2>2. used \subseteq using
    BY <1>1, <1>4
  <2>3. Dictionaries!LoseID
    BY <2>1, <2>2 DEF Dictionaries!LoseID, rs, ss, k
  <2> QED
    BY <1>3, <2>3 DEF Dictionaries!Next, ss, k
<1>5. CASE RecordStored(k)
  <2>1. PICK id \in live'[k] :
          /\ \/ id \in live[k] /\ nextID'[k] = nextID[k]
             \/ id = nextID[k] /\ nextID'[k] = id + 1
          /\ live'[k] \ {id} = live[k] \ {id}
          /\ \A x \in live[k] \ {id} : rows'[k][x] = rows[k][x]
    BY <1>5 DEF RecordStored
  <2>2. Dictionaries!OthersKept(id)
    BY <1>2, <2>1 DEF Dictionaries!OthersKept, rs, ss, k
  <2>3. using = used \cup {id} /\ (id \in DOMAIN rs \/ id \notin used)
    BY <1>1, <1>2, <2>1
  <2>4. Dictionaries!Store
    BY <1>2, <2>2, <2>3 DEF Dictionaries!Store, rs, ss, k
  <2> QED
    BY <1>3, <2>4 DEF Dictionaries!Next, ss, k
<1>6. CASE RecordRemoved(k)
  <2>1. PICK id \in live[k] : live'[k] = live[k] \ {id}
    BY <1>6 DEF RecordRemoved
  <2>2. /\ rows'[k] = rows[k] /\ nextID'[k] = nextID[k]
    BY <1>6 DEF RecordRemoved
  <2>3. Dictionaries!OthersKept(id)
    BY <1>2, <2>1, <2>2 DEF Dictionaries!OthersKept, rs, ss, k
  <2>4. Dictionaries!Remove
    BY <1>2, <2>1, <2>2, <2>3 DEF Dictionaries!Remove, rs, ss, k
  <2> QED
    BY <1>3, <2>4 DEF Dictionaries!Next, ss, k
<1> QED
  BY <1>4, <1>5, <1>6 DEF KindStep, k

LEMMA SettingsStep ==
  ASSUME RowsTyped, RowsTyped', NamesDiffer', KindStep("setting")
  PROVE  [Settings!Next]_(Settings!vars)
<1> DEFINE k == "setting"
           rs == LiveRecords(k)
           ss == LiveRecords(k)'
           used == 1..(nextID[k] - 1)
           using == 1..(nextID'[k] - 1)
<1>1. /\ k \in Kinds /\ nextID[k] \in Nat \ {0} /\ nextID'[k] \in Nat \ {0}
      /\ live[k] \subseteq used
  BY DEF RowsTyped, Kinds
<1>2. /\ DOMAIN rs = live[k] /\ DOMAIN ss = live'[k]
      /\ \A x \in live[k] : rs[x] = rows[k][x]
      /\ \A x \in live'[k] : ss[x] = rows'[k][x]
  BY DEF LiveRecords
<1>3. Settings!Unique(ss)
  BY <1>1, <1>2 DEF Settings!Unique, NamesDiffer
<1> HIDE DEF k, rs, ss
<1>4. CASE live'[k] = live[k] /\ rows'[k] = rows[k] /\ nextID'[k] >= nextID[k]
  <2>1. ss = rs
    BY <1>4 DEF rs, ss, LiveRecords
  <2>2. used \subseteq using
    BY <1>1, <1>4
  <2>3. Settings!LoseID
    BY <2>1, <2>2 DEF Settings!LoseID, rs, ss, k
  <2> QED
    BY <1>3, <2>3 DEF Settings!Next, ss, k
<1>5. CASE RecordStored(k)
  <2>1. PICK id \in live'[k] :
          /\ \/ id \in live[k] /\ nextID'[k] = nextID[k]
             \/ id = nextID[k] /\ nextID'[k] = id + 1
          /\ live'[k] \ {id} = live[k] \ {id}
          /\ \A x \in live[k] \ {id} : rows'[k][x] = rows[k][x]
    BY <1>5 DEF RecordStored
  <2>2. Settings!OthersKept(id)
    BY <1>2, <2>1 DEF Settings!OthersKept, rs, ss, k
  <2>3. using = used \cup {id} /\ (id \in DOMAIN rs \/ id \notin used)
    BY <1>1, <1>2, <2>1
  <2>4. Settings!Store
    BY <1>2, <2>2, <2>3 DEF Settings!Store, rs, ss, k
  <2> QED
    BY <1>3, <2>4 DEF Settings!Next, ss, k
<1>6. CASE RecordRemoved(k)
  <2>1. PICK id \in live[k] : live'[k] = live[k] \ {id}
    BY <1>6 DEF RecordRemoved
  <2>2. /\ rows'[k] = rows[k] /\ nextID'[k] = nextID[k]
    BY <1>6 DEF RecordRemoved
  <2>3. Settings!OthersKept(id)
    BY <1>2, <2>1, <2>2 DEF Settings!OthersKept, rs, ss, k
  <2>4. Settings!Remove
    BY <1>2, <2>1, <2>2, <2>3 DEF Settings!Remove, rs, ss, k
  <2> QED
    BY <1>3, <2>4 DEF Settings!Next, ss, k
<1> QED
  BY <1>4, <1>5, <1>6 DEF KindStep, k

LEMMA RecordsStep ==
  ASSUME IInv, IInv', [ServerNext]_serverVars
  PROVE  [Dictionaries!Next]_(Dictionaries!vars) /\ [Settings!Next]_(Settings!vars)
<1>1. CASE UNCHANGED vars
  <2>1. \A kind \in Kinds : LiveRecords(kind)' = LiveRecords(kind) /\ nextID'[kind] = nextID[kind]
    BY <1>1 DEF vars, store, LiveRecords
  <2> QED
    BY <2>1 DEF Dictionaries!vars, Settings!vars, Kinds
<1>2. CASE \E r \in Requests : StoreStep(r)
  <2>1. CatalogInv /\ RowsTyped /\ RowsTyped' /\ NamesDiffer'
    BY DEF IInv, CatalogInv
  <2>2. KindStep("dictionary") /\ KindStep("setting")
    BY <1>2, <2>1, StoreStepOfKind DEF Kinds
  <2> QED
    BY <2>1, <2>2, DictionariesStep, SettingsStep
<1> QED
  BY <1>1, <1>2, InvNext

(* Over either store dictionaries and settings are tables of named records:    *)
(* every step stores one record under its own or a new ID, removes one, or     *)
(* uses up an ID, and no two live records share a code or key.                 *)
THEOREM RecordsImplemented == ServerSpec => ImplementsRecords
<1>1. IInv => Dictionaries!Init /\ Settings!Init
  <2> SUFFICES ASSUME IInv PROVE Dictionaries!Init /\ Settings!Init
    OBVIOUS
  <2>1. RowsTyped /\ NamesDiffer
    BY DEF IInv, CatalogInv
  <2> QED
    BY <2>1 DEF Dictionaries!Init, Settings!Init, Dictionaries!Unique, Settings!Unique,
       LiveRecords, RowsTyped, NamesDiffer, Kinds
<1>2. IInv /\ IInv' /\ [ServerNext]_serverVars
        => [Dictionaries!Next]_(Dictionaries!vars) /\ [Settings!Next]_(Settings!vars)
  BY RecordsStep
<1> QED
  BY <1>1, <1>2, Invariance, PTL
  DEF ServerSpec, ImplementsRecords, Dictionaries!Spec, Settings!Spec

----------------------------------------------------------------------------
(* Answers that show what is stored *)

(* The IDs of the records a request is to be shown. *)
Asked(r) ==
  LET c == call[r]
  IN  CASE c.op = "delete" -> {}
        [] c.op = "list" -> live[c.kind]
        [] c.op = "get" -> {id \in live[c.kind] : rows[c.kind][id].name = c.name}
        [] OTHER -> {written[r]}

(* What is shown of rows with the given IDs, without the items unread yet. *)
Copies(rs, ids, unread) ==
  {[id |-> id, name |-> rs[id].name,
    content |-> IF id \in unread THEN <<>> ELSE rs[id].content] : id \in ids}

StepsBeforeReading == {"new", "memory", "target", "name", "write", "find", "list", "row"}

WriteStands(r) ==
  LET c == call[r]
  IN  written[r] \in live[c.kind] /\ rows[c.kind][written[r]] = Submitted(c)

(* For a request that no other has disturbed: what it has written is still  *)
(* there, and what it has read is still so.                                 *)
StillStored(r) ==
  LET rs == rows[call[r].kind]
  IN
  /\ pc[r] # "done" /\ written[r] # 0 /\ call[r].op # "delete" => WriteStands(r)
  /\ pc[r] = "row" => todo[r] = Asked(r)
  /\ pc[r] = "items" => /\ todo[r] \subseteq Asked(r)
                        /\ shown[r] = Copies(rs, Asked(r), todo[r])
  /\ pc[r] = "audit" => shown[r] = Copies(rs, Asked(r), {})

Showing(r) ==
  /\ pc[r] \in StepsBeforeReading => shown[r] = {}
  /\ r \in undisturbed => StillStored(r)

ShownInv == IInv /\ \A r \in Requests : Showing(r)

(* What a step of a request does to what others rely on, and what it answers. *)
Disturbs(r) ==
  \/ UNCHANGED <<rows, live>> /\ undisturbed' \subseteq undisturbed \cup {r}
  \/ undisturbed' \subseteq {r}

ShowsStored(r) ==
  r \in undisturbed /\ response[r] = "none" /\ response'[r] = "ok" =>
    /\ shown'[r] = Copies(rows[call[r].kind], Asked(r), {})
    /\ call[r].op \in {"create", "update"} => WriteStands(r)

(* Nothing is asked for but rows. *)
LEMMA AskedOfOp ==
  ASSUME NEW r \in Requests, call[r] \in Call
  PROVE  /\ call[r].op = "delete" => Asked(r) = {}
         /\ call[r].op = "list" => Asked(r) = live[call[r].kind]
         /\ call[r].op = "get" =>
              Asked(r) = {id \in live[call[r].kind] : rows[call[r].kind][id].name = call[r].name}
         /\ call[r].op \in {"create", "update"} => Asked(r) = {written[r]}
         /\ call[r].op \in {"create", "update", "delete", "get", "list"}
  BY DEF Asked, Call, Writes

LEMMA CopiesOfRows ==
  ASSUME NEW kind, NEW ids
  PROVE  /\ {ShowWhole(kind, id) : id \in ids} = Copies(rows[kind], ids, {})
         /\ {Show(kind, id, <<>>) : id \in ids} = Copies(rows[kind], ids, ids)
  BY DEF ShowWhole, Show, Copies

(* Reading the items of one more row. *)
LEMMA CopiesReadOn ==
  ASSUME NEW rs, NEW ids, NEW unread, NEW id \in unread
  PROVE  {IF s.id = id THEN [s EXCEPT !.content = rs[id].content] ELSE s :
            s \in Copies(rs, ids, unread)}
           = Copies(rs, ids, unread \ {id})
<1> DEFINE Copy(x) == [id |-> x, name |-> rs[x].name,
                       content |-> IF x \in unread THEN <<>> ELSE rs[x].content]
           NextCopy(x) == [id |-> x, name |-> rs[x].name,
                       content |-> IF x \in unread \ {id} THEN <<>> ELSE rs[x].content]
           Turn(s) == IF s.id = id THEN [s EXCEPT !.content = rs[id].content] ELSE s
<1>1. \A x \in ids : Turn(Copy(x)) = NextCopy(x)
  OBVIOUS
<1>2. /\ Copies(rs, ids, unread) = {Copy(x) : x \in ids}
      /\ Copies(rs, ids, unread \ {id}) = {NextCopy(x) : x \in ids}
  BY DEF Copies
<1> HIDE DEF Copy, NextCopy, Turn
<1>3. {Turn(s) : s \in {Copy(x) : x \in ids}} = {NextCopy(x) : x \in ids}
  BY <1>1
<1> QED
  BY <1>2, <1>3 DEF Turn

(* Others go on relying on what a step has not disturbed. *)
LEMMA OthersKeepShowing ==
  ASSUME CatalogInv, NEW r \in Requests, Frame(r), Disturbs(r),
         NEW q \in Requests \ {r}, Showing(q)
  PROVE  Showing(q)'
<1>1. /\ pc'[q] = pc[q] /\ todo'[q] = todo[q] /\ shown'[q] = shown[q]
      /\ written'[q] = written[q] /\ call' = call
  BY DEF Frame
<1>2. CASE q \notin undisturbed'
  BY <1>1, <1>2 DEF Showing
<1>3. CASE UNCHANGED <<rows, live>> /\ q \in undisturbed
  <2>1. Asked(q)' = Asked(q)
    BY <1>1, <1>3 DEF Asked
  <2>2. WriteStands(q)' <=> WriteStands(q)
    BY <1>1, <1>3 DEF WriteStands, Submitted
  <2> QED
    BY <1>1, <1>3, <2>1, <2>2 DEF Showing, StillStored
<1> QED
  BY <1>2, <1>3 DEF Disturbs

(* A step that ends without success, or before anything was read or written. *)
LEMMA UnshownEnd ==
  ASSUME NEW r \in Requests, pc'[r] = "done", response'[r] # "ok"
  PROVE  Showing(r)' /\ ShowsStored(r)
  BY DEF Showing, StillStored, ShowsStored, StepsBeforeReading

LEMMA EarlyStep ==
  ASSUME CatalogInv', NEW r \in Requests, Showing(r), pc[r] \in StepsBeforeReading,
         UNCHANGED <<response, shown>>, pc'[r] \in StepsBeforeReading \ {"row"}
  PROVE  Showing(r)' /\ ShowsStored(r)
<1>1. Progress(r)'
  BY DEF CatalogInv
<1> QED
  BY <1>1 DEF Progress, Showing, StillStored, ShowsStored, StepsBeforeReading

LEMMA RefuseShows ==
  ASSUME CatalogInv, NEW r \in Requests, NEW answer \in Responses \ {"ok"},
         Refuse(r, answer)
  PROVE  Disturbs(r) /\ Showing(r)' /\ ShowsStored(r)
<1>1. pc'[r] = "done" /\ response'[r] = answer
  BY OwnFacts DEF Refuse, Finish, RequestsTyped
<1>2. Disturbs(r)
  BY DEF Refuse, Unwritten, store, history, Disturbs
<1> QED
  BY <1>1, <1>2, UnshownEnd

LEMMA StartShows ==
  ASSUME CatalogInv, CatalogInv', NEW r \in Requests, Showing(r), Start(r)
  PROVE  Disturbs(r) /\ Showing(r)' /\ ShowsStored(r)
<1>1. /\ pc[r] = "new" /\ call[r] \in Call /\ pc \in [Requests -> Steps]
      /\ response \in [Requests -> Responses]
  BY OwnFacts DEF Start, RequestsTyped
<1>2. Disturbs(r) /\ UNCHANGED shown
  BY DEF Start, store, Disturbs, Unshown
<1>3. CASE Finish(r, "invalid")
  BY <1>1, <1>2, <1>3, UnshownEnd DEF Finish
<1>4. CASE Continue(r, FirstStep(call[r]))
  <2>1. FirstStep(call[r]) \in StepsBeforeReading \ {"row"}
    BY <1>1 DEF FirstStep, Call, Writes, StepsBeforeReading
  <2>2. pc'[r] = FirstStep(call[r]) /\ UNCHANGED response
    BY <1>1, <1>4 DEF Continue
  <2> QED
    BY <1>1, <1>2, <2>1, <2>2, EarlyStep DEF StepsBeforeReading
<1> QED
  BY <1>3, <1>4 DEF Start

LEMMA CheckShows ==
  ASSUME CatalogInv, CatalogInv', NEW r \in Requests, Showing(r),
         ReadTarget(r) \/ CheckName(r)
  PROVE  Disturbs(r) /\ Showing(r)' /\ ShowsStored(r)
<1>1. /\ pc[r] \in {"target", "name"} /\ pc \in [Requests -> Steps]
      /\ "notFound" \in Responses \ {"ok"} /\ "conflict" \in Responses \ {"ok"}
  BY OwnFacts DEF ReadTarget, CheckName, RequestsTyped, Responses
<1>2. CASE Refuse(r, "notFound") \/ Refuse(r, "conflict")
  BY <1>1, <1>2, RefuseShows
<1>3. ASSUME NEW step \in {"name", "write"}, Continue(r, step), Unshown, Unwritten
      PROVE  Disturbs(r) /\ Showing(r)' /\ ShowsStored(r)
  <2>1. Disturbs(r)
    BY <1>3 DEF Unwritten, store, history, Disturbs
  <2>2. pc'[r] = step /\ UNCHANGED <<response, shown>>
    BY <1>1, <1>3 DEF Continue, Unshown
  <2> QED
    BY <1>1, <2>1, <2>2, EarlyStep DEF StepsBeforeReading
<1> QED
  BY <1>2, <1>3 DEF ReadTarget, CheckName, Check

LEMMA WriteAuditShows ==
  ASSUME CatalogInv, NEW r \in Requests, Showing(r), WriteAudit(r)
  PROVE  Disturbs(r) /\ Showing(r)' /\ ShowsStored(r)
<1>1. /\ pc[r] = "audit" /\ pc \in [Requests -> Steps] /\ Progress(r)
      /\ call[r].op \in Writes /\ written[r] # 0
  BY OwnFacts DEF WriteAudit, RequestsTyped, Progress
<1>2. pc'[r] = "done" /\ UNCHANGED <<rows, live, undisturbed, shown>>
  BY <1>1 DEF WriteAudit, Finish, Unshown, store, history
<1>3. Disturbs(r) /\ Showing(r)'
  BY <1>2 DEF Disturbs, Showing, StillStored, StepsBeforeReading
<1>4. ShowsStored(r)
  BY <1>1, <1>2 DEF ShowsStored, Showing, StillStored
<1> QED
  BY <1>3, <1>4

(* What was read last is answered, by a write after its audit entry. *)
LEMMA WholeShows ==
  ASSUME CatalogInv, CatalogInv', NEW r \in Requests, Unwritten, UNCHANGED call, Showing(r),
         pc[r] \in {"memory", "list", "row", "items"},
         AfterReading(r),
         r \in undisturbed => shown'[r] = Copies(rows[call[r].kind], Asked(r), {})
  PROVE  Disturbs(r) /\ Showing(r)' /\ ShowsStored(r)
<1>1. /\ pc \in [Requests -> Steps] /\ call[r] \in Call /\ Progress(r)
      /\ UNCHANGED <<rows, live, written, undisturbed>>
      /\ Disturbs(r)
  BY OwnFacts DEF RequestsTyped, Unwritten, store, history, Disturbs
<1>2. Asked(r)' = Asked(r) /\ (WriteStands(r)' <=> WriteStands(r))
  BY <1>1 DEF Asked, WriteStands, Submitted
<1>3. CASE Continue(r, "audit")
  <2>1. pc'[r] = "audit" /\ response' = response
    BY <1>1, <1>3 DEF Continue
  <2>2. Showing(r)'
    BY <1>1, <1>2, <2>1 DEF Showing, StillStored, StepsBeforeReading
  <2> QED
    BY <1>1, <2>1, <2>2 DEF ShowsStored
<1>4. CASE call[r].op \notin Writes /\ Finish(r, "ok")
  <2>1. pc'[r] = "done"
    BY <1>1, <1>4 DEF Finish
  <2>2. Showing(r)'
    BY <1>1, <2>1 DEF Showing, StillStored, StepsBeforeReading
  <2> QED
    BY <1>1, <1>4, <2>2 DEF ShowsStored, Writes
<1> QED
  BY <1>3, <1>4 DEF AfterReading

LEMMA MemoryReadShows ==
  ASSUME CatalogInv, CatalogInv', NEW r \in Requests, Showing(r), MemoryRead(r), UNCHANGED call
  PROVE  Disturbs(r) /\ Showing(r)' /\ ShowsStored(r)
<1> DEFINE c == call[r]
           asked == {id \in live[c.kind] : c.op = "list" \/ rows[c.kind][id].name = c.name}
<1>1. pc[r] = "memory" /\ c.op \in {"get", "list"} /\ call[r] \in Call
      /\ shown \in [Requests -> SUBSET Shown] /\ "notFound" \in Responses \ {"ok"}
  BY OwnFacts DEF MemoryRead, RequestsTyped, Responses
<1>2. CASE Refuse(r, "notFound")
  BY <1>1, <1>2, RefuseShows
<1>3. CASE /\ shown' = [shown EXCEPT ![r] = {ShowWhole(c.kind, id) : id \in asked}]
           /\ Finish(r, "ok")
           /\ UNCHANGED todo /\ Unwritten
  <2>1. asked = Asked(r)
    BY <1>1, AskedOfOp
  <2>2. shown'[r] = {ShowWhole(c.kind, id) : id \in asked}
    BY <1>1, <1>3
  <2>3. shown'[r] = Copies(rows[c.kind], Asked(r), {})
    BY <2>1, <2>2, CopiesOfRows
  <2>4. AfterReading(r)
    BY <1>1, <1>3 DEF AfterReading, Writes
  <2> QED
    BY <1>1, <1>3, <2>3, <2>4, WholeShows
<1> QED
  BY <1>2, <1>3 DEF MemoryRead

LEMMA RowsReadShows ==
  ASSUME CatalogInv, CatalogInv', NEW r \in Requests, Showing(r), UNCHANGED call,
         pc[r] \in {"list", "row"}, NEW read, RowsRead(r, read),
         r \in undisturbed => read = Asked(r)
  PROVE  Disturbs(r) /\ Showing(r)' /\ ShowsStored(r)
<1> DEFINE k == call[r].kind
<1>1. /\ pc \in [Requests -> Steps] /\ call[r] \in Call /\ Progress(r) /\ Unwritten
      /\ UNCHANGED <<rows, live, written, undisturbed>>
      /\ Disturbs(r) /\ shown \in [Requests -> SUBSET Shown]
      /\ todo \in [Requests -> SUBSET Nat]
  BY OwnFacts DEF RequestsTyped, RowsRead, Unwritten, store, history, Disturbs
<1>2. Asked(r)' = Asked(r) /\ (WriteStands(r)' <=> WriteStands(r))
  BY <1>1 DEF Asked, WriteStands, Submitted
<1>3. CASE /\ shown' = [shown EXCEPT ![r] = {Show(k, id, <<>>) : id \in read}]
           /\ todo' = [todo EXCEPT ![r] = read]
           /\ Continue(r, "items")
  <2>1. pc'[r] = "items" /\ todo'[r] = read /\ response' = response
    BY <1>1, <1>3 DEF Continue
  <2>2. shown'[r] = {Show(k, id, <<>>) : id \in read}
    BY <1>1, <1>3
  <2>3. shown'[r] = Copies(rows[k], read, read)
    BY <2>2, CopiesOfRows
  <2>4. Showing(r)'
    BY <1>1, <1>2, <2>1, <2>3 DEF Showing, StillStored, StepsBeforeReading
  <2> QED
    BY <1>1, <2>1, <2>4 DEF ShowsStored
<1>4. CASE /\ shown' = [shown EXCEPT ![r] = {ShowWhole(k, id) : id \in read}]
           /\ AfterReading(r)
  <2>1. shown'[r] = {ShowWhole(k, id) : id \in read}
    BY <1>1, <1>4
  <2>2. shown'[r] = Copies(rows[k], read, {})
    BY <2>1, CopiesOfRows
  <2> QED
    BY <1>1, <1>4, <2>2, WholeShows
<1> QED
  BY <1>3, <1>4 DEF RowsRead

LEMMA ReadRowShows ==
  ASSUME CatalogInv, CatalogInv', NEW r \in Requests, Showing(r), ReadRow(r), UNCHANGED call
  PROVE  Disturbs(r) /\ Showing(r)' /\ ShowsStored(r)
<1>1. pc[r] = "row" /\ "notFound" \in Responses \ {"ok"}
  BY DEF ReadRow, Responses
<1>2. r \in undisturbed => todo[r] = Asked(r)
  BY <1>1 DEF Showing, StillStored
<1> QED
  BY <1>1, <1>2, RefuseShows, RowsReadShows DEF ReadRow

LEMMA ListRowsShows ==
  ASSUME CatalogInv, CatalogInv', NEW r \in Requests, Showing(r), ListRows(r), UNCHANGED call
  PROVE  Disturbs(r) /\ Showing(r)' /\ ShowsStored(r)
<1>1. pc[r] = "list" /\ call[r].op = "list" /\ call[r] \in Call
  BY OwnFacts DEF ListRows, Progress
<1>2. Asked(r) = live[call[r].kind]
  BY <1>1, AskedOfOp
<1> QED
  BY <1>1, <1>2, RowsReadShows DEF ListRows

(* Of the records of a kind at most one has the name. *)
LEMMA FindRowShows ==
  ASSUME CatalogInv, CatalogInv', NEW r \in Requests, Showing(r), FindRow(r), UNCHANGED call
  PROVE  Disturbs(r) /\ Showing(r)' /\ ShowsStored(r)
<1> DEFINE k == call[r].kind
<1>1. /\ pc[r] = "find" /\ call[r].op = "get" /\ call[r] \in Call /\ k \in Kinds
      /\ pc \in [Requests -> Steps] /\ "notFound" \in Responses \ {"ok"}
      /\ todo \in [Requests -> SUBSET Nat] /\ NamesDiffer
  BY OwnFacts DEF FindRow, Progress, RequestsTyped, Responses, CatalogInv
<1>2. CASE Refuse(r, "notFound")
  BY <1>1, <1>2, RefuseShows
<1>3. ASSUME NEW id \in live[k], rows[k][id].name = call[r].name,
             todo' = [todo EXCEPT ![r] = {id}],
             Continue(r, "row"), UNCHANGED shown, Unwritten
      PROVE  Disturbs(r) /\ Showing(r)' /\ ShowsStored(r)
  <2>1. /\ UNCHANGED <<rows, live, written, undisturbed, response>> /\ Disturbs(r)
    BY <1>3 DEF Unwritten, store, history, Disturbs, Continue
  <2>2. Asked(r) = {x \in live[k] : rows[k][x].name = call[r].name}
    BY <1>1, AskedOfOp
  <2>3. Asked(r) = {id}
    BY <1>1, <1>3, <2>2 DEF NamesDiffer
  <2>4. Asked(r)' = Asked(r)
    BY <2>1 DEF Asked
  <2>5. pc'[r] = "row" /\ todo'[r] = {id} /\ shown'[r] = shown[r]
    BY <1>1, <1>3 DEF Continue
  <2>6. written'[r] = 0
    <3>1. Progress(r)
      BY OwnFacts
    <3> QED
      BY <1>1, <2>1, <3>1 DEF Progress
  <2>7. Showing(r)'
    BY <1>1, <2>3, <2>4, <2>5, <2>6 DEF Showing, StillStored, StepsBeforeReading
  <2> QED
    BY <2>1, <2>7 DEF ShowsStored
<1> QED
  BY <1>2, <1>3 DEF FindRow

LEMMA ReadItemsShows ==
  ASSUME CatalogInv, CatalogInv', NEW r \in Requests, Showing(r), ReadItems(r), UNCHANGED call
  PROVE  Disturbs(r) /\ Showing(r)' /\ ShowsStored(r)
<1> DEFINE rs == rows["dictionary"]
<1>1. /\ pc[r] = "items" /\ call[r].kind = "dictionary" /\ call[r] \in Call /\ Unwritten
      /\ pc \in [Requests -> Steps] /\ shown \in [Requests -> SUBSET Shown]
      /\ todo \in [Requests -> SUBSET Nat]
  BY OwnFacts DEF ReadItems, Progress, RequestsTyped
<1>2. PICK id \in todo[r] :
        /\ shown' = [shown EXCEPT ![r] =
                       {IF s.id = id THEN [s EXCEPT !.content = rs[id].content]
                        ELSE s : s \in shown[r]}]
        /\ todo' = [todo EXCEPT ![r] = todo[r] \ {id}]
        /\ \/ todo[r] = {id} /\ AfterReading(r)
           \/ todo[r] # {id} /\ UNCHANGED <<pc, response>>
  BY DEF ReadItems
<1>3. /\ shown'[r] = {IF s.id = id THEN [s EXCEPT !.content = rs[id].content]
                      ELSE s : s \in shown[r]}
      /\ todo'[r] = todo[r] \ {id}
  BY <1>1, <1>2
<1>4. ASSUME r \in undisturbed
      PROVE  /\ shown'[r] = Copies(rs, Asked(r), todo[r] \ {id})
             /\ todo[r] \subseteq Asked(r)
  <2>1. shown[r] = Copies(rs, Asked(r), todo[r]) /\ todo[r] \subseteq Asked(r)
    BY <1>1, <1>4 DEF Showing, StillStored
  <2>2. {IF s.id = id THEN [s EXCEPT !.content = rs[id].content] ELSE s :
           s \in Copies(rs, Asked(r), todo[r])}
          = Copies(rs, Asked(r), todo[r] \ {id})
    BY CopiesReadOn
  <2> QED
    BY <1>3, <2>1, <2>2
<1>5. CASE todo[r] = {id} /\ AfterReading(r)
  <2>1. todo[r] \ {id} = {}
    BY <1>5
  <2>2. r \in undisturbed => shown'[r] = Copies(rows[call[r].kind], Asked(r), {})
    BY <1>1, <1>4, <2>1
  <2> QED
    BY <1>1, <1>5, <2>2, WholeShows
<1>6. CASE UNCHANGED <<pc, response>>
  <2>1. UNCHANGED <<rows, live, written, undisturbed>> /\ Disturbs(r)
    BY <1>1 DEF Unwritten, store, history, Disturbs
  <2>2. Asked(r)' = Asked(r) /\ (WriteStands(r)' <=> WriteStands(r))
    BY <2>1 DEF Asked, WriteStands, Submitted
  <2>3. Showing(r)'
    BY <1>1, <1>3, <1>4, <1>6, <2>1, <2>2 DEF Showing, StillStored, StepsBeforeReading
  <2> QED
    BY <1>6, <2>1, <2>3 DEF ShowsStored
<1> QED
  BY <1>2, <1>5, <1>6

(* A row that was just inserted or replaced stands. *)
LEMMA WriteStandsThen ==
  ASSUME CatalogInv, NEW r \in Requests, UNCHANGED call, NEW id,
         \/ Insert(r) /\ id = nextID[call[r].kind]
         \/ Replace(r) /\ id = call[r].target /\ id \in live[call[r].kind]
  PROVE  /\ id \in live'[call[r].kind]
         /\ rows'[call[r].kind][id] = Submitted(call[r])
<1> DEFINE k == call[r].kind
           v == Submitted(call[r])
<1>1. k \in Kinds /\ DOMAIN rows = Kinds /\ live \in [Kinds -> SUBSET Nat]
  BY OwnFacts DEF RowsTyped
<1>2. rows' = [rows EXCEPT ![k] = Put(rows[k], id, v)]
  BY DEF Insert, Replace
<1>3. rows'[k] = Put(rows[k], id, v)
  BY <1>1, <1>2
<1>4. Put(rows[k], id, v)[id] = v
  BY DEF Put
<1>5. id \in live'[k]
  BY <1>1 DEF Insert, Replace
<1> QED
  BY <1>3, <1>4, <1>5

(* A write is read again, or is shown as it was submitted. *)
LEMMA CommitShows ==
  ASSUME CatalogInv, NEW r \in Requests, Showing(r), UNCHANGED call,
         pc[r] \in {"memory", "write"},
         NEW id \in Nat, NEW step \in {"row", "audit"}, Commit(r, id, step),
         call[r].op \in Writes,
         call[r].op # "delete" => /\ id \in live'[call[r].kind]
                                  /\ rows'[call[r].kind][id] = Submitted(call[r]),
         step = "row" => /\ call[r].op # "delete" /\ todo'[r] = {id}
                         /\ UNCHANGED shown,
         step = "audit" => shown'[r] = IF call[r].op = "delete" THEN {}
                                       ELSE {[id |-> id, name |-> call[r].name,
                                              content |-> Submitted(call[r]).content]}
  PROVE  Disturbs(r) /\ Showing(r)' /\ ShowsStored(r)
<1> DEFINE c == call[r]
<1>1. /\ pc \in [Requests -> Steps] /\ c \in Call /\ written \in [Requests -> Nat]
      /\ shown[r] = {}
  BY OwnFacts DEF RequestsTyped, Showing, StepsBeforeReading
<1>2. pc'[r] = step /\ written'[r] = id /\ response' = response /\ Disturbs(r)
  BY <1>1 DEF Commit, Continue, Disturbs
<1>3. Asked(r)' = IF c.op = "delete" THEN {} ELSE {id}
  BY <1>1, <1>2 DEF Asked, Writes
<1>4. c.op # "delete" => WriteStands(r)'
  BY <1>2 DEF WriteStands, Submitted
<1>5. Submitted(c).name = c.name
  BY DEF Submitted
<1>6. step = "audit" => shown'[r] = Copies(rows'[c.kind], Asked(r)', {})
  <2> SUFFICES ASSUME step = "audit" PROVE shown'[r] = Copies(rows'[c.kind], Asked(r)', {})
    OBVIOUS
  <2>1. CASE c.op = "delete"
    BY <1>3, <2>1 DEF Copies
  <2>2. CASE c.op # "delete"
    <3>1. Copies(rows'[c.kind], {id}, {}) = {[id |-> id, name |-> rows'[c.kind][id].name,
                                              content |-> rows'[c.kind][id].content]}
      BY DEF Copies
    <3> QED
      BY <1>3, <1>5, <2>2, <3>1
  <2> QED
    BY <2>1, <2>2
<1>7. step = "row" => todo'[r] = Asked(r)' /\ shown'[r] = {}
  BY <1>1, <1>3
<1>8. Showing(r)'
  BY <1>2, <1>4, <1>6, <1>7 DEF Showing, StillStored, StepsBeforeReading
<1> QED
  BY <1>2, <1>8 DEF ShowsStored

LEMMA MemoryWriteShows ==
  ASSUME CatalogInv, NEW r \in Requests, Showing(r), MemoryWrite(r), UNCHANGED call
  PROVE  Disturbs(r) /\ Showing(r)' /\ ShowsStored(r)
<1> DEFINE c == call[r]
           absent == c.op # "create" /\ c.target \notin live[c.kind]
           id == IF c.op = "create" THEN nextID[c.kind] ELSE c.target
           seen == IF c.op = "delete" THEN {}
                   ELSE {[id |-> id, name |-> c.name, content |-> Submitted(c).content]}
<1>1. /\ pc[r] = "memory" /\ c.op \in Writes /\ c \in Call /\ id \in Nat
      /\ shown \in [Requests -> SUBSET Shown]
      /\ "notFound" \in Responses \ {"ok"} /\ "conflict" \in Responses \ {"ok"}
  BY OwnFacts DEF MemoryWrite, RequestsTyped, Responses, RowsTyped, Call
<1>2. CASE Refuse(r, IF absent THEN "notFound" ELSE "conflict")
  BY <1>1, <1>2, RefuseShows
<1>3. CASE /\ ~absent
           /\ \/ c.op = "create" /\ Insert(r)
              \/ c.op = "update" /\ Replace(r)
              \/ c.op = "delete" /\ Remove(r)
           /\ shown' = [shown EXCEPT ![r] = seen]
           /\ Commit(r, id, "audit")
  <2>1. c.op # "delete" => id \in live'[c.kind] /\ rows'[c.kind][id] = Submitted(c)
    BY <1>3, WriteStandsThen
  <2>2. shown'[r] = seen
    BY <1>1, <1>3
  <2> HIDE DEF id
  <2> QED
    BY <1>1, <1>3, <2>1, <2>2, CommitShows
<1> QED
  BY <1>2, <1>3 DEF MemoryWrite

LEMMA InsertRowShows ==
  ASSUME CatalogInv, NEW r \in Requests, Showing(r), InsertRow(r), UNCHANGED call
  PROVE  Disturbs(r) /\ Showing(r)' /\ ShowsStored(r)
<1> DEFINE c == call[r]
           id == nextID[c.kind]
<1>1. /\ pc[r] = "write" /\ c.op = "create" /\ c.op \in Writes /\ id \in Nat
      /\ pc \in [Requests -> Steps] /\ response \in [Requests -> Responses]
      /\ todo \in [Requests -> SUBSET Nat]
  BY OwnFacts DEF InsertRow, RequestsTyped, RowsTyped, Writes
<1>2. CASE Finish(r, "conflict") /\ UNCHANGED <<rows, live, history>>
  <2>1. pc'[r] = "done" /\ response'[r] # "ok"
    BY <1>1, <1>2 DEF Finish
  <2> QED
    BY <1>2, <2>1, UnshownEnd DEF Disturbs, history
<1>3. CASE /\ Insert(r)
           /\ todo' = [todo EXCEPT ![r] = {id}] /\ UNCHANGED shown
           /\ Commit(r, id, "row")
  <2>1. id \in live'[c.kind] /\ rows'[c.kind][id] = Submitted(c)
    BY <1>3, WriteStandsThen
  <2>2. todo'[r] = {id}
    BY <1>1, <1>3
  <2> HIDE DEF id
  <2> QED
    BY <1>1, <1>3, <2>1, <2>2, CommitShows
<1> QED
  BY <1>2, <1>3 DEF InsertRow

LEMMA UpdateRowShows ==
  ASSUME CatalogInv, NEW r \in Requests, Showing(r), UpdateRow(r), UNCHANGED call
  PROVE  Disturbs(r) /\ Showing(r)' /\ ShowsStored(r)
<1> DEFINE c == call[r]
           id == c.target
<1>1. /\ pc[r] = "write" /\ c.op = "update" /\ c.op \in Writes /\ id \in Nat
      /\ todo \in [Requests -> SUBSET Nat]
      /\ "notFound" \in Responses \ {"ok"} /\ "conflict" \in Responses \ {"ok"}
  BY OwnFacts DEF UpdateRow, RequestsTyped, Responses, Writes, Call
<1>2. CASE Refuse(r, IF id \notin live[c.kind] THEN "notFound" ELSE "conflict")
  BY <1>1, <1>2, RefuseShows
<1>3. CASE /\ id \in live[c.kind] /\ Replace(r)
           /\ todo' = [todo EXCEPT ![r] = {id}] /\ UNCHANGED shown
           /\ Commit(r, id, "row")
  <2>1. id \in live'[c.kind] /\ rows'[c.kind][id] = Submitted(c)
    BY <1>3, WriteStandsThen
  <2>2. todo'[r] = {id}
    BY <1>1, <1>3
  <2> HIDE DEF id
  <2> QED
    BY <1>1, <1>3, <2>1, <2>2, CommitShows
<1> QED
  BY <1>2, <1>3 DEF UpdateRow

LEMMA DeleteRowShows ==
  ASSUME CatalogInv, NEW r \in Requests, Showing(r), DeleteRow(r), UNCHANGED call
  PROVE  Disturbs(r) /\ Showing(r)' /\ ShowsStored(r)
<1> DEFINE c == call[r]
           id == c.target
<1>1. /\ pc[r] = "write" /\ c.op = "delete" /\ c.op \in Writes /\ id \in Nat
      /\ "notFound" \in Responses \ {"ok"} /\ shown[r] = {}
  BY OwnFacts DEF DeleteRow, Responses, Writes, Call, Showing, StepsBeforeReading
<1>2. CASE Refuse(r, "notFound")
  BY <1>1, <1>2, RefuseShows
<1>3. CASE Remove(r) /\ Unshown /\ Commit(r, id, "audit")
  <2>1. shown'[r] = {}
    BY <1>1, <1>3 DEF Unshown
  <2> HIDE DEF id
  <2> QED
    BY <1>1, <1>3, <2>1, CommitShows
<1> QED
  BY <1>2, <1>3 DEF DeleteRow

LEMMA WorkShows ==
  ASSUME CatalogInv, CatalogInv', NEW r \in Requests, Showing(r), Work(r)
  PROVE  Disturbs(r) /\ Showing(r)' /\ ShowsStored(r)
<1>1. CASE StoreFault(r)
  BY <1>1, RefuseShows DEF StoreFault, Responses
<1>2. CASE Handle(r)
  BY <1>2, StartShows, MemoryReadShows, MemoryWriteShows, CheckShows, InsertRowShows,
     UpdateRowShows, DeleteRowShows, FindRowShows, ReadRowShows, ListRowsShows,
     ReadItemsShows, WriteAuditShows
  DEF Work, Handle
<1> QED
  BY <1>1, <1>2 DEF Work

LEMMA ShownInvInit == ServerInit => ShownInv
<1> SUFFICES ASSUME ServerInit PROVE ShownInv
  OBVIOUS
<1>1. \A r \in Requests : Showing(r)
  BY DEF ServerInit, Init, Showing
<1> QED
  BY <1>1, InvInit DEF ShownInv

LEMMA ShownInvNext ==
  ASSUME ShownInv, [ServerNext]_serverVars
  PROVE  ShownInv' /\ \A r \in Requests : ShowsStored(r)
<1>1. IInv' /\ CatalogInv /\ CatalogInv'
  BY InvNext DEF ShownInv, IInv
<1>2. CASE UNCHANGED vars
  <2> SUFFICES ASSUME NEW r \in Requests PROVE Showing(r)' /\ ShowsStored(r)
    BY <1>1 DEF ShownInv
  <2>1. /\ UNCHANGED <<rows, live, pc, call, todo, shown, response, written, undisturbed>>
        /\ Showing(r)
    BY <1>2 DEF vars, store, history, ShownInv
  <2>2. Asked(r)' = Asked(r) /\ (WriteStands(r)' <=> WriteStands(r))
    BY <2>1 DEF Asked, WriteStands, Submitted
  <2>3. Showing(r)'
    BY <2>1, <2>2 DEF Showing, StillStored
  <2> QED
    BY <2>1, <2>3 DEF ShowsStored
<1>3. ASSUME NEW r \in Requests, Work(r)
      PROVE  ShownInv' /\ \A q \in Requests : ShowsStored(q)
  <2>1. Frame(r)
    BY <1>1, <1>3, WorkGood
  <2>2. Showing(r) /\ \A q \in Requests : Showing(q)
    BY DEF ShownInv
  <2>3. Disturbs(r) /\ Showing(r)' /\ ShowsStored(r)
    BY <1>1, <1>3, <2>2, WorkShows
  <2>4. ASSUME NEW q \in Requests \ {r}
        PROVE  Showing(q)' /\ ShowsStored(q)
    <3>1. Showing(q)'
      BY <1>1, <2>1, <2>2, <2>3, OthersKeepShowing
    <3>2. response'[q] = response[q]
      BY <2>1 DEF Frame
    <3> QED
      BY <3>1, <3>2 DEF ShowsStored
  <2> QED
    BY <1>1, <2>3, <2>4 DEF ShownInv
<1>4. RunServer \/ Signal \/ Kill \/ Ended \/ UNCHANGED serverVars => UNCHANGED vars
  BY DEF RunServer, OpenStore, ListenFailed, BeginShutdown, Drained, TimeOut,
     CloseStore, Signal, Kill, Ended, Goto, serverVars
<1> QED
  BY <1>2, <1>3, <1>4 DEF ServerNext, Handling

(* A request that no other write has disturbed is answered with what is        *)
(* stored, although its rows and their items are read by several statements:   *)
(* the record it has written, the one with the name, or all of the list.       *)
THEOREM AnswersShowRecords == ServerSpec => AnswersShowStore
<1>1. ShownInv /\ [ServerNext]_serverVars => ShownInv'
  BY ShownInvNext
<1>2. ShownInv /\ [ServerNext]_serverVars => [\A r \in undisturbed : AnsweredFromStore(r)]_vars
  <2> SUFFICES ASSUME ShownInv, [ServerNext]_serverVars, NEW r \in undisturbed,
                      response[r] = "none", response'[r] = "ok"
               PROVE  AnsweredFromStore(r)
    BY DEF AnsweredFromStore
  <2> DEFINE c == call[r]
             stored == LiveRecords(c.kind)
             asked == CASE c.op = "delete" -> {}
                        [] c.op = "list" -> live[c.kind]
                        [] c.op = "get" -> {id \in live[c.kind] : stored[id].name = c.name}
                        [] OTHER -> {written[r]}
             rs == rows[c.kind]
  <2>1. r \in Requests /\ c \in Call
    BY OwnFacts DEF ShownInv, IInv, CatalogInv, RequestsTyped
  <2>2. /\ shown'[r] = Copies(rs, Asked(r), {})
        /\ c.op \in {"create", "update"} => WriteStands(r)
    BY <2>1, ShownInvNext DEF ShowsStored
  <2>3. \A id \in live[c.kind] : stored[id] = rs[id]
    BY DEF LiveRecords
  <2>4. asked = Asked(r)
    <3>1. {id \in live[c.kind] : stored[id].name = c.name}
            = {id \in live[c.kind] : rs[id].name = c.name}
      BY <2>3
    <3> HIDE DEF stored
    <3> QED
      BY <3>1 DEF Asked
  <2>5. Asked(r) \subseteq live[c.kind]
    <3>1. c.op \in {"create", "update"} => written[r] \in live[c.kind]
      BY <2>2 DEF WriteStands
    <3> QED
      BY <2>1, <3>1, AskedOfOp
  <2>6. {[id |-> id, name |-> stored[id].name, content |-> stored[id].content] :
           id \in Asked(r)} = Copies(rs, Asked(r), {})
    BY <2>3, <2>5 DEF Copies
  <2>7. c.op \in {"create", "update"} => stored[written[r]] = Submitted(c)
    BY <2>2, <2>3 DEF WriteStands
  <2> HIDE DEF stored, asked
  <2>8. {[id |-> id, name |-> stored[id].name, content |-> stored[id].content] :
           id \in asked} = shown'[r]
    BY <2>2, <2>4, <2>6
  <2> QED
    BY <2>7, <2>8 DEF stored, asked, AnsweredFromStore
<1> QED
  BY <1>1, <1>2, ShownInvInit, PTL DEF ServerSpec, AnswersShowStore

----------------------------------------------------------------------------
(* A server that stops *)

(* The pool: not open before the store is, open over PostgreSQL until the    *)
(* store is closed, and closed once the process has ended well.              *)
PoolKept ==
  /\ phase = "starting" => AtWork = {} /\ ~signalled
  /\ driver = "postgres" /\ phase \in {"serving", "draining", "closing"} => open
  /\ phase = "stopped" => ~open

(* The handlers that are at work while the process runs have the pool that     *)
(* their statements need, and a server that stops leaves none open.            *)
PoolOutlivesHandlers ==
  /\ driver = "postgres" /\ Running /\ AtWork # {} => open
  /\ phase = "stopped" => ~open

(* How many steps of runServer are ahead at most. *)
Ahead == [starting |-> 4, serving |-> 3, draining |-> 2, closing |-> 1,
          stopped |-> 0, failed |-> 0, killed |-> 0]

(* Only steps of runServer and the end of the process lead on, and each leads *)
(* nearer to the end; a signal that was received is not forgotten, it came    *)
(* when the store was open, and the end is final.                             *)
StopGoesOn ==
  /\ RunServer \/ Kill => Ahead[phase'] < Ahead[phase]
  /\ RunServer \/ Kill \/ phase' = phase
  /\ signalled => signalled' /\ phase # "starting"
  /\ ~Running => UNCHANGED serverVars

LEMMA PoolKeptNext ==
  ASSUME IInv, PoolKept, [ServerNext]_serverVars
  PROVE  PoolKept'
<1>1. CASE UNCHANGED vars
  <2>1. UNCHANGED <<driver, pc>> /\ AtWork' = AtWork
    BY <1>1 DEF vars, store, AtWork
  <2>2. CASE RunServer
    BY <2>1, <2>2 DEF RunServer, OpenStore, ListenFailed, BeginShutdown, Drained, TimeOut,
       CloseStore, Goto, PoolKept
  <2>3. CASE Signal \/ Kill
    BY <2>1, <2>3 DEF Signal, Kill, Goto, PoolKept
  <2>4. CASE UNCHANGED server
    BY <2>1, <2>4 DEF PoolKept, server
  <2> QED
    BY <1>1, <2>2, <2>3, <2>4 DEF ServerNext, Handling, Ended, serverVars
<1>2. ASSUME NEW r \in Requests, Handling(r)
      PROVE  PoolKept'
  <2>1. driver' = driver
    <3>1. StoreStep(r)
      BY <1>2, WorkGood DEF Handling, IInv
    <3> QED
      BY <3>1 DEF StoreStep
  <2>2. phase # "starting"
    <3>1. pc[r] \notin {"new", "done"} => r \in AtWork
      BY DEF AtWork
    <3>2. pc[r] # "done"
      BY <1>2 DEF Handling, Work, Handle, Start, MemoryRead, MemoryWrite, ReadTarget, CheckName,
         InsertRow, UpdateRow, DeleteRow, FindRow, ReadRow, ListRows, ReadItems, WriteAudit,
         StoreFault
    <3> QED
      BY <1>2, <3>1, <3>2 DEF Handling, PoolKept
  <2> QED
    BY <1>2, <2>1, <2>2 DEF Handling, PoolKept, server
<1>3. RunServer \/ Signal \/ Kill \/ Ended \/ UNCHANGED serverVars => UNCHANGED vars
  BY DEF RunServer, OpenStore, ListenFailed, BeginShutdown, Drained, TimeOut,
     CloseStore, Signal, Kill, Ended, Goto, serverVars
<1> QED
  BY <1>1, <1>2, <1>3 DEF ServerNext

LEMMA StopStep ==
  ASSUME IInv, PoolKept, [ServerNext]_serverVars
  PROVE  StopGoesOn
<1>1. RunServer \/ Kill \/ UNCHANGED <<phase, signalled>> \/ Signal
  BY DEF ServerNext, Handling, Ended, server, serverVars
<1>2. RunServer => Ahead[phase'] < Ahead[phase] /\ signalled' = signalled
  BY DEF RunServer, OpenStore, ListenFailed, BeginShutdown, Drained, TimeOut, CloseStore,
     Goto, Ahead
<1>3. Kill => Ahead[phase'] < Ahead[phase] /\ signalled' = signalled
  BY DEF Kill, Running, Ends, Goto, Ahead, IInv, Phases
<1>4. Signal => phase' = phase /\ signalled'
  BY DEF Signal
<1>5. ~Running => UNCHANGED serverVars
  BY DEF ServerNext, Running, Ends, RunServer, OpenStore, ListenFailed, BeginShutdown, Drained,
     TimeOut, CloseStore, Signal, Kill, Ended, Handling
<1> QED
  BY <1>1, <1>2, <1>3, <1>4, <1>5 DEF StopGoesOn, PoolKept

(* The safety half of StopsAfterSignal, with any number of requests at work in *)
(* their handlers: nothing but a step towards the end changes where runServer  *)
(* is.  On the way the pool is closed after the last handler, not before, for  *)
(* runServer calls Close once Shutdown has waited for them, and not otherwise. *)
THEOREM StopAdvances == ServerSpec => []PoolOutlivesHandlers /\ [][StopGoesOn]_serverVars
<1>1. ServerInit => PoolKept
  <2> SUFFICES ASSUME ServerInit PROVE PoolKept
    OBVIOUS
  <2>1. \A r \in Requests : pc[r] = "new"
    BY DEF ServerInit, Init
  <2> QED
    BY <2>1 DEF ServerInit, PoolKept, AtWork
<1>2. IInv /\ PoolKept /\ [ServerNext]_serverVars => PoolKept' /\ StopGoesOn
  BY PoolKeptNext, StopStep
<1>3. IInv /\ PoolKept => PoolOutlivesHandlers
  BY DEF IInv, PoolKept, PoolOutlivesHandlers, Running, Phases
<1> QED
  BY Invariance, <1>1, <1>2, <1>3, PTL DEF ServerSpec
=============================================================================
