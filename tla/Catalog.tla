------------------------------ MODULE Catalog ------------------------------
(***************************************************************************)
(* Dictionaries and settings, over either store.  The in-memory store      *)
(* handles a call in one critical section.  Over PostgreSQL a call is a    *)
(* series of statements: a dictionary's row and its items are read by two, *)
(* a list of dictionaries by one and one more per row, and a write is      *)
(* answered with what is read after it.  Nothing is held between them, so  *)
(* the statements of different requests interleave.  There, dictionaries   *)
(* are deleted softly and settings for good.                               *)
(*                                                                         *)
(* A name is a dictionary's code or a setting's key, trimmed and in lower  *)
(* case.  Content is the sequence of a dictionary's item values, or the    *)
(* one value of a setting; labels, positions and descriptions are left     *)
(* out.  Requests arrive authorized.                                       *)
(***************************************************************************)
EXTENDS Integers, Sequences, Functions

CONSTANTS
  Requests,      \* the requests of a behaviour
  Drivers,       \* the configured stores: "memory", "postgres"
  StoreFaults,   \* TRUE: a statement may fail
  Calls,         \* what the requests ask for
  InitialRows,   \* the seeded dictionaries and settings
  JSONValues     \* the setting values that are valid JSON

VARIABLES
  driver,       \* the store the server runs on
  rows,         \* per kind: the rows by ID, those of deleted dictionaries too
  live,         \* per kind: the IDs of the rows that are not deleted
  nextID,       \* per kind: the next ID to be issued
  pc,           \* per request: what it does next
  call,         \* per request: what it asks for
  todo,         \* per request: the IDs of the rows it still has to read
  shown,        \* per request: the records it has read for its answer
  response,     \* per request: the answer it was given
  audit,        \* the requests with an entry in the audit log
  written,      \* history, per request: the ID of the record it wrote, or 0
  undisturbed   \* history: the requests since whose start no other has written

store == <<driver, rows, live, nextID>>
history == <<written, undisturbed>>
vars == <<store, pc, call, todo, shown, response, audit, history>>

----------------------------------------------------------------------------
(* Types *)

Kinds == {"dictionary", "setting"}
Writes == {"create", "update", "delete"}

Record == [name : STRING, content : Seq(STRING)]
Shown == [id : Nat, name : STRING, content : Seq(STRING)]

(* Only dictionaries are read by name. *)
Call == [op : Writes \cup {"get", "list"}, kind : Kinds, target : Nat,
         name : STRING, content : Seq(STRING)]

Steps == {"new", "memory", "target", "name", "write", "find", "list", "row",
          "items", "audit", "done"}

Responses == {"none", "ok", "invalid", "notFound", "conflict", "internal"}

(* The items of a dictionary have distinct values, as its unique index      *)
(* demands; a setting has one value, valid JSON.                            *)
Storable(kind, content) ==
  \/ kind = "dictionary" /\ IsInjective(content)
  \/ kind = "setting" /\ content \in {<<value>> : value \in JSONValues}

ASSUME CatalogAssumption ==
  /\ Drivers \subseteq {"memory", "postgres"}
  /\ StoreFaults \in BOOLEAN
  /\ Calls \subseteq Call
  /\ \A c \in Calls : c.kind = "setting" => Len(c.content) = 1
  /\ JSONValues \subseteq STRING \ {""} /\ "{}" \in JSONValues
  /\ InitialRows \in [Kinds -> Seq(Record)]
  /\ \A kind \in Kinds : \A x, y \in DOMAIN InitialRows[kind] :
       /\ Storable(kind, InitialRows[kind][x].content)
       /\ InitialRows[kind][x].name = InitialRows[kind][y].name => x = y

----------------------------------------------------------------------------
(* The rows *)

Put(f, k, v) == [x \in DOMAIN f \cup {k} |-> IF x = k THEN v ELSE f[x]]

(* Another live row has the name: what the service's store calls look for,  *)
(* and what the unique indexes over the live rows refuse.                   *)
NameTaken(kind, id, name) ==
  \E x \in live[kind] \ {id} : rows[kind][x].name = name

Show(kind, id, content) ==
  [id |-> id, name |-> rows[kind][id].name, content |-> content]

ShowWhole(kind, id) == Show(kind, id, rows[kind][id].content)

----------------------------------------------------------------------------
(* What a request carries *)

(* normalizeDictionaryInput and normalizeSettingInput; the code of a        *)
(* dictionary to be read must not be blank.                                 *)
InvalidInput(c) ==
  \/ c.op \in {"create", "update", "get"} /\ c.name = ""
  \/ /\ c.op \in {"create", "update"} /\ c.kind = "dictionary"
     /\ \/ ~IsInjective(c.content)
        \/ \E i \in DOMAIN c.content : c.content[i] = ""
  \/ /\ c.op \in {"create", "update"} /\ c.kind = "setting"
     /\ c.content[1] \notin JSONValues \cup {""}

(* Faulty variant of Submitted: a setting is stored without a value. *)
SubmittedAsGiven(c) == [name |-> c.name, content |-> c.content]

(* A setting without a value gets the empty object. *)
Submitted(c) ==
  [name |-> c.name,
   content |-> IF c.kind = "setting" /\ c.content[1] = "" THEN <<"{}">> ELSE c.content]

----------------------------------------------------------------------------
(* How a step ends *)

Continue(r, step) == pc' = [pc EXCEPT ![r] = step] /\ UNCHANGED response

Finish(r, answer) ==
  /\ pc' = [pc EXCEPT ![r] = "done"]
  /\ response' = [response EXCEPT ![r] = answer]

Unwritten == UNCHANGED <<store, audit, history>>

Unshown == UNCHANGED <<todo, shown>>

(* An error is answered: nothing of what was read is sent. *)
Refuse(r, answer) ==
  /\ Finish(r, answer)
  /\ shown' = [shown EXCEPT ![r] = {}] /\ todo' = [todo EXCEPT ![r] = {}]
  /\ Unwritten

(* A read either refuses or lets the next statement be executed. *)
Check(r, refused, answer, step) ==
  \/ refused /\ Refuse(r, answer)
  \/ ~refused /\ Continue(r, step) /\ Unshown /\ Unwritten

(* A record was written. *)
Commit(r, id, step) ==
  /\ Continue(r, step)
  /\ written' = [written EXCEPT ![r] = id]
  /\ undisturbed' = undisturbed \cap {r}
  /\ UNCHANGED <<driver, audit>>

(* What was read is answered: by a write after its audit entry. *)
AfterReading(r) ==
  IF call[r].op \in Writes THEN Continue(r, "audit") ELSE Finish(r, "ok")

----------------------------------------------------------------------------
(* Initial state *)

Init ==
  /\ driver \in Drivers
  /\ rows = InitialRows
  /\ live = [kind \in Kinds |-> DOMAIN InitialRows[kind]]
  /\ nextID = [kind \in Kinds |-> Len(InitialRows[kind]) + 1]
  /\ pc = [r \in Requests |-> "new"]
  /\ call \in [Requests -> Calls]
  /\ todo = [r \in Requests |-> {}] /\ shown = [r \in Requests |-> {}]
  /\ response = [r \in Requests |-> "none"]
  /\ audit = {}
  /\ written = [r \in Requests |-> 0] /\ undisturbed = {}

----------------------------------------------------------------------------
(* The service *)

FirstStep(c) ==
  IF driver = "memory" THEN "memory"
  ELSE CASE c.op = "create" -> "name"
         [] c.op = "update" -> "target"
         [] c.op = "delete" -> "write"
         [] c.op = "get"    -> "find"
         [] c.op = "list"   -> "list"

Start(r) ==
  /\ pc[r] = "new"
  /\ \/ InvalidInput(call[r]) /\ Finish(r, "invalid")
     \/ ~InvalidInput(call[r]) /\ Continue(r, FirstStep(call[r]))
  /\ undisturbed' = undisturbed \cup {r}
  /\ Unshown /\ UNCHANGED <<store, audit, written>>

----------------------------------------------------------------------------
(* Writing a row *)

Insert(r) ==
  LET c == call[r]
      id == nextID[c.kind]
  IN  /\ rows' = [rows EXCEPT ![c.kind] = Put(@, id, Submitted(c))]
      /\ live' = [live EXCEPT ![c.kind] = @ \cup {id}]
      /\ nextID' = [nextID EXCEPT ![c.kind] = id + 1]

Replace(r) ==
  LET c == call[r]
  IN  /\ rows' = [rows EXCEPT ![c.kind] = Put(@, c.target, Submitted(c))]
      /\ UNCHANGED <<live, nextID>>

Remove(r) ==
  /\ live' = [live EXCEPT ![call[r].kind] = @ \ {call[r].target}]
  /\ UNCHANGED <<rows, nextID>>

----------------------------------------------------------------------------
(* The in-memory store: a call under the store's mutex *)

MemoryRead(r) ==
  /\ pc[r] = "memory"
  /\ LET c == call[r]
         asked == {id \in live[c.kind] : c.op = "list" \/ rows[c.kind][id].name = c.name}
     IN
     /\ c.op \in {"get", "list"}
     /\ \/ c.op = "get" /\ asked = {} /\ Refuse(r, "notFound")
        \/ /\ c.op = "list" \/ asked # {}
           /\ shown' = [shown EXCEPT ![r] = {ShowWhole(c.kind, id) : id \in asked}]
           /\ Finish(r, "ok")
           /\ UNCHANGED todo /\ Unwritten

MemoryWrite(r) ==
  /\ pc[r] = "memory"
  /\ LET c == call[r]
         absent == c.op # "create" /\ c.target \notin live[c.kind]
         taken == c.op # "delete"
                  /\ NameTaken(c.kind, IF c.op = "create" THEN 0 ELSE c.target, c.name)
         id == IF c.op = "create" THEN nextID[c.kind] ELSE c.target
     IN
     /\ c.op \in Writes
     /\ \/ (absent \/ taken) /\ Refuse(r, IF absent THEN "notFound" ELSE "conflict")
        \/ /\ ~absent /\ ~taken
           /\ \/ c.op = "create" /\ Insert(r)
              \/ c.op = "update" /\ Replace(r)
              \/ c.op = "delete" /\ Remove(r)
           /\ shown' = [shown EXCEPT ![r] =
                          IF c.op = "delete" THEN {}
                          ELSE {[id |-> id, name |-> c.name,
                                 content |-> Submitted(c).content]}]
           /\ Commit(r, id, "audit")
           /\ UNCHANGED todo

----------------------------------------------------------------------------
(* The SQL store: statements *)

(* dictionaryByID or settingByID of the row to be updated *)
ReadTarget(r) ==
  /\ pc[r] = "target"
  /\ Check(r, call[r].target \notin live[call[r].kind], "notFound", "name")

(* dictionaryIDByCode or settingIDByKey before a write *)
CheckName(r) ==
  /\ pc[r] = "name"
  /\ LET c == call[r]
     IN  Check(r, NameTaken(c.kind, IF c.op = "create" THEN 0 ELSE c.target, c.name),
               "conflict", "write")

(* Faulty variant of InsertRow: the conflict is not noticed. *)
InsertAnyRow(r) ==
  /\ pc[r] = "write" /\ call[r].op = "create"
  /\ Insert(r)
  /\ todo' = [todo EXCEPT ![r] = {nextID[call[r].kind]}] /\ UNCHANGED shown
  /\ Commit(r, nextID[call[r].kind], "row")

(* The row, and in the same transaction its items.  The value of the       *)
(* identity column is used up even if the unique index refuses the row.    *)
InsertRow(r) ==
  /\ pc[r] = "write" /\ call[r].op = "create"
  /\ LET c == call[r]
         id == nextID[c.kind]
     IN
     \/ /\ NameTaken(c.kind, 0, c.name)
        /\ Finish(r, "conflict")
        /\ nextID' = [nextID EXCEPT ![c.kind] = id + 1]
        /\ Unshown /\ UNCHANGED <<driver, rows, live, audit, history>>
     \/ /\ ~NameTaken(c.kind, 0, c.name)
        /\ Insert(r)
        /\ todo' = [todo EXCEPT ![r] = {id}] /\ UNCHANGED shown
        /\ Commit(r, id, "row")

(* The row if it is not deleted, then in the same transaction the items    *)
(* are replaced.                                                           *)
UpdateRow(r) ==
  /\ pc[r] = "write" /\ call[r].op = "update"
  /\ LET c == call[r]
         absent == c.target \notin live[c.kind]
         taken == NameTaken(c.kind, c.target, c.name)
     IN
     \/ (absent \/ taken) /\ Refuse(r, IF absent THEN "notFound" ELSE "conflict")
     \/ /\ ~absent /\ ~taken
        /\ Replace(r)
        /\ todo' = [todo EXCEPT ![r] = {c.target}] /\ UNCHANGED shown
        /\ Commit(r, c.target, "row")

DeleteRow(r) ==
  /\ pc[r] = "write" /\ call[r].op = "delete"
  /\ LET c == call[r]
     IN
     \/ c.target \notin live[c.kind] /\ Refuse(r, "notFound")
     \/ /\ c.target \in live[c.kind]
        /\ Remove(r)
        /\ Unshown
        /\ Commit(r, c.target, "audit")

(* GetDictionaryByCode: the ID *)
FindRow(r) ==
  /\ pc[r] = "find"
  /\ \/ ~NameTaken(call[r].kind, 0, call[r].name) /\ Refuse(r, "notFound")
     \/ \E id \in live[call[r].kind] :
          /\ rows[call[r].kind][id].name = call[r].name
          /\ todo' = [todo EXCEPT ![r] = {id}]
          /\ Continue(r, "row")
          /\ UNCHANGED shown /\ Unwritten

(* Rows were read: a setting's has its value, the items of a dictionary are *)
(* read by further statements.                                              *)
RowsRead(r, ids) ==
  LET kind == call[r].kind IN
  /\ \/ /\ kind = "dictionary" /\ ids # {}
        /\ shown' = [shown EXCEPT ![r] = {Show(kind, id, <<>>) : id \in ids}]
        /\ todo' = [todo EXCEPT ![r] = ids]
        /\ Continue(r, "items")
     \/ /\ kind = "setting" \/ ids = {}
        /\ shown' = [shown EXCEPT ![r] = {ShowWhole(kind, id) : id \in ids}]
        /\ todo' = [todo EXCEPT ![r] = {}]
        /\ AfterReading(r)
  /\ Unwritten

(* dictionaryByID or settingByID of the row just found or written *)
ReadRow(r) ==
  /\ pc[r] = "row"
  /\ \/ ~(todo[r] \subseteq live[call[r].kind]) /\ Refuse(r, "notFound")
     \/ todo[r] \subseteq live[call[r].kind] /\ RowsRead(r, todo[r])

(* ListDictionaries or ListSettings: the rows *)
ListRows(r) ==
  /\ pc[r] = "list"
  /\ RowsRead(r, live[call[r].kind])

(* Faulty variant of ReadItems: the items are those of the first dictionary. *)
ReadFirstItems(r) ==
  /\ pc[r] = "items"
  /\ \E id \in todo[r] :
       /\ \A x \in todo[r] : id <= x
       /\ shown' = [shown EXCEPT ![r] =
                      {IF s.id = id THEN [s EXCEPT !.content = rows["dictionary"][1].content]
                       ELSE s : s \in @}]
       /\ todo' = [todo EXCEPT ![r] = @ \ {id}]
       /\ IF todo[r] = {id} THEN AfterReading(r) ELSE UNCHANGED <<pc, response>>
  /\ Unwritten

(* dictionaryItems of the next row, whether or not it was deleted meanwhile *)
ReadItems(r) ==
  /\ pc[r] = "items"
  /\ \E id \in todo[r] :
       /\ \A x \in todo[r] : id <= x
       /\ shown' = [shown EXCEPT ![r] =
                      {IF s.id = id THEN [s EXCEPT !.content = rows["dictionary"][id].content]
                       ELSE s : s \in @}]
       /\ todo' = [todo EXCEPT ![r] = @ \ {id}]
       /\ \/ todo[r] = {id} /\ AfterReading(r)
          \/ todo[r] # {id} /\ UNCHANGED <<pc, response>>
  /\ Unwritten

----------------------------------------------------------------------------
(* The answer *)

WriteAudit(r) ==
  /\ pc[r] = "audit"
  /\ audit' = audit \cup {r}
  /\ Finish(r, "ok")
  /\ Unshown /\ UNCHANGED <<store, history>>

(* Faulty variant of StoreFault: an audit entry that is lost goes unnoticed. *)
StoreFaultIgnoredByAudit(r) ==
  /\ StoreFaults /\ driver = "postgres"
  /\ pc[r] \notin {"new", "done"}
  /\ IF pc[r] = "audit" THEN Finish(r, "ok") /\ Unshown /\ Unwritten
     ELSE Refuse(r, "internal")

(* A statement or transaction fails without effect. *)
StoreFault(r) ==
  /\ StoreFaults /\ driver = "postgres"
  /\ pc[r] \notin {"new", "done"}
  /\ Refuse(r, "internal")

(* All requests were answered: the server waits for others. *)
Quiescent ==
  /\ \A r \in Requests : pc[r] = "done"
  /\ UNCHANGED vars

----------------------------------------------------------------------------
(* The specification *)

Handle(r) ==
  \/ Start(r) \/ MemoryRead(r) \/ MemoryWrite(r)
  \/ ReadTarget(r) \/ CheckName(r)
  \/ InsertRow(r) \/ UpdateRow(r) \/ DeleteRow(r)
  \/ FindRow(r) \/ ReadRow(r) \/ ListRows(r) \/ ReadItems(r)
  \/ WriteAudit(r)

Work(r) == (Handle(r) \/ StoreFault(r)) /\ UNCHANGED call

Next == (\E r \in Requests : Work(r)) \/ Quiescent

Spec == Init /\ [][Next]_vars

(* The variables have their types, and what is stored is storable: inputs   *)
(* are checked before they are written.                                     *)
TypeOK ==
  /\ driver \in Drivers
  /\ live \in [Kinds -> SUBSET Nat] /\ nextID \in [Kinds -> Nat \ {0}]
  /\ DOMAIN rows = Kinds
  /\ \A kind \in Kinds :
       /\ DOMAIN rows[kind] \subseteq 1..(nextID[kind] - 1)
       /\ rows[kind] \in [DOMAIN rows[kind] -> Record]
       /\ live[kind] \subseteq DOMAIN rows[kind]
       /\ \A id \in DOMAIN rows[kind] : Storable(kind, rows[kind][id].content)
  /\ pc \in [Requests -> Steps]
  /\ call \in [Requests -> Call]
  /\ todo \in [Requests -> SUBSET Nat]
  /\ \A r \in Requests : shown[r] \subseteq Shown
  /\ response \in [Requests -> Responses]
  /\ audit \subseteq Requests
  /\ written \in [Requests -> Nat] /\ undisturbed \subseteq Requests

----------------------------------------------------------------------------
(* Properties *)

LiveRecords(kind) == [id \in live[kind] |-> rows[kind][id]]

(* Over either store, dictionaries and settings are tables of named records:  *)
(* a code or key stays unique although it is looked for in one statement and  *)
(* written in another, a deleted record does not come back through an update  *)
(* under way, and no ID is issued twice.                                      *)
Dictionaries ==
  INSTANCE NamedRecords WITH records <- LiveRecords("dictionary"),
                             ids <- 1..(nextID["dictionary"] - 1)
Settings ==
  INSTANCE NamedRecords WITH records <- LiveRecords("setting"),
                             ids <- 1..(nextID["setting"] - 1)
ImplementsRecords == Dictionaries!Spec /\ Settings!Spec

(* A write is answered with success only after its audit entry; and one that  *)
(* took effect is told of success, of an internal error, or, by the read      *)
(* after it, that its record is not there, which is then true.                *)
AnswersFitEffects ==
  \A r \in Requests :
    /\ response[r] = "ok" /\ call[r].op \in Writes => written[r] # 0 /\ r \in audit
    /\ written[r] # 0 => response[r] \in {"none", "ok", "internal", "notFound"}
    /\ written[r] # 0 /\ response[r] = "notFound" => written[r] \notin live[call[r].kind]

(* A request is answered with the records it asked for as they are stored. *)
AnsweredFromStore(r) ==
  LET c == call[r]
      stored == LiveRecords(c.kind)
      asked == CASE c.op = "delete" -> {}
                 [] c.op = "list" -> live[c.kind]
                 [] c.op = "get" -> {id \in live[c.kind] : stored[id].name = c.name}
                 [] OTHER -> {written[r]}
  IN  response[r] = "none" /\ response'[r] = "ok"
        => /\ shown'[r] = {[id |-> id, name |-> stored[id].name,
                            content |-> stored[id].content] : id \in asked}
           /\ c.op \in {"create", "update"} => stored[written[r]] = Submitted(c)

(* What a request shows that no other has disturbed, although it is read row  *)
(* by row and items by items, is what is stored: the record it has written,   *)
(* the dictionary with the code it was asked for, or every record of a list.  *)
AnswersShowStore == [][\A r \in undisturbed : AnsweredFromStore(r)]_vars
============================================================================
