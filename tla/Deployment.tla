---------------------------- MODULE Deployment ----------------------------
(***************************************************************************)
(* The processes that prepare a PostgreSQL database: starting servers,     *)
(* which migrate, seed and create the development users as their           *)
(* configuration says, and the commands migrate up, migrate seed and       *)
(* admin create.  Several run at once on one database, and each may stop   *)
(* at any point: killed, out of its time limit or cut off from the         *)
(* database.  What it committed stays; nothing else does.                  *)
(*                                                                         *)
(* A step is one statement or transaction.  The seed file is one: its      *)
(* first statement locks rows that any other run of it writes as well.     *)
(***************************************************************************)
EXTENDS Integers

CONSTANTS
  Processes,         \* the processes of a behaviour
  Kinds,             \* what they may be
  Files,             \* the number of migration files; the first has the tables
  AdminNames,        \* the usernames given to admin create
  InitialDatabases   \* what may be found at the start

VARIABLES
  created,    \* whether the table of versions exists
  recorded,   \* the files whose version is recorded
  effects,    \* history: how often each file was executed to its commit
  seeded,     \* whether the permission catalogue is stored
  roles,      \* the codes of the live roles
  granted,    \* the roles that have all their default permissions
  users,      \* the role of each live user by username
  audited,    \* the commands with an entry in the audit log
  kind,       \* per process: what it is
  pc,         \* per process: its next statement, or how it ended
  file,       \* per process: the migration file it is at
  seen,       \* per process: what its last query answered, if used later on
  atStart     \* history: whether an administrator existed when it started,
              \* and whether it was the only process to prepare the database

database == <<created, recorded, effects, seeded, roles, granted, users, audited>>
vars == <<database, kind, pc, file, seen, atStart>>

BuiltIn == {"admin", "operator"}

(* development and production servers migrate, plain ones do not; only      *)
(* production skips the seeds and the development users.                    *)
AllKinds == {"development", "plain", "production", "migrate", "seed", "admin"}

Steps == {"table", "check", "apply", "seeds", "count",
          "adminRole", "grantAdmin", "insertAdmin",
          "operatorRole", "grantOperator", "insertOperator",
          "adminUser", "operatorUser",
          "listRoles", "listUsers", "create", "audit"}
Ends == {"off", "serving", "done", "failed", "stopped"}

Database == [created : BOOLEAN, recorded : SUBSET (1..Files), seeded : BOOLEAN,
             roles : SUBSET BuiltIn, granted : SUBSET BuiltIn]

(* The files are applied in order, and the first one, the tables, precedes   *)
(* everything that is stored.                                                *)
ASSUME DeploymentAssumption ==
  /\ Kinds \subseteq AllKinds
  /\ Files \in Nat \ {0}
  /\ AdminNames \subseteq STRING
  /\ InitialDatabases \subseteq Database
  /\ \A db \in InitialDatabases :
       /\ \E k \in 0..Files : db.recorded = 1..k
       /\ db.recorded # {} => db.created
       /\ db.seeded => 1 \in db.recorded
       /\ db.granted \subseteq db.roles
       /\ db.roles # {} => db.seeded

----------------------------------------------------------------------------
(* The course of a process *)

FirstStep == [development |-> "table", plain |-> "count", production |-> "table",
              migrate |-> "table", seed |-> "seeds", admin |-> "listRoles"]

AfterFiles == [development |-> "seeds", production |-> "serving", migrate |-> "done"]

AfterSeeds == [development |-> "count", seed |-> "done"]

Preparing == {p \in Processes : pc[p] \in Steps}

Goto(p, step) ==
  /\ pc' = [pc EXCEPT ![p] = step]
  /\ UNCHANGED <<kind, atStart>>

(* A process that is answered with an error gives up. *)
Fail(p) ==
  /\ Goto(p, "failed")
  /\ UNCHANGED <<database, file, seen>>

(* A query whose answer decides what follows: the database is left alone. *)
Query(p, step, answer) ==
  /\ Goto(p, step)
  /\ seen' = [seen EXCEPT ![p] = answer]
  /\ UNCHANGED <<database, file>>

Administrators == {u \in DOMAIN users : users[u] = "admin"}

TablesExist == effects[1] > 0

Init ==
  /\ \E db \in InitialDatabases :
       /\ created = db.created /\ recorded = db.recorded
       /\ effects = [i \in 1..Files |-> IF i \in db.recorded THEN 1 ELSE 0]
       /\ seeded = db.seeded
       /\ roles = db.roles /\ granted = db.granted
  /\ users = <<>> /\ audited = {}
  /\ kind \in [Processes -> Kinds]
  /\ pc = [p \in Processes |-> "off"]
  /\ file = [p \in Processes |-> 1]
  /\ seen = [p \in Processes |-> FALSE]
  /\ atStart = [p \in Processes |-> [admin |-> FALSE, alone |-> TRUE]]

Start(p) ==
  /\ pc[p] = "off"
  /\ pc' = [pc EXCEPT ![p] = FirstStep[kind[p]]]
  /\ seen' = [seen EXCEPT ![p] = created]
  /\ atStart' = [q \in Processes |->
       IF q = p THEN [admin |-> Administrators # {}, alone |-> Preparing = {}]
       ELSE IF q \in Preparing THEN [atStart[q] EXCEPT !.alone = FALSE]
       ELSE atStart[q]]
  /\ UNCHANGED <<database, kind, file>>

(* What the process has not committed is lost, and with it all it knew: a   *)
(* process that is started again is another process.                        *)
Crash(p) ==
  /\ pc[p] \in Steps \cup {"serving"}
  /\ Goto(p, "stopped")
  /\ UNCHANGED <<database, file, seen>>

----------------------------------------------------------------------------
(* RunUp *)

(* Faulty variant of EnsureTable: a table that is there already is an error. *)
CreateNewTable(p) ==
  /\ pc[p] = "table"
  /\ \/ created /\ Fail(p)
     \/ /\ ~created /\ created' = TRUE
        /\ Goto(p, "check")
        /\ UNCHANGED <<recorded, effects, seeded, roles, granted, users, audited, file, seen>>

(* CREATE TABLE IF NOT EXISTS looks for the table first; if another process *)
(* creates it while the statement executes, PostgreSQL may report an error. *)
EnsureTable(p) ==
  /\ pc[p] = "table"
  /\ \/ created /\ ~seen[p] /\ Fail(p)
     \/ /\ created' = TRUE
        /\ Goto(p, "check")
        /\ UNCHANGED <<recorded, effects, seeded, roles, granted, users, audited, file, seen>>

(* Faulty variant of NextFile: the end of the files is missed by one. *)
NextFileOrPast(p) ==
  /\ file' = [file EXCEPT ![p] = @ + 1]
  /\ Goto(p, IF file[p] > Files THEN AfterFiles[kind[p]] ELSE "check")
  /\ UNCHANGED seen

NextFile(p) ==
  /\ file' = [file EXCEPT ![p] = @ + 1]
  /\ Goto(p, IF file[p] = Files THEN AfterFiles[kind[p]] ELSE "check")
  /\ UNCHANGED seen

CheckVersion(p) ==
  /\ pc[p] = "check"
  /\ \/ file[p] \in recorded /\ NextFile(p) /\ UNCHANGED database
     \/ file[p] \notin recorded /\ Goto(p, "apply") /\ UNCHANGED <<database, file, seen>>

Execute(p) ==
  /\ effects' = [effects EXCEPT ![file[p]] = @ + 1]
  /\ recorded' = recorded \cup {file[p]}
  /\ NextFile(p)
  /\ UNCHANGED <<created, seeded, roles, granted, users, audited>>

(* Faulty variant of ApplyMigration: a version that is recorded already is *)
(* left as it is, and the file's statements are committed again.           *)
ApplyAgain(p) == pc[p] = "apply" /\ Execute(p)

(* The file and the record of its version are one transaction, which the    *)
(* key of the versions lets only one process commit.                        *)
ApplyMigration(p) ==
  /\ pc[p] = "apply"
  /\ \/ file[p] \in recorded /\ Fail(p)
     \/ file[p] \notin recorded /\ Execute(p)

----------------------------------------------------------------------------
(* RunSeeds *)

(* The permissions, the built-in roles that are missing and their grants. *)
RunSeeds(p) ==
  /\ pc[p] = "seeds"
  /\ \/ ~TablesExist /\ Fail(p)
     \/ /\ TablesExist
        /\ seeded' = TRUE /\ roles' = BuiltIn /\ granted' = BuiltIn
        /\ Goto(p, AfterSeeds[kind[p]])
        /\ UNCHANGED <<created, recorded, effects, users, audited, file, seen>>

----------------------------------------------------------------------------
(* BootstrapDevelopmentData *)

CountUsers(p) ==
  /\ pc[p] = "count"
  /\ \/ ~TablesExist /\ Fail(p)
     \/ TablesExist /\ Query(p, "adminRole", DOMAIN users # {})

(* ensureRole: the role is looked up, then given its permissions or created. *)
FindRole(p, from, code, grant, insert) ==
  /\ pc[p] = from
  /\ Goto(p, IF code \in roles THEN grant ELSE insert)
  /\ UNCHANGED <<database, file, seen>>

GrantDefaults(p, from, code, next) ==
  /\ pc[p] = from
  /\ \/ ~seeded /\ Fail(p)
     \/ /\ seeded
        /\ granted' = granted \cup {code}
        /\ Goto(p, next)
        /\ UNCHANGED <<created, recorded, effects, seeded, roles, users, audited, file, seen>>

InsertRole(p, from, code, next) ==
  /\ pc[p] = from
  /\ \/ (~seeded \/ code \in roles) /\ Fail(p)
     \/ /\ seeded /\ code \notin roles
        /\ roles' = roles \cup {code} /\ granted' = granted \cup {code}
        /\ Goto(p, next)
        /\ UNCHANGED <<created, recorded, effects, seeded, users, audited, file, seen>>

(* The default users are created only where the count found no user. *)
AfterRoles(p) == IF seen[p] THEN "serving" ELSE "adminUser"

EnsureRoles(p) ==
  \/ FindRole(p, "adminRole", "admin", "grantAdmin", "insertAdmin")
  \/ GrantDefaults(p, "grantAdmin", "admin", "operatorRole")
  \/ InsertRole(p, "insertAdmin", "admin", "operatorRole")
  \/ FindRole(p, "operatorRole", "operator", "grantOperator", "insertOperator")
  \/ GrantDefaults(p, "grantOperator", "operator", AfterRoles(p))
  \/ InsertRole(p, "insertOperator", "operator", AfterRoles(p))

(* CreateUser: the lookup of the username or the unique index refuses a     *)
(* name that is taken; the row and its role are one transaction.  The        *)
(* contacts that the users are given do not clash.                          *)
AddUser(p, name, role, next) ==
  \/ name \in DOMAIN users /\ Fail(p)
  \/ /\ name \notin DOMAIN users
     /\ users' = [u \in DOMAIN users \cup {name} |-> IF u = name THEN role ELSE users[u]]
     /\ Goto(p, next)
     /\ UNCHANGED <<created, recorded, effects, seeded, roles, granted, audited, file, seen>>

(* Faulty variant of CreateDefaultUsers: the operator comes first. *)
CreateOperatorFirst(p) ==
  \/ pc[p] = "adminUser" /\ AddUser(p, "operator", "operator", "operatorUser")
  \/ pc[p] = "operatorUser" /\ AddUser(p, "admin", "admin", "serving")

CreateDefaultUsers(p) ==
  \/ pc[p] = "adminUser" /\ AddUser(p, "admin", "admin", "operatorUser")
  \/ pc[p] = "operatorUser" /\ AddUser(p, "operator", "operator", "serving")

----------------------------------------------------------------------------
(* CreateInitialAdmin *)

(* A password that the policy rejects ends the command before its first    *)
(* query, as does a database without the administrator role.               *)
ListRoles(p) ==
  /\ pc[p] = "listRoles"
  /\ \/ Fail(p)
     \/ /\ TablesExist /\ "admin" \in roles
        /\ Goto(p, "listUsers") /\ UNCHANGED <<database, file, seen>>

(* Faulty variant of HasAdminUser: the default username is looked up. *)
HasUserAdmin == "admin" \in DOMAIN users

HasAdminUser == Administrators # {}

ListUsers(p) ==
  /\ pc[p] = "listUsers"
  /\ \/ HasAdminUser /\ Fail(p)
     \/ ~HasAdminUser /\ Goto(p, "create") /\ UNCHANGED <<database, file, seen>>

CreateAdministrator(p) ==
  /\ pc[p] = "create"
  /\ \E name \in AdminNames : AddUser(p, name, "admin", "audit")

WriteAudit(p) ==
  /\ pc[p] = "audit"
  /\ audited' = audited \cup {p}
  /\ Goto(p, "done")
  /\ UNCHANGED <<created, recorded, effects, seeded, roles, granted, users, file, seen>>

----------------------------------------------------------------------------
(* The specification *)

Next ==
  \E p \in Processes :
    \/ Start(p) \/ Crash(p)
    \/ EnsureTable(p) \/ CheckVersion(p) \/ ApplyMigration(p)
    \/ RunSeeds(p)
    \/ CountUsers(p) \/ EnsureRoles(p) \/ CreateDefaultUsers(p)
    \/ ListRoles(p) \/ ListUsers(p) \/ CreateAdministrator(p) \/ WriteAudit(p)

Spec == Init /\ [][Next]_vars

TypeOK ==
  /\ created \in BOOLEAN /\ seeded \in BOOLEAN
  /\ recorded \subseteq 1..Files /\ effects \in [1..Files -> Nat]
  /\ granted \subseteq roles /\ roles \subseteq BuiltIn
  /\ DOMAIN users \subseteq AdminNames \cup BuiltIn
  /\ users \in [DOMAIN users -> BuiltIn]
  /\ audited \subseteq Processes
  /\ kind \in [Processes -> Kinds]
  /\ pc \in [Processes -> Steps \cup Ends]
  /\ file \in [Processes -> 1..(Files + 1)]
  /\ \A p \in Processes : pc[p] \in {"check", "apply"} => file[p] \in 1..Files
  /\ seen \in [Processes -> BOOLEAN]
  /\ atStart \in [Processes -> [admin : BOOLEAN, alone : BOOLEAN]]

----------------------------------------------------------------------------
(* Properties *)

(* However many runners race and wherever they stop, a migration file is     *)
(* executed once, never before its predecessor, and its version is recorded  *)
(* exactly if it was.                                                        *)
MigrationsOnceInOrder ==
  /\ \A i \in 1..Files : effects[i] = IF i \in recorded THEN 1 ELSE 0
  /\ \A i \in recorded : i = 1 \/ i - 1 \in recorded

(* admin create makes no second administrator of a database that had one     *)
(* when the command was started, whatever their names.                       *)
AdminCreationRefused ==
  [][\A p \in Processes :
       pc[p] = "create" /\ Administrators' # Administrators /\ pc'[p] # pc[p]
         => ~atStart[p].admin]_vars

(* A server outside production that has come up can be signed in to as an     *)
(* administrator with all permissions, whatever crashes came before.          *)
ServingHasAdministrator ==
  \A p \in Processes : pc[p] = "serving" /\ kind[p] \in {"development", "plain"}
    => Administrators # {} /\ "admin" \in granted

(* Nothing that earlier processes left when they stopped makes a start fail:  *)
(* a process that migrates fails only if another one prepares the database    *)
(* at the same time.                                                          *)
StartAloneSucceeds ==
  \A p \in Processes : pc[p] = "failed" /\ kind[p] \in {"development", "production", "migrate"}
    => ~atStart[p].alone
============================================================================
