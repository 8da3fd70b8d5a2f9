-------------------------- MODULE DeploymentProofs --------------------------
(***************************************************************************)
(* Theorems about Deployment, for all processes, files and databases to    *)
(* start from: migrations are executed once and in order, a server outside *)
(* production has an administrator, a start by itself succeeds, and admin  *)
(* create makes no second administrator.                                   *)
(***************************************************************************)
EXTENDS Deployment, TLAPS

(* Only processes that migrate come to RunUp, and so on. *)
KindsFollowed ==
  \A p \in Processes :
    /\ pc[p] \in {"table", "check", "apply"}
         => kind[p] \in {"development", "production", "migrate"}
    /\ pc[p] = "seeds" => kind[p] \in {"development", "seed"}

(* A process has left a file behind only if its version is recorded. *)
FilesFollowed ==
  \A p \in Processes :
    /\ file[p] = 1 \/ file[p] - 1 \in recorded
    /\ pc[p] \in {"off", "table"} => file[p] = 1

Bootstrapping == {"adminRole", "grantAdmin", "insertAdmin",
                  "operatorRole", "grantOperator", "insertOperator"}

(* The first user of a database is an administrator, the role is complete   *)
(* before a default user is created, and what the count has found is there. *)
AdminsFirst ==
  /\ DOMAIN users # {} => Administrators # {}
  /\ \A p \in Processes :
       /\ pc[p] \in Bootstrapping /\ seen[p] => DOMAIN users # {}
       /\ pc[p] \in {"operatorRole", "grantOperator", "insertOperator",
                     "adminUser", "operatorUser"} => "admin" \in granted
       /\ pc[p] = "operatorUser" => Administrators # {}
       /\ pc[p] = "grantAdmin" => "admin" \in roles
       /\ pc[p] = "grantOperator" => "operator" \in roles

IInv ==
  /\ TypeOK /\ KindsFollowed
  /\ MigrationsOnceInOrder /\ FilesFollowed
  /\ AdminsFirst /\ ServingHasAdministrator

----------------------------------------------------------------------------
(* Parts of a step *)

LEMMA Initial == ASSUME Init PROVE IInv
<1>1. PICK db \in InitialDatabases :
        /\ created = db.created /\ recorded = db.recorded
        /\ effects = [i \in 1..Files |-> IF i \in db.recorded THEN 1 ELSE 0]
        /\ seeded = db.seeded
        /\ roles = db.roles /\ granted = db.granted
  BY DEF Init
<1>2. /\ db \in Database
      /\ \E k \in 0..Files : db.recorded = 1..k
      /\ db.granted \subseteq db.roles
  BY DeploymentAssumption
<1>3. TypeOK
  BY <1>1, <1>2, DeploymentAssumption DEF Init, TypeOK, Database, Ends
<1>4. MigrationsOnceInOrder
  BY <1>1, <1>2, DeploymentAssumption DEF MigrationsOnceInOrder
<1>5. DOMAIN users = {}
  BY DEF Init
<1>6. KindsFollowed /\ FilesFollowed /\ ServingHasAdministrator
  BY DEF Init, KindsFollowed, FilesFollowed, ServingHasAdministrator
<1>7. AdminsFirst
  BY <1>5 DEF Init, AdminsFirst, Bootstrapping
<1> QED
  BY <1>3, <1>4, <1>6, <1>7 DEF IInv

(* A process that goes nowhere the invariant speaks of disturbs nothing. *)
LEMMA Leaving ==
  ASSUME IInv, NEW p \in Processes, NEW step, Goto(p, step),
         step \in {"stopped", "failed", "done", "count", "listUsers", "create", "audit"},
         UNCHANGED <<database, file, seen>>
  PROVE  IInv'
<1>1. TypeOK'
  BY DEF IInv, TypeOK, Goto, database, Steps, Ends
<1>2. KindsFollowed' /\ FilesFollowed' /\ MigrationsOnceInOrder'
  BY DEF IInv, TypeOK, KindsFollowed, FilesFollowed, MigrationsOnceInOrder, Goto, database
<1>3. AdminsFirst' /\ ServingHasAdministrator'
  BY DEF IInv, TypeOK, AdminsFirst, Bootstrapping, ServingHasAdministrator,
         Administrators, Goto, database
<1> QED
  BY <1>1, <1>2, <1>3 DEF IInv

LEMMA Failing ==
  ASSUME IInv, NEW p \in Processes, Fail(p) PROVE IInv'
  BY Leaving DEF Fail

(* The users and roles are left alone, and the process is not at the steps   *)
(* that follow them up.                                                      *)
LEMMA UsersUntouched ==
  ASSUME IInv, NEW p \in Processes, NEW step, Goto(p, step),
         step \in {"check", "apply", "seeds", "count", "done", "serving"},
         step = "serving" => kind[p] = "production",
         UNCHANGED <<seeded, roles, granted, users, audited, seen>>
  PROVE  AdminsFirst' /\ ServingHasAdministrator'
  BY DEF IInv, TypeOK, AdminsFirst, Bootstrapping, ServingHasAdministrator,
         Administrators, Goto

----------------------------------------------------------------------------
(* The steps of RunUp *)

LEMMA TableStep ==
  ASSUME IInv, NEW p \in Processes, EnsureTable(p) PROVE IInv'
<1>1. CASE Fail(p)
  BY <1>1, Failing
<1>2. CASE /\ created' = TRUE
           /\ Goto(p, "check")
           /\ UNCHANGED <<recorded, effects, seeded, roles, granted, users, audited, file, seen>>
  <2>1. pc[p] = "table" /\ kind[p] \in {"development", "production", "migrate"}
    BY DEF EnsureTable, IInv, KindsFollowed
  <2>2. file[p] \in 1..Files
    BY <2>1, DeploymentAssumption DEF IInv, FilesFollowed
  <2>3. TypeOK'
    BY <1>2, <2>2 DEF IInv, TypeOK, Goto, Steps, Ends
  <2>4. KindsFollowed' /\ FilesFollowed' /\ MigrationsOnceInOrder'
    BY <1>2, <2>1 DEF IInv, TypeOK, KindsFollowed, FilesFollowed, MigrationsOnceInOrder, Goto
  <2>5. AdminsFirst' /\ ServingHasAdministrator'
    BY <1>2, UsersUntouched
  <2> QED
    BY <2>3, <2>4, <2>5 DEF IInv
<1> QED
  BY <1>1, <1>2 DEF EnsureTable

(* Going on to the next file, which is the end of RunUp after the last one. *)
LEMMA NextFileStep ==
  ASSUME IInv, NEW p \in Processes, pc[p] \in {"check", "apply"}, NextFile(p),
         recorded' = recorded \cup {file[p]},
         effects' = IF file[p] \in recorded THEN effects
                    ELSE [effects EXCEPT ![file[p]] = @ + 1],
         UNCHANGED <<created, seeded, roles, granted, users, audited>>
  PROVE  IInv'
<1> DEFINE step == IF file[p] = Files THEN AfterFiles[kind[p]] ELSE "check"
<1>1. kind[p] \in {"development", "production", "migrate"} /\ file[p] \in 1..Files
  BY DEF IInv, KindsFollowed, TypeOK
<1>2. /\ Goto(p, step)
      /\ step \in {"check", "seeds", "done", "serving"}
      /\ step = "serving" => kind[p] = "production"
      /\ step = "seeds" => kind[p] = "development"
      /\ step = "check" => file[p] # Files
  BY <1>1 DEF NextFile, AfterFiles
<1>3. file' = [file EXCEPT ![p] = file[p] + 1] /\ UNCHANGED seen
  BY DEF NextFile
<1> HIDE DEF step
<1>4. Files \in Nat \ {0}
  BY DeploymentAssumption
<1>5. TypeOK'
  BY <1>1, <1>2, <1>3, <1>4 DEF IInv, TypeOK, Goto, Steps, Ends
<1>6. KindsFollowed'
  BY <1>1, <1>2 DEF IInv, TypeOK, KindsFollowed, Goto
<1>7. FilesFollowed'
  BY <1>1, <1>2, <1>3 DEF IInv, TypeOK, FilesFollowed, Goto
<1>8. MigrationsOnceInOrder'
  BY <1>1 DEF IInv, TypeOK, FilesFollowed, MigrationsOnceInOrder
<1>9. AdminsFirst' /\ ServingHasAdministrator'
  BY <1>2, <1>3, UsersUntouched
<1> QED
  BY <1>5, <1>6, <1>7, <1>8, <1>9 DEF IInv

LEMMA CheckStep ==
  ASSUME IInv, NEW p \in Processes, CheckVersion(p) PROVE IInv'
<1>1. CASE file[p] \in recorded /\ NextFile(p) /\ UNCHANGED database
  BY <1>1, NextFileStep DEF CheckVersion, database
<1>2. CASE Goto(p, "apply") /\ UNCHANGED <<database, file, seen>>
  <2>1. pc[p] = "check"
    BY DEF CheckVersion
  <2>2. TypeOK' /\ KindsFollowed' /\ FilesFollowed' /\ MigrationsOnceInOrder'
    BY <1>2, <2>1 DEF IInv, TypeOK, KindsFollowed, FilesFollowed, MigrationsOnceInOrder,
         Goto, database, Steps, Ends
  <2>3. AdminsFirst' /\ ServingHasAdministrator'
    BY <1>2, UsersUntouched DEF database
  <2> QED
    BY <2>2, <2>3 DEF IInv
<1> QED
  BY <1>1, <1>2 DEF CheckVersion

LEMMA ApplyStep ==
  ASSUME IInv, NEW p \in Processes, ApplyMigration(p) PROVE IInv'
<1>1. CASE Fail(p)
  BY <1>1, Failing
<1>2. CASE file[p] \notin recorded /\ Execute(p)
  BY <1>2, NextFileStep DEF Execute, ApplyMigration
<1> QED
  BY <1>1, <1>2 DEF ApplyMigration

----------------------------------------------------------------------------
(* The steps after the migrations *)

LEMMA SeedStep ==
  ASSUME IInv, NEW p \in Processes, RunSeeds(p) PROVE IInv'
<1>1. CASE Fail(p)
  BY <1>1, Failing
<1>2. CASE /\ seeded' = TRUE /\ roles' = BuiltIn /\ granted' = BuiltIn
           /\ Goto(p, AfterSeeds[kind[p]])
           /\ UNCHANGED <<created, recorded, effects, users, audited, file, seen>>
  <2>1. kind[p] \in {"development", "seed"}
    BY DEF RunSeeds, IInv, KindsFollowed
  <2>2. PICK step \in {"count", "done"} : Goto(p, step)
    BY <1>2, <2>1 DEF AfterSeeds
  <2>3. TypeOK'
    BY <1>2, <2>2 DEF IInv, TypeOK, Goto, Steps, Ends
  <2>4. KindsFollowed' /\ FilesFollowed' /\ MigrationsOnceInOrder'
    BY <1>2, <2>2 DEF IInv, TypeOK, KindsFollowed, FilesFollowed, MigrationsOnceInOrder, Goto
  <2>5. AdminsFirst' /\ ServingHasAdministrator'
    BY <1>2, <2>2 DEF IInv, TypeOK, AdminsFirst, Bootstrapping, ServingHasAdministrator,
         Administrators, BuiltIn, Goto
  <2> QED
    BY <2>3, <2>4, <2>5 DEF IInv
<1> QED
  BY <1>1, <1>2 DEF RunSeeds

LEMMA CountStep ==
  ASSUME IInv, NEW p \in Processes, CountUsers(p) PROVE IInv'
<1>1. CASE Fail(p)
  BY <1>1, Failing
<1>2. CASE Query(p, "adminRole", DOMAIN users # {})
  <2>1. TypeOK' /\ KindsFollowed' /\ FilesFollowed' /\ MigrationsOnceInOrder'
    BY <1>2 DEF IInv, TypeOK, KindsFollowed, FilesFollowed, MigrationsOnceInOrder,
         Query, Goto, database, Steps, Ends
  <2>2. AdminsFirst' /\ ServingHasAdministrator'
    BY <1>2 DEF IInv, TypeOK, AdminsFirst, Bootstrapping, ServingHasAdministrator,
         Administrators, Query, Goto, database
  <2> QED
    BY <2>1, <2>2 DEF IInv
<1> QED
  BY <1>1, <1>2 DEF CountUsers

(* A step of ensureRole, and what it may go on to: the role that was looked  *)
(* up is complete before the next one, and a default user is created or the  *)
(* server started only after both.                                           *)
LEMMA RoleStep ==
  ASSUME IInv, NEW p \in Processes, NEW step, Goto(p, step),
         pc[p] \in Bootstrapping, step \in Bootstrapping \cup {"serving", "adminUser"},
         granted \subseteq granted', roles \subseteq roles',
         granted' \subseteq roles', roles' \subseteq BuiltIn,
         step \notin {"adminRole", "grantAdmin", "insertAdmin"} => "admin" \in granted',
         step = "serving" => seen[p],
         step = "grantAdmin" => "admin" \in roles,
         step = "grantOperator" => "operator" \in roles,
         UNCHANGED <<created, recorded, effects, seeded, users, audited, file, seen>>
  PROVE  IInv'
<1>1. TypeOK'
  BY DEF IInv, TypeOK, Goto, Steps, Ends, Bootstrapping
<1>2. KindsFollowed' /\ FilesFollowed' /\ MigrationsOnceInOrder'
  BY DEF IInv, TypeOK, KindsFollowed, FilesFollowed, MigrationsOnceInOrder, Goto, Bootstrapping
<1>3. AdminsFirst'
  BY DEF IInv, TypeOK, AdminsFirst, Bootstrapping, Administrators, Goto
<1>4. ServingHasAdministrator'
  BY DEF IInv, TypeOK, AdminsFirst, Bootstrapping, ServingHasAdministrator,
         Administrators, Goto
<1> QED
  BY <1>1, <1>2, <1>3, <1>4 DEF IInv

LEMMA EnsureRolesStep ==
  ASSUME IInv, NEW p \in Processes, EnsureRoles(p) PROVE IInv'
<1>1. SUFFICES ASSUME ~Fail(p) PROVE IInv'
  BY Failing
<1> USE DEF IInv, TypeOK, AdminsFirst, Bootstrapping, BuiltIn
<1>2. CASE FindRole(p, "adminRole", "admin", "grantAdmin", "insertAdmin")
  <2>1. PICK step \in {"grantAdmin", "insertAdmin"} : Goto(p, step)
    BY <1>2 DEF FindRole
  <2> QED
    BY <1>2, <2>1, RoleStep DEF FindRole, database
<1>3. CASE GrantDefaults(p, "grantAdmin", "admin", "operatorRole")
  BY <1>1, <1>3, RoleStep DEF GrantDefaults
<1>4. CASE InsertRole(p, "insertAdmin", "admin", "operatorRole")
  BY <1>1, <1>4, RoleStep DEF InsertRole
<1>5. CASE FindRole(p, "operatorRole", "operator", "grantOperator", "insertOperator")
  <2>1. PICK step \in {"grantOperator", "insertOperator"} : Goto(p, step)
    BY <1>5 DEF FindRole
  <2> QED
    BY <1>5, <2>1, RoleStep DEF FindRole, database
<1>6. CASE GrantDefaults(p, "grantOperator", "operator", AfterRoles(p))
  BY <1>1, <1>6, RoleStep DEF GrantDefaults, AfterRoles
<1>7. CASE InsertRole(p, "insertOperator", "operator", AfterRoles(p))
  BY <1>1, <1>7, RoleStep DEF InsertRole, AfterRoles
<1> QED
  BY <1>2, <1>3, <1>4, <1>5, <1>6, <1>7 DEF EnsureRoles

(* A user is added; unless it is an administrator, there is one already.    *)
LEMMA AddUserStep ==
  ASSUME IInv, NEW p \in Processes, NEW name \in AdminNames \cup BuiltIn,
         NEW role \in BuiltIn, NEW step, AddUser(p, name, role, step),
         step \in {"operatorUser", "serving", "audit"},
         role = "admin" \/ Administrators # {},
         step = "audit" \/ "admin" \in granted
  PROVE  IInv'
<1>1. CASE Fail(p)
  BY <1>1, Failing
<1>2. CASE /\ name \notin DOMAIN users
           /\ users' = [u \in DOMAIN users \cup {name} |-> IF u = name THEN role ELSE users[u]]
           /\ Goto(p, step)
           /\ UNCHANGED <<created, recorded, effects, seeded, roles, granted, audited, file, seen>>
  <2>1. TypeOK'
    BY <1>2 DEF IInv, TypeOK, Goto, Steps, Ends
  <2>2. KindsFollowed' /\ FilesFollowed' /\ MigrationsOnceInOrder'
    BY <1>2 DEF IInv, TypeOK, KindsFollowed, FilesFollowed, MigrationsOnceInOrder, Goto
  <2>3. Administrators' # {}
    BY <1>2 DEF Administrators
  <2>4. AdminsFirst' /\ ServingHasAdministrator'
    BY <1>2, <2>3 DEF IInv, TypeOK, AdminsFirst, Bootstrapping, ServingHasAdministrator, Goto
  <2> QED
    BY <2>1, <2>2, <2>4 DEF IInv
<1> QED
  BY <1>1, <1>2 DEF AddUser

LEMMA NextStep ==
  ASSUME IInv, [Next]_vars PROVE IInv'
<1>1. CASE UNCHANGED vars
  BY <1>1 DEF IInv, TypeOK, KindsFollowed, FilesFollowed, MigrationsOnceInOrder,
       AdminsFirst, ServingHasAdministrator, Administrators, vars, database
<1>2. ASSUME NEW p \in Processes, Start(p) PROVE IInv'
  <2>1. kind[p] \in AllKinds /\ pc[p] = "off"
    BY <1>2, DeploymentAssumption DEF Start, IInv, TypeOK
  <2> DEFINE step == FirstStep[kind[p]]
  <2>2. /\ pc' = [pc EXCEPT ![p] = step]
        /\ step \in {"table", "count", "seeds", "listRoles"}
        /\ step = "table" => kind[p] \in {"development", "production", "migrate"}
        /\ step = "seeds" => kind[p] = "seed"
    BY <1>2, <2>1 DEF Start, FirstStep, AllKinds
  <2>3. /\ seen' = [seen EXCEPT ![p] = created]
        /\ UNCHANGED <<database, kind, file>>
    BY <1>2 DEF Start
  <2> HIDE DEF step
  <2>4. atStart' \in [Processes -> [admin : BOOLEAN, alone : BOOLEAN]]
    BY <1>2 DEF Start, IInv, TypeOK
  <2>5. TypeOK'
    BY <2>2, <2>3, <2>4 DEF IInv, TypeOK, database, Steps, Ends
  <2>6. KindsFollowed' /\ FilesFollowed' /\ MigrationsOnceInOrder'
    BY <2>1, <2>2, <2>3 DEF IInv, TypeOK, KindsFollowed, FilesFollowed, MigrationsOnceInOrder, database
  <2>7. AdminsFirst' /\ ServingHasAdministrator'
    BY <2>2, <2>3 DEF IInv, TypeOK, AdminsFirst, Bootstrapping, ServingHasAdministrator,
         Administrators, database
  <2> QED
    BY <2>5, <2>6, <2>7 DEF IInv
<1>3. ASSUME NEW p \in Processes, Crash(p) PROVE IInv'
  BY <1>3, Leaving DEF Crash
<1>4. ASSUME NEW p \in Processes, CreateDefaultUsers(p) PROVE IInv'
  <2>1. CASE pc[p] = "adminUser" /\ AddUser(p, "admin", "admin", "operatorUser")
    BY <2>1, AddUserStep DEF IInv, AdminsFirst, BuiltIn
  <2>2. CASE pc[p] = "operatorUser" /\ AddUser(p, "operator", "operator", "serving")
    BY <2>2, AddUserStep DEF IInv, AdminsFirst, BuiltIn
  <2> QED
    BY <1>4, <2>1, <2>2 DEF CreateDefaultUsers
<1>5. ASSUME NEW p \in Processes, ListRoles(p) \/ ListUsers(p) PROVE IInv'
  BY <1>5, Leaving, Failing DEF ListRoles, ListUsers
<1>6. ASSUME NEW p \in Processes, CreateAdministrator(p) PROVE IInv'
  <2>1. PICK name \in AdminNames : AddUser(p, name, "admin", "audit")
    BY <1>6 DEF CreateAdministrator
  <2> QED
    BY <2>1, AddUserStep DEF BuiltIn
<1>7. ASSUME NEW p \in Processes, WriteAudit(p) PROVE IInv'
  <2>1. TypeOK'
    BY <1>7 DEF WriteAudit, IInv, TypeOK, Goto, Steps, Ends
  <2>2. KindsFollowed' /\ FilesFollowed' /\ MigrationsOnceInOrder'
    BY <1>7 DEF WriteAudit, IInv, TypeOK, KindsFollowed, FilesFollowed, MigrationsOnceInOrder, Goto
  <2>3. AdminsFirst' /\ ServingHasAdministrator'
    BY <1>7 DEF WriteAudit, IInv, TypeOK, AdminsFirst, Bootstrapping, ServingHasAdministrator,
         Administrators, Goto
  <2> QED
    BY <2>1, <2>2, <2>3 DEF IInv
<1> QED
  BY <1>1, <1>2, <1>3, <1>4, <1>5, <1>6, <1>7, TableStep, CheckStep, ApplyStep,
     SeedStep, CountStep, EnsureRolesStep DEF Next

THEOREM Invariance == Spec => []IInv
<1>1. Init => IInv
  BY Initial
<1>2. IInv /\ [Next]_vars => IInv'
  BY NextStep
<1> QED
  BY <1>1, <1>2, PTL DEF Spec

(* The database's records and every process's local state keep their types. *)
THEOREM TypeCorrect == Spec => []TypeOK
<1>1. IInv => TypeOK
  BY DEF IInv
<1> QED
  BY <1>1, Invariance, PTL

(* Whatever runners race and wherever they stop, RunUp executes a migration  *)
(* file once and after its predecessor.                                      *)
THEOREM MigrationsExact == Spec => []MigrationsOnceInOrder
<1>1. IInv => MigrationsOnceInOrder
  BY DEF IInv
<1> QED
  BY <1>1, Invariance, PTL

(* BootstrapDevelopmentData lets no server come up without an administrator. *)
THEOREM ServersHaveAdministrator == Spec => []ServingHasAdministrator
<1>1. IInv => ServingHasAdministrator
  BY DEF IInv
<1> QED
  BY <1>1, Invariance, PTL

----------------------------------------------------------------------------
(* A process that prepares the database by itself *)

Alone(p) == atStart[p].alone

(* Of a development server: the steps that need the tables and, but for the *)
(* first, the seeds.                                                        *)
DevelopmentSteps == {"seeds", "count", "adminUser", "operatorUser"} \cup Bootstrapping

Prepared(p) ==
  /\ file[p] = 1 \/ 1 \in recorded
  /\ pc[p] \in Steps /\ kind[p] \in {"production", "migrate"}
       => pc[p] \in {"table", "check", "apply"}
  /\ kind[p] = "development" => pc[p] \notin {"listRoles", "listUsers", "create", "audit"}
  /\ kind[p] = "development" /\ pc[p] \in DevelopmentSteps
       => /\ 1 \in recorded
          /\ pc[p] # "seeds" => seeded /\ roles = BuiltIn
          /\ pc[p] \notin {"insertAdmin", "insertOperator"}

(* What the process read last is still so. *)
Undisturbed(p) ==
  /\ pc[p] = "table" /\ created => seen[p]
  /\ pc[p] = "apply" => file[p] \notin recorded
  /\ pc[p] \in Bootstrapping /\ ~seen[p] => DOMAIN users = {}
  /\ pc[p] = "adminUser" => DOMAIN users = {}
  /\ pc[p] = "operatorUser" => "operator" \notin DOMAIN users

Succeeds(p) ==
  pc[p] = "failed" /\ kind[p] \in {"development", "production", "migrate"} => ~Alone(p)

AloneInv ==
  \A p \in Processes :
    /\ Prepared(p) /\ Succeeds(p)
    /\ pc[p] \in Steps /\ Alone(p)
         => Undisturbed(p) /\ \A q \in Processes \ {p} : pc[q] \notin Steps

(* The step of a process concerns no other that is alone. *)
LEMMA OwnStep ==
  ASSUME TypeOK, AloneInv, NEW p \in Processes, NEW step, Goto(p, step),
         pc[p] \in Steps \/ step \notin Steps,
         recorded \subseteq recorded', roles \subseteq roles', roles' \subseteq BuiltIn,
         seeded => seeded',
         \A q \in Processes \ {p} : file'[q] = file[q],
         pc[p] \in Steps \/ UNCHANGED <<created, recorded, users, seen>>,
         Prepared(p)', Succeeds(p)', pc'[p] \in Steps /\ Alone(p) => Undisturbed(p)'
  PROVE  AloneInv'
<1>1. /\ pc' = [pc EXCEPT ![p] = step]
      /\ kind' = kind /\ atStart' = atStart
  BY DEF Goto
<1>2. SUFFICES ASSUME NEW q \in Processes
               PROVE  /\ Prepared(q)' /\ Succeeds(q)'
                      /\ pc'[q] \in Steps /\ Alone(q)'
                           => /\ Undisturbed(q)'
                              /\ \A o \in Processes \ {q} : pc'[o] \notin Steps
  BY DEF AloneInv
<1>3. CASE q = p
  <2>1. pc'[p] \in Steps /\ Alone(p)' => \A o \in Processes \ {p} : pc'[o] \notin Steps
    BY <1>1 DEF TypeOK, AloneInv, Alone
  <2> QED
    BY <1>1, <1>3, <2>1 DEF Alone
<1>4. CASE q # p
  <2>1. pc'[q] = pc[q] /\ kind'[q] = kind[q] /\ Alone(q)' = Alone(q) /\ file'[q] = file[q]
    BY <1>1, <1>4 DEF TypeOK, Alone
  <2>2. Prepared(q)'
    BY <2>1 DEF AloneInv, Prepared
  <2>3. Succeeds(q)'
    BY <2>1 DEF AloneInv, Succeeds
  <2>4. ASSUME pc[q] \in Steps, Alone(q)
        PROVE  /\ Undisturbed(q)'
               /\ \A o \in Processes \ {q} : pc'[o] \notin Steps
    <3>1. pc[p] \notin Steps
      BY <1>4, <2>4 DEF AloneInv
    <3>2. Undisturbed(q)'
      BY <2>1, <2>4, <3>1 DEF AloneInv, Undisturbed
    <3>3. \A o \in Processes \ {q} : pc'[o] \notin Steps
      BY <1>1, <2>4, <3>1 DEF AloneInv, TypeOK
    <3> QED
      BY <3>2, <3>3
  <2> QED
    BY <2>1, <2>2, <2>3, <2>4
<1> QED
  BY <1>3, <1>4

LEMMA OwnFailure ==
  ASSUME TypeOK, AloneInv, NEW p \in Processes, Fail(p), pc[p] \in Steps,
         kind[p] \in {"development", "production", "migrate"} => ~Alone(p)
  PROVE  AloneInv'
<1>1. pc'[p] = "failed" /\ UNCHANGED <<database, file, seen, kind, atStart>>
  BY DEF Fail, Goto, TypeOK
<1>2. Prepared(p)' /\ Succeeds(p)'
  BY <1>1 DEF AloneInv, Prepared, Succeeds, Alone, DevelopmentSteps, Bootstrapping, Steps, database
<1>3. pc'[p] \notin Steps /\ roles \subseteq BuiltIn
  BY <1>1 DEF Steps, TypeOK
<1> QED
  BY <1>1, <1>2, <1>3, OwnStep DEF Fail, database

LEMMA AloneStep ==
  ASSUME IInv, AloneInv, [Next]_vars PROVE AloneInv'
<1> USE DEF IInv
<1>1. CASE UNCHANGED vars
  BY <1>1 DEF AloneInv, Prepared, Succeeds, Undisturbed, Alone, vars, database
<1>2. ASSUME NEW p \in Processes, Start(p) PROVE AloneInv'
  <2> DEFINE step == FirstStep[kind[p]]
  <2>1. kind[p] \in AllKinds /\ pc[p] = "off"
    BY <1>2, DeploymentAssumption DEF Start, TypeOK
  <2>2. /\ pc' = [pc EXCEPT ![p] = step]
        /\ step \in {"table", "count", "seeds", "listRoles"}
        /\ kind[p] \in {"development", "production", "migrate"} => step = "table"
    BY <1>2, <2>1 DEF Start, FirstStep, AllKinds
  <2>3. seen' = [seen EXCEPT ![p] = created] /\ UNCHANGED <<database, kind, file>>
    BY <1>2 DEF Start
  <2> HIDE DEF step
  <2>4. \A q \in Processes :
          /\ q # p => pc'[q] = pc[q] /\ seen'[q] = seen[q]
          /\ q # p /\ Alone(q)' => pc[q] \notin Steps /\ Alone(q)
          /\ q # p /\ Alone(q) /\ pc[q] \notin Steps => Alone(q)'
          /\ q = p => (Alone(q)' <=> Preparing = {})
    <3>1. TAKE q \in Processes
    <3>2. q # p => pc'[q] = pc[q] /\ seen'[q] = seen[q]
      BY <2>2, <2>3 DEF TypeOK
    <3>3. atStart'[q] = IF q = p
            THEN [admin |-> Administrators # {}, alone |-> Preparing = {}]
            ELSE IF q \in Preparing THEN [atStart[q] EXCEPT !.alone = FALSE]
            ELSE atStart[q]
      BY <1>2 DEF Start
    <3>4. atStart[q] \in [admin : BOOLEAN, alone : BOOLEAN]
      BY DEF TypeOK
    <3>5. q \in Preparing <=> pc[q] \in Steps
      BY DEF Preparing
    <3>6. q # p => Alone(q)' = (IF q \in Preparing THEN FALSE ELSE Alone(q))
      BY <3>3, <3>4 DEF Alone
    <3>7. q = p => Alone(q)' = (Preparing = {})
      BY <3>3 DEF Alone
    <3> QED
      BY <3>2, <3>5, <3>6, <3>7
  <2>5. pc'[p] = step /\ seen'[p] = created
    BY <2>2, <2>3 DEF TypeOK
  <2>6. SUFFICES ASSUME NEW q \in Processes
                 PROVE  /\ Prepared(q)' /\ Succeeds(q)'
                        /\ pc'[q] \in Steps /\ Alone(q)'
                             => /\ Undisturbed(q)'
                                /\ \A o \in Processes \ {q} : pc'[o] \notin Steps
    BY DEF AloneInv
  <2>7. CASE q = p
    <3>1. Prepared(q)' /\ Succeeds(q)' /\ Undisturbed(q)'
      BY <2>1, <2>2, <2>3, <2>5, <2>7
         DEF AloneInv, Prepared, Succeeds, Undisturbed, DevelopmentSteps, Bootstrapping, Steps, database
    <3>2. Alone(q)' => \A o \in Processes \ {q} : pc'[o] \notin Steps
      BY <2>4, <2>7 DEF Preparing
    <3> QED
      BY <3>1, <3>2
  <2>8. CASE q # p
    <3>1. Prepared(q)'
      BY <2>3, <2>4, <2>8 DEF AloneInv, Prepared, database
    <3>2. Succeeds(q)'
      BY <2>3, <2>4, <2>8 DEF AloneInv, Succeeds
    <3> QED
      BY <2>4, <2>8, <3>1, <3>2
  <2> QED
    BY <2>7, <2>8
<1>3. ASSUME NEW p \in Processes, Crash(p) PROVE AloneInv'
  <2>1. pc'[p] = "stopped" /\ UNCHANGED <<database, file, seen, kind, atStart>>
    BY <1>3 DEF Crash, Goto, TypeOK
  <2>2. Prepared(p)' /\ Succeeds(p)'
    BY <2>1 DEF AloneInv, Prepared, Succeeds, DevelopmentSteps, Bootstrapping, Steps, database
  <2>3. "stopped" \notin Steps /\ roles \subseteq BuiltIn
    BY DEF Steps, TypeOK
  <2> QED
    BY <1>3, <2>1, <2>2, <2>3, OwnStep DEF Crash, database
<1>4. ASSUME NEW p \in Processes, EnsureTable(p) PROVE AloneInv'
  <2>1. CASE created /\ ~seen[p] /\ Fail(p)
    BY <1>4, <2>1, OwnFailure DEF EnsureTable, AloneInv, Undisturbed, Steps
  <2>2. CASE /\ created' = TRUE
             /\ Goto(p, "check")
             /\ UNCHANGED <<recorded, effects, seeded, roles, granted, users, audited, file, seen>>
    <3>1. pc'[p] = "check" /\ kind' = kind
      BY <2>2 DEF Goto, TypeOK
    <3>2. Prepared(p)' /\ Succeeds(p)' /\ Undisturbed(p)'
      BY <2>2, <3>1 DEF AloneInv, Prepared, Succeeds, Undisturbed, DevelopmentSteps, Bootstrapping, Steps
    <3> QED
      BY <1>4, <2>2, <3>2, OwnStep DEF EnsureTable, Steps, TypeOK
  <2> QED
    BY <1>4, <2>1, <2>2 DEF EnsureTable
<1>5. ASSUME NEW p \in Processes, CheckVersion(p) \/ ApplyMigration(p) PROVE AloneInv'
  <2>1. pc[p] \in {"check", "apply"} /\ kind[p] \in {"development", "production", "migrate"}
    BY <1>5 DEF CheckVersion, ApplyMigration, KindsFollowed
  <2>2. CASE Fail(p) /\ pc[p] = "apply" /\ file[p] \in recorded
    BY <2>1, <2>2, OwnFailure DEF AloneInv, Undisturbed, Steps
  <2>3. CASE NextFile(p) /\ recorded' = recorded \cup {file[p]}
             /\ UNCHANGED <<seeded, roles, users>>
    <3> DEFINE step == IF file[p] = Files THEN AfterFiles[kind[p]] ELSE "check"
    <3>1. /\ Goto(p, step)
          /\ step \in {"check", "seeds", "done", "serving"}
          /\ step = "seeds" => kind[p] = "development"
      BY <2>1, <2>3 DEF NextFile, AfterFiles
    <3>2. file' = [file EXCEPT ![p] = file[p] + 1] /\ UNCHANGED seen
      BY <2>3 DEF NextFile
    <3> HIDE DEF step
    <3>3. pc'[p] = step /\ kind' = kind
      BY <3>1 DEF Goto, TypeOK
    <3>4. 1 \in recorded'
      BY <2>3 DEF AloneInv, Prepared
    <3>5. Prepared(p)' /\ Succeeds(p)' /\ Undisturbed(p)'
      BY <2>1, <3>1, <3>3, <3>4
         DEF Prepared, Succeeds, Undisturbed, DevelopmentSteps, Bootstrapping, Steps
    <3> QED
      BY <2>1, <2>3, <3>1, <3>2, <3>5, OwnStep DEF Steps, TypeOK
  <2>4. CASE /\ file[p] \notin recorded
             /\ Goto(p, "apply") /\ UNCHANGED <<database, file, seen>>
    <3>1. pc'[p] = "apply" /\ kind' = kind
      BY <2>4 DEF Goto, TypeOK
    <3>2. Prepared(p)' /\ Succeeds(p)' /\ Undisturbed(p)'
      BY <2>4, <3>1 DEF AloneInv, Prepared, Succeeds, Undisturbed, DevelopmentSteps,
           Bootstrapping, Steps, database
    <3> QED
      BY <2>1, <2>4, <3>2, OwnStep DEF Steps, TypeOK, database
  <2> QED
    BY <1>5, <2>2, <2>3, <2>4 DEF CheckVersion, ApplyMigration, Execute, database
<1>6. ASSUME NEW p \in Processes, RunSeeds(p) PROVE AloneInv'
  <2>1. pc[p] = "seeds" /\ kind[p] \in {"development", "seed"}
    BY <1>6 DEF RunSeeds, KindsFollowed
  <2>2. kind[p] = "development" => 1 \in recorded /\ TablesExist
    BY <2>1, DeploymentAssumption
       DEF AloneInv, Prepared, DevelopmentSteps, MigrationsOnceInOrder, TablesExist
  <2>3. CASE ~TablesExist /\ Fail(p)
    BY <2>1, <2>2, <2>3, OwnFailure DEF Steps
  <2>4. CASE /\ seeded' = TRUE /\ roles' = BuiltIn /\ granted' = BuiltIn
             /\ Goto(p, AfterSeeds[kind[p]])
             /\ UNCHANGED <<created, recorded, effects, users, audited, file, seen>>
    <3>1. PICK step \in {"count", "done"} : Goto(p, step)
      BY <2>1, <2>4 DEF AfterSeeds
    <3>2. pc'[p] = step /\ kind' = kind
      BY <3>1 DEF Goto, TypeOK
    <3>3. Prepared(p)' /\ Succeeds(p)' /\ Undisturbed(p)'
      BY <2>1, <2>2, <2>4, <3>1, <3>2
         DEF AloneInv, Prepared, Succeeds, Undisturbed, DevelopmentSteps, Bootstrapping, Steps
    <3> QED
      BY <2>1, <2>4, <3>1, <3>3, OwnStep DEF Steps, TypeOK
  <2> QED
    BY <1>6, <2>3, <2>4 DEF RunSeeds
<1>7. ASSUME NEW p \in Processes, CountUsers(p) PROVE AloneInv'
  <2>1. pc[p] = "count"
    BY <1>7 DEF CountUsers
  <2>2. kind[p] = "development" => TablesExist
    BY <2>1, DeploymentAssumption
       DEF AloneInv, Prepared, DevelopmentSteps, MigrationsOnceInOrder, TablesExist
  <2>3. kind[p] \notin {"production", "migrate"}
    BY <2>1 DEF AloneInv, Prepared, Steps
  <2>4. CASE ~TablesExist /\ Fail(p)
    BY <2>1, <2>2, <2>3, <2>4, OwnFailure DEF Steps
  <2>5. CASE Query(p, "adminRole", DOMAIN users # {})
    <3>1. Goto(p, "adminRole") /\ pc'[p] = "adminRole" /\ kind' = kind
      BY <2>5 DEF Query, Goto, TypeOK
    <3>2. seen'[p] = (DOMAIN users # {}) /\ UNCHANGED <<database, file>>
      BY <2>5 DEF Query, TypeOK
    <3>3. Prepared(p)' /\ Succeeds(p)' /\ Undisturbed(p)'
      BY <2>1, <2>3, <3>1, <3>2
         DEF AloneInv, Prepared, Succeeds, Undisturbed, DevelopmentSteps, Bootstrapping, Steps, database
    <3> QED
      BY <2>1, <3>1, <3>2, <3>3, OwnStep DEF Steps, TypeOK, database
  <2> QED
    BY <1>7, <2>4, <2>5 DEF CountUsers
<1>8. ASSUME NEW p \in Processes, EnsureRoles(p) PROVE AloneInv'
  <2>1. pc[p] \in Bootstrapping /\ kind[p] \notin {"production", "migrate"}
    BY <1>8 DEF EnsureRoles, FindRole, GrantDefaults, InsertRole, Bootstrapping,
         AloneInv, Prepared, Steps
  <2>2. CASE Fail(p) /\ kind[p] # "development"
    BY <2>1, <2>2, OwnFailure DEF Steps, Bootstrapping
  <2>3. ASSUME NEW step \in Bootstrapping \cup {"serving", "adminUser"}, Goto(p, step),
               roles \subseteq roles', roles' \subseteq BuiltIn,
               step = "adminUser" => ~seen[p],
               kind[p] = "development" => step \notin {"insertAdmin", "insertOperator"},
               UNCHANGED <<created, recorded, effects, seeded, users, audited, file, seen>>
        PROVE  AloneInv'
    <3>1. pc'[p] = step /\ kind' = kind
      BY <2>3 DEF Goto, TypeOK
    <3>2. Prepared(p)'
      BY <2>1, <2>3, <3>1 DEF AloneInv, Prepared, DevelopmentSteps, Bootstrapping, Steps, BuiltIn
    <3>3. Succeeds(p)'
      BY <2>3, <3>1 DEF Succeeds, Bootstrapping
    <3>4. Alone(p) => Undisturbed(p)'
      BY <2>1, <2>3, <3>1 DEF AloneInv, Undisturbed, Bootstrapping, Steps
    <3> QED
      BY <2>1, <2>3, <3>2, <3>3, <3>4, OwnStep DEF Steps, Bootstrapping
  <2>4. kind[p] = "development"
          => /\ pc[p] \notin {"insertAdmin", "insertOperator"}
             /\ seeded /\ "admin" \in roles /\ "operator" \in roles
    BY <2>1 DEF AloneInv, Prepared, DevelopmentSteps, Bootstrapping, BuiltIn
  <2>5. roles \subseteq BuiltIn
    BY DEF TypeOK
  <2> USE DEF BuiltIn, Bootstrapping
  <2>6. CASE FindRole(p, "adminRole", "admin", "grantAdmin", "insertAdmin")
    BY <2>3, <2>4, <2>5, <2>6 DEF FindRole, database
  <2>7. CASE GrantDefaults(p, "grantAdmin", "admin", "operatorRole")
    BY <2>2, <2>3, <2>4, <2>5, <2>7 DEF GrantDefaults
  <2>8. CASE InsertRole(p, "insertAdmin", "admin", "operatorRole")
    BY <2>2, <2>3, <2>4, <2>5, <2>8 DEF InsertRole
  <2>9. CASE FindRole(p, "operatorRole", "operator", "grantOperator", "insertOperator")
    BY <2>3, <2>4, <2>5, <2>9 DEF FindRole, database
  <2>10. CASE GrantDefaults(p, "grantOperator", "operator", AfterRoles(p))
    BY <2>2, <2>3, <2>4, <2>5, <2>10 DEF GrantDefaults, AfterRoles
  <2>11. CASE InsertRole(p, "insertOperator", "operator", AfterRoles(p))
    BY <2>2, <2>3, <2>4, <2>5, <2>11 DEF InsertRole, AfterRoles
  <2> QED
    BY <1>8, <2>6, <2>7, <2>8, <2>9, <2>10, <2>11 DEF EnsureRoles
<1>9. ASSUME NEW p \in Processes, CreateDefaultUsers(p) PROVE AloneInv'
  <2>1. pc[p] \in {"adminUser", "operatorUser"} /\ kind[p] \notin {"production", "migrate"}
    BY <1>9 DEF CreateDefaultUsers, AloneInv, Prepared, Steps
  <2>2. PICK name \in {"admin", "operator"}, step \in {"operatorUser", "serving"} :
          /\ AddUser(p, name, name, step)
          /\ pc[p] = "adminUser" => name = "admin"
          /\ pc[p] = "operatorUser" => name = "operator"
          /\ step = "operatorUser" => name = "admin" /\ pc[p] = "adminUser"
    BY <1>9 DEF CreateDefaultUsers
  <2>3. Alone(p) => name \notin DOMAIN users
    BY <2>1, <2>2 DEF AloneInv, Undisturbed, Steps
  <2>4. CASE name \in DOMAIN users /\ Fail(p)
    BY <2>1, <2>3, <2>4, OwnFailure DEF Steps
  <2>5. CASE /\ users' = [u \in DOMAIN users \cup {name} |-> IF u = name THEN name ELSE users[u]]
             /\ Goto(p, step)
             /\ UNCHANGED <<created, recorded, effects, seeded, roles, granted, audited, file, seen>>
    <3>1. pc'[p] = step /\ kind' = kind
      BY <2>5 DEF Goto, TypeOK
    <3>2. Prepared(p)' /\ Succeeds(p)'
      BY <2>1, <2>5, <3>1
         DEF AloneInv, Prepared, Succeeds, DevelopmentSteps, Bootstrapping, Steps
    <3>3. Alone(p) => Undisturbed(p)'
      BY <2>1, <2>2, <2>5, <3>1 DEF AloneInv, Undisturbed, Bootstrapping, Steps
    <3> QED
      BY <2>1, <2>5, <3>2, <3>3, OwnStep DEF Steps, TypeOK
  <2> QED
    BY <2>2, <2>4, <2>5 DEF AddUser
<1>10. ASSUME NEW p \in Processes,
              ListRoles(p) \/ ListUsers(p) \/ CreateAdministrator(p) \/ WriteAudit(p)
       PROVE  AloneInv'
  <2>1. /\ pc[p] \in {"listRoles", "listUsers", "create", "audit"}
        /\ kind[p] \notin {"development", "production", "migrate"}
    BY <1>10 DEF ListRoles, ListUsers, CreateAdministrator, WriteAudit, AloneInv, Prepared, Steps
  <2>2. CASE Fail(p)
    BY <2>1, <2>2, OwnFailure DEF Steps
  <2>3. ASSUME NEW step \in {"listUsers", "create", "audit", "done"}, Goto(p, step),
               UNCHANGED <<created, recorded, effects, seeded, roles, granted, file, seen>>
        PROVE  AloneInv'
    <3>1. pc'[p] = step /\ kind' = kind
      BY <2>3 DEF Goto, TypeOK
    <3>2. Prepared(p)' /\ Succeeds(p)' /\ Undisturbed(p)'
      BY <2>1, <2>3, <3>1
         DEF AloneInv, Prepared, Succeeds, Undisturbed, DevelopmentSteps, Bootstrapping, Steps
    <3> QED
      BY <2>1, <2>3, <3>2, OwnStep DEF Steps, TypeOK
  <2> QED
    BY <1>10, <2>2, <2>3
       DEF ListRoles, ListUsers, CreateAdministrator, AddUser, WriteAudit, database
<1> QED
  BY <1>1, <1>2, <1>3, <1>4, <1>5, <1>6, <1>7, <1>8, <1>9, <1>10 DEF Next

(* A process that migrates, a server with all its bootstrap included, fails  *)
(* only when another one prepares the database besides; a crash at any       *)
(* statement of an earlier process leaves nothing that stands in its way.    *)
THEOREM RestartsSucceed == Spec => []StartAloneSucceeds
<1>1. Init => AloneInv
  BY DEF Init, AloneInv, Prepared, Succeeds, Undisturbed, Steps, DevelopmentSteps, Bootstrapping
<1>2. IInv /\ AloneInv /\ [Next]_vars => AloneInv'
  BY AloneStep
<1>3. AloneInv => StartAloneSucceeds
  BY DEF AloneInv, Succeeds, Alone, StartAloneSucceeds
<1> QED
  BY <1>1, <1>2, <1>3, Invariance, PTL DEF Spec

----------------------------------------------------------------------------
(* The refusal of a second administrator *)

(* An administrator that a process has found at its start is still there, so *)
(* that the command does not get past its look at the users.                 *)
RefusalInv ==
  \A p \in Processes :
    /\ atStart[p].admin => Administrators # {}
    /\ pc[p] = "create" => ~atStart[p].admin

(* Adding a user removes no administrator. *)
LEMMA AdministratorsStay ==
  ASSUME NEW p \in Processes, NEW name, NEW role, NEW step, AddUser(p, name, role, step)
  PROVE  Administrators \subseteq Administrators'
<1>1. CASE Fail(p)
  BY <1>1 DEF Fail, database, Administrators
<1>2. CASE /\ name \notin DOMAIN users
           /\ users' = [u \in DOMAIN users \cup {name} |-> IF u = name THEN role ELSE users[u]]
  BY <1>2 DEF Administrators
<1> QED
  BY <1>1, <1>2 DEF AddUser

(* Only the look at the users leads to the creation. *)
LEMMA GoingOn ==
  ASSUME TypeOK, RefusalInv, NEW p \in Processes, NEW step, Goto(p, step),
         Administrators \subseteq Administrators',
         step = "create" => Administrators = {}
  PROVE  RefusalInv'
<1>1. pc' = [pc EXCEPT ![p] = step] /\ atStart' = atStart
  BY DEF Goto
<1>2. SUFFICES ASSUME NEW q \in Processes
               PROVE  /\ atStart'[q].admin => Administrators' # {}
                      /\ pc'[q] = "create" => ~atStart'[q].admin
  BY DEF RefusalInv
<1>3. /\ atStart[q].admin => Administrators # {}
      /\ pc[q] = "create" => ~atStart[q].admin
  BY DEF RefusalInv
<1>4. pc'[q] = IF q = p THEN step ELSE pc[q]
  BY <1>1 DEF TypeOK
<1> QED
  BY <1>1, <1>3, <1>4

LEMMA RefusalStep ==
  ASSUME IInv, RefusalInv, [Next]_vars PROVE RefusalInv'
<1>1. TypeOK /\ KindsFollowed
  BY DEF IInv
<1>2. CASE UNCHANGED vars
  BY <1>2 DEF RefusalInv, Administrators, vars, database
<1>3. ASSUME NEW p \in Processes, Start(p) PROVE RefusalInv'
  <2>1. kind[p] \in AllKinds /\ pc' = [pc EXCEPT ![p] = FirstStep[kind[p]]]
    BY <1>1, <1>3, DeploymentAssumption DEF Start, TypeOK
  <2>2. FirstStep[kind[p]] # "create"
    BY <2>1 DEF FirstStep, AllKinds
  <2>3. Administrators' = Administrators
    BY <1>3 DEF Start, database, Administrators
  <2>4. SUFFICES ASSUME NEW q \in Processes
                 PROVE  /\ atStart'[q].admin => Administrators # {}
                        /\ pc'[q] = "create" => ~atStart'[q].admin
    BY <2>3 DEF RefusalInv
  <2>5. atStart'[q] = IF q = p
          THEN [admin |-> Administrators # {}, alone |-> Preparing = {}]
          ELSE IF q \in Preparing THEN [atStart[q] EXCEPT !.alone = FALSE]
          ELSE atStart[q]
    BY <1>3 DEF Start
  <2>6. CASE q = p
    <3>1. pc'[q] # "create"
      BY <1>1, <2>1, <2>2, <2>6 DEF TypeOK
    <3>2. atStart'[q].admin = (Administrators # {})
      BY <2>5, <2>6
    <3> QED
      BY <3>1, <3>2
  <2>7. CASE q # p
    <3>1. atStart[q] \in [admin : BOOLEAN, alone : BOOLEAN]
      BY <1>1 DEF TypeOK
    <3>2. atStart'[q].admin = atStart[q].admin
      BY <2>5, <2>7, <3>1
    <3>3. pc'[q] = pc[q]
      BY <1>1, <2>1, <2>7 DEF TypeOK
    <3> QED
      BY <3>2, <3>3 DEF RefusalInv
  <2> QED
    BY <2>6, <2>7
(* A step that leaves the users alone and does not lead to the creation. *)
<1>4. ASSUME NEW p \in Processes, NEW step, Goto(p, step), step # "create", UNCHANGED users
      PROVE  RefusalInv'
  BY <1>1, <1>4, GoingOn DEF Administrators
<1>5. ASSUME NEW p \in Processes, Fail(p) PROVE RefusalInv'
  BY <1>4, <1>5 DEF Fail, database
<1>6. ASSUME NEW p \in Processes, NEW name, NEW role, NEW step, step # "create",
             AddUser(p, name, role, step)
      PROVE  RefusalInv'
  <2>1. CASE Fail(p)
    BY <1>5, <2>1
  <2>2. CASE Goto(p, step)
    BY <1>1, <1>6, <2>2, AdministratorsStay, GoingOn
  <2> QED
    BY <1>6, <2>1, <2>2 DEF AddUser
<1>7. ASSUME NEW p \in Processes, NextFile(p), UNCHANGED users,
             kind[p] \in {"development", "production", "migrate"}
      PROVE  RefusalInv'
  <2>1. AfterFiles[kind[p]] # "create"
    BY <1>7 DEF AfterFiles
  <2> DEFINE step == IF file[p] = Files THEN AfterFiles[kind[p]] ELSE "check"
  <2>2. Goto(p, step) /\ step # "create"
    BY <1>7, <2>1 DEF NextFile
  <2> HIDE DEF step
  <2> QED
    BY <1>4, <1>7, <2>2
<1>8. ASSUME NEW p \in Processes, Crash(p) \/ EnsureTable(p) \/ CheckVersion(p) \/ ApplyMigration(p)
      PROVE  RefusalInv'
  <2>1. pc[p] \in {"check", "apply"} => kind[p] \in {"development", "production", "migrate"}
    BY <1>1 DEF KindsFollowed
  <2>2. CASE Crash(p)
    BY <1>4, <2>2 DEF Crash, database
  <2>3. CASE EnsureTable(p)
    BY <1>4, <1>5, <2>3 DEF EnsureTable
  <2>4. CASE CheckVersion(p)
    BY <1>4, <1>7, <2>1, <2>4 DEF CheckVersion, database
  <2>5. CASE ApplyMigration(p)
    BY <1>5, <1>7, <2>1, <2>5 DEF ApplyMigration, Execute
  <2> QED
    BY <1>8, <2>2, <2>3, <2>4, <2>5
<1>9. ASSUME NEW p \in Processes, RunSeeds(p) PROVE RefusalInv'
  <2>1. pc[p] = "seeds" /\ kind[p] \in {"development", "seed"}
    BY <1>1, <1>9 DEF RunSeeds, KindsFollowed
  <2>2. AfterSeeds[kind[p]] # "create"
    BY <2>1 DEF AfterSeeds
  <2>3. CASE Goto(p, AfterSeeds[kind[p]]) /\ UNCHANGED users
    BY <1>4, <2>2, <2>3
  <2> QED
    BY <1>5, <1>9, <2>3 DEF RunSeeds
<1>10. ASSUME NEW p \in Processes, CountUsers(p) \/ EnsureRoles(p) PROVE RefusalInv'
  <2>1. CASE CountUsers(p)
    BY <1>4, <1>5, <2>1 DEF CountUsers, Query, database
  <2>2. ASSUME NEW from, NEW code, NEW grant \in {"grantAdmin", "grantOperator"},
               NEW insert \in {"insertAdmin", "insertOperator"},
               FindRole(p, from, code, grant, insert)
        PROVE  RefusalInv'
    <3> DEFINE step == IF code \in roles THEN grant ELSE insert
    <3>1. Goto(p, step) /\ step # "create" /\ UNCHANGED users
      BY <2>2 DEF FindRole, database
    <3> HIDE DEF step
    <3> QED
      BY <1>4, <3>1
  <2>3. ASSUME NEW from, NEW code, NEW next \in {"operatorRole", "serving", "adminUser"},
               GrantDefaults(p, from, code, next) \/ InsertRole(p, from, code, next)
        PROVE  RefusalInv'
    BY <1>4, <1>5, <2>3 DEF GrantDefaults, InsertRole
  <2>4. AfterRoles(p) \in {"operatorRole", "serving", "adminUser"}
    BY DEF AfterRoles
  <2> QED
    BY <1>10, <2>1, <2>2, <2>3, <2>4 DEF EnsureRoles
<1>11. ASSUME NEW p \in Processes, CreateDefaultUsers(p) \/ CreateAdministrator(p)
       PROVE  RefusalInv'
  <2>1. ASSUME NEW name, NEW role, NEW step \in {"operatorUser", "serving", "audit"},
               AddUser(p, name, role, step)
        PROVE  RefusalInv'
    BY <1>6, <2>1
  <2>2. CASE CreateDefaultUsers(p)
    <3>1. CASE AddUser(p, "admin", "admin", "operatorUser")
      BY <2>1, <3>1
    <3>2. CASE AddUser(p, "operator", "operator", "serving")
      BY <2>1, <3>2
    <3> QED
      BY <2>2, <3>1, <3>2 DEF CreateDefaultUsers
  <2>3. CASE CreateAdministrator(p)
    <3>1. PICK name \in AdminNames : AddUser(p, name, "admin", "audit")
      BY <2>3 DEF CreateAdministrator
    <3> QED
      BY <2>1, <3>1
  <2> QED
    BY <1>11, <2>2, <2>3
<1>12. ASSUME NEW p \in Processes, ListRoles(p) \/ WriteAudit(p)
       PROVE  RefusalInv'
  BY <1>4, <1>5, <1>12 DEF ListRoles, WriteAudit, database
<1>13. ASSUME NEW p \in Processes, ListUsers(p)
       PROVE  RefusalInv'
  <2>1. CASE Fail(p)
    BY <1>5, <2>1
  <2>2. CASE Administrators = {} /\ Goto(p, "create") /\ UNCHANGED users
    BY <1>1, <2>2, GoingOn DEF Administrators
  <2> QED
    BY <1>13, <2>1, <2>2 DEF ListUsers, HasAdminUser, database
<1> QED
  BY <1>2, <1>3, <1>8, <1>9, <1>10, <1>11, <1>12, <1>13 DEF Next

(* However the commands and the servers race, whatever the name it is given   *)
(* and whether or not other users were created meanwhile, admin create makes  *)
(* no administrator of a database that had one when it was started.           *)
THEOREM SecondAdministratorRefused == Spec => AdminCreationRefused
<1>1. Init => RefusalInv
  <2> SUFFICES ASSUME Init, NEW p \in Processes
               PROVE  ~atStart[p].admin /\ pc[p] # "create"
    BY DEF RefusalInv
  <2>1. atStart[p] = [admin |-> FALSE, alone |-> TRUE] /\ pc[p] = "off"
    BY DEF Init
  <2> QED
    BY <2>1
<1>2. IInv /\ RefusalInv /\ [Next]_vars => RefusalInv'
  BY RefusalStep
<1>3. RefusalInv =>
        [\A p \in Processes :
           pc[p] = "create" /\ Administrators' # Administrators /\ pc'[p] # pc[p]
             => ~atStart[p].admin]_vars
  BY DEF RefusalInv
<1> QED
  BY <1>1, <1>2, <1>3, Invariance, PTL DEF Spec, AdminCreationRefused
=============================================================================
