----------------------------- MODULE UserAdmin -----------------------------
(***************************************************************************)
(* User and role administration: the HTTP handlers that write users and    *)
(* roles (internal/httpapi), the service methods they call                 *)
(* (internal/service) and the in-memory store (internal/store/memory).     *)
(*                                                                         *)
(* Every request runs in a goroutine of its own.  The store takes its lock *)
(* for one call at a time, so one step of a request is one store call and  *)
(* the computation that follows it: the calls of different requests        *)
(* interleave freely.  What a handler read earlier stays in its local      *)
(* variables (work) and may be stale when it writes.                       *)
(***************************************************************************)
EXTENDS UserData

CONSTANTS
  Requests,            \* the HTTP requests of a behaviour
  StoreFaults,         \* TRUE: a store call may return an error
  Calls,               \* the calls the requests may make
  InitialUsers,        \* the users the store holds at the start
  InitialRoles,        \* the roles the store holds at the start
  FirstUserID,         \* the first user ID the store will hand out
  FirstRoleID,         \* the first role ID the store will hand out
  PageSize             \* repository.MaxPageSize

VARIABLES
  users,       \* the store's users by ID
  nextUserID,  \* the store's next user ID
  roles,       \* the store's roles by ID
  nextRoleID,  \* the store's next role ID
  audit,       \* the audit log, as a set of entries
  pc,          \* per request: the store call it makes next
  call,        \* per request: what it asks for
  work,        \* per request: the local variables of its handler
  response,    \* per request: the answer it was given
  committed,   \* history: the requests whose write took effect
  undisturbed  \* history: the requests since whose start no other has written

store == <<users, nextUserID, roles, nextRoleID>>
history == <<committed, undisturbed>>
vars == <<store, audit, pc, call, work, response, history>>

----------------------------------------------------------------------------
(* Types *)

Steps == {"new", "auth", "policy", "roles", "read", "admin", "scan", "write",
          "audit", "auditFailure", "done"}

Responses == {"none", "ok", "unauthorized", "forbidden", "invalid",
              "notFound", "conflict", "lastAdministrator", "internal"}

Work == [principal : User \cup {NoUser}, existing : User \cup {NoUser},
         adminRole : Nat, page : Nat, resource : Nat]

AuditEntry == [request : Requests, actor : Nat, operation : Operations,
               resource : Nat, failed : BOOLEAN]

NoWork == [principal |-> NoUser, existing |-> NoUser,
           adminRole |-> 0, page |-> 0, resource |-> 0]

----------------------------------------------------------------------------
(* Assumptions *)

ASSUME UserAdminAssumption ==
  /\ StoreFaults \in BOOLEAN
  /\ Calls \subseteq Call
  /\ UserMap(InitialUsers) /\ UniqueUsers(InitialUsers)
  /\ RoleMap(InitialRoles) /\ UniqueRoles(InitialRoles)
  /\ RolesKnown(InitialUsers, InitialRoles)
  /\ FirstUserID \in Nat \ {0}
  /\ \A id \in DOMAIN InitialUsers : id < FirstUserID
  /\ FirstRoleID \in Nat \ {0}
  /\ \A id \in DOMAIN InitialRoles : id < FirstRoleID
  /\ PageSize \in Nat \ {0}

----------------------------------------------------------------------------
(* Reading the store *)

(* userConflicts over all stored users but the one being written. *)
UserConflict(id, u) ==
  \E x \in DOMAIN users \ {id} :
    \/ users[x].username = u.username
    \/ u.email # "" /\ users[x].email = u.email

RoleConflict(id, code) ==
  \E x \in DOMAIN roles \ {id} : roles[x].code = code

(* ListUsers for the active users, sorted by ID, and paginate. *)
PageOfActiveUsers(page) ==
  LET active == ActiveUsers(users)
      position(id) == Cardinality({x \in active : x <= id})
  IN  {id \in active : /\ position(id) > (page - 1) * PageSize
                       /\ position(id) <= page * PageSize}

----------------------------------------------------------------------------
(* The store calls of an operation: the role IDs are looked up if there    *)
(* are any, then the target is read, then the write is made.               *)
StepAfterRoles(c) ==
  IF c.op \in RoleWrites \cup {"createUser"} THEN "write" ELSE "read"
FirstStep(c) ==
  IF c.op \in {"createUser", "updateUser"} /\ c.roleIDs # {}
  THEN "roles" ELSE StepAfterRoles(c)

----------------------------------------------------------------------------
(* How a step of a request ends *)

Unwritten == UNCHANGED <<store, audit, history>>

(* The next store call is to be made, with local variables w. *)
Continue(r, step, w) ==
  /\ pc' = [pc EXCEPT ![r] = step]
  /\ work' = [work EXCEPT ![r] = w]
  /\ UNCHANGED <<call, response>>

(* The handler returns; its local variables are gone. *)
Finish(r, answer) ==
  /\ pc' = [pc EXCEPT ![r] = "done"]
  /\ work' = [work EXCEPT ![r] = NoWork]
  /\ response' = [response EXCEPT ![r] = answer]
  /\ UNCHANGED call

Refuse(r, answer) == Finish(r, answer) /\ Unwritten

(* The write took effect on the given record; the audit entry is next. *)
Commit(r, id) ==
  /\ Continue(r, "audit", [work[r] EXCEPT !.resource = id])
  /\ committed' = committed \cup {r}
  /\ undisturbed' = undisturbed \cap {r}
  /\ UNCHANGED audit

----------------------------------------------------------------------------
(* Initial state *)

Init ==
  /\ users = InitialUsers /\ nextUserID = FirstUserID
  /\ roles = InitialRoles /\ nextRoleID = FirstRoleID
  /\ audit = {}
  /\ pc = [r \in Requests |-> "new"]
  /\ call \in [Requests -> Calls]
  /\ work = [r \in Requests |-> NoWork]
  /\ response = [r \in Requests |-> "none"]
  /\ committed = {} /\ undisturbed = {}

----------------------------------------------------------------------------
(* Authentication and authorization: require *)

(* A request with a token that verifies arrives. *)
Start(r) ==
  /\ pc[r] = "new"
  /\ Continue(r, "auth", NoWork)
  /\ undisturbed' = undisturbed \cup {r}
  /\ UNCHANGED <<store, audit, committed>>

(* Faulty variant of LoadPrincipal: a disabled subject is let through. *)
LoadAnyPrincipal(r) ==
  /\ pc[r] = "auth"
  /\ LET id == call[r].actor IN
     \/ /\ id \in DOMAIN users
        /\ Continue(r, "policy", [work[r] EXCEPT !.principal = users[id]])
        /\ Unwritten
     \/ id \notin DOMAIN users /\ Refuse(r, "unauthorized")

(* The token's subject must exist and be active. *)
LoadPrincipal(r) ==
  /\ pc[r] = "auth"
  /\ LET id == call[r].actor IN
     \/ /\ id \in ActiveUsers(users)
        /\ Continue(r, "policy", [work[r] EXCEPT !.principal = users[id]])
        /\ Unwritten
     \/ id \notin ActiveUsers(users) /\ Refuse(r, "unauthorized")

(* The policy is built from the roles as they are now; the input is checked *)
(* as far as that needs no store.                                           *)
CheckPermission(r) ==
  /\ pc[r] = "policy"
  /\ LET c == call[r]
         permission == RequiredPermission[c.op]
         allowed == \/ permission = ""
                    \/ Allows(roles, work[r].principal.roleIDs, permission)
     IN
     \/ ~allowed /\ Refuse(r, "forbidden")
     \/ allowed /\ InvalidInput(c) /\ Refuse(r, "invalid")
     \/ allowed /\ ~InvalidInput(c) /\ Continue(r, FirstStep(c), work[r]) /\ Unwritten

----------------------------------------------------------------------------
(* The reads of the service methods *)

(* validateRoleIDs *)
ValidateRoleIDs(r) ==
  /\ pc[r] = "roles"
  /\ \/ /\ call[r].roleIDs \subseteq DOMAIN roles
        /\ Continue(r, StepAfterRoles(call[r]), work[r])
        /\ Unwritten
     \/ ~(call[r].roleIDs \subseteq DOMAIN roles) /\ Refuse(r, "invalid")

(* GetUser of the user to be written.  The self-service writes check it     *)
(* here: it must be active, and the current password must match.            *)
ReadUser(r) ==
  /\ pc[r] = "read"
  /\ LET c == call[r]
         id == Target(c)
         u == users[id]
         seen == [work[r] EXCEPT !.existing = u]
         mismatch == c.op = "changePassword" /\ c.current # u.password
     IN
     \/ id \notin DOMAIN users /\ Refuse(r, "notFound")
     \/ /\ id \in DOMAIN users /\ c.op \in UserWrites
        /\ Continue(r, "admin", seen) /\ Unwritten
     \/ /\ id \in DOMAIN users /\ c.op \in SelfWrites
        /\ u.status # "active" /\ Refuse(r, "forbidden")
     \/ /\ id \in DOMAIN users /\ c.op \in SelfWrites /\ u.status = "active"
        /\ Continue(r, IF mismatch THEN "auditFailure" ELSE "write", seen)
        /\ Unwritten

(* Once the last-administrator check has passed, Update still applies the   *)
(* password policy; then the write is made.                                 *)
Proceed(r) ==
  LET weak == /\ call[r].op = "updateUser" /\ call[r].password # ""
              /\ call[r].password \notin AcceptablePasswords
  IN  \/ weak /\ Refuse(r, "invalid")
      \/ ~weak /\ Continue(r, "write", work[r]) /\ Unwritten

(* removesLastActiveAdministrator, up to the question whether another       *)
(* active administrator exists.                                             *)
FindAdminRole(r) ==
  /\ pc[r] = "admin"
  /\ LET u == work[r].existing
         losesAdministrator(a) == /\ u.status = "active" /\ a \in u.roleIDs
                                  /\ ~StaysAdministrator(call[r], u, a)
     IN
     \/ AdminRoles(roles) = {} /\ Proceed(r)
     \/ \E a \in DOMAIN roles :
          /\ FirstAdminRole(roles, a)
          /\ \/ ~losesAdministrator(a) /\ Proceed(r)
             \/ /\ losesAdministrator(a)
                /\ Continue(r, "scan", [work[r] EXCEPT !.adminRole = a, !.page = 1])
                /\ Unwritten

(* hasOtherActiveAdministrator reads the active users one page at a time. *)
ScanPage(r) ==
  /\ pc[r] = "scan"
  /\ LET w == work[r]
         listed == PageOfActiveUsers(w.page)
         found == \E id \in listed \ {Target(call[r])} :
                     w.adminRole \in users[id].roleIDs
         last == \/ w.page * PageSize >= Cardinality(ActiveUsers(users))
                 \/ listed = {}
     IN
     \/ found /\ Proceed(r)
     \/ ~found /\ last /\ Refuse(r, "lastAdministrator")
     \/ /\ ~found /\ ~last
        /\ Continue(r, "scan", [w EXCEPT !.page = w.page + 1])
        /\ Unwritten

----------------------------------------------------------------------------
(* The writes: each is one store call, and holds the store's lock *)

Writing(r, op) == pc[r] = "write" /\ call[r].op = op

RolesUnchanged == UNCHANGED <<roles, nextRoleID>>
UsersUnchanged == UNCHANGED <<users, nextUserID>>

CreateUser(r) ==
  /\ Writing(r, "createUser")
  /\ LET c == call[r]
         u == [username |-> c.username, email |-> c.email,
               password |-> c.password, roleIDs |-> c.roleIDs,
               status |-> NormalStatus(c.status)]
     IN
     \/ UserConflict(0, u) /\ Refuse(r, "conflict")
     \/ /\ ~UserConflict(0, u)
        /\ users' = Put(users, nextUserID, u)
        /\ nextUserID' = nextUserID + 1
        /\ Commit(r, nextUserID)
        /\ RolesUnchanged

(* Faulty variant of SaveUser: a user that is gone is written again. *)
SaveOrInsertUser(r, u) ==
  LET id == Target(call[r])
  IN  \/ UserConflict(id, u) /\ Refuse(r, "conflict")
      \/ /\ ~UserConflict(id, u)
         /\ users' = Put(users, id, u)
         /\ Commit(r, id)
         /\ RolesUnchanged /\ UNCHANGED nextUserID

(* store.UpdateUser: the stored password stays when none is given. *)
SaveUser(r, u) ==
  LET id == Target(call[r])
      saved == [u EXCEPT !.password = IF u.password = "" THEN users[id].password
                                                        ELSE u.password]
  IN  \/ id \notin DOMAIN users /\ Refuse(r, "notFound")
      \/ id \in DOMAIN users /\ UserConflict(id, u) /\ Refuse(r, "conflict")
      \/ /\ id \in DOMAIN users /\ ~UserConflict(id, u)
         /\ users' = Put(users, id, saved)
         /\ Commit(r, id)
         /\ RolesUnchanged /\ UNCHANGED nextUserID

UpdateUser(r) ==
  /\ Writing(r, "updateUser")
  /\ LET c == call[r]
     IN  SaveUser(r, [username |-> c.username, email |-> c.email,
                      password |-> c.password, roleIDs |-> c.roleIDs,
                      status |-> NormalStatus(c.status)])

(* Faulty variant of UpdateProfile: the body's role IDs are written too. *)
UpdateProfileFromBody(r) ==
  /\ Writing(r, "updateProfile")
  /\ SaveUser(r, [work[r].existing EXCEPT !.email = call[r].email,
                                          !.roleIDs = call[r].roleIDs,
                                          !.password = ""])

(* UpdateProfile writes the user it has read back, with the new contact. *)
UpdateProfile(r) ==
  /\ Writing(r, "updateProfile")
  /\ SaveUser(r, [work[r].existing EXCEPT !.email = call[r].email,
                                          !.password = ""])

(* ChangePassword writes the user it has read back, with the new password. *)
ChangePassword(r) ==
  /\ Writing(r, "changePassword")
  /\ SaveUser(r, [work[r].existing EXCEPT !.password = call[r].password])

SetStatus(r) ==
  /\ Writing(r, "setStatus")
  /\ LET id == Target(call[r]) IN
     \/ id \notin DOMAIN users /\ Refuse(r, "notFound")
     \/ /\ id \in DOMAIN users
        /\ users' = [users EXCEPT ![id].status = call[r].status]
        /\ Commit(r, id)
        /\ RolesUnchanged /\ UNCHANGED nextUserID

DeleteUser(r) ==
  /\ Writing(r, "deleteUser")
  /\ LET id == Target(call[r]) IN
     \/ id \notin DOMAIN users /\ Refuse(r, "notFound")
     \/ /\ id \in DOMAIN users
        /\ users' = Without(users, id)
        /\ Commit(r, id)
        /\ RolesUnchanged /\ UNCHANGED nextUserID

CreateRole(r) ==
  /\ Writing(r, "createRole")
  /\ LET c == call[r] IN
     \/ RoleConflict(0, c.code) /\ Refuse(r, "conflict")
     \/ /\ ~RoleConflict(0, c.code)
        /\ roles' = Put(roles, nextRoleID,
                        [code |-> c.code,
                         permissions |-> CleanPermissions(c.permissions)])
        /\ nextRoleID' = nextRoleID + 1
        /\ Commit(r, nextRoleID)
        /\ UsersUnchanged

UpdateRole(r) ==
  /\ Writing(r, "updateRole")
  /\ LET c == call[r] IN
     \/ c.target \notin DOMAIN roles /\ Refuse(r, "notFound")
     \/ /\ c.target \in DOMAIN roles /\ RoleConflict(c.target, c.code)
        /\ Refuse(r, "conflict")
     \/ /\ c.target \in DOMAIN roles /\ ~RoleConflict(c.target, c.code)
        /\ roles' = Put(roles, c.target,
                        [code |-> c.code,
                         permissions |-> CleanPermissions(c.permissions)])
        /\ Commit(r, c.target)
        /\ UsersUnchanged /\ UNCHANGED nextRoleID

(* Faulty variant of Assigned: only active users are asked. *)
AssignedToActive(id) == \E x \in ActiveUsers(users) : id \in users[x].roleIDs

(* A role some user holds is not deleted. *)
Assigned(id) == \E x \in DOMAIN users : id \in users[x].roleIDs

DeleteRole(r) ==
  /\ Writing(r, "deleteRole")
  /\ LET id == call[r].target IN
     \/ id \notin DOMAIN roles /\ Refuse(r, "notFound")
     \/ id \in DOMAIN roles /\ Assigned(id) /\ Refuse(r, "conflict")
     \/ /\ id \in DOMAIN roles /\ ~Assigned(id)
        /\ roles' = Without(roles, id)
        /\ Commit(r, id)
        /\ UsersUnchanged /\ UNCHANGED nextRoleID

Write(r) ==
  \/ CreateUser(r) \/ UpdateUser(r) \/ SetStatus(r) \/ DeleteUser(r)
  \/ UpdateProfile(r) \/ ChangePassword(r)
  \/ CreateRole(r) \/ UpdateRole(r) \/ DeleteRole(r)

----------------------------------------------------------------------------
(* The audit entry, and the answer *)

Entry(r, failed) ==
  [request |-> r, actor |-> call[r].actor, operation |-> call[r].op,
   resource |-> work[r].resource, failed |-> failed]

(* The answer is a success only once the entry is stored. *)
WriteAudit(r) ==
  /\ pc[r] = "audit"
  /\ audit' = audit \cup {Entry(r, FALSE)}
  /\ Finish(r, "ok")
  /\ UNCHANGED <<store, history>>

(* The password_failed entry: the caller is told about the credentials. *)
WriteAuditFailure(r) ==
  /\ pc[r] = "auditFailure"
  /\ audit' = audit \cup {[Entry(r, TRUE) EXCEPT !.resource = call[r].actor]}
  /\ Finish(r, "unauthorized")
  /\ UNCHANGED <<store, history>>

(* Faulty variant of StoreFault: an audit entry that is lost goes unnoticed. *)
StoreFaultIgnoredByAudit(r) ==
  /\ StoreFaults
  /\ pc[r] \notin {"new", "done"}
  /\ Refuse(r, IF pc[r] = "auth" THEN "unauthorized"
               ELSE IF pc[r] = "audit" THEN "ok" ELSE "internal")

(* A store call fails without effect and the handler answers with an error:  *)
(* 401 when it was the principal's lookup, 500 anywhere else.                *)
StoreFault(r) ==
  /\ StoreFaults
  /\ pc[r] \notin {"new", "done"}
  /\ Refuse(r, IF pc[r] = "auth" THEN "unauthorized" ELSE "internal")

(* All requests were answered: the server waits for others. *)
Quiescent ==
  /\ \A r \in Requests : pc[r] = "done"
  /\ UNCHANGED vars

----------------------------------------------------------------------------
(* The specification *)

Handle(r) ==
  \/ LoadPrincipal(r) \/ CheckPermission(r)
  \/ ValidateRoleIDs(r) \/ ReadUser(r) \/ FindAdminRole(r) \/ ScanPage(r)
  \/ Write(r)
  \/ WriteAudit(r) \/ WriteAuditFailure(r)

Next ==
  \/ \E r \in Requests : Start(r) \/ Handle(r) \/ StoreFault(r)
  \/ Quiescent

Spec == Init /\ [][Next]_vars

----------------------------------------------------------------------------
(* Type invariant *)

TypeOK ==
  /\ UserMap(users) /\ nextUserID \in Nat \ {0}
  /\ RoleMap(roles) /\ nextRoleID \in Nat \ {0}
  /\ audit \subseteq AuditEntry
  /\ pc \in [Requests -> Steps]
  /\ call \in [Requests -> Call]
  /\ work \in [Requests -> Work]
  /\ response \in [Requests -> Responses]
  /\ committed \subseteq Requests
  /\ undisturbed \subseteq Requests

----------------------------------------------------------------------------
(* Properties of every execution *)

(* Concurrent writes keep the promises of user and role administration: the   *)
(* conflict checks and the writes they guard are one critical section of the  *)
(* store, and a handler that writes back what it read before a deletion must  *)
(* find the record gone.                                                      *)
Directory ==
  INSTANCE UserDirectory WITH userIDs <- 1..(nextUserID - 1),
                              roleIDs <- 1..(nextRoleID - 1)
ImplementsDirectory == Directory!Spec

(* A handler answers with success only after its write took effect and its    *)
(* audit entry was stored; an entry other than a failed attempt records a     *)
(* write that took effect; and a write that took effect is never answered     *)
(* with a client error, only with success or an internal error.               *)
AuditTrail ==
  /\ \A r \in Requests : response[r] = "ok" =>
       /\ r \in committed
       /\ \E e \in audit : e.request = r /\ ~e.failed
  /\ \A e \in audit : ~e.failed => e.request \in committed
  /\ \A r \in committed : pc[r] = "audit" \/ response[r] \in {"ok", "internal"}

----------------------------------------------------------------------------
(* Properties of requests that no other request disturbs *)

(* The requests that write in this step, and those among them since whose     *)
(* start no other request has written.                                        *)
Committing == committed' \ committed
CommittingUndisturbed == Committing \cap undisturbed

(* The user-management rule: while there is an active user with the admin     *)
(* role, no user write disables, demotes or deletes the last one, unless      *)
(* another request has written between its check and its write.  (A change    *)
(* of the admin role itself is a role write and not covered by the rule.)     *)
KeepsAdministrator ==
  [][roles' = roles /\ Administrators(users, roles) # {} /\ Committing \subseteq undisturbed
       => Administrators(users', roles') # {}]_vars

(* A profile update changes nothing but the contact, a password change        *)
(* nothing but the password, although both write the whole user back.         *)
SelfServiceWritesOwnFields ==
  [][\A r \in CommittingUndisturbed :
       LET id == Target(call[r]) IN
       /\ call[r].op = "updateProfile" =>
            users' = [users EXCEPT ![id].email = call[r].email]
       /\ call[r].op = "changePassword" =>
            users' = [users EXCEPT ![id].password = call[r].password]]_vars

(* While every role ID a user holds is the ID of a role, it stays so: the IDs *)
(* are validated when they are assigned, and an assigned role is not deleted. *)
KeepsRolesKnown ==
  [][RolesKnown(users, roles) /\ Committing \subseteq undisturbed
       => RolesKnown(users', roles')]_vars

(* A write takes effect only if its caller, as stored at that moment, is      *)
(* active and holds the permission of the route.                              *)
WritesAreAuthorized ==
  [][\A r \in CommittingUndisturbed :
       LET id == call[r].actor
           permission == RequiredPermission[call[r].op]
       IN  /\ id \in ActiveUsers(users)
           /\ permission # "" => Allows(roles, users[id].roleIDs, permission)]_vars

----------------------------------------------------------------------------
(* What the rule does not promise *)

(* The user-management rule for requests that overlap, too: the system always *)
(* keeps an active administrator when only users are written.                 *)
AdministratorAlwaysKept ==
  [][roles' = roles /\ Administrators(users, roles) # {}
       => Administrators(users', roles') # {}]_vars
============================================================================
