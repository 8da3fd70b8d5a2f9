------------------------------ MODULE SqlUsers ------------------------------
(***************************************************************************)
(* User and role administration over the PostgreSQL store.  What UserAdmin *)
(* does in one store call is a series of statements here: reads, each of   *)
(* which sees the rows committed by then, and one transaction that writes. *)
(* A user's row and its role IDs are read by two statements, a page of     *)
(* users by one for the count, one for the rows and one more per row.      *)
(* Nothing is held between the statements, so those of different requests  *)
(* interleave.  Deletion is soft: accounts and roles hold the live rows,   *)
(* and the rows of gov2_user_roles are left behind.                        *)
(*                                                                         *)
(* Requests arrive authorized (the authorization is that of UserAdmin).    *)
(* The command gov2 admin reset-password runs besides the server, as a     *)
(* request of its own.                                                     *)
(***************************************************************************)
EXTENDS UserData

CONSTANTS
  Requests,           \* the requests and commands of a behaviour
  StoreFaults,        \* TRUE: a statement may fail
  Calls,              \* what they may ask for
  InitialAccounts,    \* the live rows of gov2_users at the start
  InitialUserRoles,   \* the rows of gov2_user_roles at the start
  InitialRoles,       \* the live roles at the start
  FirstUserID,        \* the first value of the identity column of the users
  FirstRoleID,        \* the first value of the identity column of the roles
  StoredPermissions,  \* the codes in gov2_permissions
  PageSize            \* repository.MaxPageSize

VARIABLES
  accounts,     \* the live rows of gov2_users by ID
  userRoles,    \* gov2_user_roles: pairs of a user ID and a role ID
  roles,        \* the live rows of gov2_roles by ID, with their permissions
  deletedRoles, \* the IDs of the deleted rows of gov2_roles
  nextUserID,   \* the next value of the identity column of the users
  nextRoleID,   \* the next value of the identity column of the roles
  audit,        \* the entries of the audit log
  pc,           \* per request: the statement it executes next
  call,         \* per request: what it asks for
  work,         \* per request: the local variables of its handler
  response,     \* per request: the answer it was given
  written,      \* history, per request: the ID of the record it wrote, or 0
  undisturbed   \* history: the requests since whose start no other has written

store == <<accounts, userRoles, roles, deletedRoles, nextUserID, nextRoleID>>
history == <<written, undisturbed>>
vars == <<store, audit, pc, call, work, response, history>>

----------------------------------------------------------------------------
(* Types *)

Account == [username : STRING, email : STRING, password : STRING,
            status : Statuses]

AccountMap(as) == /\ DOMAIN as \subseteq Nat \ {0}
                  /\ as \in [DOMAIN as -> Account]

SqlCall == CallOf(Operations \cup {"resetPassword"})

Steps == {"new", "resetRole", "find", "findRoles", "roles", "user", "userRoles",
          "admin", "count", "page", "pageRoles",
          "again", "name", "insert", "update", "status", "delete",
          "role", "code", "insertRole", "updateRole", "assigned", "removeRole",
          "reread", "audit", "auditFailure", "done"}

Responses == {"none", "ok", "unauthorized", "forbidden", "invalid",
              "notFound", "conflict", "lastAdministrator", "internal"}

Work == [existing : User \cup {NoUser}, adminRole : Nat, page : Nat,
         total : Nat, listed : SUBSET Nat, found : BOOLEAN]

NoWork == [existing |-> NoUser, adminRole |-> 0, page |-> 0, total |-> 0,
           listed |-> {}, found |-> FALSE]

ASSUME SqlUsersAssumption ==
  /\ StoreFaults \in BOOLEAN
  /\ Calls \subseteq SqlCall
  /\ AccountMap(InitialAccounts) /\ UniqueUsers(InitialAccounts)
  /\ RoleMap(InitialRoles) /\ UniqueRoles(InitialRoles)
  /\ InitialUserRoles \subseteq (DOMAIN InitialAccounts) \X (DOMAIN InitialRoles)
  /\ FirstUserID \in Nat \ {0}
  /\ \A id \in DOMAIN InitialAccounts : id < FirstUserID
  /\ FirstRoleID \in Nat \ {0}
  /\ \A id \in DOMAIN InitialRoles : id < FirstRoleID
  /\ PageSize \in Nat \ {0}

----------------------------------------------------------------------------
(* The rows *)

(* roleIDsForUser: deleted roles are not filtered out. *)
RoleIDsFor(ur, id) == {p[2] : p \in {q \in ur : q[1] = id}}

(* A user as the service sees it: a row, and the role IDs read for it. *)
WithRoles(a, held) ==
  [username |-> a.username, email |-> a.email, password |-> a.password,
   status |-> a.status, roleIDs |-> held]

Users(as, ur) == [id \in DOMAIN as |-> WithRoles(as[id], RoleIDsFor(ur, id))]

Row(u) == [username |-> u.username, email |-> u.email,
           password |-> u.password, status |-> u.status]

(* replaceUserRoles *)
ReplaceUserRoles(ur, id, held) == {p \in ur : p[1] # id} \cup ({id} \X held)

(* gov2_user_roles refers to the rows of roles, deleted ones included. *)
UnknownRole(held) == ~(held \subseteq DOMAIN roles \cup deletedRoles)

NameTaken(id, name) == \E x \in DOMAIN accounts \ {id} : accounts[x].username = name
CodeTaken(id, code) == \E x \in DOMAIN roles \ {id} : roles[x].code = code

(* The partial unique indexes of gov2_users. *)
DuplicateUser(id, u) ==
  \/ NameTaken(id, u.username)
  \/ u.email # "" /\ \E x \in DOMAIN accounts \ {id} : accounts[x].email = u.email

----------------------------------------------------------------------------
(* How a statement ends *)

Unwritten == UNCHANGED <<store, audit, history>>

Continue(r, step, w) ==
  /\ pc' = [pc EXCEPT ![r] = step]
  /\ work' = [work EXCEPT ![r] = w]
  /\ UNCHANGED response

(* The handler returns; its local variables are gone. *)
Finish(r, answer) ==
  /\ pc' = [pc EXCEPT ![r] = "done"]
  /\ work' = [work EXCEPT ![r] = NoWork]
  /\ response' = [response EXCEPT ![r] = answer]
  /\ UNCHANGED call

Refuse(r, answer) == Finish(r, answer) /\ Unwritten

(* A read either refuses or lets the next statement be executed. *)
Check(r, refused, answer, step, w) ==
  \/ refused /\ Refuse(r, answer)
  \/ ~refused /\ Continue(r, step, w) /\ Unwritten /\ UNCHANGED call

(* The transaction or statement that wrote the record is committed. *)
Commit(r, id, step) ==
  /\ Continue(r, step, NoWork)
  /\ written' = [written EXCEPT ![r] = id]
  /\ undisturbed' = undisturbed \cap {r}
  /\ UNCHANGED <<audit, call>>

----------------------------------------------------------------------------
(* Initial state *)

Init ==
  /\ accounts = InitialAccounts /\ userRoles = InitialUserRoles
  /\ roles = InitialRoles /\ deletedRoles = {}
  /\ nextUserID = FirstUserID /\ nextRoleID = FirstRoleID
  /\ audit = {}
  /\ pc = [r \in Requests |-> "new"]
  /\ call \in [Requests -> Calls]
  /\ work = [r \in Requests |-> NoWork]
  /\ response = [r \in Requests |-> "none"]
  /\ written = [r \in Requests |-> 0] /\ undisturbed = {}

----------------------------------------------------------------------------
(* The service *)

(* The first statement of the store's part of an operation. *)
WriteStep(c) ==
  CASE c.op = "createUser" -> "name"
    [] c.op \in {"updateUser"} \cup SelfWrites -> "again"
    [] c.op = "setStatus"  -> "status"
    [] c.op = "deleteUser" -> "delete"
    [] c.op = "createRole" -> "code"
    [] c.op = "updateRole" -> "role"
    [] c.op = "deleteRole" -> "assigned"

StepAfterRoles(c) ==
  IF c.op \in RoleWrites \cup {"createUser"} THEN WriteStep(c) ELSE "user"

FirstStep(c) ==
  IF c.op = "resetPassword" THEN "resetRole"
  ELSE IF c.op \in {"createUser", "updateUser"} /\ c.roleIDs # {} THEN "roles"
  ELSE StepAfterRoles(c)

(* The command checks the new password before it reads anything. *)
Unacceptable(c) ==
  \/ InvalidInput(c)
  \/ c.op = "resetPassword" /\ c.password \notin AcceptablePasswords

Start(r) ==
  /\ pc[r] = "new"
  /\ \/ Unacceptable(call[r]) /\ Finish(r, "invalid")
     \/ /\ ~Unacceptable(call[r])
        /\ Continue(r, FirstStep(call[r]), NoWork)
        /\ UNCHANGED call
  /\ undisturbed' = undisturbed \cup {r}
  /\ UNCHANGED <<store, audit, written>>

(* validateRoleIDs *)
ValidateRoleIDs(r) ==
  /\ pc[r] = "roles"
  /\ Check(r, ~(call[r].roleIDs \subseteq DOMAIN roles), "invalid",
           StepAfterRoles(call[r]), work[r])

(* GetUser of the user to be written: its row *)
ReadUser(r) ==
  /\ pc[r] = "user"
  /\ LET id == Target(call[r])
     IN  Check(r, id \notin DOMAIN accounts, "notFound", "userRoles",
               [work[r] EXCEPT !.existing = WithRoles(accounts[id], {})])

(* GetUser of the user to be written: its role IDs.  The self-service writes *)
(* are checked here: the user must be active, the current password match.    *)
ReadUserRoles(r) ==
  /\ pc[r] = "userRoles"
  /\ LET c == call[r]
         u == [work[r].existing EXCEPT !.roleIDs = RoleIDsFor(userRoles, Target(c))]
         seen == [work[r] EXCEPT !.existing = u]
         mismatch == c.op = "changePassword" /\ c.current # u.password
     IN
     \/ c.op \in UserWrites /\ Check(r, FALSE, "none", "admin", seen)
     \/ /\ c.op \in SelfWrites
        /\ Check(r, u.status # "active", "forbidden",
                 IF mismatch THEN "auditFailure" ELSE WriteStep(c), seen)

(* Once the last-administrator check has passed, Update still applies the *)
(* password policy; then the store is asked to write.                     *)
Proceed(r) ==
  Check(r, /\ call[r].op = "updateUser" /\ call[r].password # ""
           /\ call[r].password \notin AcceptablePasswords,
        "invalid", WriteStep(call[r]), work[r])

(* removesLastActiveAdministrator, up to the question whether another       *)
(* active administrator exists.                                             *)
FindAdminRole(r) ==
  /\ pc[r] = "admin"
  /\ LET u == work[r].existing
         loses(a) == /\ u.status = "active" /\ a \in u.roleIDs
                     /\ ~StaysAdministrator(call[r], u, a)
     IN
     \/ (\A a \in DOMAIN roles : FirstAdminRole(roles, a) => ~loses(a)) /\ Proceed(r)
     \/ \E a \in DOMAIN roles :
          /\ FirstAdminRole(roles, a) /\ loses(a)
          /\ Check(r, FALSE, "none", "count",
                   [work[r] EXCEPT !.adminRole = a, !.page = 1])

(* ListUsers for the active users: the count *)
CountActiveUsers(r) ==
  /\ pc[r] = "count"
  /\ Check(r, FALSE, "none", "page",
           [work[r] EXCEPT !.total = Cardinality(ActiveUsers(accounts))])

(* Faulty variant of PageOfActiveUsers: the offset counts pages from zero. *)
PageOfActiveUsersShifted(page) ==
  LET active == ActiveUsers(accounts)
      position(id) == Cardinality({x \in active : x <= id})
  IN  {id \in active : /\ position(id) > page * PageSize
                       /\ position(id) <= (page + 1) * PageSize}

(* LIMIT and OFFSET over the active users by ID *)
PageOfActiveUsers(page) ==
  LET active == ActiveUsers(accounts)
      position(id) == Cardinality({x \in active : x <= id})
  IN  {id \in active : /\ position(id) > (page - 1) * PageSize
                       /\ position(id) <= page * PageSize}

(* ListUsers: the rows of a page; an empty page ends the search. *)
ListPage(r) ==
  /\ pc[r] = "page"
  /\ LET listed == PageOfActiveUsers(work[r].page)
     IN  Check(r, listed = {}, "lastAdministrator", "pageRoles",
               [work[r] EXCEPT !.listed = listed, !.found = FALSE])

(* Faulty variant of ListPageRoles: the page is not advanced. *)
ListFirstPageRoles(r) ==
  /\ pc[r] = "pageRoles"
  /\ \E id \in work[r].listed :
       LET w == [work[r] EXCEPT
                   !.listed = @ \ {id},
                   !.found = \/ @
                             \/ /\ id # Target(call[r])
                                /\ @ \/ work[r].adminRole \in RoleIDsFor(userRoles, id)]
       IN
       /\ \A x \in work[r].listed : id <= x
       /\ \/ w.listed # {} /\ Check(r, FALSE, "none", "pageRoles", w)
          \/ w.listed = {} /\ w.found /\ Proceed(r)
          \/ /\ w.listed = {} /\ ~w.found
             /\ Check(r, w.page * PageSize >= w.total, "lastAdministrator", "count", w)

(* ListUsers: the role IDs of the next user of the page.  After the last one *)
(* hasOtherActiveAdministrator looks at the page, and goes on to the next.   *)
ListPageRoles(r) ==
  /\ pc[r] = "pageRoles"
  /\ \E id \in work[r].listed :
       LET administrator == work[r].adminRole \in RoleIDsFor(userRoles, id)
           w == [work[r] EXCEPT
                   !.listed = @ \ {id},
                   !.found = @ \/ (id # Target(call[r]) /\ administrator)]
       IN
       /\ \A x \in work[r].listed : id <= x
       /\ \/ w.listed # {} /\ Check(r, FALSE, "none", "pageRoles", w)
          \/ w.listed = {} /\ w.found /\ Proceed(r)
          \/ /\ w.listed = {} /\ ~w.found
             /\ Check(r, w.page * PageSize >= w.total, "lastAdministrator", "count",
                      [w EXCEPT !.page = @ + 1])

----------------------------------------------------------------------------
(* gov2 admin reset-password *)

(* findAdminRole *)
FindResetRole(r) ==
  /\ pc[r] = "resetRole"
  /\ \/ AdminRoles(roles) = {} /\ Refuse(r, "notFound")
     \/ \E a \in DOMAIN roles :
          /\ FirstAdminRole(roles, a)
          /\ Check(r, FALSE, "none", "find", [work[r] EXCEPT !.adminRole = a])

(* FindUserByUsername: the row; its ID is kept as the target of the update. *)
FindUser(r) ==
  /\ pc[r] = "find"
  /\ \/ ~NameTaken(0, call[r].username) /\ Refuse(r, "notFound")
     \/ \E id \in DOMAIN accounts :
          /\ accounts[id].username = call[r].username
          /\ Continue(r, "findRoles",
                      [work[r] EXCEPT !.existing = WithRoles(accounts[id], {})])
          /\ call' = [call EXCEPT ![r].target = id]
          /\ Unwritten

(* FindUserByUsername: the role IDs.  Only a user that has the admin role is  *)
(* reset; the command then calls Users.Update with what it has read.          *)
FindUserRoles(r) ==
  /\ pc[r] = "findRoles"
  /\ LET u == work[r].existing
         held == RoleIDsFor(userRoles, call[r].target)
     IN
     \/ work[r].adminRole \notin held /\ Refuse(r, "notFound")
     \/ /\ work[r].adminRole \in held
        /\ Continue(r, "roles", NoWork)
        /\ call' = [call EXCEPT ![r].op = "updateUser", ![r].email = u.email,
                                ![r].status = u.status, ![r].roleIDs = held]
        /\ Unwritten

----------------------------------------------------------------------------
(* The store: users *)

(* The user handed to the store: the body of a management request, or the    *)
(* user read before with the fields of the self-service request.             *)
Submitted(r) ==
  LET c == call[r]
      fromBody == [username |-> c.username, email |-> c.email, password |-> c.password,
                   status |-> NormalStatus(c.status), roleIDs |-> c.roleIDs]
  IN  CASE c.op \in {"createUser", "updateUser"} -> fromBody
        [] c.op = "updateProfile" ->
             [work[r].existing EXCEPT !.email = c.email, !.password = ""]
        [] c.op = "changePassword" -> [work[r].existing EXCEPT !.password = c.password]

(* store.UpdateUser begins with GetUser. *)
ReadAgain(r) ==
  /\ pc[r] = "again"
  /\ Check(r, Target(call[r]) \notin DOMAIN accounts, "notFound", "name", work[r])

(* FindUserByUsername and userIDByUsername *)
CheckUsername(r) ==
  /\ pc[r] = "name"
  /\ LET creates == call[r].op = "createUser"
         id == IF creates THEN 0 ELSE Target(call[r])
     IN  Check(r, NameTaken(id, Submitted(r).username), "conflict",
               IF creates THEN "insert" ELSE "update", work[r])

RoleRowsUnchanged == UNCHANGED <<roles, deletedRoles, nextRoleID>>
UserRowsUnchanged == UNCHANGED <<accounts, userRoles, nextUserID>>

(* The value of the identity column is used up even if the insert, or that  *)
(* of the role IDs after it, fails.                                         *)
InsertUser(r) ==
  /\ pc[r] = "insert"
  /\ nextUserID' = nextUserID + 1
  /\ RoleRowsUnchanged
  /\ LET u == Submitted(r)
         fails == DuplicateUser(0, u) \/ UnknownRole(u.roleIDs)
     IN
     \/ /\ fails /\ Finish(r, IF DuplicateUser(0, u) THEN "conflict" ELSE "invalid")
        /\ UNCHANGED <<accounts, userRoles, audit, history>>
     \/ /\ ~fails
        /\ accounts' = Put(accounts, nextUserID, Row(u))
        /\ userRoles' = ReplaceUserRoles(userRoles, nextUserID, u.roleIDs)
        /\ Commit(r, nextUserID, "reread")

(* Faulty variant of UpdateUser: deleted rows are not left alone. *)
UpdateOrRestoreUser(r) ==
  /\ pc[r] = "update"
  /\ LET id == Target(call[r])
         u == Submitted(r)
     IN  /\ ~DuplicateUser(id, u) /\ ~UnknownRole(u.roleIDs)
         /\ accounts' = Put(accounts, id, Row(u))
         /\ userRoles' = ReplaceUserRoles(userRoles, id, u.roleIDs)
         /\ Commit(r, id, "reread")
         /\ RoleRowsUnchanged /\ UNCHANGED nextUserID

(* The row is updated if it is live, then the role IDs are replaced; the    *)
(* stored password stays when none is given.                                *)
UpdateUser(r) ==
  /\ pc[r] = "update"
  /\ LET id == Target(call[r])
         u == Submitted(r)
         saved == [Row(u) EXCEPT !.password = IF u.password = "" THEN accounts[id].password
                                              ELSE u.password]
         gone == id \notin DOMAIN accounts
         fails == gone \/ DuplicateUser(id, u) \/ UnknownRole(u.roleIDs)
     IN
     \/ fails /\ Refuse(r, IF gone THEN "notFound"
                           ELSE IF DuplicateUser(id, u) THEN "conflict" ELSE "invalid")
     \/ /\ ~fails
        /\ accounts' = Put(accounts, id, saved)
        /\ userRoles' = ReplaceUserRoles(userRoles, id, u.roleIDs)
        /\ Commit(r, id, "reread")
        /\ RoleRowsUnchanged /\ UNCHANGED nextUserID

UpdateUserStatus(r) ==
  /\ pc[r] = "status"
  /\ LET id == Target(call[r]) IN
     \/ id \notin DOMAIN accounts /\ Refuse(r, "notFound")
     \/ /\ id \in DOMAIN accounts
        /\ accounts' = [accounts EXCEPT ![id].status = call[r].status]
        /\ Commit(r, id, "reread")
        /\ RoleRowsUnchanged /\ UNCHANGED <<userRoles, nextUserID>>

DeleteUser(r) ==
  /\ pc[r] = "delete"
  /\ LET id == Target(call[r]) IN
     \/ id \notin DOMAIN accounts /\ Refuse(r, "notFound")
     \/ /\ id \in DOMAIN accounts
        /\ accounts' = Without(accounts, id)
        /\ Commit(r, id, "audit")
        /\ RoleRowsUnchanged /\ UNCHANGED <<userRoles, nextUserID>>

----------------------------------------------------------------------------
(* The store: roles *)

(* store.UpdateRole begins with GetRole. *)
ReadRole(r) ==
  /\ pc[r] = "role"
  /\ Check(r, call[r].target \notin DOMAIN roles, "notFound", "code", work[r])

(* roleIDByCode *)
CheckCode(r) ==
  /\ pc[r] = "code"
  /\ LET creates == call[r].op = "createRole"
         id == IF creates THEN 0 ELSE call[r].target
     IN  Check(r, CodeTaken(id, call[r].code), "conflict",
               IF creates THEN "insertRole" ELSE "updateRole", work[r])

SubmittedRole(c) == [code |-> c.code, permissions |-> CleanPermissions(c.permissions)]

(* A permission of a module that was registered but not seeded. *)
UnknownPermission(c) == ~(CleanPermissions(c.permissions) \subseteq StoredPermissions)

(* The row first, under the unique index of the live codes, then its        *)
(* permissions.                                                             *)
InsertRole(r) ==
  /\ pc[r] = "insertRole"
  /\ nextRoleID' = nextRoleID + 1
  /\ UserRowsUnchanged /\ UNCHANGED deletedRoles
  /\ LET c == call[r]
         fails == CodeTaken(0, c.code) \/ UnknownPermission(c)
     IN
     \/ /\ fails /\ Finish(r, IF CodeTaken(0, c.code) THEN "conflict" ELSE "invalid")
        /\ UNCHANGED <<roles, audit, history>>
     \/ /\ ~fails
        /\ roles' = Put(roles, nextRoleID, SubmittedRole(c))
        /\ Commit(r, nextRoleID, "reread")

UpdateRole(r) ==
  /\ pc[r] = "updateRole"
  /\ LET c == call[r]
         gone == c.target \notin DOMAIN roles
         fails == gone \/ CodeTaken(c.target, c.code) \/ UnknownPermission(c)
     IN
     \/ fails /\ Refuse(r, IF gone THEN "notFound"
                           ELSE IF CodeTaken(c.target, c.code) THEN "conflict"
                           ELSE "invalid")
     \/ /\ ~fails
        /\ roles' = Put(roles, c.target, SubmittedRole(c))
        /\ Commit(r, c.target, "reread")
        /\ UserRowsUnchanged /\ UNCHANGED <<deletedRoles, nextRoleID>>

(* Faulty variant of CountAssigned: only active users are counted. *)
CountActiveAssigned(r) ==
  /\ pc[r] = "assigned"
  /\ Check(r, \E p \in userRoles : p[1] \in ActiveUsers(accounts) /\ p[2] = call[r].target,
           "conflict", "removeRole", work[r])

(* The live users that have the role are counted. *)
CountAssigned(r) ==
  /\ pc[r] = "assigned"
  /\ Check(r, \E p \in userRoles : p[1] \in DOMAIN accounts /\ p[2] = call[r].target,
           "conflict", "removeRole", work[r])

DeleteRole(r) ==
  /\ pc[r] = "removeRole"
  /\ LET id == call[r].target IN
     \/ id \notin DOMAIN roles /\ Refuse(r, "notFound")
     \/ /\ id \in DOMAIN roles
        /\ roles' = Without(roles, id)
        /\ deletedRoles' = deletedRoles \cup {id}
        /\ Commit(r, id, "audit")
        /\ UserRowsUnchanged /\ UNCHANGED nextRoleID

----------------------------------------------------------------------------
(* The answer *)

(* GetUser or GetRole of the record just written; the write stands if the *)
(* record is gone by then.                                                *)
Reread(r) ==
  /\ pc[r] = "reread"
  /\ LET live == IF call[r].op \in RoleWrites THEN DOMAIN roles ELSE DOMAIN accounts
     IN  Check(r, written[r] \notin live, "notFound", "audit", work[r])

Entry(r, failed) == [request |-> r, resource |-> written[r], failed |-> failed]

WriteAudit(r) ==
  /\ pc[r] = "audit"
  /\ audit' = audit \cup {Entry(r, FALSE)}
  /\ Finish(r, "ok")
  /\ UNCHANGED <<store, history>>

(* The password_failed entry: the caller is told about the credentials. *)
WriteAuditFailure(r) ==
  /\ pc[r] = "auditFailure"
  /\ audit' = audit \cup {Entry(r, TRUE)}
  /\ Finish(r, "unauthorized")
  /\ UNCHANGED <<store, history>>

(* Faulty variant of StoreFault: an audit entry that is lost goes unnoticed. *)
StoreFaultIgnoredByAudit(r) ==
  /\ StoreFaults
  /\ pc[r] \notin {"new", "done"}
  /\ Refuse(r, IF pc[r] = "audit" THEN "ok" ELSE "internal")

(* A statement or transaction fails without effect.  (A commit whose          *)
(* confirmation is lost is a commit followed by a fault of the next step.)    *)
StoreFault(r) ==
  /\ StoreFaults
  /\ pc[r] \notin {"new", "done"}
  /\ Refuse(r, "internal")

(* All requests were answered: the server waits for others. *)
Quiescent ==
  /\ \A r \in Requests : pc[r] = "done"
  /\ UNCHANGED vars

----------------------------------------------------------------------------
(* The specification *)

Read(r) ==
  \/ ValidateRoleIDs(r) \/ ReadUser(r) \/ ReadUserRoles(r)
  \/ FindAdminRole(r) \/ CountActiveUsers(r) \/ ListPage(r) \/ ListPageRoles(r)
  \/ FindResetRole(r) \/ FindUser(r) \/ FindUserRoles(r)
  \/ ReadAgain(r) \/ CheckUsername(r) \/ ReadRole(r) \/ CheckCode(r)
  \/ CountAssigned(r) \/ Reread(r)

Write(r) ==
  \/ InsertUser(r) \/ UpdateUser(r) \/ UpdateUserStatus(r) \/ DeleteUser(r)
  \/ InsertRole(r) \/ UpdateRole(r) \/ DeleteRole(r)

Handle(r) ==
  \/ Start(r) \/ Read(r) \/ Write(r)
  \/ WriteAudit(r) \/ WriteAuditFailure(r)

Next ==
  \/ \E r \in Requests : Handle(r) \/ StoreFault(r)
  \/ Quiescent

Spec == Init /\ [][Next]_vars

(* Every goroutine that serves a request is scheduled again, and PostgreSQL *)
(* executes the statements it is sent; none has to fail.                    *)
FairSpec == Spec /\ \A r \in Requests : WF_vars(Handle(r))

TypeOK ==
  /\ AccountMap(accounts) /\ RoleMap(roles)
  /\ userRoles \subseteq Nat \X Nat /\ deletedRoles \subseteq Nat
  /\ nextUserID \in Nat \ {0} /\ DOMAIN accounts \subseteq 1..(nextUserID - 1)
  /\ nextRoleID \in Nat \ {0} /\ DOMAIN roles \cup deletedRoles \subseteq 1..(nextRoleID - 1)
  /\ audit \subseteq [request : Requests, resource : Nat, failed : BOOLEAN]
  /\ pc \in [Requests -> Steps]
  /\ call \in [Requests -> SqlCall]
  /\ work \in [Requests -> Work]
  /\ response \in [Requests -> Responses]
  /\ written \in [Requests -> Nat] /\ undisturbed \subseteq Requests

----------------------------------------------------------------------------
(* Properties of every execution *)

(* The SQL store implements the same abstract directory as the in-memory     *)
(* store although its checks and its writes are separate statements: the     *)
(* partial unique indexes and the WHERE clauses of the writes decide.        *)
Directory ==
  INSTANCE UserDirectory WITH users <- Users(accounts, userRoles), roles <- roles,
                              userIDs <- 1..(nextUserID - 1),
                              roleIDs <- 1..(nextRoleID - 1)
ImplementsDirectory == Directory!Spec

(* A request is answered with success only after its write and its audit      *)
(* entry; and one that has written is told of success, of an internal error,  *)
(* or, by the read after the commit, that its record is not there, which is   *)
(* then true.                                                                 *)
AnswersFitEffects ==
  \A r \in Requests :
    /\ response[r] = "ok" => [request |-> r, resource |-> written[r], failed |-> FALSE] \in audit
                             /\ written[r] # 0
    /\ written[r] # 0 => response[r] \in {"none", "ok", "internal", "notFound"}
    /\ written[r] # 0 /\ response[r] = "notFound" =>
         written[r] \notin IF call[r].op \in RoleWrites THEN DOMAIN roles
                           ELSE DOMAIN accounts

(* Every request is answered: the search for another administrator runs out  *)
(* of pages, whatever happens to the users between its statements.           *)
RequestsAnswered ==
  \A r \in Requests : <>(pc[r] = "done")

----------------------------------------------------------------------------
(* Properties of requests that no other request disturbs *)

(* The requests that write in this step. *)
Committing == {r \in Requests : written[r] # written'[r]}

(* Who is told that it would remove the last active administrator is writing *)
(* to the only one there is, although the others are looked for statement by *)
(* statement: the count, the rows of a page, and the roles of each of them.  *)
RefusalJustified ==
  [][\A r \in undisturbed :
       response'[r] = "lastAdministrator" /\ response[r] = "none"
         => Administrators(Users(accounts, userRoles), roles) = {Target(call[r])}]_vars

(* While every role ID a user has is the ID of a role, it stays so: the count *)
(* of DeleteRole and the deletion it guards are separate statements, and no   *)
(* constraint of the schema keeps a deleted role from being assigned.         *)
KeepsRolesKnown ==
  [][RolesKnown(Users(accounts, userRoles), roles) /\ Committing \subseteq undisturbed
       => RolesKnown(Users(accounts', userRoles'), roles')]_vars
============================================================================
