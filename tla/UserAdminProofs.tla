-------------------------- MODULE UserAdminProofs --------------------------
(* Theorems about UserAdmin, for all requests, calls and initial stores: first *)
(* those about every behaviour, then those about undisturbed requests.         *)
EXTENDS UserAdmin, TLAPS

(* The part of TypeOK about the requests' own state. *)
LocalTypeOK ==
  /\ pc \in [Requests -> Steps]
  /\ call \in [Requests -> Call]
  /\ work \in [Requests -> Work]
  /\ response \in [Requests -> Responses]

(* The part of TypeOK about the store. *)
StoreTypeOK ==
  /\ UserMap(users) /\ nextUserID \in Nat \ {0}
  /\ RoleMap(roles) /\ nextRoleID \in Nat \ {0}

----------------------------------------------------------------------------
(* How a step ends keeps the types *)

LEMMA NoWorkType == NoWork \in Work
  BY DEF NoWork, Work

LEMMA ContinueType ==
  ASSUME LocalTypeOK, NEW r \in Requests, NEW step \in Steps, NEW w \in Work,
         Continue(r, step, w)
  PROVE  LocalTypeOK'
  BY DEF LocalTypeOK, Continue

LEMMA FinishType ==
  ASSUME LocalTypeOK, NEW r \in Requests, NEW answer \in Responses,
         Finish(r, answer)
  PROVE  LocalTypeOK'
<1>1. "done" \in Steps
  BY DEF Steps
<1> QED
  BY <1>1, NoWorkType DEF LocalTypeOK, Finish

LEMMA RefuseType ==
  ASSUME TypeOK, NEW r \in Requests, NEW answer \in Responses,
         Refuse(r, answer)
  PROVE  TypeOK'
<1>1. LocalTypeOK'
  BY FinishType DEF TypeOK, LocalTypeOK, Refuse
<1> QED
  BY <1>1 DEF TypeOK, LocalTypeOK, Refuse, Unwritten, store, history, UserMap, RoleMap

LEMMA StayType ==
  ASSUME TypeOK, NEW r \in Requests, NEW step \in Steps, NEW w \in Work,
         Continue(r, step, w), Unwritten
  PROVE  TypeOK'
<1>1. LocalTypeOK'
  BY ContinueType DEF TypeOK, LocalTypeOK
<1> QED
  BY <1>1 DEF TypeOK, LocalTypeOK, Unwritten, store, history, UserMap, RoleMap

LEMMA CommitType ==
  ASSUME TypeOK, NEW r \in Requests, NEW id \in Nat, Commit(r, id), StoreTypeOK'
  PROVE  TypeOK'
<1>1. [work[r] EXCEPT !.resource = id] \in Work /\ "audit" \in Steps
  BY DEF TypeOK, Work, Steps
<1>2. LocalTypeOK'
  BY <1>1, ContinueType DEF TypeOK, LocalTypeOK, Commit
<1> QED
  BY <1>2 DEF TypeOK, LocalTypeOK, StoreTypeOK, Commit, AuditEntry

(* Setting and removing a key keep a map of users or roles one. *)
LEMMA PutUser ==
  ASSUME NEW us, UserMap(us), NEW id \in Nat \ {0}, NEW u \in User
  PROVE  UserMap(Put(us, id, u))
  BY DEF UserMap, Put

LEMMA PutRole ==
  ASSUME NEW rs, RoleMap(rs), NEW id \in Nat \ {0}, NEW ro \in Role
  PROVE  RoleMap(Put(rs, id, ro))
  BY DEF RoleMap, Put

LEMMA WithoutUser ==
  ASSUME NEW us, UserMap(us), NEW id
  PROVE  UserMap(Without(us, id))
  BY DEF UserMap, Without

LEMMA WithoutRole ==
  ASSUME NEW rs, RoleMap(rs), NEW id
  PROVE  RoleMap(Without(rs, id))
  BY DEF RoleMap, Without

LEMMA TargetType ==
  ASSUME NEW c \in Call PROVE Target(c) \in Nat
  BY DEF Target, Call, CallOf

----------------------------------------------------------------------------
(* Every step keeps the type invariant *)

LEMMA StartType ==
  ASSUME TypeOK, NEW r \in Requests, Start(r) PROVE TypeOK'
<1>1. "auth" \in Steps
  BY DEF Steps
<1>2. LocalTypeOK'
  BY <1>1, NoWorkType, ContinueType DEF Start, TypeOK, LocalTypeOK
<1>3. undisturbed' \subseteq Requests
  BY DEF Start, TypeOK
<1> QED
  BY <1>2, <1>3 DEF Start, TypeOK, LocalTypeOK, store, UserMap, RoleMap

LEMMA LoadPrincipalType ==
  ASSUME TypeOK, NEW r \in Requests, LoadPrincipal(r) PROVE TypeOK'
<1> DEFINE id == call[r].actor
<1>1. "policy" \in Steps /\ "unauthorized" \in Responses
  BY DEF Steps, Responses
<1>2. CASE id \notin ActiveUsers(users)
  BY <1>1, <1>2, RefuseType DEF LoadPrincipal
<1>3. CASE id \in ActiveUsers(users)
  <2>1. users[id] \in User
    BY <1>3 DEF ActiveUsers, TypeOK, UserMap
  <2>2. [work[r] EXCEPT !.principal = users[id]] \in Work
    BY <2>1 DEF TypeOK, Work
  <2> QED
    BY <1>1, <1>3, <2>2, StayType DEF LoadPrincipal
<1> QED
  BY <1>2, <1>3

LEMMA FirstStepType ==
  ASSUME NEW c PROVE FirstStep(c) \in Steps /\ StepAfterRoles(c) \in Steps
  BY DEF FirstStep, StepAfterRoles, Steps

LEMMA CheckPermissionType ==
  ASSUME TypeOK, NEW r \in Requests, CheckPermission(r) PROVE TypeOK'
<1>1. "forbidden" \in Responses /\ "invalid" \in Responses
  BY DEF Responses
<1>2. work[r] \in Work
  BY DEF TypeOK
<1>3. \/ Refuse(r, "forbidden")
      \/ Refuse(r, "invalid")
      \/ Continue(r, FirstStep(call[r]), work[r]) /\ Unwritten
  BY DEF CheckPermission
<1> QED
  BY <1>1, <1>2, <1>3, FirstStepType, RefuseType, StayType

LEMMA ValidateRoleIDsType ==
  ASSUME TypeOK, NEW r \in Requests, ValidateRoleIDs(r) PROVE TypeOK'
<1>1. "invalid" \in Responses
  BY DEF Responses
<1>2. work[r] \in Work
  BY DEF TypeOK
<1> QED
  BY <1>1, <1>2, FirstStepType, RefuseType, StayType DEF ValidateRoleIDs

LEMMA ReadUserType ==
  ASSUME TypeOK, NEW r \in Requests, ReadUser(r) PROVE TypeOK'
<1> DEFINE id == Target(call[r])
           seen == [work[r] EXCEPT !.existing = users[id]]
<1>1. /\ "admin" \in Steps /\ "auditFailure" \in Steps /\ "write" \in Steps
      /\ "notFound" \in Responses /\ "forbidden" \in Responses
  BY DEF Steps, Responses
<1>2. CASE id \notin DOMAIN users
  BY <1>1, <1>2, RefuseType DEF ReadUser
<1>3. CASE id \in DOMAIN users
  <2>1. users[id] \in User
    BY <1>3 DEF TypeOK, UserMap
  <2>2. seen \in Work
    BY <2>1 DEF TypeOK, Work
  <2>3. \/ Refuse(r, "forbidden")
        \/ \E step \in {"admin", "auditFailure", "write"} :
             Continue(r, step, seen) /\ Unwritten
    BY <1>3 DEF ReadUser
  <2> HIDE DEF seen
  <2> QED
    BY <1>1, <2>2, <2>3, RefuseType, StayType
<1> QED
  BY <1>2, <1>3

LEMMA ProceedType ==
  ASSUME TypeOK, NEW r \in Requests, Proceed(r) PROVE TypeOK'
<1>1. "invalid" \in Responses /\ "write" \in Steps /\ work[r] \in Work
  BY DEF Responses, Steps, TypeOK
<1> QED
  BY <1>1, RefuseType, StayType DEF Proceed

LEMMA FindAdminRoleType ==
  ASSUME TypeOK, NEW r \in Requests, FindAdminRole(r) PROVE TypeOK'
<1>1. CASE Proceed(r)
  BY <1>1, ProceedType
<1>2. ASSUME NEW a \in DOMAIN roles, Unwritten,
             Continue(r, "scan", [work[r] EXCEPT !.adminRole = a, !.page = 1])
      PROVE  TypeOK'
  <2>1. [work[r] EXCEPT !.adminRole = a, !.page = 1] \in Work /\ "scan" \in Steps
    BY DEF TypeOK, RoleMap, Work, Steps
  <2> QED
    BY <1>2, <2>1, StayType
<1> QED
  BY <1>1, <1>2 DEF FindAdminRole

LEMMA ScanPageType ==
  ASSUME TypeOK, NEW r \in Requests, ScanPage(r) PROVE TypeOK'
<1> DEFINE next == [work[r] EXCEPT !.page = work[r].page + 1]
<1>1. "scan" \in Steps /\ "lastAdministrator" \in Responses
  BY DEF Steps, Responses
<1>2. next \in Work
  BY DEF TypeOK, Work
<1>3. \/ Proceed(r)
      \/ Refuse(r, "lastAdministrator")
      \/ Continue(r, "scan", next) /\ Unwritten
  BY DEF ScanPage
<1> HIDE DEF next
<1> QED
  BY <1>1, <1>2, <1>3, ProceedType, RefuseType, StayType

LEMMA StoreStays ==
  ASSUME TypeOK, UNCHANGED store PROVE StoreTypeOK'
  BY DEF TypeOK, StoreTypeOK, store, UserMap, RoleMap

LEMMA UsersWritten ==
  ASSUME TypeOK, UserMap(users'), nextUserID' \in Nat \ {0}, RolesUnchanged
  PROVE  StoreTypeOK'
  BY DEF TypeOK, StoreTypeOK, RolesUnchanged, UserMap, RoleMap

LEMMA RolesWritten ==
  ASSUME TypeOK, RoleMap(roles'), nextRoleID' \in Nat \ {0}, UsersUnchanged
  PROVE  StoreTypeOK'
  BY DEF TypeOK, StoreTypeOK, UsersUnchanged, UserMap, RoleMap

LEMMA RefusalTypes ==
  /\ "conflict" \in Responses /\ "notFound" \in Responses
  /\ "ok" \in Responses /\ "unauthorized" \in Responses /\ "internal" \in Responses
  BY DEF Responses

LEMMA CallType == TypeOK => \A r \in Requests : call[r] \in Call
  BY DEF TypeOK

(* What has been checked by the time a request makes the calls of its        *)
(* service method: the input; and, when it writes back a user, the user.     *)
ServiceSteps == {"roles", "read", "admin", "scan", "write"}

InputChecked ==
  \A r \in Requests :
    /\ pc[r] \in ServiceSteps => ~InvalidInput(call[r])
    /\ pc[r] \in {"admin", "scan"} => call[r].op \in UserWrites
    /\ pc[r] = "write" /\ call[r].op \in SelfWrites => work[r].existing \in User

LEMMA RequestedUserType ==
  ASSUME NEW c \in Call, c.op \in {"createUser", "updateUser"}, ~InvalidInput(c)
  PROVE  [username |-> c.username, email |-> c.email, password |-> c.password,
          roleIDs |-> c.roleIDs, status |-> NormalStatus(c.status)] \in User
<1>1. NormalStatus(c.status) \in Statuses
  BY DEF InvalidInput, NormalStatus, Statuses
<1> QED
  BY <1>1 DEF Call, CallOf, User

LEMMA CreateUserType ==
  ASSUME TypeOK, InputChecked, NEW r \in Requests, CreateUser(r) PROVE TypeOK'
<1> DEFINE c == call[r]
           u == [username |-> c.username, email |-> c.email,
                 password |-> c.password, roleIDs |-> c.roleIDs,
                 status |-> NormalStatus(c.status)]
<1>1. u \in User
  BY RequestedUserType, CallType
     DEF InputChecked, CreateUser, Writing, ServiceSteps
<1>2. CASE Refuse(r, "conflict")
  BY <1>2, RefusalTypes, RefuseType
<1>3. CASE /\ users' = Put(users, nextUserID, u)
           /\ nextUserID' = nextUserID + 1
           /\ Commit(r, nextUserID)
           /\ RolesUnchanged
  <2>1. UserMap(users') /\ nextUserID' \in Nat \ {0} /\ nextUserID \in Nat \ {0}
    BY <1>1, <1>3, PutUser DEF TypeOK
  <2> QED
    BY <1>3, <2>1, UsersWritten, CommitType
<1> QED
  BY <1>2, <1>3 DEF CreateUser

LEMMA SaveUserType ==
  ASSUME TypeOK, NEW r \in Requests, NEW u \in User, SaveUser(r, u) PROVE TypeOK'
<1> DEFINE id == Target(call[r])
           saved == [u EXCEPT !.password = IF u.password = "" THEN users[id].password
                                                             ELSE u.password]
<1>1. CASE Refuse(r, "notFound") \/ Refuse(r, "conflict")
  BY <1>1, RefusalTypes, RefuseType
<1>2. CASE /\ id \in DOMAIN users
           /\ users' = Put(users, id, saved)
           /\ Commit(r, id)
           /\ RolesUnchanged /\ UNCHANGED nextUserID
  <2>1. users[id] \in User /\ id \in Nat \ {0}
    BY <1>2 DEF TypeOK, UserMap
  <2>2. saved \in User
    BY <2>1 DEF User
  <2>3. UserMap(users') /\ nextUserID' \in Nat \ {0}
    BY <1>2, <2>1, <2>2, PutUser DEF TypeOK
  <2> QED
    BY <1>2, <2>1, <2>3, UsersWritten, CommitType
<1> QED
  BY <1>1, <1>2 DEF SaveUser

LEMMA UpdateUserType ==
  ASSUME TypeOK, InputChecked, NEW r \in Requests, UpdateUser(r) PROVE TypeOK'
<1> DEFINE c == call[r]
           u == [username |-> c.username, email |-> c.email,
                 password |-> c.password, roleIDs |-> c.roleIDs,
                 status |-> NormalStatus(c.status)]
<1>1. u \in User
  BY RequestedUserType, CallType
     DEF InputChecked, UpdateUser, Writing, ServiceSteps
<1>2. SaveUser(r, u)
  BY DEF UpdateUser
<1> HIDE DEF u
<1> QED
  BY <1>1, <1>2, SaveUserType

LEMMA ProfileType ==
  ASSUME NEW u \in User, NEW email \in STRING
  PROVE  [u EXCEPT !.email = email, !.password = ""] \in User
  BY UserDataAssumption DEF User

LEMMA UpdateProfileType ==
  ASSUME TypeOK, InputChecked, NEW r \in Requests, UpdateProfile(r) PROVE TypeOK'
<1> DEFINE u == [work[r].existing EXCEPT !.email = call[r].email, !.password = ""]
<1>1. work[r].existing \in User /\ call[r] \in Call
  BY CallType DEF InputChecked, UpdateProfile, Writing, SelfWrites
<1>2. u \in User
  <2>1. call[r].email \in STRING
    BY <1>1 DEF Call, CallOf
  <2> QED
    BY <1>1, <2>1, ProfileType
<1>3. SaveUser(r, u)
  BY DEF UpdateProfile
<1> HIDE DEF u
<1> QED
  BY <1>2, <1>3, SaveUserType

LEMMA ChangePasswordType ==
  ASSUME TypeOK, InputChecked, NEW r \in Requests, ChangePassword(r) PROVE TypeOK'
<1> DEFINE u == [work[r].existing EXCEPT !.password = call[r].password]
<1>1. work[r].existing \in User /\ call[r] \in Call
  BY CallType DEF InputChecked, ChangePassword, Writing, SelfWrites
<1>2. u \in User /\ SaveUser(r, u)
  BY <1>1 DEF ChangePassword, User, Call, CallOf
<1> HIDE DEF u
<1> QED
  BY <1>2, SaveUserType

LEMMA SetStatusType ==
  ASSUME TypeOK, InputChecked, NEW r \in Requests, SetStatus(r) PROVE TypeOK'
<1> DEFINE id == Target(call[r])
<1>1. call[r].status \in Statuses
  BY CallType DEF InputChecked, SetStatus, Writing, ServiceSteps, InvalidInput
<1>2. CASE Refuse(r, "notFound")
  BY <1>2, RefusalTypes, RefuseType
<1>3. CASE /\ id \in DOMAIN users
           /\ users' = [users EXCEPT ![id].status = call[r].status]
           /\ Commit(r, id)
           /\ RolesUnchanged /\ UNCHANGED nextUserID
  <2>1. users[id] \in User /\ id \in Nat \ {0}
    BY <1>3 DEF TypeOK, UserMap
  <2>2. [users[id] EXCEPT !.status = call[r].status] \in User
    BY <1>1, <2>1 DEF User
  <2>3. UserMap(users') /\ nextUserID' \in Nat \ {0}
    BY <1>3, <2>2 DEF TypeOK, UserMap
  <2> QED
    BY <1>3, <2>1, <2>3, UsersWritten, CommitType
<1> QED
  BY <1>2, <1>3 DEF SetStatus

LEMMA DeleteUserType ==
  ASSUME TypeOK, NEW r \in Requests, DeleteUser(r) PROVE TypeOK'
<1> DEFINE id == Target(call[r])
<1>1. CASE Refuse(r, "notFound")
  BY <1>1, RefusalTypes, RefuseType
<1>2. CASE /\ id \in DOMAIN users
           /\ users' = Without(users, id)
           /\ Commit(r, id)
           /\ RolesUnchanged /\ UNCHANGED nextUserID
  <2>1. UserMap(users') /\ nextUserID' \in Nat \ {0} /\ id \in Nat
    BY <1>2, WithoutUser DEF TypeOK, UserMap
  <2> QED
    BY <1>2, <2>1, UsersWritten, CommitType
<1> QED
  BY <1>1, <1>2 DEF DeleteUser

LEMMA RequestedRoleType ==
  ASSUME NEW c \in Call
  PROVE  [code |-> c.code, permissions |-> CleanPermissions(c.permissions)] \in Role
  BY DEF Call, CallOf, Role, CleanPermissions

LEMMA CreateRoleType ==
  ASSUME TypeOK, NEW r \in Requests, CreateRole(r) PROVE TypeOK'
<1> DEFINE ro == [code |-> call[r].code,
                  permissions |-> CleanPermissions(call[r].permissions)]
<1>1. CASE Refuse(r, "conflict")
  BY <1>1, RefusalTypes, RefuseType
<1>2. CASE /\ roles' = Put(roles, nextRoleID, ro)
           /\ nextRoleID' = nextRoleID + 1
           /\ Commit(r, nextRoleID)
           /\ UsersUnchanged
  <2>1. RoleMap(roles') /\ nextRoleID' \in Nat \ {0} /\ nextRoleID \in Nat \ {0}
    BY <1>2, CallType, RequestedRoleType, PutRole DEF TypeOK
  <2> QED
    BY <1>2, <2>1, RolesWritten, CommitType
<1> QED
  BY <1>1, <1>2 DEF CreateRole

LEMMA UpdateRoleType ==
  ASSUME TypeOK, NEW r \in Requests, UpdateRole(r) PROVE TypeOK'
<1> DEFINE id == call[r].target
           ro == [code |-> call[r].code,
                  permissions |-> CleanPermissions(call[r].permissions)]
<1>1. CASE Refuse(r, "notFound") \/ Refuse(r, "conflict")
  BY <1>1, RefusalTypes, RefuseType
<1>2. CASE /\ id \in DOMAIN roles
           /\ roles' = Put(roles, id, ro)
           /\ Commit(r, id)
           /\ UsersUnchanged /\ UNCHANGED nextRoleID
  <2>1. id \in Nat \ {0}
    BY <1>2 DEF TypeOK, RoleMap
  <2>2. RoleMap(roles') /\ nextRoleID' \in Nat \ {0}
    BY <1>2, <2>1, CallType, RequestedRoleType, PutRole DEF TypeOK
  <2> QED
    BY <1>2, <2>1, <2>2, RolesWritten, CommitType
<1> QED
  BY <1>1, <1>2 DEF UpdateRole

LEMMA DeleteRoleType ==
  ASSUME TypeOK, NEW r \in Requests, DeleteRole(r) PROVE TypeOK'
<1> DEFINE id == call[r].target
<1>1. CASE Refuse(r, "notFound") \/ Refuse(r, "conflict")
  BY <1>1, RefusalTypes, RefuseType
<1>2. CASE /\ id \in DOMAIN roles
           /\ roles' = Without(roles, id)
           /\ Commit(r, id)
           /\ UsersUnchanged /\ UNCHANGED nextRoleID
  <2>1. RoleMap(roles') /\ nextRoleID' \in Nat \ {0} /\ id \in Nat
    BY <1>2, WithoutRole DEF TypeOK, RoleMap
  <2> QED
    BY <1>2, <2>1, RolesWritten, CommitType
<1> QED
  BY <1>1, <1>2 DEF DeleteRole

LEMMA AuditType ==
  ASSUME TypeOK, NEW r \in Requests, WriteAudit(r) \/ WriteAuditFailure(r)
  PROVE  TypeOK'
<1>1. Entry(r, FALSE) \in AuditEntry
      /\ [Entry(r, TRUE) EXCEPT !.resource = call[r].actor] \in AuditEntry
  BY DEF Entry, AuditEntry, TypeOK, Call, CallOf, Work
<1>2. audit' \subseteq AuditEntry
  BY <1>1 DEF WriteAudit, WriteAuditFailure, TypeOK
<1>3. LocalTypeOK'
  BY FinishType, RefusalTypes DEF WriteAudit, WriteAuditFailure, TypeOK, LocalTypeOK
<1>4. UNCHANGED <<store, committed, undisturbed>>
  BY DEF WriteAudit, WriteAuditFailure, history
<1> QED
  BY <1>2, <1>3, <1>4, StoreStays DEF TypeOK, LocalTypeOK, StoreTypeOK

LEMMA StoreFaultType ==
  ASSUME TypeOK, NEW r \in Requests, StoreFault(r) PROVE TypeOK'
  BY RefusalTypes, RefuseType DEF StoreFault

----------------------------------------------------------------------------
(* The checks made earlier hold when they are relied on *)

LEMMA RefuseChecked ==
  ASSUME TypeOK, InputChecked, NEW r \in Requests, NEW answer, Finish(r, answer)
  PROVE  InputChecked'
  BY DEF InputChecked, Finish, TypeOK, ServiceSteps

(* A request moves on with input that has been checked, and with the user it  *)
(* read if it is about to write that user back.                               *)
LEMMA ContinueChecked ==
  ASSUME TypeOK, InputChecked, NEW r \in Requests, NEW step, NEW w,
         Continue(r, step, w),
         step \in ServiceSteps => ~InvalidInput(call[r]),
         step \in {"admin", "scan"} => call[r].op \in UserWrites,
         step = "write" /\ call[r].op \in SelfWrites => w.existing \in User
  PROVE  InputChecked'
  BY DEF InputChecked, Continue, TypeOK

LEMMA StartChecked ==
  ASSUME TypeOK, InputChecked, NEW r \in Requests, Start(r) \/ LoadPrincipal(r)
  PROVE  InputChecked'
<1>1. ASSUME NEW step \in {"auth", "policy"}, NEW w, Continue(r, step, w)
      PROVE  InputChecked'
  BY <1>1, ContinueChecked DEF ServiceSteps
<1> QED
  BY <1>1, RefuseChecked DEF Start, LoadPrincipal, Refuse

LEMMA CheckPermissionChecked ==
  ASSUME TypeOK, InputChecked, NEW r \in Requests, CheckPermission(r)
  PROVE  InputChecked'
<1>1. CASE Refuse(r, "forbidden") \/ Refuse(r, "invalid")
  BY <1>1, RefuseChecked DEF Refuse
<1>2. CASE ~InvalidInput(call[r]) /\ Continue(r, FirstStep(call[r]), work[r])
  <2>1. /\ FirstStep(call[r]) \notin {"admin", "scan"}
        /\ call[r].op \in SelfWrites => FirstStep(call[r]) # "write"
    BY DEF FirstStep, StepAfterRoles, SelfWrites, RoleWrites
  <2> QED
    BY <1>2, <2>1, ContinueChecked
<1> QED
  BY <1>1, <1>2 DEF CheckPermission

LEMMA ValidateRoleIDsChecked ==
  ASSUME TypeOK, InputChecked, NEW r \in Requests, ValidateRoleIDs(r)
  PROVE  InputChecked'
<1>1. CASE Refuse(r, "invalid")
  BY <1>1, RefuseChecked DEF Refuse
<1>2. CASE Continue(r, StepAfterRoles(call[r]), work[r])
  <2>1. /\ StepAfterRoles(call[r]) \notin {"admin", "scan"}
        /\ call[r].op \in SelfWrites => StepAfterRoles(call[r]) # "write"
    BY DEF StepAfterRoles, SelfWrites, RoleWrites
  <2>2. ~InvalidInput(call[r])
    BY DEF ValidateRoleIDs, InputChecked, ServiceSteps
  <2> QED
    BY <1>2, <2>1, <2>2, ContinueChecked
<1> QED
  BY <1>1, <1>2 DEF ValidateRoleIDs

LEMMA ReadUserChecked ==
  ASSUME TypeOK, InputChecked, NEW r \in Requests, ReadUser(r)
  PROVE  InputChecked'
<1> DEFINE id == Target(call[r])
           seen == [work[r] EXCEPT !.existing = users[id]]
<1>1. CASE Refuse(r, "notFound") \/ Refuse(r, "forbidden")
  BY <1>1, RefuseChecked DEF Refuse
<1>2. ASSUME NEW step, Continue(r, step, seen), id \in DOMAIN users,
             step = "admin" => call[r].op \in UserWrites, step # "scan"
      PROVE  InputChecked'
  <2>1. users[id] \in User
    BY <1>2 DEF TypeOK, UserMap
  <2>2. seen.existing \in User
    BY <2>1 DEF TypeOK, Work
  <2>3. ~InvalidInput(call[r])
    BY DEF ReadUser, InputChecked, ServiceSteps
  <2> HIDE DEF seen
  <2> QED
    BY <1>2, <2>2, <2>3, ContinueChecked
<1> QED
  BY <1>1, <1>2 DEF ReadUser

LEMMA AdministratorCheckChecked ==
  ASSUME TypeOK, InputChecked, NEW r \in Requests, FindAdminRole(r) \/ ScanPage(r)
  PROVE  InputChecked'
<1>1. ~InvalidInput(call[r]) /\ call[r].op \in UserWrites
  BY DEF FindAdminRole, ScanPage, InputChecked, ServiceSteps
<1>2. ASSUME NEW step, NEW w, Continue(r, step, w)
      PROVE  InputChecked'
  BY <1>1, <1>2, ContinueChecked DEF UserWrites, SelfWrites
<1>3. CASE Proceed(r)
  BY <1>2, <1>3, RefuseChecked DEF Proceed, Refuse
<1> QED
  BY <1>2, <1>3, RefuseChecked DEF FindAdminRole, ScanPage, Refuse

LEMMA WriteChecked ==
  ASSUME TypeOK, InputChecked, NEW r \in Requests,
         \/ Write(r) \/ WriteAudit(r) \/ WriteAuditFailure(r) \/ StoreFault(r)
  PROVE  InputChecked'
<1>1. ASSUME NEW id, Commit(r, id) PROVE InputChecked'
  BY <1>1, ContinueChecked DEF Commit, ServiceSteps
<1>2. ASSUME NEW answer, Finish(r, answer) PROVE InputChecked'
  BY <1>2, RefuseChecked
<1>3. (\E id : Commit(r, id)) \/ (\E answer : Finish(r, answer))
  BY DEF Write, CreateUser, UpdateUser, SetStatus, DeleteUser, UpdateProfile,
         ChangePassword, SaveUser, CreateRole, UpdateRole, DeleteRole,
         WriteAudit, WriteAuditFailure, StoreFault, Refuse
<1> QED
  BY <1>1, <1>2, <1>3

----------------------------------------------------------------------------
(* The type invariant *)

LEMMA InitTyped == Init => TypeOK /\ InputChecked
<1> SUFFICES ASSUME Init PROVE TypeOK /\ InputChecked
  OBVIOUS
<1>1. /\ UserMap(users) /\ RoleMap(roles) /\ nextUserID \in Nat \ {0} /\ nextRoleID \in Nat \ {0}
      /\ call \in [Requests -> Call]
  BY UserAdminAssumption DEF Init
<1>2. pc \in [Requests -> Steps] /\ response \in [Requests -> Responses]
  BY DEF Init, Steps, Responses
<1>3. work \in [Requests -> Work]
  BY NoWorkType DEF Init
<1>4. audit \subseteq AuditEntry /\ committed \subseteq Requests /\ undisturbed \subseteq Requests
  BY DEF Init
<1>5. InputChecked
  BY DEF Init, InputChecked, ServiceSteps
<1> QED
  BY <1>1, <1>2, <1>3, <1>4, <1>5 DEF TypeOK

LEMMA HandleTyped ==
  ASSUME TypeOK, InputChecked, NEW r \in Requests, Handle(r) \/ StoreFault(r)
  PROVE  TypeOK' /\ InputChecked'
<1>1. CASE LoadPrincipal(r)
  BY <1>1, LoadPrincipalType, StartChecked
<1>2. CASE CheckPermission(r)
  BY <1>2, CheckPermissionType, CheckPermissionChecked
<1>3. CASE ValidateRoleIDs(r)
  BY <1>3, ValidateRoleIDsType, ValidateRoleIDsChecked
<1>4. CASE ReadUser(r)
  BY <1>4, ReadUserType, ReadUserChecked
<1>5. CASE FindAdminRole(r) \/ ScanPage(r)
  BY <1>5, FindAdminRoleType, ScanPageType, AdministratorCheckChecked
<1>6. CASE Write(r)
  BY <1>6, CreateUserType, UpdateUserType, SetStatusType, DeleteUserType,
     UpdateProfileType, ChangePasswordType, CreateRoleType, UpdateRoleType,
     DeleteRoleType, WriteChecked DEF Write
<1>7. CASE WriteAudit(r) \/ WriteAuditFailure(r) \/ StoreFault(r)
  BY <1>7, AuditType, StoreFaultType, WriteChecked
<1> QED
  BY <1>1, <1>2, <1>3, <1>4, <1>5, <1>6, <1>7 DEF Handle

LEMMA NextTyped == TypeOK /\ InputChecked /\ [Next]_vars => TypeOK' /\ InputChecked'
<1> SUFFICES ASSUME TypeOK, InputChecked, [Next]_vars PROVE TypeOK' /\ InputChecked'
  OBVIOUS
<1>1. CASE UNCHANGED vars
  BY <1>1 DEF vars, store, history, TypeOK, InputChecked, UserMap, RoleMap
<1>2. ASSUME NEW r \in Requests, Start(r) PROVE TypeOK' /\ InputChecked'
  BY <1>2, StartType, StartChecked
<1>3. ASSUME NEW r \in Requests, Handle(r) \/ StoreFault(r)
      PROVE  TypeOK' /\ InputChecked'
  BY <1>3, HandleTyped
<1> QED
  BY <1>1, <1>2, <1>3 DEF Next, Quiescent

(* Whatever the requests ask for and however they interleave, the store holds *)
(* users and roles of the right shape and every handler is at one of its      *)
(* steps; and a handler that writes has checked its input.                    *)
THEOREM TypeCorrect == Spec => [](TypeOK /\ InputChecked)
  BY InitTyped, NextTyped, PTL DEF Spec

----------------------------------------------------------------------------
(* What a step can do to the store *)

(* A user is inserted or overwritten, its status is set, or it is removed. *)
UserPut ==
  \E id \in Nat \ {0}, u \in User :
    /\ users' = Put(users, id, u) /\ ~UserConflict(id, u)
    /\ \/ id \in DOMAIN users /\ UNCHANGED nextUserID
       \/ id = nextUserID /\ nextUserID' = nextUserID + 1
    /\ RolesUnchanged

StatusPut ==
  \E id \in DOMAIN users, status \in Statuses :
    /\ users' = [users EXCEPT ![id].status = status]
    /\ UNCHANGED nextUserID /\ RolesUnchanged

UserGone ==
  \E id \in DOMAIN users : /\ users' = Without(users, id)
                           /\ UNCHANGED nextUserID /\ RolesUnchanged

(* A role is inserted or overwritten, or one that no user holds is removed. *)
RolePut ==
  \E id \in Nat \ {0}, ro \in Role :
    /\ roles' = Put(roles, id, ro) /\ ~RoleConflict(id, ro.code)
    /\ \/ id \in DOMAIN roles /\ UNCHANGED nextRoleID
       \/ id = nextRoleID /\ nextRoleID' = nextRoleID + 1
    /\ UsersUnchanged

RoleGone ==
  \E id \in DOMAIN roles : /\ roles' = Without(roles, id) /\ ~Assigned(id)
                           /\ UNCHANGED nextRoleID /\ UsersUnchanged

LEMMA SaveUserPuts ==
  ASSUME TypeOK, NEW r \in Requests, NEW u \in User, SaveUser(r, u)
  PROVE  UNCHANGED store \/ UserPut
<1> DEFINE id == Target(call[r])
           saved == [u EXCEPT !.password = IF u.password = "" THEN users[id].password
                                                             ELSE u.password]
<1>1. CASE Refuse(r, "notFound") \/ Refuse(r, "conflict")
  BY <1>1 DEF Refuse, Unwritten
<1>2. CASE /\ id \in DOMAIN users /\ ~UserConflict(id, u)
           /\ users' = Put(users, id, saved)
           /\ RolesUnchanged /\ UNCHANGED nextUserID
  <2>1. users[id] \in User /\ id \in Nat \ {0}
    BY <1>2 DEF TypeOK, UserMap
  <2>2. /\ saved \in User
        /\ saved.username = u.username /\ saved.email = u.email
    BY <2>1 DEF User
  <2>3. ~UserConflict(id, saved)
    BY <1>2, <2>2 DEF UserConflict
  <2> HIDE DEF saved
  <2> QED
    BY <1>2, <2>1, <2>2, <2>3 DEF UserPut
<1> QED
  BY <1>1, <1>2 DEF SaveUser

LEMMA CreateUserPuts ==
  ASSUME TypeOK, InputChecked, NEW r \in Requests, CreateUser(r)
  PROVE  UNCHANGED store \/ UserPut
<1> DEFINE c == call[r]
           u == [username |-> c.username, email |-> c.email,
                 password |-> c.password, roleIDs |-> c.roleIDs,
                 status |-> NormalStatus(c.status)]
<1>1. u \in User
  BY RequestedUserType, CallType
     DEF InputChecked, CreateUser, Writing, ServiceSteps
<1>2. CASE Refuse(r, "conflict")
  BY <1>2 DEF Refuse, Unwritten
<1>3. CASE /\ ~UserConflict(0, u)
           /\ users' = Put(users, nextUserID, u)
           /\ nextUserID' = nextUserID + 1
           /\ RolesUnchanged
  <2>1. ~UserConflict(nextUserID, u)
    BY <1>3 DEF UserConflict, TypeOK, UserMap
  <2>2. nextUserID \in Nat \ {0}
    BY DEF TypeOK
  <2> HIDE DEF u
  <2> QED
    BY <1>1, <1>3, <2>1, <2>2 DEF UserPut
<1> QED
  BY <1>2, <1>3 DEF CreateUser

LEMMA RequestedPuts ==
  ASSUME TypeOK, InputChecked, NEW r \in Requests,
         UpdateUser(r) \/ UpdateProfile(r) \/ ChangePassword(r)
  PROVE  UNCHANGED store \/ UserPut
<1>1. call[r] \in Call
  BY CallType
<1>2. CASE UpdateUser(r)
  <2> DEFINE c == call[r]
             u == [username |-> c.username, email |-> c.email,
                   password |-> c.password, roleIDs |-> c.roleIDs,
                   status |-> NormalStatus(c.status)]
  <2>1. u \in User
    BY <1>1, <1>2, RequestedUserType
       DEF InputChecked, UpdateUser, Writing, ServiceSteps
  <2>2. SaveUser(r, u)
    BY <1>2 DEF UpdateUser
  <2> HIDE DEF u
  <2> QED
    BY <2>1, <2>2, SaveUserPuts
<1>3. CASE UpdateProfile(r)
  <2> DEFINE u == [work[r].existing EXCEPT !.email = call[r].email, !.password = ""]
  <2>1. work[r].existing \in User /\ call[r].email \in STRING
    BY <1>1, <1>3 DEF InputChecked, UpdateProfile, Writing, SelfWrites, Call, CallOf
  <2>2. u \in User /\ SaveUser(r, u)
    BY <1>3, <2>1, ProfileType DEF UpdateProfile
  <2> HIDE DEF u
  <2> QED
    BY <2>2, SaveUserPuts
<1>4. CASE ChangePassword(r)
  <2> DEFINE u == [work[r].existing EXCEPT !.password = call[r].password]
  <2>1. work[r].existing \in User
    BY <1>4 DEF InputChecked, ChangePassword, Writing, SelfWrites
  <2>2. u \in User /\ SaveUser(r, u)
    BY <1>1, <1>4, <2>1 DEF ChangePassword, User, Call, CallOf
  <2> HIDE DEF u
  <2> QED
    BY <2>2, SaveUserPuts
<1> QED
  BY <1>2, <1>3, <1>4

LEMMA OtherUserWrites ==
  ASSUME TypeOK, InputChecked, NEW r \in Requests, SetStatus(r) \/ DeleteUser(r)
  PROVE  UNCHANGED store \/ StatusPut \/ UserGone
<1>1. CASE SetStatus(r)
  <2>1. call[r].status \in Statuses
    BY <1>1, CallType DEF InputChecked, SetStatus, Writing, ServiceSteps, InvalidInput
  <2> QED
    BY <1>1, <2>1 DEF SetStatus, Refuse, Unwritten, StatusPut
<1>2. CASE DeleteUser(r)
  BY <1>2 DEF DeleteUser, Refuse, Unwritten, UserGone
<1> QED
  BY <1>1, <1>2

LEMMA RoleWritesPut ==
  ASSUME TypeOK, NEW r \in Requests, CreateRole(r) \/ UpdateRole(r) \/ DeleteRole(r)
  PROVE  UNCHANGED store \/ RolePut \/ RoleGone
<1> DEFINE ro == [code |-> call[r].code,
                  permissions |-> CleanPermissions(call[r].permissions)]
<1>1. ro \in Role /\ ro.code = call[r].code
  BY CallType, RequestedRoleType
<1>2. CASE CreateRole(r)
  <2>1. nextRoleID \in Nat \ {0} /\ 0 \notin DOMAIN roles
    BY DEF TypeOK, RoleMap
  <2>2. \/ Refuse(r, "conflict")
        \/ /\ roles' = Put(roles, nextRoleID, ro) /\ ~RoleConflict(0, ro.code)
           /\ nextRoleID' = nextRoleID + 1 /\ UsersUnchanged
    BY <1>2 DEF CreateRole
  <2> HIDE DEF ro
  <2>3. ~RoleConflict(0, ro.code) => ~RoleConflict(nextRoleID, ro.code)
    BY <2>1 DEF RoleConflict
  <2> QED
    BY <1>1, <2>1, <2>2, <2>3 DEF Refuse, Unwritten, RolePut
<1>3. CASE UpdateRole(r)
  <2>1. \/ Refuse(r, "conflict") \/ Refuse(r, "notFound")
        \/ /\ call[r].target \in DOMAIN roles /\ ~RoleConflict(call[r].target, ro.code)
           /\ roles' = Put(roles, call[r].target, ro)
           /\ UNCHANGED nextRoleID /\ UsersUnchanged
    BY <1>3 DEF UpdateRole
  <2>2. call[r].target \in DOMAIN roles => call[r].target \in Nat \ {0}
    BY DEF TypeOK, RoleMap
  <2> HIDE DEF ro
  <2> QED
    BY <1>1, <2>1, <2>2 DEF Refuse, Unwritten, RolePut
<1>4. CASE DeleteRole(r)
  BY <1>4 DEF DeleteRole, Refuse, Unwritten, RoleGone
<1> QED
  BY <1>2, <1>3, <1>4

LEMMA StoreSteps ==
  ASSUME TypeOK, InputChecked, [Next]_vars
  PROVE  UNCHANGED store \/ UserPut \/ StatusPut \/ UserGone \/ RolePut \/ RoleGone
<1>1. CASE UNCHANGED vars
  BY <1>1 DEF vars
<1>2. ASSUME NEW r \in Requests, Write(r)
      PROVE  UNCHANGED store \/ UserPut \/ StatusPut \/ UserGone \/ RolePut \/ RoleGone
  BY <1>2, CreateUserPuts, RequestedPuts, OtherUserWrites, RoleWritesPut DEF Write
<1>3. ASSUME NEW r \in Requests, Start(r) \/ StoreFault(r) \/ (Handle(r) /\ ~Write(r))
      PROVE  UNCHANGED store
  BY <1>3 DEF Start, Handle, LoadPrincipal, CheckPermission, ValidateRoleIDs, ReadUser,
       FindAdminRole, ScanPage, Proceed, WriteAudit, WriteAuditFailure, StoreFault,
       Refuse, Unwritten
<1> QED
  BY <1>1, <1>2, <1>3 DEF Next, Quiescent

----------------------------------------------------------------------------
(* Identities are unique *)

Unique == UniqueUsers(users) /\ UniqueRoles(roles)

LEMMA PutKeepsUnique ==
  ASSUME UserMap(users), UniqueUsers(users), UserPut
  PROVE  UniqueUsers(users')
<1> PICK id \in Nat \ {0}, u \in User :
      users' = Put(users, id, u) /\ ~UserConflict(id, u)
  BY DEF UserPut
<1> SUFFICES ASSUME NEW x \in DOMAIN users', NEW y \in DOMAIN users', x # y
             PROVE  /\ users'[x].username # users'[y].username
                    /\ users'[x].email # "" => users'[x].email # users'[y].email
  BY DEF UniqueUsers
<1>1. CASE x # id /\ y # id
  BY <1>1 DEF UniqueUsers, Put
<1>2. CASE x = id
  BY <1>2 DEF UserConflict, Put
<1>3. CASE y = id
  BY <1>3 DEF UserConflict, Put
<1> QED
  BY <1>1, <1>2, <1>3

LEMMA RolePutKeepsUnique ==
  ASSUME UniqueRoles(roles), RolePut
  PROVE  UniqueRoles(roles')
  BY DEF RolePut, UniqueRoles, Put, RoleConflict

LEMMA SameIdentities ==
  ASSUME NEW us, NEW vs, UniqueUsers(us), DOMAIN vs = DOMAIN us,
         \A x \in DOMAIN us : /\ vs[x].username = us[x].username
                              /\ vs[x].email = us[x].email
  PROVE  UniqueUsers(vs)
  BY DEF UniqueUsers

LEMMA IdentitiesStep ==
  TypeOK /\ InputChecked /\ Unique /\ [Next]_vars => Unique'
<1> SUFFICES ASSUME TypeOK, InputChecked, Unique, [Next]_vars
             PROVE  Unique'
  OBVIOUS
<1>1. CASE UNCHANGED store
  BY <1>1 DEF store, Unique
<1>2. CASE UserPut
  BY <1>2, PutKeepsUnique DEF UserPut, RolesUnchanged, Unique, TypeOK
<1>3. CASE StatusPut
  <2> PICK id \in DOMAIN users, status \in Statuses :
        users' = [users EXCEPT ![id].status = status]
    BY <1>3 DEF StatusPut
  <2>1. \A x \in DOMAIN users : /\ users'[x].username = users[x].username
                                /\ users'[x].email = users[x].email
    BY DEF TypeOK, UserMap, User
  <2>2. DOMAIN users' = DOMAIN users
    OBVIOUS
  <2>3. UniqueUsers(users')
    BY <2>1, <2>2, SameIdentities DEF Unique
  <2> QED
    BY <1>3, <2>3 DEF StatusPut, RolesUnchanged, Unique
<1>4. CASE UserGone
  <2>1. PICK id \in DOMAIN users : users' = Without(users, id) /\ RolesUnchanged
    BY <1>4 DEF UserGone
  <2>2. UniqueUsers(Without(users, id))
    BY DEF Without, Unique, UniqueUsers
  <2> QED
    BY <2>1, <2>2 DEF RolesUnchanged, Unique
<1>5. CASE RolePut
  BY <1>5, RolePutKeepsUnique DEF RolePut, UsersUnchanged, Unique
<1>6. CASE RoleGone
  BY <1>6 DEF RoleGone, Without, UsersUnchanged, Unique, UniqueRoles
<1> QED
  BY <1>1, <1>2, <1>3, <1>4, <1>5, <1>6, StoreSteps

----------------------------------------------------------------------------
(* IDs are issued once *)

(* The IDs in use have all been issued. *)
IssuedIDs ==
  /\ \A id \in DOMAIN users : id < nextUserID
  /\ \A id \in DOMAIN roles : id < nextRoleID

LEMMA IssuedIDsStep ==
  TypeOK /\ InputChecked /\ IssuedIDs /\ [Next]_vars
    => /\ IssuedIDs'
       /\ DOMAIN users' \subseteq DOMAIN users \cup {nextUserID}
       /\ DOMAIN roles' \subseteq DOMAIN roles \cup {nextRoleID}
<1> SUFFICES ASSUME TypeOK, InputChecked, IssuedIDs, [Next]_vars
             PROVE  /\ IssuedIDs'
                    /\ DOMAIN users' \subseteq DOMAIN users \cup {nextUserID}
                    /\ DOMAIN roles' \subseteq DOMAIN roles \cup {nextRoleID}
  OBVIOUS
<1>1. /\ nextUserID \in Nat /\ nextRoleID \in Nat
      /\ DOMAIN users \subseteq Nat /\ DOMAIN roles \subseteq Nat
  BY DEF TypeOK, UserMap, RoleMap
<1>2. CASE UNCHANGED store
  BY <1>2 DEF store, IssuedIDs
<1>3. CASE UserPut
  BY <1>1, <1>3 DEF UserPut, Put, RolesUnchanged, IssuedIDs
<1>4. CASE StatusPut
  BY <1>4 DEF StatusPut, RolesUnchanged, IssuedIDs
<1>5. CASE UserGone
  BY <1>5 DEF UserGone, Without, RolesUnchanged, IssuedIDs
<1>6. CASE RolePut
  BY <1>1, <1>6 DEF RolePut, Put, UsersUnchanged, IssuedIDs
<1>7. CASE RoleGone
  BY <1>7 DEF RoleGone, Without, UsersUnchanged, IssuedIDs
<1> QED
  BY <1>2, <1>3, <1>4, <1>5, <1>6, <1>7, StoreSteps

----------------------------------------------------------------------------
(* The promises of user and role administration *)

LEMMA SameUnique ==
  ASSUME NEW us, NEW rs
  PROVE  /\ Directory!UniqueUsers(us) <=> UniqueUsers(us)
         /\ Directory!UniqueRoles(rs) <=> UniqueRoles(rs)
  BY DEF Directory!UniqueUsers, Directory!UniqueRoles, UniqueUsers, UniqueRoles

(* Every step of a request is a step of the directory, or leaves it alone.    *)
LEMMA DirectoryStep ==
  ASSUME TypeOK, InputChecked, IssuedIDs, Unique, Unique', [Next]_vars
  PROVE  [Directory!Next]_(Directory!vars)
<1>1. /\ nextUserID \in Nat \ {0} /\ nextRoleID \in Nat \ {0}
      /\ DOMAIN users \subseteq Nat \ {0} /\ DOMAIN roles \subseteq Nat \ {0}
  BY DEF TypeOK, UserMap, RoleMap
<1>2. CASE UNCHANGED store
  BY <1>2 DEF store, Directory!vars
<1>3. CASE UserPut
  <2> PICK id \in Nat \ {0}, u \in User :
        /\ users' = Put(users, id, u) /\ RolesUnchanged
        /\ \/ id \in DOMAIN users /\ UNCHANGED nextUserID
           \/ id = nextUserID /\ nextUserID' = nextUserID + 1
    BY <1>3 DEF UserPut
  <2>1. id \in DOMAIN users' /\ Directory!Stores(users, users', id)
    BY DEF Put, Directory!Stores
  <2>2. id \in DOMAIN users \/ id \notin 1..(nextUserID - 1)
    BY <1>1
  <2>3. 1..(nextUserID' - 1) = 1..(nextUserID - 1) \cup {id}
    BY <1>1 DEF IssuedIDs
  <2> QED
    BY <2>1, <2>2, <2>3, SameUnique DEF Directory!Next, Directory!StoreUser, RolesUnchanged, Unique
<1>4. CASE StatusPut
  <2> PICK id \in DOMAIN users, status \in Statuses :
        /\ users' = [users EXCEPT ![id].status = status]
        /\ UNCHANGED nextUserID /\ RolesUnchanged
    BY <1>4 DEF StatusPut
  <2>1. id \in DOMAIN users' /\ Directory!Stores(users, users', id)
    BY DEF Directory!Stores
  <2>2. 1..(nextUserID' - 1) = 1..(nextUserID - 1) \cup {id}
    BY <1>1 DEF IssuedIDs
  <2> QED
    BY <2>1, <2>2, SameUnique DEF Directory!Next, Directory!StoreUser, RolesUnchanged, Unique
<1>5. CASE UserGone
  <2>1. PICK id \in DOMAIN users : Directory!Removes(users, users', id)
    BY <1>5 DEF UserGone, Without, Directory!Removes
  <2> QED
    BY <1>5, <2>1, SameUnique DEF UserGone, Directory!Next, Directory!RemoveUser, RolesUnchanged, Unique
<1>6. CASE RolePut
  <2> PICK id \in Nat \ {0}, ro \in Role :
        /\ roles' = Put(roles, id, ro) /\ UsersUnchanged
        /\ \/ id \in DOMAIN roles /\ UNCHANGED nextRoleID
           \/ id = nextRoleID /\ nextRoleID' = nextRoleID + 1
    BY <1>6 DEF RolePut
  <2>1. id \in DOMAIN roles' /\ Directory!Stores(roles, roles', id)
    BY DEF Put, Directory!Stores
  <2>2. id \in DOMAIN roles \/ id \notin 1..(nextRoleID - 1)
    BY <1>1
  <2>3. 1..(nextRoleID' - 1) = 1..(nextRoleID - 1) \cup {id}
    BY <1>1 DEF IssuedIDs
  <2> QED
    BY <2>1, <2>2, <2>3, SameUnique DEF Directory!Next, Directory!StoreRole, UsersUnchanged, Unique
<1>7. CASE RoleGone
  <2>1. PICK id \in DOMAIN roles : Directory!Removes(roles, roles', id)
    BY <1>7 DEF RoleGone, Without, Directory!Removes
  <2> QED
    BY <1>7, <2>1, SameUnique DEF RoleGone, Directory!Next, Directory!RemoveRole, UsersUnchanged, Unique
<1> QED
  BY <1>2, <1>3, <1>4, <1>5, <1>6, <1>7, StoreSteps

StoreInv == TypeOK /\ InputChecked /\ IssuedIDs /\ Unique

LEMMA StoreInvInit == Init => StoreInv
<1> SUFFICES ASSUME Init PROVE StoreInv
  OBVIOUS
<1>1. IssuedIDs /\ Unique
  BY UserAdminAssumption DEF Init, IssuedIDs, Unique
<1> QED
  BY <1>1, InitTyped DEF StoreInv

LEMMA StoreInvStep == StoreInv /\ [Next]_vars => StoreInv'
  BY NextTyped, IssuedIDsStep, IdentitiesStep DEF StoreInv

(* Whatever the requests write and however they interleave, no two users      *)
(* share a username or a contact and no two roles a code; nothing a request   *)
(* read before a deletion brings the record back, and no ID is issued twice.  *)
THEOREM DirectoryImplemented == Spec => ImplementsDirectory
<1>1. Init => Directory!Init
  <2> SUFFICES ASSUME Init PROVE Directory!Init
    OBVIOUS
  <2>1. TypeOK /\ IssuedIDs /\ Unique
    BY StoreInvInit DEF StoreInv
  <2>2. DOMAIN users \subseteq 1..(nextUserID - 1) /\ DOMAIN roles \subseteq 1..(nextRoleID - 1)
    BY <2>1 DEF TypeOK, UserMap, RoleMap, IssuedIDs
  <2> QED
    BY <2>1, <2>2, SameUnique DEF Directory!Init, Unique
<1>2. StoreInv /\ StoreInv' /\ [Next]_vars => [Directory!Next]_(Directory!vars)
  BY DirectoryStep DEF StoreInv
<1> QED
  BY <1>1, <1>2, StoreInvInit, StoreInvStep, PTL DEF Spec, ImplementsDirectory, Directory!Spec

----------------------------------------------------------------------------
(* The audit trail *)

(* A request is answered at its last step, and between its write and its      *)
(* answer there is only the audit entry.                                      *)
AuditInv ==
  /\ AuditTrail
  /\ \A r \in Requests : pc[r] # "done" => response[r] = "none"
  /\ \A r \in Requests : pc[r] = "audit" => r \in committed
  /\ \A r \in committed : pc[r] \in {"audit", "done"}

LEMMA ContinueAudit ==
  ASSUME TypeOK, AuditInv, NEW r \in Requests, NEW step, NEW w, Continue(r, step, w),
         UNCHANGED <<audit, committed>>,
         pc[r] \notin {"audit", "done"}, step \notin {"audit", "done"}
  PROVE  AuditInv'
<1>1. /\ audit' = audit /\ committed' = committed /\ response' = response
      /\ \A s \in Requests \ {r} : pc'[s] = pc[s]
      /\ pc'[r] = step /\ r \notin committed
      /\ committed \subseteq Requests
  BY DEF Continue, TypeOK, AuditInv
<1>2. AuditTrail'
  BY <1>1 DEF AuditInv, AuditTrail
<1> QED
  BY <1>1, <1>2 DEF AuditInv

LEMMA FinishAudit ==
  ASSUME TypeOK, AuditInv, NEW r \in Requests, NEW answer, Finish(r, answer),
         UNCHANGED committed, pc[r] # "done",
         audit \subseteq audit',
         \A e \in audit' \ audit : e.failed \/ e.request \in committed,
         answer = "ok" => r \in committed /\ \E e \in audit' : e.request = r /\ ~e.failed,
         pc[r] = "audit" => answer \in {"ok", "internal"}
  PROVE  AuditInv'
<1>1. /\ committed' = committed /\ committed \subseteq Requests
      /\ \A s \in Requests \ {r} : pc'[s] = pc[s] /\ response'[s] = response[s]
      /\ pc'[r] = "done" /\ response'[r] = answer
      /\ r \in committed => pc[r] = "audit"
  BY DEF Finish, TypeOK, AuditInv
<1>2. \A s \in Requests : response'[s] = "ok" =>
        s \in committed' /\ \E e \in audit' : e.request = s /\ ~e.failed
  BY <1>1 DEF AuditInv, AuditTrail
<1>3. \A e \in audit' : ~e.failed => e.request \in committed'
  BY <1>1 DEF AuditInv, AuditTrail
<1>4. \A s \in committed' : pc'[s] = "audit" \/ response'[s] \in {"ok", "internal"}
  BY <1>1 DEF AuditInv, AuditTrail
<1> QED
  BY <1>1, <1>2, <1>3, <1>4 DEF AuditInv, AuditTrail

LEMMA RefuseAudit ==
  ASSUME TypeOK, AuditInv, NEW r \in Requests, NEW answer, Refuse(r, answer),
         pc[r] # "done", answer # "ok", pc[r] = "audit" => answer = "internal"
  PROVE  AuditInv'
  BY FinishAudit DEF Refuse, Unwritten, history

LEMMA CommitAudit ==
  ASSUME TypeOK, AuditInv, NEW r \in Requests, NEW id, Commit(r, id), pc[r] = "write"
  PROVE  AuditInv'
<1>1. /\ audit' = audit /\ committed' = committed \cup {r} /\ response' = response
      /\ \A s \in Requests \ {r} : pc'[s] = pc[s]
      /\ pc'[r] = "audit" /\ response[r] = "none"
      /\ committed \subseteq Requests
  BY DEF Commit, Continue, TypeOK, AuditInv
<1>2. AuditTrail'
  BY <1>1 DEF AuditInv, AuditTrail
<1> QED
  BY <1>1, <1>2 DEF AuditInv

LEMMA ServiceAudit ==
  ASSUME TypeOK, AuditInv, NEW r \in Requests,
         \/ Start(r) \/ LoadPrincipal(r) \/ CheckPermission(r) \/ ValidateRoleIDs(r)
         \/ ReadUser(r) \/ FindAdminRole(r) \/ ScanPage(r)
  PROVE  AuditInv'
<1>1. pc[r] \in {"new", "auth", "policy", "roles", "read", "admin", "scan"}
  BY DEF Start, LoadPrincipal, CheckPermission, ValidateRoleIDs, ReadUser, FindAdminRole,
         ScanPage
<1>2. \A answer : Refuse(r, answer) /\ answer # "ok" => AuditInv'
  BY <1>1, RefuseAudit
<1>3. ASSUME NEW step, NEW w, Continue(r, step, w), UNCHANGED <<audit, committed>>,
             step \notin {"audit", "done"}
      PROVE  AuditInv'
  BY <1>1, <1>3, ContinueAudit
<1>4. Unwritten => UNCHANGED <<audit, committed>>
  BY DEF Unwritten, history
<1>5. \A c : FirstStep(c) \notin {"audit", "done"} /\ StepAfterRoles(c) \notin {"audit", "done"}
  BY DEF FirstStep, StepAfterRoles
<1>6. ASSUME Proceed(r) PROVE AuditInv'
  <2>1. Refuse(r, "invalid") => AuditInv'
    BY <1>2
  <2>2. Continue(r, "write", work[r]) /\ Unwritten => AuditInv'
    BY <1>3, <1>4
  <2> QED
    BY <1>6, <2>1, <2>2 DEF Proceed
<1>7. CASE Start(r) \/ LoadPrincipal(r)
  BY <1>2, <1>3, <1>4, <1>7 DEF Start, LoadPrincipal
<1>8. CASE CheckPermission(r) \/ ValidateRoleIDs(r)
  BY <1>2, <1>3, <1>4, <1>5, <1>8 DEF CheckPermission, ValidateRoleIDs
<1>9. CASE ReadUser(r)
  BY <1>2, <1>3, <1>4, <1>9 DEF ReadUser
<1>10. CASE FindAdminRole(r) \/ ScanPage(r)
  BY <1>2, <1>3, <1>4, <1>6, <1>10 DEF FindAdminRole, ScanPage
<1> QED
  BY <1>7, <1>8, <1>9, <1>10

LEMMA WriteAuditKept ==
  ASSUME TypeOK, AuditInv, NEW r \in Requests, Write(r)
  PROVE  AuditInv'
<1>1. pc[r] = "write"
  BY DEF Write, Writing, CreateUser, UpdateUser, UpdateProfile, ChangePassword,
         SetStatus, DeleteUser, CreateRole, UpdateRole, DeleteRole
<1>2. (\E id : Commit(r, id)) \/ Refuse(r, "notFound") \/ Refuse(r, "conflict")
  BY DEF Write, CreateUser, UpdateUser, UpdateProfile, ChangePassword, SaveUser,
         SetStatus, DeleteUser, CreateRole, UpdateRole, DeleteRole
<1> QED
  BY <1>1, <1>2, CommitAudit, RefuseAudit

LEMMA EntryAudit ==
  ASSUME TypeOK, AuditInv, NEW r \in Requests, WriteAudit(r) \/ WriteAuditFailure(r)
  PROVE  AuditInv'
<1>1. CASE WriteAudit(r)
  <2>1. /\ audit' = audit \cup {Entry(r, FALSE)} /\ committed' = committed
        /\ Finish(r, "ok") /\ pc[r] = "audit" /\ r \in committed
    BY <1>1 DEF WriteAudit, history, AuditInv
  <2>2. Entry(r, FALSE).request = r /\ ~Entry(r, FALSE).failed
    BY DEF Entry
  <2> QED
    BY <2>1, <2>2, FinishAudit
<1>2. CASE WriteAuditFailure(r)
  <2> DEFINE e == [Entry(r, TRUE) EXCEPT !.resource = call[r].actor]
  <2>1. e.failed
    BY DEF Entry
  <2>2. /\ audit' = audit \cup {e} /\ committed' = committed
        /\ Finish(r, "unauthorized") /\ pc[r] = "auditFailure"
    BY <1>2 DEF WriteAuditFailure, history
  <2> HIDE DEF e
  <2> QED
    BY <2>1, <2>2, FinishAudit
<1> QED
  BY <1>1, <1>2

LEMMA AuditStep == TypeOK /\ AuditInv /\ [Next]_vars => AuditInv'
<1> SUFFICES ASSUME TypeOK, AuditInv, [Next]_vars PROVE AuditInv'
  OBVIOUS
<1>1. CASE UNCHANGED vars
  BY <1>1 DEF vars, history, AuditInv, AuditTrail
<1>2. ASSUME NEW r \in Requests, StoreFault(r) PROVE AuditInv'
  BY <1>2, RefuseAudit DEF StoreFault
<1>3. ASSUME NEW r \in Requests, Start(r) \/ Handle(r) PROVE AuditInv'
  BY <1>3, ServiceAudit, WriteAuditKept, EntryAudit DEF Handle
<1> QED
  BY <1>1, <1>2, <1>3 DEF Next, Quiescent

LEMMA AuditInit == Init => AuditInv
  BY DEF Init, AuditInv, AuditTrail

(* Whatever fails and whatever interleaves: a success was written and audited, *)
(* an entry of a success is about a write that took effect, and no write that  *)
(* took effect is answered with a client error.                                *)
THEOREM AuditTrailKept == Spec => []AuditTrail
<1>1. AuditInv => AuditTrail
  BY DEF AuditInv
<1> QED
  BY <1>1, AuditInit, AuditStep, TypeCorrect, PTL DEF Spec

----------------------------------------------------------------------------
(* Requests that no other request has disturbed: what such a request has read *)
(* and checked is still so when it writes.                                    *)

ManagingWrites == {"updateUser", "setStatus", "deleteUser"}
WritesBack == ManagingWrites \cup SelfWrites
AssignsRoles == {"createUser", "updateUser"}

(* The check of the caller, as a condition on the store. *)
Authorized(us, rs, c) ==
  LET permission == RequiredPermission[c.op]
  IN  /\ c.actor \in ActiveUsers(us)
      /\ permission # "" => Allows(rs, us[c.actor].roleIDs, permission)

(* The last-administrator check, as a condition on the store. *)
MayWrite(us, rs, c) ==
  LET id == Target(c)
      administrators == Administrators(us, rs)
  IN  \/ id \notin administrators
      \/ \E a \in AdminRoles(rs) : StaysAdministrator(c, us[id], a)
      \/ administrators \ {id} # {}

(* What a request that is about to take a step has found out: who its caller  *)
(* is and that it may make the call, that the roles it assigns exist, the     *)
(* user it will write, the admin role, and that the write may be made.        *)
Known(us, rs, c, step, w) ==
  /\ step = "policy" => c.actor \in ActiveUsers(us) /\ w.principal = us[c.actor]
  /\ step \in ServiceSteps => Authorized(us, rs, c)
  /\ step \in ServiceSteps \ {"roles"} /\ c.op \in AssignsRoles
       => c.roleIDs \subseteq DOMAIN rs
  /\ step \in {"admin", "scan"} \/ (step = "write" /\ c.op \in WritesBack)
       => Target(c) \in DOMAIN us /\ w.existing = us[Target(c)]
  /\ step = "scan" => w.adminRole \in AdminRoles(rs)
  /\ step = "write" /\ c.op \in ManagingWrites => MayWrite(us, rs, c)

KnownNow(r) == Known(users, roles, call[r], pc[r], work[r])

Fresh == \A r \in undisturbed : KnownNow(r)

FreshInv == StoreInv /\ AuditInv /\ Fresh

----------------------------------------------------------------------------
(* How a step ends keeps the knowledge of every undisturbed request *)

(* A request moves on knowing what its next step relies on. *)
LEMMA ContinueFresh ==
  ASSUME FreshInv, NEW r \in Requests, NEW step, NEW w, Continue(r, step, w),
         UNCHANGED store, undisturbed' \subseteq undisturbed \cup {r},
         r \in undisturbed' => Known(users, roles, call[r], step, w)
  PROVE  Fresh'
<1>1. /\ users' = users /\ roles' = roles /\ call' = call
      /\ pc' = [pc EXCEPT ![r] = step] /\ work' = [work EXCEPT ![r] = w]
      /\ pc \in [Requests -> Steps] /\ work \in [Requests -> Work]
      /\ undisturbed \subseteq Requests
  BY DEF Continue, store, FreshInv, StoreInv, TypeOK
<1>2. SUFFICES ASSUME NEW s \in undisturbed' PROVE Known(users, roles, call[s], pc'[s], work'[s])
  BY <1>1 DEF Fresh, KnownNow
<1>3. CASE s = r
  BY <1>1, <1>3
<1>4. CASE s # r
  BY <1>1, <1>4 DEF FreshInv, Fresh, KnownNow
<1> QED
  BY <1>3, <1>4

LEMMA FinishFresh ==
  ASSUME FreshInv, NEW r \in Requests, NEW answer, Finish(r, answer),
         UNCHANGED <<store, history>>
  PROVE  Fresh'
<1>1. /\ users' = users /\ roles' = roles /\ call' = call /\ undisturbed' = undisturbed
      /\ pc' = [pc EXCEPT ![r] = "done"] /\ work' = [work EXCEPT ![r] = NoWork]
      /\ pc \in [Requests -> Steps] /\ work \in [Requests -> Work]
      /\ undisturbed \subseteq Requests
  BY DEF Finish, store, history, FreshInv, StoreInv, TypeOK
<1>2. SUFFICES ASSUME NEW s \in undisturbed PROVE Known(users, roles, call[s], pc'[s], work'[s])
  BY <1>1 DEF Fresh, KnownNow
<1>3. CASE s = r
  BY <1>1, <1>3 DEF Known, ServiceSteps
<1>4. CASE s # r
  BY <1>1, <1>4 DEF FreshInv, Fresh, KnownNow
<1> QED
  BY <1>3, <1>4

(* After a write only the writer is undisturbed, and it writes no more. *)
LEMMA CommitFresh ==
  ASSUME FreshInv, NEW r \in Requests, NEW id, Commit(r, id)
  PROVE  Fresh'
<1>1. undisturbed' \subseteq {r} /\ pc'[r] = "audit"
  BY DEF Commit, Continue, FreshInv, StoreInv, TypeOK
<1> QED
  BY <1>1 DEF Fresh, KnownNow, Known, ServiceSteps

LEMMA RefuseFresh ==
  ASSUME FreshInv, NEW r \in Requests, NEW answer, Refuse(r, answer)
  PROVE  Fresh'
  BY FinishFresh DEF Refuse, Unwritten

LEMMA MoveFresh ==
  ASSUME FreshInv, NEW r \in Requests, NEW step, NEW w, Continue(r, step, w), Unwritten,
         KnownNow(r) => Known(users, roles, call[r], step, w)
  PROVE  Fresh'
<1>1. UNCHANGED store /\ undisturbed' = undisturbed
  BY DEF Unwritten, history
<1>2. r \in undisturbed' => Known(users, roles, call[r], step, w)
  BY <1>1 DEF FreshInv, Fresh
<1> QED
  BY <1>1, <1>2, ContinueFresh

----------------------------------------------------------------------------
(* Every step keeps it *)

LEMMA EarlyFresh ==
  ASSUME FreshInv, NEW r \in Requests, Start(r) \/ LoadPrincipal(r)
  PROVE  Fresh'
<1>1. CASE Start(r)
  <2>1. Known(users, roles, call[r], "auth", NoWork)
    BY DEF Known, ServiceSteps
  <2> QED
    BY <1>1, <2>1, ContinueFresh DEF Start
<1>2. CASE LoadPrincipal(r)
  <2> DEFINE id == call[r].actor
             w == [work[r] EXCEPT !.principal = users[id]]
  <2>1. CASE Refuse(r, "unauthorized")
    BY <2>1, RefuseFresh
  <2>2. CASE id \in ActiveUsers(users) /\ Continue(r, "policy", w) /\ Unwritten
    <3>1. w.principal = users[id]
      BY DEF FreshInv, StoreInv, TypeOK, Work
    <3> HIDE DEF w
    <3>2. Known(users, roles, call[r], "policy", w)
      BY <2>2, <3>1 DEF Known, ServiceSteps
    <3> QED
      BY <2>2, <3>2, MoveFresh
  <2> QED
    BY <1>2, <2>1, <2>2 DEF LoadPrincipal
<1> QED
  BY <1>1, <1>2

(* The first call of the service relies on the caller's check only, and, when *)
(* there are no roles to look up, on their existence.                         *)
LEMMA CheckPermissionFresh ==
  ASSUME FreshInv, NEW r \in Requests, CheckPermission(r)
  PROVE  Fresh'
<1> DEFINE c == call[r]
<1>1. CASE Refuse(r, "forbidden") \/ Refuse(r, "invalid")
  BY <1>1, RefuseFresh
<1>2. CASE /\ \/ RequiredPermission[c.op] = ""
              \/ Allows(roles, work[r].principal.roleIDs, RequiredPermission[c.op])
           /\ Continue(r, FirstStep(c), work[r]) /\ Unwritten
  <2>1. KnownNow(r) => Authorized(users, roles, c)
    BY <1>2 DEF CheckPermission, KnownNow, Known, Authorized
  <2>2. /\ FirstStep(c) \in {"roles", "write", "read"}
        /\ FirstStep(c) = "write" => c.op \notin WritesBack
        /\ FirstStep(c) # "roles" /\ c.op \in AssignsRoles => c.roleIDs = {}
    BY DEF FirstStep, StepAfterRoles, RoleWrites, WritesBack, ManagingWrites, SelfWrites,
           AssignsRoles
  <2>3. KnownNow(r) => Known(users, roles, c, FirstStep(c), work[r])
    BY <2>1, <2>2 DEF Known, WritesBack
  <2> QED
    BY <1>2, <2>3, MoveFresh
<1> QED
  BY <1>1, <1>2 DEF CheckPermission

LEMMA ValidateRoleIDsFresh ==
  ASSUME FreshInv, NEW r \in Requests, ValidateRoleIDs(r)
  PROVE  Fresh'
<1> DEFINE c == call[r]
<1>1. CASE Refuse(r, "invalid")
  BY <1>1, RefuseFresh
<1>2. CASE /\ c.roleIDs \subseteq DOMAIN roles
           /\ Continue(r, StepAfterRoles(c), work[r]) /\ Unwritten
  <2>1. KnownNow(r) => Authorized(users, roles, c)
    BY DEF ValidateRoleIDs, KnownNow, Known, ServiceSteps
  <2>2. /\ StepAfterRoles(c) \in {"write", "read"}
        /\ StepAfterRoles(c) = "write" => c.op \notin WritesBack
    BY DEF StepAfterRoles, RoleWrites, WritesBack, ManagingWrites, SelfWrites
  <2>3. KnownNow(r) => Known(users, roles, c, StepAfterRoles(c), work[r])
    BY <1>2, <2>1, <2>2 DEF Known, WritesBack
  <2> QED
    BY <1>2, <2>3, MoveFresh
<1> QED
  BY <1>1, <1>2 DEF ValidateRoleIDs

LEMMA ReadUserFresh ==
  ASSUME FreshInv, NEW r \in Requests, ReadUser(r)
  PROVE  Fresh'
<1> DEFINE c == call[r]
           id == Target(c)
           w == [work[r] EXCEPT !.existing = users[id]]
<1>1. w.existing = users[id]
  BY DEF FreshInv, StoreInv, TypeOK, Work
<1>2. KnownNow(r) => /\ Authorized(users, roles, c)
                     /\ c.op \in AssignsRoles => c.roleIDs \subseteq DOMAIN roles
  BY DEF ReadUser, KnownNow, Known, ServiceSteps
<1>3. CASE Refuse(r, "notFound") \/ Refuse(r, "forbidden")
  BY <1>3, RefuseFresh
<1>4. CASE id \in DOMAIN users /\ Continue(r, "admin", w) /\ Unwritten
  <2> HIDE DEF w
  <2>1. KnownNow(r) => Known(users, roles, c, "admin", w)
    BY <1>1, <1>2, <1>4 DEF Known
  <2> QED
    BY <1>4, <2>1, MoveFresh
<1>5. ASSUME id \in DOMAIN users, c.op \in SelfWrites,
             NEW step \in {"auditFailure", "write"}, Continue(r, step, w), Unwritten
      PROVE  Fresh'
  <2> HIDE DEF w
  <2>1. c.op \notin ManagingWrites
    BY <1>5 DEF SelfWrites, ManagingWrites
  <2>2. KnownNow(r) => Known(users, roles, c, step, w)
    BY <1>1, <1>2, <1>5, <2>1 DEF Known, ServiceSteps
  <2> QED
    BY <1>5, <2>2, MoveFresh
<1> QED
  BY <1>3, <1>4, <1>5 DEF ReadUser

(* Codes are unique, so there is one admin role at most. *)
LEMMA OneAdminRole ==
  ASSUME Unique, NEW a, FirstAdminRole(roles, a)
  PROVE  AdminRoles(roles) = {a}
  BY DEF Unique, UniqueRoles, FirstAdminRole, AdminRoles

LEMMA ProceedFresh ==
  ASSUME FreshInv, NEW r \in Requests, Proceed(r), pc[r] \in {"admin", "scan"},
         KnownNow(r) => MayWrite(users, roles, call[r])
  PROVE  Fresh'
<1>1. CASE Refuse(r, "invalid")
  BY <1>1, RefuseFresh
<1>2. CASE Continue(r, "write", work[r]) /\ Unwritten
  <2>1. KnownNow(r) => Known(users, roles, call[r], "write", work[r])
    BY DEF KnownNow, Known, ServiceSteps
  <2> QED
    BY <1>2, <2>1, MoveFresh
<1> QED
  BY <1>1, <1>2 DEF Proceed

LEMMA FindAdminRoleFresh ==
  ASSUME FreshInv, NEW r \in Requests, FindAdminRole(r)
  PROVE  Fresh'
<1> DEFINE c == call[r]
           id == Target(c)
           u == work[r].existing
           Loses(a) == u.status = "active" /\ a \in u.roleIDs /\ ~StaysAdministrator(c, u, a)
<1>1. /\ pc[r] = "admin"
      /\ KnownNow(r) => id \in DOMAIN users /\ u = users[id]
  BY DEF FindAdminRole, KnownNow, Known
<1>2. CASE AdminRoles(roles) = {} /\ Proceed(r)
  <2>1. MayWrite(users, roles, c)
    BY <1>2 DEF MayWrite, Administrators
  <2> QED
    BY <1>1, <1>2, <2>1, ProceedFresh
<1>3. ASSUME NEW a \in DOMAIN roles, FirstAdminRole(roles, a), ~Loses(a), Proceed(r)
      PROVE  Fresh'
  <2>1. AdminRoles(roles) = {a}
    BY <1>3, OneAdminRole DEF FreshInv, StoreInv
  <2>2. KnownNow(r) => MayWrite(users, roles, c)
    BY <1>1, <1>3, <2>1 DEF MayWrite, Administrators, ActiveUsers
  <2> QED
    BY <1>1, <1>3, <2>2, ProceedFresh
<1>4. ASSUME NEW a \in DOMAIN roles, FirstAdminRole(roles, a),
             Continue(r, "scan", [work[r] EXCEPT !.adminRole = a, !.page = 1]), Unwritten
      PROVE  Fresh'
  <2> DEFINE w == [work[r] EXCEPT !.adminRole = a, !.page = 1]
  <2>1. w.existing = work[r].existing /\ w.adminRole = a
    BY DEF FreshInv, StoreInv, TypeOK, Work
  <2>2. Continue(r, "scan", w) /\ a \in AdminRoles(roles)
    BY <1>4 DEF FirstAdminRole
  <2> HIDE DEF w
  <2>3. KnownNow(r) => Known(users, roles, c, "scan", w)
    BY <1>1, <2>1, <2>2 DEF KnownNow, Known, ServiceSteps
  <2> QED
    BY <1>4, <2>2, <2>3, MoveFresh
<1> QED
  BY <1>2, <1>3, <1>4 DEF FindAdminRole

(* An active holder of the admin role on some page is another administrator. *)
LEMMA ScanPageFresh ==
  ASSUME FreshInv, NEW r \in Requests, ScanPage(r)
  PROVE  Fresh'
<1> DEFINE id == Target(call[r])
<1>1. /\ pc[r] = "scan"
      /\ KnownNow(r) => work[r].adminRole \in AdminRoles(roles)
  BY DEF ScanPage, KnownNow, Known
<1>2. ASSUME NEW x \in PageOfActiveUsers(work[r].page) \ {id},
             work[r].adminRole \in users[x].roleIDs, Proceed(r)
      PROVE  Fresh'
  <2>1. x \in ActiveUsers(users)
    BY DEF PageOfActiveUsers
  <2>2. KnownNow(r) => MayWrite(users, roles, call[r])
    BY <1>1, <1>2, <2>1 DEF MayWrite, Administrators
  <2> QED
    BY <1>1, <1>2, <2>2, ProceedFresh
<1>3. CASE Refuse(r, "lastAdministrator")
  BY <1>3, RefuseFresh
<1>4. CASE Continue(r, "scan", [work[r] EXCEPT !.page = work[r].page + 1]) /\ Unwritten
  <2> DEFINE w == [work[r] EXCEPT !.page = work[r].page + 1]
  <2>1. w.existing = work[r].existing /\ w.adminRole = work[r].adminRole
    BY DEF FreshInv, StoreInv, TypeOK, Work
  <2>2. Continue(r, "scan", w)
    BY <1>4
  <2> HIDE DEF w
  <2>3. KnownNow(r) => Known(users, roles, call[r], "scan", w)
    BY <1>1, <2>1 DEF KnownNow, Known, ServiceSteps
  <2> QED
    BY <1>4, <2>2, <2>3, MoveFresh
<1> QED
  BY <1>2, <1>3, <1>4 DEF ScanPage

LEMMA WriteFresh ==
  ASSUME FreshInv, NEW r \in Requests, Write(r)
  PROVE  Fresh'
<1>1. \A id : Commit(r, id) => Fresh'
  BY CommitFresh
<1>2. \A answer : Refuse(r, answer) => Fresh'
  BY RefuseFresh
<1>3. \A u : SaveUser(r, u) => Fresh'
  BY <1>1, <1>2 DEF SaveUser
<1> QED
  BY <1>1, <1>2, <1>3 DEF Write, CreateUser, UpdateUser, UpdateProfile, ChangePassword,
       SetStatus, DeleteUser, CreateRole, UpdateRole, DeleteRole

LEMMA FreshStep == FreshInv /\ [Next]_vars => FreshInv'
<1> SUFFICES ASSUME FreshInv, [Next]_vars PROVE FreshInv'
  OBVIOUS
<1>1. StoreInv' /\ AuditInv'
  BY StoreInvStep, AuditStep DEF FreshInv, StoreInv
<1>2. ASSUME UNCHANGED vars PROVE Fresh'
  <2>1. /\ users' = users /\ roles' = roles /\ pc' = pc /\ call' = call /\ work' = work
        /\ undisturbed' = undisturbed
    BY <1>2 DEF vars, store, history
  <2> QED
    BY <2>1 DEF FreshInv, Fresh, KnownNow
<1>3. ASSUME NEW r \in Requests, Start(r) \/ Handle(r) PROVE Fresh'
  <2>1. WriteAudit(r) \/ WriteAuditFailure(r) => Fresh'
    BY FinishFresh DEF WriteAudit, WriteAuditFailure
  <2> QED
    BY <1>3, <2>1, EarlyFresh, CheckPermissionFresh, ValidateRoleIDsFresh, ReadUserFresh,
       FindAdminRoleFresh, ScanPageFresh, WriteFresh DEF Handle
<1>4. ASSUME NEW r \in Requests, StoreFault(r) PROVE Fresh'
  BY <1>4, RefuseFresh DEF StoreFault
<1>5. Fresh'
  BY <1>2, <1>3, <1>4 DEF Next, Quiescent
<1> QED
  BY <1>1, <1>5 DEF FreshInv

LEMMA FreshInit == Init => FreshInv
  BY StoreInvInit, AuditInit DEF Init, FreshInv, Fresh

----------------------------------------------------------------------------
(* The step in which a request writes *)

(* A request writes once, at its write step. *)
LEMMA CommittingWrites ==
  ASSUME FreshInv, [Next]_vars, NEW r \in Committing
  PROVE  r \in Requests /\ Write(r)
<1>1. r \in committed' /\ r \notin committed
  BY DEF Committing
<1>2. ~UNCHANGED vars
  BY <1>1 DEF vars, history
<1>3. PICK s \in Requests : Start(s) \/ Handle(s) \/ StoreFault(s)
  BY <1>2 DEF Next, Quiescent
<1>4. ASSUME ~Write(s) PROVE UNCHANGED committed
  BY <1>3, <1>4 DEF Start, Handle, LoadPrincipal, CheckPermission, ValidateRoleIDs, ReadUser,
       FindAdminRole, ScanPage, Proceed, WriteAudit, WriteAuditFailure, StoreFault,
       Refuse, Unwritten, history
<1>5. Write(s)
  BY <1>1, <1>4
<1>6. (\E id : Commit(s, id)) \/ Refuse(s, "notFound") \/ Refuse(s, "conflict")
  BY <1>5 DEF Write, CreateUser, UpdateUser, UpdateProfile, ChangePassword, SaveUser,
         SetStatus, DeleteUser, CreateRole, UpdateRole, DeleteRole
<1>7. r = s
  BY <1>1, <1>6 DEF Commit, Refuse, Unwritten, history
<1> QED
  BY <1>5, <1>7

LEMMA WriteKnown ==
  ASSUME FreshInv, NEW r \in undisturbed, Write(r)
  PROVE  r \in Requests /\ pc[r] = "write" /\ KnownNow(r)
  BY DEF FreshInv, StoreInv, TypeOK, Fresh, Write, Writing, CreateUser, UpdateUser,
         UpdateProfile, ChangePassword, SetStatus, DeleteUser, CreateRole, UpdateRole,
         DeleteRole

(* A step that does not write a role or a user leaves the store alone. *)
LEMMA WritesOnly ==
  ASSUME FreshInv, [Next]_vars
  PROVE  UNCHANGED store \/ \E r \in Committing : r \in Requests /\ Write(r)
<1>1. CASE UNCHANGED vars
  BY <1>1 DEF vars
<1>2. ASSUME NEW r \in Requests, Start(r) \/ StoreFault(r) \/ (Handle(r) /\ ~Write(r))
      PROVE  UNCHANGED store
  BY <1>2 DEF Start, Handle, LoadPrincipal, CheckPermission, ValidateRoleIDs, ReadUser,
       FindAdminRole, ScanPage, Proceed, WriteAudit, WriteAuditFailure, StoreFault,
       Refuse, Unwritten
<1>3. ASSUME NEW r \in Requests, Write(r)
      PROVE  UNCHANGED store \/ r \in Committing
  <2>1. pc[r] = "write"
    BY <1>3 DEF Write, Writing, CreateUser, UpdateUser, UpdateProfile, ChangePassword,
           SetStatus, DeleteUser, CreateRole, UpdateRole, DeleteRole
  <2>2. r \notin committed
    BY <2>1 DEF FreshInv, AuditInv
  <2>3. (\E id : Commit(r, id)) \/ Refuse(r, "notFound") \/ Refuse(r, "conflict")
    BY <1>3 DEF Write, CreateUser, UpdateUser, UpdateProfile, ChangePassword, SaveUser,
           SetStatus, DeleteUser, CreateRole, UpdateRole, DeleteRole
  <2> QED
    BY <2>2, <2>3 DEF Commit, Committing, Refuse, Unwritten
<1> QED
  BY <1>1, <1>2, <1>3 DEF Next, Quiescent

----------------------------------------------------------------------------
(* Undisturbed requests write what they may *)

LEMMA AuthorizedWrites ==
  ASSUME FreshInv, [Next]_vars, NEW r \in CommittingUndisturbed
  PROVE  Authorized(users, roles, call[r])
<1>1. r \in undisturbed /\ r \in Requests /\ Write(r)
  BY CommittingWrites DEF CommittingUndisturbed
<1> QED
  BY <1>1, WriteKnown DEF KnownNow, Known, ServiceSteps

(* A write takes effect only if its caller may still make it: the check made  *)
(* at the start of the request has not become stale.                          *)
THEOREM WritesAuthorized == Spec => WritesAreAuthorized
<1> DEFINE Allowed == \A r \in CommittingUndisturbed : Authorized(users, roles, call[r])
<1>1. FreshInv /\ [Next]_vars => Allowed
  BY AuthorizedWrites
<1>2. FreshInv /\ [Next]_vars => [Allowed]_vars
  BY <1>1
<1>3. Spec => [][Allowed]_vars
  BY <1>2, FreshInit, FreshStep, PTL DEF Spec
<1> QED
  BY <1>3 DEF WritesAreAuthorized, Authorized

LEMMA OwnFields ==
  ASSUME FreshInv, NEW r \in Requests, KnownNow(r), r \in Committing,
         UpdateProfile(r) \/ ChangePassword(r)
  PROVE  LET id == Target(call[r]) IN
         /\ call[r].op = "updateProfile" => users' = [users EXCEPT ![id].email = call[r].email]
         /\ call[r].op = "changePassword" =>
              users' = [users EXCEPT ![id].password = call[r].password]
<1> DEFINE c == call[r]
           id == Target(c)
           u == work[r].existing
           profile == [u EXCEPT !.email = c.email, !.password = ""]
           changed == [u EXCEPT !.password = c.password]
<1>1. pc[r] = "write" /\ c.op \in SelfWrites /\ c \in Call
  BY CallType DEF UpdateProfile, ChangePassword, Writing, SelfWrites, FreshInv, StoreInv
<1>2. /\ id \in DOMAIN users /\ u = users[id]
      /\ users \in [DOMAIN users -> User] /\ u \in User
  BY <1>1 DEF KnownNow, Known, WritesBack, FreshInv, StoreInv, TypeOK, UserMap
<1>3. ~(\E answer : Refuse(r, answer))
  BY DEF Refuse, Unwritten, history, Committing
<1>4. \A v : SaveUser(r, v) =>
        users' = Put(users, id, [v EXCEPT !.password = IF v.password = "" THEN u.password
                                                       ELSE v.password])
  BY <1>2, <1>3 DEF SaveUser
<1>5. CASE UpdateProfile(r)
  <2>1. users' = Put(users, id, [profile EXCEPT !.password = IF profile.password = ""
                                    THEN u.password ELSE profile.password])
    BY <1>4, <1>5 DEF UpdateProfile
  <2>2. profile.password = ""
    BY <1>2 DEF User
  <2>3. [profile EXCEPT !.password = u.password] = [u EXCEPT !.email = c.email]
    BY <1>2 DEF User
  <2> HIDE DEF profile
  <2>4. users' = Put(users, id, [u EXCEPT !.email = c.email])
    BY <2>1, <2>2, <2>3
  <2>5. c.op = "updateProfile" /\ c.email \in STRING
    BY <1>1, <1>5 DEF UpdateProfile, Writing, Call, CallOf
  <2>6. Put(users, id, [u EXCEPT !.email = c.email]) = [users EXCEPT ![id].email = c.email]
    BY <1>2 DEF Put
  <2> QED
    BY <2>4, <2>5, <2>6
<1>6. CASE ChangePassword(r)
  <2>1. users' = Put(users, id, [changed EXCEPT !.password = IF changed.password = ""
                                    THEN u.password ELSE changed.password])
    BY <1>4, <1>6 DEF ChangePassword
  <2>2. c.op = "changePassword" /\ c.password \in STRING /\ c.password # ""
    BY <1>1, <1>6, UserDataAssumption
       DEF ChangePassword, Writing, Call, CallOf, FreshInv, StoreInv, InputChecked, ServiceSteps,
           InvalidInput
  <2>3. changed.password = c.password
    BY <1>2 DEF User
  <2>4. [changed EXCEPT !.password = c.password] = changed
    BY <1>2 DEF User
  <2>5. users' = Put(users, id, changed)
    BY <2>1, <2>2, <2>3, <2>4
  <2>6. Put(users, id, changed) = [users EXCEPT ![id].password = c.password]
    BY <1>2 DEF Put
  <2> QED
    BY <2>2, <2>5, <2>6
<1> QED
  BY <1>5, <1>6

(* The self-service writes change the caller's contact or password and no     *)
(* other field of no other user.                                              *)
THEOREM OwnFieldsWritten == Spec => SelfServiceWritesOwnFields
<1> DEFINE Own == \A r \in CommittingUndisturbed :
              LET id == Target(call[r]) IN
              /\ call[r].op = "updateProfile" =>
                   users' = [users EXCEPT ![id].email = call[r].email]
              /\ call[r].op = "changePassword" =>
                   users' = [users EXCEPT ![id].password = call[r].password]
<1>1. FreshInv /\ [Next]_vars => Own
  <2> SUFFICES ASSUME FreshInv, [Next]_vars, NEW r \in CommittingUndisturbed,
                      call[r].op \in SelfWrites
               PROVE  LET id == Target(call[r]) IN
                      /\ call[r].op = "updateProfile" =>
                           users' = [users EXCEPT ![id].email = call[r].email]
                      /\ call[r].op = "changePassword" =>
                           users' = [users EXCEPT ![id].password = call[r].password]
    BY DEF SelfWrites
  <2>1. r \in undisturbed /\ r \in Requests /\ Write(r) /\ r \in Committing
    BY CommittingWrites DEF CommittingUndisturbed
  <2>2. KnownNow(r)
    BY <2>1, WriteKnown
  <2>3. UpdateProfile(r) \/ ChangePassword(r)
    BY <2>1 DEF SelfWrites, Write, Writing, CreateUser, UpdateUser, SetStatus, DeleteUser,
           CreateRole, UpdateRole, DeleteRole
  <2> QED
    BY <2>1, <2>2, <2>3, OwnFields
<1>2. FreshInv /\ [Next]_vars => [Own]_vars
  BY <1>1
<1>3. Spec => [][Own]_vars
  <2> HIDE DEF Own
  <2> QED
    BY <1>2, FreshInit, FreshStep, PTL DEF Spec
<1> QED
  BY <1>3 DEF SelfServiceWritesOwnFields

----------------------------------------------------------------------------
(* Users hold roles that exist *)

LEMMA PutKeepsRoles ==
  ASSUME NEW us, NEW rs, RolesKnown(us, rs), NEW id, NEW u, u.roleIDs \subseteq DOMAIN rs
  PROVE  RolesKnown(Put(us, id, u), rs)
  BY DEF RolesKnown, Put

LEMMA SaveUserRoles ==
  ASSUME FreshInv, RolesKnown(users, roles), NEW r \in Requests, NEW u \in User,
         u.roleIDs \subseteq DOMAIN roles, SaveUser(r, u)
  PROVE  RolesKnown(users', roles')
<1> DEFINE id == Target(call[r])
           saved == [u EXCEPT !.password = IF u.password = "" THEN users[id].password
                                                             ELSE u.password]
<1>1. CASE UNCHANGED store
  BY <1>1 DEF store
<1>2. CASE users' = Put(users, id, saved) /\ RolesUnchanged
  <2>1. saved.roleIDs = u.roleIDs
    BY DEF User
  <2> HIDE DEF saved
  <2> QED
    BY <1>2, <2>1, PutKeepsRoles DEF RolesUnchanged
<1> QED
  BY <1>1, <1>2 DEF SaveUser, Refuse, Unwritten

LEMMA AssignRoles ==
  ASSUME FreshInv, RolesKnown(users, roles), NEW r \in Requests, KnownNow(r),
         CreateUser(r) \/ UpdateUser(r)
  PROVE  RolesKnown(users', roles')
<1> DEFINE c == call[r]
           u == [username |-> c.username, email |-> c.email,
                 password |-> c.password, roleIDs |-> c.roleIDs,
                 status |-> NormalStatus(c.status)]
<1>1. c \in Call /\ c.op \in AssignsRoles /\ ~InvalidInput(c) /\ pc[r] = "write"
  BY CallType DEF CreateUser, UpdateUser, Writing, AssignsRoles, FreshInv, StoreInv,
                  InputChecked, ServiceSteps
<1>2. u \in User /\ u.roleIDs = c.roleIDs
  BY <1>1, RequestedUserType DEF AssignsRoles
<1>3. c.roleIDs \subseteq DOMAIN roles
  BY <1>1 DEF KnownNow, Known, ServiceSteps
<1>4. CASE UpdateUser(r)
  <2>1. SaveUser(r, u)
    BY <1>4 DEF UpdateUser
  <2> HIDE DEF u
  <2> QED
    BY <1>2, <1>3, <2>1, SaveUserRoles
<1>5. CASE CreateUser(r)
  <2>1. UNCHANGED store \/ (users' = Put(users, nextUserID, u) /\ RolesUnchanged)
    BY <1>5 DEF CreateUser, Refuse, Unwritten
  <2> HIDE DEF u
  <2> QED
    BY <1>2, <1>3, <2>1, PutKeepsRoles DEF store, RolesUnchanged
<1> QED
  BY <1>4, <1>5

LEMMA SelfWriteRoles ==
  ASSUME FreshInv, RolesKnown(users, roles), NEW r \in Requests, KnownNow(r),
         UpdateProfile(r) \/ ChangePassword(r)
  PROVE  RolesKnown(users', roles')
<1> DEFINE id == Target(call[r])
           u == work[r].existing
           profile == [u EXCEPT !.email = call[r].email, !.password = ""]
           changed == [u EXCEPT !.password = call[r].password]
<1>1. /\ call[r] \in Call /\ u \in User /\ u = users[id] /\ id \in DOMAIN users
  BY CallType DEF FreshInv, StoreInv, InputChecked, KnownNow, Known, UpdateProfile,
       ChangePassword, Writing, SelfWrites, WritesBack
<1>2. /\ profile \in User /\ profile.roleIDs = u.roleIDs
      /\ changed \in User /\ changed.roleIDs = u.roleIDs
  BY <1>1, UserDataAssumption DEF User, Call, CallOf
<1>3. u.roleIDs \subseteq DOMAIN roles
  BY <1>1 DEF RolesKnown
<1>4. SaveUser(r, profile) \/ SaveUser(r, changed)
  BY DEF UpdateProfile, ChangePassword
<1> HIDE DEF profile, changed
<1> QED
  BY <1>2, <1>3, <1>4, SaveUserRoles

LEMMA OtherWritesRoles ==
  ASSUME FreshInv, RolesKnown(users, roles), NEW r \in Requests,
         \/ SetStatus(r) \/ DeleteUser(r)
         \/ CreateRole(r) \/ UpdateRole(r) \/ DeleteRole(r)
  PROVE  RolesKnown(users', roles')
<1>1. TypeOK /\ InputChecked
  BY DEF FreshInv, StoreInv
<1>2. UNCHANGED store \/ StatusPut \/ UserGone \/ RolePut \/ RoleGone
  BY <1>1, OtherUserWrites, RoleWritesPut
<1>3. CASE UNCHANGED store
  BY <1>3 DEF store
<1>4. CASE StatusPut
  <2> PICK id \in DOMAIN users, status \in Statuses :
        users' = [users EXCEPT ![id].status = status] /\ RolesUnchanged
    BY <1>4 DEF StatusPut
  <2>1. users \in [DOMAIN users -> User]
    BY <1>1 DEF TypeOK, UserMap
  <2>2. DOMAIN users' = DOMAIN users
        /\ \A x \in DOMAIN users : users'[x].roleIDs = users[x].roleIDs
    BY <2>1 DEF User
  <2> QED
    BY <2>2 DEF RolesKnown, RolesUnchanged
<1>5. CASE UserGone
  BY <1>5 DEF UserGone, Without, RolesKnown, RolesUnchanged
<1>6. CASE RolePut
  BY <1>6 DEF RolePut, Put, RolesKnown, UsersUnchanged
<1>7. CASE RoleGone
  BY <1>7 DEF RoleGone, Without, Assigned, RolesKnown, UsersUnchanged
<1> QED
  BY <1>2, <1>3, <1>4, <1>5, <1>6, <1>7

(* The roles users hold stay roles that exist: the role IDs looked up at the  *)
(* start of a request still exist when they are assigned.                     *)
THEOREM RolesStayKnown == Spec => KeepsRolesKnown
<1> DEFINE Keeps == RolesKnown(users, roles) /\ Committing \subseteq undisturbed
                      => RolesKnown(users', roles')
<1>1. FreshInv /\ [Next]_vars => Keeps
  <2> SUFFICES ASSUME FreshInv, [Next]_vars, RolesKnown(users, roles),
                      Committing \subseteq undisturbed
               PROVE  RolesKnown(users', roles')
    OBVIOUS
  <2>1. CASE UNCHANGED store
    BY <2>1 DEF store
  <2>2. ASSUME NEW r \in Committing, r \in Requests, Write(r)
        PROVE  RolesKnown(users', roles')
    <3>1. KnownNow(r)
      BY <2>2, WriteKnown
    <3> QED
      BY <2>2, <3>1, AssignRoles, SelfWriteRoles, OtherWritesRoles DEF Write
  <2> QED
    BY <2>1, <2>2, WritesOnly
<1>2. FreshInv /\ [Next]_vars => [Keeps]_vars
  BY <1>1
<1>3. Spec => [][Keeps]_vars
  <2> HIDE DEF Keeps
  <2> QED
    BY <1>2, FreshInit, FreshStep, PTL DEF Spec
<1> QED
  BY <1>3 DEF KeepsRolesKnown

----------------------------------------------------------------------------
(* The last administrator stays *)

Kept == roles' = roles /\ Administrators(users, roles) # {}
          => Administrators(users', roles') # {}

(* A write of one user takes away no administrator but that one. *)
LEMMA OthersStay ==
  ASSUME NEW id, DOMAIN users \ {id} \subseteq DOMAIN users',
         \A x \in DOMAIN users \ {id} : users'[x] = users[x],
         \/ id \notin Administrators(users, roles)
         \/ Administrators(users, roles) \ {id} # {}
         \/ id \in Administrators(users', roles)
  PROVE  Kept
  BY DEF Kept, Administrators, ActiveUsers

LEMMA SaveUserKeeps ==
  ASSUME NEW r \in Requests, NEW u \in User, SaveUser(r, u),
         LET id == Target(call[r]) IN
         \/ id \notin Administrators(users, roles)
         \/ Administrators(users, roles) \ {id} # {}
         \/ u.status = "active" /\ u.roleIDs \cap AdminRoles(roles) # {}
  PROVE  Kept
<1> DEFINE id == Target(call[r])
           saved == [u EXCEPT !.password = IF u.password = "" THEN users[id].password
                                                             ELSE u.password]
<1>1. CASE UNCHANGED store
  BY <1>1 DEF store, Kept
<1>2. CASE users' = Put(users, id, saved)
  <2>1. saved.status = u.status /\ saved.roleIDs = u.roleIDs
    BY DEF User
  <2>2. users'[id] = saved /\ id \in DOMAIN users'
    BY <1>2 DEF Put
  <2>3. /\ DOMAIN users \ {id} \subseteq DOMAIN users'
        /\ \A x \in DOMAIN users \ {id} : users'[x] = users[x]
    BY <1>2 DEF Put
  <2>4. CASE u.status = "active" /\ u.roleIDs \cap AdminRoles(roles) # {}
    <3>1. id \in Administrators(users', roles)
      BY <2>1, <2>2, <2>4 DEF Administrators, ActiveUsers
    <3> QED
      BY <2>3, <3>1, OthersStay
  <2> QED
    BY <2>3, <2>4, OthersStay
<1> QED
  BY <1>1, <1>2 DEF SaveUser, Refuse, Unwritten

LEMMA UpdateUserKeeps ==
  ASSUME FreshInv, NEW r \in Requests, KnownNow(r), UpdateUser(r) PROVE Kept
<1> DEFINE c == call[r]
           u == [username |-> c.username, email |-> c.email,
                 password |-> c.password, roleIDs |-> c.roleIDs,
                 status |-> NormalStatus(c.status)]
<1>1. c \in Call /\ c.op = "updateUser" /\ MayWrite(users, roles, c)
  BY CallType DEF FreshInv, StoreInv, KnownNow, Known, UpdateUser, Writing,
       ManagingWrites
<1>2. u \in User
  BY <1>1, RequestedUserType DEF FreshInv, StoreInv, InputChecked, UpdateUser, Writing, ServiceSteps
<1>3. SaveUser(r, u)
  BY DEF UpdateUser
<1>4. \/ Target(c) \notin Administrators(users, roles)
      \/ Administrators(users, roles) \ {Target(c)} # {}
      \/ u.status = "active" /\ u.roleIDs \cap AdminRoles(roles) # {}
  BY <1>1 DEF MayWrite, StaysAdministrator
<1> HIDE DEF u
<1> QED
  BY <1>2, <1>3, <1>4, SaveUserKeeps

LEMMA SelfWriteKeeps ==
  ASSUME FreshInv, NEW r \in Requests, KnownNow(r), UpdateProfile(r) \/ ChangePassword(r) PROVE Kept
<1> DEFINE id == Target(call[r])
           u == work[r].existing
           profile == [u EXCEPT !.email = call[r].email, !.password = ""]
           changed == [u EXCEPT !.password = call[r].password]
<1>1. /\ call[r] \in Call /\ u \in User /\ u = users[id] /\ id \in DOMAIN users
  BY CallType DEF FreshInv, StoreInv, InputChecked, KnownNow, Known, UpdateProfile,
       ChangePassword, Writing, SelfWrites, WritesBack
<1>2. \/ id \notin Administrators(users, roles)
      \/ u.status = "active" /\ u.roleIDs \cap AdminRoles(roles) # {}
  BY <1>1 DEF Administrators, ActiveUsers
<1>3. /\ profile \in User /\ profile.status = u.status /\ profile.roleIDs = u.roleIDs
      /\ changed \in User /\ changed.status = u.status /\ changed.roleIDs = u.roleIDs
  BY <1>1, UserDataAssumption DEF User, Call, CallOf
<1>4. SaveUser(r, profile) \/ SaveUser(r, changed)
  BY DEF UpdateProfile, ChangePassword
<1> HIDE DEF profile, changed
<1> QED
  BY <1>2, <1>3, <1>4, SaveUserKeeps

LEMMA SetStatusKeeps ==
  ASSUME FreshInv, NEW r \in Requests, KnownNow(r), SetStatus(r) PROVE Kept
<1> DEFINE id == Target(call[r])
           u == [users[id] EXCEPT !.status = call[r].status]
<1>1. call[r].op = "setStatus" /\ MayWrite(users, roles, call[r])
  BY DEF FreshInv, StoreInv, KnownNow, Known, SetStatus, Writing, ManagingWrites
<1>2. CASE UNCHANGED store
  BY <1>2 DEF store, Kept
<1>3. CASE id \in DOMAIN users /\ users' = [users EXCEPT ![id].status = call[r].status]
  <2>1. users[id] \in User /\ users \in [DOMAIN users -> User]
    BY <1>3 DEF FreshInv, StoreInv, TypeOK, UserMap
  <2>2. /\ DOMAIN users' = DOMAIN users /\ users'[id] = u
        /\ \A x \in DOMAIN users \ {id} : users'[x] = users[x]
    BY <1>3, <2>1
  <2>3. u.status = call[r].status /\ u.roleIDs = users[id].roleIDs
    BY <2>1 DEF User
  <2> HIDE DEF u
  <2>4. CASE \E a \in AdminRoles(roles) : StaysAdministrator(call[r], users[id], a)
    <3>1. id \in Administrators(users', roles)
      BY <1>1, <1>3, <2>2, <2>3, <2>4 DEF Administrators, ActiveUsers, StaysAdministrator
    <3> QED
      BY <2>2, <3>1, OthersStay
  <2> QED
    BY <1>1, <2>2, <2>4, OthersStay DEF MayWrite
<1> QED
  BY <1>2, <1>3 DEF SetStatus, Refuse, Unwritten

LEMMA DeleteUserKeeps ==
  ASSUME FreshInv, NEW r \in Requests, KnownNow(r), DeleteUser(r) PROVE Kept
<1> DEFINE id == Target(call[r])
<1>1. call[r].op = "deleteUser" /\ MayWrite(users, roles, call[r])
  BY DEF FreshInv, StoreInv, KnownNow, Known, DeleteUser, Writing, ManagingWrites
<1>2. CASE UNCHANGED store
  BY <1>2 DEF store, Kept
<1>3. CASE users' = Without(users, id)
  <2>1. /\ DOMAIN users \ {id} \subseteq DOMAIN users'
        /\ \A x \in DOMAIN users \ {id} : users'[x] = users[x]
    BY <1>3 DEF Without
  <2> QED
    BY <1>1, <2>1, OthersStay DEF MayWrite, StaysAdministrator
<1> QED
  BY <1>2, <1>3 DEF DeleteUser, Refuse, Unwritten

(* A new user has an ID of its own. *)
LEMMA CreateUserKeeps ==
  ASSUME FreshInv, NEW r \in Requests, KnownNow(r), CreateUser(r) PROVE Kept
<1>1. CASE UNCHANGED store
  BY <1>1 DEF store, Kept
<1>2. ASSUME NEW u, users' = Put(users, nextUserID, u) PROVE Kept
  <2>1. nextUserID \notin DOMAIN users
    BY DEF FreshInv, StoreInv, TypeOK, IssuedIDs
  <2>2. \A x \in DOMAIN users : x \in DOMAIN users' /\ users'[x] = users[x]
    BY <1>2, <2>1 DEF Put
  <2> QED
    BY <2>1, <2>2, OthersStay DEF Administrators, ActiveUsers
<1> QED
  BY <1>1, <1>2 DEF CreateUser, Refuse, Unwritten

(* Requests that are not disturbed never leave the system without an active   *)
(* administrator, whatever the roles, the page size and the calls: what       *)
(* removesLastActiveAdministrator has read is still so when the write is made.*)
THEOREM LastAdministratorKept == Spec => KeepsAdministrator
<1> DEFINE Keeps == roles' = roles /\ Administrators(users, roles) # {}
                    /\ Committing \subseteq undisturbed
                      => Administrators(users', roles') # {}
<1>1. FreshInv /\ [Next]_vars => Keeps
  <2> SUFFICES ASSUME FreshInv, [Next]_vars, Committing \subseteq undisturbed
               PROVE  Kept
    BY DEF Kept
  <2>1. CASE UNCHANGED store
    BY <2>1 DEF store, Kept
  <2>2. ASSUME NEW r \in Committing, r \in Requests, Write(r)
        PROVE  Kept
    <3>1. KnownNow(r)
      BY <2>2, WriteKnown
    <3>2. CASE CreateRole(r) \/ UpdateRole(r) \/ DeleteRole(r)
      BY <3>2 DEF CreateRole, UpdateRole, DeleteRole, UsersUnchanged, Refuse, Unwritten,
                  store, Kept
    <3> QED
      BY <2>2, <3>1, <3>2, CreateUserKeeps, UpdateUserKeeps, SelfWriteKeeps, SetStatusKeeps,
         DeleteUserKeeps DEF Write
  <2> QED
    BY <2>1, <2>2, WritesOnly
<1>2. FreshInv /\ [Next]_vars => [Keeps]_vars
  BY <1>1
<1>3. Spec => [][Keeps]_vars
  <2> HIDE DEF Keeps
  <2> QED
    BY <1>2, FreshInit, FreshStep, PTL DEF Spec
<1> QED
  BY <1>3 DEF KeepsAdministrator
============================================================================
