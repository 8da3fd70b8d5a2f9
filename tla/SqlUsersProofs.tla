--------------------------- MODULE SqlUsersProofs ---------------------------
(* Theorems about SqlUsers, for all requests, calls and initial rows. *)
EXTENDS SqlUsers, FiniteSetTheorems, TLAPS

(* The part of TypeOK about the requests' own state. *)
LocalTypeOK ==
  /\ pc \in [Requests -> Steps]
  /\ call \in [Requests -> SqlCall]
  /\ work \in [Requests -> Work]
  /\ response \in [Requests -> Responses]

(* The part of TypeOK about the rows. *)
StoreTypeOK ==
  /\ AccountMap(accounts) /\ RoleMap(roles)
  /\ userRoles \subseteq Nat \X Nat /\ deletedRoles \subseteq Nat
  /\ nextUserID \in Nat \ {0} /\ DOMAIN accounts \subseteq 1..(nextUserID - 1)
  /\ nextRoleID \in Nat \ {0} /\ DOMAIN roles \cup deletedRoles \subseteq 1..(nextRoleID - 1)

(* What holds for a request that is about to execute a statement: which      *)
(* operations come to it, that the status given has been checked, and that a *)
(* user to be written back has been read.                                    *)
StatusChecked(c) ==
  /\ c.op \in {"createUser", "updateUser"} => NormalStatus(c.status) \in Statuses
  /\ c.op = "setStatus" => c.status \in Statuses

Targeting == {"updateUser", "setStatus", "deleteUser"}

At(step, c, w) ==
  /\ step \notin {"new", "done"} => StatusChecked(c)
  /\ step \in {"resetRole", "find", "findRoles"} => c.op = "resetPassword"
  /\ step = "roles" => c.op \in {"createUser", "updateUser"}
  /\ step \in {"user", "userRoles"} => c.op \in Targeting \cup SelfWrites
  /\ step \in {"admin", "count", "page", "pageRoles"} => c.op \in Targeting
  /\ step \in {"again", "update"} => c.op \in {"updateUser"} \cup SelfWrites
  /\ step = "name" => c.op \in {"createUser", "updateUser"} \cup SelfWrites
  /\ step = "insert" => c.op = "createUser"
  /\ step = "status" => c.op = "setStatus"
  /\ step = "delete" => c.op = "deleteUser"
  /\ step \in {"role", "code", "insertRole", "updateRole", "assigned", "removeRole"}
       => c.op \in RoleWrites
  /\ step \in {"userRoles", "findRoles"} => w.existing \in User
  /\ step \in {"again", "name", "update"} /\ c.op \in SelfWrites => w.existing \in User

Checked == \A r \in Requests : At(pc[r], call[r], work[r])

----------------------------------------------------------------------------
(* How a statement ends keeps the types *)

LEMMA NoWorkType == NoWork \in Work
  BY DEF NoWork, Work

LEMMA ContinueType ==
  ASSUME LocalTypeOK, NEW r \in Requests, NEW step \in Steps, NEW w \in Work,
         Continue(r, step, w), UNCHANGED call
  PROVE  LocalTypeOK'
  BY DEF LocalTypeOK, Continue

LEMMA ContinueChecked ==
  ASSUME LocalTypeOK, Checked, NEW r \in Requests, NEW step, NEW w,
         Continue(r, step, w), UNCHANGED call, At(step, call[r], w)
  PROVE  Checked'
  BY DEF LocalTypeOK, Checked, Continue

LEMMA FinishKept ==
  ASSUME LocalTypeOK, Checked, NEW r \in Requests, NEW answer \in Responses,
         Finish(r, answer)
  PROVE  LocalTypeOK' /\ Checked'
<1>1. "done" \in Steps
  BY DEF Steps
<1>2. LocalTypeOK'
  BY <1>1, NoWorkType DEF LocalTypeOK, Finish
<1>3. At("done", call[r], NoWork)
  BY DEF At
<1>4. Checked'
  BY <1>3 DEF LocalTypeOK, Checked, Finish
<1> QED
  BY <1>2, <1>4

(* The store is left alone, or has been left in a state of the right type.   *)
LEMMA TypeParts ==
  TypeOK <=> /\ LocalTypeOK /\ StoreTypeOK
             /\ audit \subseteq [request : Requests, resource : Nat, failed : BOOLEAN]
             /\ written \in [Requests -> Nat] /\ undisturbed \subseteq Requests
  BY DEF TypeOK, LocalTypeOK, StoreTypeOK

LEMMA UnwrittenType ==
  ASSUME TypeOK, Unwritten, LocalTypeOK'
  PROVE  TypeOK'
  BY DEF TypeOK, LocalTypeOK, Unwritten, store, history, AccountMap, RoleMap

LEMMA RefuseKept ==
  ASSUME TypeOK, Checked, NEW r \in Requests, NEW answer \in Responses,
         Refuse(r, answer)
  PROVE  TypeOK' /\ Checked'
  BY TypeParts, FinishKept, UnwrittenType DEF Refuse

LEMMA StayKept ==
  ASSUME TypeOK, Checked, NEW r \in Requests, NEW step \in Steps, NEW w \in Work,
         Continue(r, step, w), Unwritten, UNCHANGED call, At(step, call[r], w)
  PROVE  TypeOK' /\ Checked'
  BY TypeParts, ContinueType, ContinueChecked, UnwrittenType

LEMMA CheckKept ==
  ASSUME TypeOK, Checked, NEW r \in Requests, NEW refused, NEW answer \in Responses,
         NEW step \in Steps, NEW w \in Work,
         Check(r, refused, answer, step, w),
         ~refused => At(step, call[r], w)
  PROVE  TypeOK' /\ Checked'
  BY RefuseKept, StayKept DEF Check

LEMMA CommitKept ==
  ASSUME TypeOK, Checked, NEW r \in Requests, NEW id \in Nat,
         NEW step \in {"reread", "audit"}, Commit(r, id, step),
         pc[r] \notin {"new", "done"}, StoreTypeOK'
  PROVE  TypeOK' /\ Checked'
<1>1. "reread" \in Steps /\ "audit" \in Steps
  BY DEF Steps
<1>2. At(step, call[r], NoWork)
  BY DEF At, Checked
<1>3. LocalTypeOK' /\ Checked'
  BY <1>1, <1>2, NoWorkType, ContinueType, ContinueChecked, TypeParts DEF Commit
<1>4. /\ written' \in [Requests -> Nat] /\ undisturbed' \subseteq Requests
      /\ audit' \subseteq [request : Requests, resource : Nat, failed : BOOLEAN]
  BY DEF TypeOK, Commit
<1> QED
  BY <1>3, <1>4, TypeParts DEF TypeOK, LocalTypeOK, StoreTypeOK

LEMMA RequestTypes ==
  ASSUME TypeOK, NEW r \in Requests
  PROVE  /\ work[r] \in Work /\ call[r] \in SqlCall
         /\ call[r].actor \in Nat /\ call[r].target \in Nat
         /\ Target(call[r]) \in Nat /\ call[r].roleIDs \in SUBSET Nat
         /\ call[r].username \in STRING /\ call[r].email \in STRING
         /\ call[r].password \in STRING
  BY DEF TypeOK, SqlCall, CallOf, Target

----------------------------------------------------------------------------
(* The reads keep the types *)

LEMMA Answers ==
  \A a \in {"none", "ok", "unauthorized", "forbidden", "invalid", "notFound",
            "conflict", "lastAdministrator", "internal"} : a \in Responses
  BY DEF Responses

LEMMA WriteSteps ==
  ASSUME NEW c \in SqlCall, c.op # "resetPassword"
  PROVE  WriteStep(c) \in Steps /\ StepAfterRoles(c) \in Steps /\ FirstStep(c) \in Steps
<1>1. c.op \in Operations
  BY DEF SqlCall, CallOf
<1>2. WriteStep(c) \in Steps
  BY <1>1 DEF WriteStep, Steps, Operations, UserWrites, SelfWrites, RoleWrites
<1>3. "user" \in Steps /\ "roles" \in Steps
  BY DEF Steps
<1> QED
  BY <1>2, <1>3 DEF StepAfterRoles, FirstStep

(* A request is in its place at the first statement of the store's part.      *)
LEMMA WriteStepPlace ==
  ASSUME NEW c \in SqlCall, c.op # "resetPassword", StatusChecked(c), NEW w \in Work,
         c.op \in SelfWrites => w.existing \in User
  PROVE  At(WriteStep(c), c, w)
<1>1. c.op \in Operations
  BY DEF SqlCall, CallOf
<1> QED
  BY <1>1 DEF At, WriteStep, Operations, UserWrites, SelfWrites, RoleWrites

LEMMA AfterRolesPlace ==
  ASSUME NEW c \in SqlCall, c.op # "resetPassword", StatusChecked(c), NEW w \in Work
  PROVE  At(StepAfterRoles(c), c, w)
<1>1. c.op \in Operations
  BY DEF SqlCall, CallOf
<1>2. CASE c.op \in RoleWrites \cup {"createUser"}
  <2>1. StepAfterRoles(c) = WriteStep(c) /\ c.op \notin SelfWrites
    BY <1>2 DEF StepAfterRoles, RoleWrites, SelfWrites
  <2> QED
    BY <2>1, WriteStepPlace
<1>3. CASE c.op \notin RoleWrites \cup {"createUser"}
  BY <1>1, <1>3 DEF At, StepAfterRoles, Operations, UserWrites, Targeting
<1> QED
  BY <1>2, <1>3

LEMMA StartKept ==
  ASSUME TypeOK, Checked, NEW r \in Requests, Start(r)
  PROVE  TypeOK' /\ Checked'
<1> DEFINE c == call[r]
<1>1. c \in SqlCall
  BY RequestTypes
<1>2. ASSUME Finish(r, "invalid") PROVE LocalTypeOK' /\ Checked'
  BY <1>2, Answers, FinishKept, TypeParts
<1>3. ASSUME ~Unacceptable(c), Continue(r, FirstStep(c), NoWork), UNCHANGED call
      PROVE  LocalTypeOK' /\ Checked'
  <2>1. StatusChecked(c)
    BY <1>3 DEF Unacceptable, InvalidInput, StatusChecked, NormalStatus, Statuses
  <2>2. FirstStep(c) \in Steps
    BY <1>1, WriteSteps DEF FirstStep, Steps
  <2>3. At(FirstStep(c), c, NoWork)
    <3>1. CASE c.op = "resetPassword"
      BY <2>1, <3>1 DEF FirstStep, At
    <3>2. CASE c.op # "resetPassword" /\ FirstStep(c) = "roles"
      BY <2>1, <3>2, <1>1, NoWorkType, AfterRolesPlace DEF FirstStep, At
    <3>3. CASE c.op # "resetPassword" /\ FirstStep(c) = StepAfterRoles(c)
      BY <2>1, <3>3, <1>1, NoWorkType, AfterRolesPlace
    <3> QED
      BY <3>1, <3>2, <3>3 DEF FirstStep
  <2> QED
    BY <1>3, <2>2, <2>3, NoWorkType, ContinueType, ContinueChecked, TypeParts
<1>4. LocalTypeOK' /\ Checked'
  BY <1>2, <1>3 DEF Start, Finish
<1>5. undisturbed' \subseteq Requests
  BY DEF Start, TypeOK
<1> QED
  BY <1>4, <1>5 DEF Start, TypeOK, LocalTypeOK, store, AccountMap, RoleMap

LEMMA ValidateRoleIDsKept ==
  ASSUME TypeOK, Checked, NEW r \in Requests, ValidateRoleIDs(r)
  PROVE  TypeOK' /\ Checked'
<1>1. call[r].op # "resetPassword" /\ StatusChecked(call[r])
  BY DEF ValidateRoleIDs, Checked, At
<1>2. At(StepAfterRoles(call[r]), call[r], work[r])
  BY <1>1, RequestTypes, AfterRolesPlace
<1>3. StepAfterRoles(call[r]) \in Steps /\ work[r] \in Work /\ "invalid" \in Responses
  BY <1>1, RequestTypes, WriteSteps, Answers
<1> QED
  BY <1>2, <1>3, CheckKept DEF ValidateRoleIDs

LEMMA WithRolesType ==
  ASSUME NEW a \in Account, NEW held \in SUBSET Nat
  PROVE  WithRoles(a, held) \in User
  BY DEF WithRoles, Account, User

LEMMA RoleIDsType ==
  ASSUME TypeOK, NEW id PROVE RoleIDsFor(userRoles, id) \in SUBSET Nat
  BY DEF TypeOK, RoleIDsFor

LEMMA ReadUserKept ==
  ASSUME TypeOK, Checked, NEW r \in Requests, ReadUser(r)
  PROVE  TypeOK' /\ Checked'
<1> DEFINE id == Target(call[r])
           seen == [work[r] EXCEPT !.existing = WithRoles(accounts[id], {})]
<1>1. "userRoles" \in Steps /\ "notFound" \in Responses
  BY DEF Steps, Responses
<1>2. CASE id \notin DOMAIN accounts
  BY <1>1, <1>2, RefuseKept DEF ReadUser, Check
<1>3. CASE id \in DOMAIN accounts
  <2>1. WithRoles(accounts[id], {}) \in User
    BY <1>3, WithRolesType DEF TypeOK, AccountMap
  <2>2. seen \in Work /\ seen.existing \in User
    BY <2>1, RequestTypes DEF Work
  <2>3. At("userRoles", call[r], seen)
    BY <2>2 DEF ReadUser, Checked, At
  <2>4. Continue(r, "userRoles", seen) /\ Unwritten /\ UNCHANGED call
    BY <1>3 DEF ReadUser, Check
  <2> HIDE DEF seen
  <2> QED
    BY <1>1, <2>2, <2>3, <2>4, StayKept
<1> QED
  BY <1>2, <1>3

LEMMA ReadUserRolesKept ==
  ASSUME TypeOK, Checked, NEW r \in Requests, ReadUserRoles(r)
  PROVE  TypeOK' /\ Checked'
<1> DEFINE c == call[r]
           u == [work[r].existing EXCEPT !.roleIDs = RoleIDsFor(userRoles, Target(c))]
           seen == [work[r] EXCEPT !.existing = u]
<1>1. /\ work[r].existing \in User /\ StatusChecked(c)
      /\ c.op \in Targeting \cup SelfWrites
  BY DEF ReadUserRoles, Checked, At
<1>2. u \in User
  BY <1>1, RoleIDsType DEF User
<1>3. seen \in Work /\ seen.existing \in User
  BY <1>2, RequestTypes DEF Work
<1>4. c \in SqlCall /\ c.op # "resetPassword"
  BY <1>1, RequestTypes DEF Targeting, SelfWrites
<1>5. "admin" \in Steps /\ "auditFailure" \in Steps /\ "none" \in Responses
      /\ "forbidden" \in Responses
  BY DEF Steps, Responses
<1>6. CASE c.op \in UserWrites
  <2>1. At("admin", c, seen) /\ Check(r, FALSE, "none", "admin", seen)
    BY <1>1, <1>6 DEF ReadUserRoles, At, UserWrites, SelfWrites
  <2> HIDE DEF seen
  <2> QED
    BY <1>3, <1>5, <2>1, CheckKept
<1>7. CASE c.op \in SelfWrites
  <2> DEFINE step == IF c.op = "changePassword" /\ c.current # u.password
                     THEN "auditFailure" ELSE WriteStep(c)
  <2>1. WriteStep(c) \in Steps /\ At(WriteStep(c), c, seen)
    BY <1>1, <1>3, <1>4, WriteSteps, WriteStepPlace
  <2>2. At("auditFailure", c, seen)
    BY <1>1 DEF At
  <2>3. Check(r, u.status # "active", "forbidden", step, seen)
    BY <1>7 DEF ReadUserRoles, UserWrites, SelfWrites
  <2>4. step \in Steps /\ At(step, c, seen)
    BY <1>5, <2>1, <2>2
  <2> HIDE DEF seen, step
  <2> QED
    BY <1>3, <1>5, <2>3, <2>4, CheckKept
<1> QED
  BY <1>6, <1>7 DEF ReadUserRoles

LEMMA ProceedKept ==
  ASSUME TypeOK, Checked, NEW r \in Requests, Proceed(r),
         pc[r] \in {"admin", "pageRoles"}
  PROVE  TypeOK' /\ Checked'
<1>1. StatusChecked(call[r]) /\ call[r].op \in Targeting
  BY DEF Checked, At
<1>2. call[r].op # "resetPassword" /\ call[r].op \notin SelfWrites
  BY <1>1 DEF Targeting, SelfWrites
<1>3. WriteStep(call[r]) \in Steps /\ At(WriteStep(call[r]), call[r], work[r])
  BY <1>1, <1>2, RequestTypes, WriteSteps, WriteStepPlace
<1> QED
  BY <1>3, Answers, RequestTypes, CheckKept DEF Proceed

LEMMA FindAdminRoleKept ==
  ASSUME TypeOK, Checked, NEW r \in Requests, FindAdminRole(r)
  PROVE  TypeOK' /\ Checked'
<1>1. CASE Proceed(r)
  BY <1>1, ProceedKept DEF FindAdminRole
<1>2. ASSUME NEW a \in DOMAIN roles,
             Check(r, FALSE, "none", "count",
                   [work[r] EXCEPT !.adminRole = a, !.page = 1])
      PROVE  TypeOK' /\ Checked'
  <2> DEFINE w == [work[r] EXCEPT !.adminRole = a, !.page = 1]
  <2>1. w \in Work /\ "count" \in Steps
    BY RequestTypes DEF TypeOK, RoleMap, Work, Steps
  <2>2. At("count", call[r], w)
    BY DEF FindAdminRole, Checked, At
  <2>3. Check(r, FALSE, "none", "count", w)
    BY <1>2
  <2> HIDE DEF w
  <2> QED
    BY <2>1, <2>2, <2>3, Answers, CheckKept
<1> QED
  BY <1>1, <1>2 DEF FindAdminRole

LEMMA ActiveFinite ==
  ASSUME TypeOK
  PROVE  /\ ActiveUsers(accounts) \subseteq Nat
         /\ IsFiniteSet(ActiveUsers(accounts))
         /\ Cardinality(ActiveUsers(accounts)) \in Nat
<1>1. IsFiniteSet(1..(nextUserID - 1))
  BY FS_Interval DEF TypeOK
<1>2. ActiveUsers(accounts) \subseteq 1..(nextUserID - 1)
  BY DEF ActiveUsers, TypeOK
<1>3. ActiveUsers(accounts) \subseteq Nat
  BY DEF ActiveUsers, TypeOK, AccountMap
<1>4. IsFiniteSet(ActiveUsers(accounts))
  BY <1>1, <1>2, FS_Subset
<1> QED
  BY <1>3, <1>4, FS_CardinalityType

LEMMA CountActiveUsersKept ==
  ASSUME TypeOK, Checked, NEW r \in Requests, CountActiveUsers(r)
  PROVE  TypeOK' /\ Checked'
<1> DEFINE w == [work[r] EXCEPT !.total = Cardinality(ActiveUsers(accounts))]
<1>1. w \in Work /\ "page" \in Steps
  BY RequestTypes, ActiveFinite DEF Work, Steps
<1>2. At("page", call[r], w) /\ Check(r, FALSE, "none", "page", w)
  BY DEF CountActiveUsers, Checked, At
<1> HIDE DEF w
<1> QED
  BY <1>1, <1>2, Answers, CheckKept

LEMMA ListPageKept ==
  ASSUME TypeOK, Checked, NEW r \in Requests, ListPage(r)
  PROVE  TypeOK' /\ Checked'
<1> DEFINE listed == PageOfActiveUsers(work[r].page)
           w == [work[r] EXCEPT !.listed = listed, !.found = FALSE]
<1>1. listed \in SUBSET Nat
  BY DEF PageOfActiveUsers, ActiveUsers, TypeOK, AccountMap
<1> HIDE DEF listed
<1>2. w \in Work /\ "pageRoles" \in Steps
  BY <1>1, RequestTypes DEF Work, Steps
<1>3. At("pageRoles", call[r], w)
  BY DEF ListPage, Checked, At
<1>4. Check(r, listed = {}, "lastAdministrator", "pageRoles", w)
  BY DEF ListPage, listed
<1> HIDE DEF w
<1> QED
  BY <1>2, <1>3, <1>4, Answers, CheckKept

LEMMA NextPageType ==
  ASSUME NEW w \in Work PROVE [w EXCEPT !.page = w.page + 1] \in Work
<1>1. w.page + 1 \in Nat
  BY DEF Work
<1> QED
  BY <1>1 DEF Work

LEMMA ListPageRolesKept ==
  ASSUME TypeOK, Checked, NEW r \in Requests, ListPageRoles(r)
  PROVE  TypeOK' /\ Checked'
<1> PICK id \in work[r].listed :
      LET administrator == work[r].adminRole \in RoleIDsFor(userRoles, id)
          w == [work[r] EXCEPT
                  !.listed = @ \ {id},
                  !.found = @ \/ (id # Target(call[r]) /\ administrator)]
      IN  \/ Check(r, FALSE, "none", "pageRoles", w)
          \/ Proceed(r)
          \/ Check(r, w.page * PageSize >= w.total, "lastAdministrator", "count",
                   [w EXCEPT !.page = @ + 1])
  BY DEF ListPageRoles
<1> DEFINE administrator == work[r].adminRole \in RoleIDsFor(userRoles, id)
           found == work[r].found \/ (id # Target(call[r]) /\ administrator)
           w == [work[r] EXCEPT !.listed = work[r].listed \ {id}, !.found = found]
           next == [w EXCEPT !.page = w.page + 1]
<1>1. work[r] \in Work /\ found \in BOOLEAN
  BY RequestTypes DEF Work
<1> HIDE DEF found
<1>2. w \in Work
  BY <1>1 DEF Work
<1>3. next \in Work
  <2> HIDE DEF w
  <2> QED
    BY <1>2, NextPageType
<1>4. "pageRoles" \in Steps /\ "count" \in Steps
  BY DEF Steps
<1>5. At("pageRoles", call[r], w) /\ At("count", call[r], next)
  BY DEF ListPageRoles, Checked, At
<1>6. pc[r] = "pageRoles"
  BY DEF ListPageRoles
<1>7. \/ Check(r, FALSE, "none", "pageRoles", w)
      \/ Proceed(r)
      \/ Check(r, w.page * PageSize >= w.total, "lastAdministrator", "count", next)
  BY DEF found
<1> HIDE DEF w, next
<1> QED
  BY <1>2, <1>3, <1>4, <1>5, <1>6, <1>7, Answers, CheckKept, ProceedKept

(* gov2 admin reset-password *)
LEMMA FindResetRoleKept ==
  ASSUME TypeOK, Checked, NEW r \in Requests, FindResetRole(r)
  PROVE  TypeOK' /\ Checked'
<1>1. CASE Refuse(r, "notFound")
  BY <1>1, Answers, RefuseKept
<1>2. ASSUME NEW a \in DOMAIN roles,
             Check(r, FALSE, "none", "find", [work[r] EXCEPT !.adminRole = a])
      PROVE  TypeOK' /\ Checked'
  <2> DEFINE w == [work[r] EXCEPT !.adminRole = a]
  <2>1. w \in Work /\ "find" \in Steps
    BY RequestTypes DEF TypeOK, RoleMap, Work, Steps
  <2>2. At("find", call[r], w)
    BY DEF FindResetRole, Checked, At
  <2>3. Check(r, FALSE, "none", "find", w)
    BY <1>2
  <2> HIDE DEF w
  <2> QED
    BY <2>1, <2>2, <2>3, Answers, CheckKept
<1> QED
  BY <1>1, <1>2 DEF FindResetRole

LEMMA FindUserKept ==
  ASSUME TypeOK, Checked, NEW r \in Requests, FindUser(r)
  PROVE  TypeOK' /\ Checked'
<1>1. CASE Refuse(r, "notFound")
  BY <1>1, Answers, RefuseKept
<1>2. ASSUME NEW id \in DOMAIN accounts,
             Continue(r, "findRoles",
                      [work[r] EXCEPT !.existing = WithRoles(accounts[id], {})]),
             call' = [call EXCEPT ![r].target = id], Unwritten
      PROVE  TypeOK' /\ Checked'
  <2> DEFINE w == [work[r] EXCEPT !.existing = WithRoles(accounts[id], {})]
             c == [call[r] EXCEPT !.target = id]
  <2>1. WithRoles(accounts[id], {}) \in User /\ id \in Nat
    BY WithRolesType DEF TypeOK, AccountMap
  <2>2. w \in Work /\ w.existing \in User /\ "findRoles" \in Steps
    BY <2>1, RequestTypes DEF Work, Steps
  <2>3. c \in SqlCall /\ c.op = call[r].op /\ c.status = call[r].status
    BY <2>1, RequestTypes DEF SqlCall, CallOf
  <2>4. At("findRoles", c, w)
    BY <2>2, <2>3 DEF FindUser, Checked, At, StatusChecked
  <2>5. call' = [call EXCEPT ![r] = c]
    BY <1>2
  <2>6. Continue(r, "findRoles", w)
    BY <1>2
  <2> HIDE DEF w, c
  <2>7. LocalTypeOK'
    BY <2>2, <2>3, <2>5, <2>6 DEF TypeOK, LocalTypeOK, Continue
  <2>8. Checked'
    BY <2>4, <2>5, <2>6 DEF TypeOK, Checked, Continue
  <2> QED
    BY <1>2, <2>7, <2>8, UnwrittenType
<1> QED
  BY <1>1, <1>2 DEF FindUser

LEMMA ResetCallType ==
  ASSUME NEW c \in SqlCall, NEW email \in STRING, NEW status \in STRING,
         NEW held \in SUBSET Nat
  PROVE  LET d == [c EXCEPT !.op = "updateUser", !.email = email,
                            !.status = status, !.roleIDs = held]
         IN  d \in SqlCall
<1>1. "updateUser" \in Operations
  BY DEF Operations, UserWrites
<1> QED
  BY <1>1 DEF SqlCall, CallOf

LEMMA FindUserRolesKept ==
  ASSUME TypeOK, Checked, NEW r \in Requests, FindUserRoles(r)
  PROVE  TypeOK' /\ Checked'
<1> DEFINE u == work[r].existing
           held == RoleIDsFor(userRoles, call[r].target)
           c == [call[r] EXCEPT !.op = "updateUser", !.email = u.email,
                                !.status = u.status, !.roleIDs = held]
<1>1. CASE Refuse(r, "notFound")
  BY <1>1, Answers, RefuseKept
<1>2. ASSUME Continue(r, "roles", NoWork), call' = [call EXCEPT ![r] = c], Unwritten
      PROVE  TypeOK' /\ Checked'
  <2>1. u \in User /\ held \in SUBSET Nat
    BY RoleIDsType DEF FindUserRoles, Checked, At
  <2>2. u.email \in STRING /\ u.status \in Statuses
    BY <2>1 DEF User
  <2>3. u.status \in STRING
    BY <2>2, UserDataAssumption
  <2>4. /\ c \in SqlCall /\ c.op = "updateUser" /\ c.status \in Statuses
    <3>1. call[r] \in SqlCall
      BY RequestTypes
    <3>2. c.op = "updateUser" /\ c.status = u.status
      BY <3>1 DEF SqlCall, CallOf
    <3> HIDE DEF u, held
    <3>3. c \in SqlCall
      BY <2>1, <2>2, <2>3, <3>1, ResetCallType
    <3> QED
      BY <2>2, <3>2, <3>3
  <2>5. At("roles", c, NoWork)
    BY <2>4 DEF At, StatusChecked, NormalStatus, Statuses
  <2> HIDE DEF c
  <2>6. "roles" \in Steps
    BY DEF Steps
  <2>7. LocalTypeOK'
    BY <1>2, <2>4, <2>6, NoWorkType DEF TypeOK, LocalTypeOK, Continue
  <2>8. Checked'
    BY <1>2, <2>5 DEF TypeOK, Checked, Continue
  <2> QED
    BY <1>2, <2>7, <2>8, UnwrittenType
<1>3. call' = [call EXCEPT ![r].op = "updateUser", ![r].email = u.email,
                           ![r].status = u.status, ![r].roleIDs = held]
        => call' = [call EXCEPT ![r] = c]
  BY DEF TypeOK
<1> HIDE DEF c
<1> QED
  BY <1>1, <1>2, <1>3 DEF FindUserRoles

(* The reads of the store's part *)
LEMMA OtherReadsKept ==
  ASSUME TypeOK, Checked, NEW r \in Requests,
         \/ ReadAgain(r) \/ CheckUsername(r) \/ ReadRole(r) \/ CheckCode(r)
         \/ CountAssigned(r) \/ Reread(r)
  PROVE  TypeOK' /\ Checked'
<1>1. work[r] \in Work
  BY RequestTypes
<1>2. {"name", "insert", "update", "code", "insertRole", "updateRole", "removeRole",
       "audit"} \subseteq Steps
  BY DEF Steps
<1>3. CASE ReadAgain(r)
  <2>1. At("name", call[r], work[r])
    BY <1>3 DEF ReadAgain, Checked, At
  <2> QED
    BY <1>1, <1>2, <1>3, <2>1, Answers, CheckKept DEF ReadAgain
<1>4. CASE CheckUsername(r)
  <2> DEFINE step == IF call[r].op = "createUser" THEN "insert" ELSE "update"
  <2>1. step \in Steps /\ At(step, call[r], work[r])
    BY <1>2, <1>4 DEF CheckUsername, Checked, At, SelfWrites
  <2>2. \E refused : Check(r, refused, "conflict", step, work[r])
    BY <1>4 DEF CheckUsername
  <2> HIDE DEF step
  <2> QED
    BY <1>1, <2>1, <2>2, Answers, CheckKept
<1>5. CASE ReadRole(r)
  <2>1. At("code", call[r], work[r])
    BY <1>5 DEF ReadRole, Checked, At
  <2> QED
    BY <1>1, <1>2, <1>5, <2>1, Answers, CheckKept DEF ReadRole
<1>6. CASE CheckCode(r)
  <2> DEFINE step == IF call[r].op = "createRole" THEN "insertRole" ELSE "updateRole"
  <2>1. step \in Steps /\ At(step, call[r], work[r])
    BY <1>2, <1>6 DEF CheckCode, Checked, At
  <2>2. \E refused : Check(r, refused, "conflict", step, work[r])
    BY <1>6 DEF CheckCode
  <2> HIDE DEF step
  <2> QED
    BY <1>1, <2>1, <2>2, Answers, CheckKept
<1>7. CASE CountAssigned(r)
  <2>1. At("removeRole", call[r], work[r])
    BY <1>7 DEF CountAssigned, Checked, At
  <2>2. \E refused : Check(r, refused, "conflict", "removeRole", work[r])
    BY <1>7 DEF CountAssigned
  <2> QED
    BY <1>1, <1>2, <2>1, <2>2, Answers, CheckKept
<1>8. CASE Reread(r)
  <2>1. At("audit", call[r], work[r])
    BY <1>8 DEF Reread, Checked, At
  <2>2. \E refused : Check(r, refused, "notFound", "audit", work[r])
    BY <1>8 DEF Reread
  <2> QED
    BY <1>1, <1>2, <2>1, <2>2, Answers, CheckKept
<1> QED
  BY <1>3, <1>4, <1>5, <1>6, <1>7, <1>8

----------------------------------------------------------------------------
(* What a step can do to the rows *)

(* A user's row and role IDs are written, only its status is, or its row is  *)
(* deleted; or an ID is used up by an insert that fails.                     *)
UserPut(id) ==
  \E a \in Account, held \in SUBSET Nat :
    /\ accounts' = Put(accounts, id, a)
    /\ userRoles' = ReplaceUserRoles(userRoles, id, held)
    /\ ~DuplicateUser(id, a)
    /\ \/ id \in DOMAIN accounts /\ UNCHANGED nextUserID
       \/ id = nextUserID /\ nextUserID' = nextUserID + 1
    /\ RoleRowsUnchanged

StatusPut(id) ==
  \E status \in Statuses :
    /\ id \in DOMAIN accounts
    /\ accounts' = [accounts EXCEPT ![id].status = status]
    /\ UNCHANGED <<userRoles, nextUserID>> /\ RoleRowsUnchanged

UserGone(id) ==
  /\ id \in DOMAIN accounts /\ accounts' = Without(accounts, id)
  /\ UNCHANGED <<userRoles, nextUserID>> /\ RoleRowsUnchanged

UserIDLost == /\ nextUserID' = nextUserID + 1
              /\ UNCHANGED <<accounts, userRoles>> /\ RoleRowsUnchanged

RolePut(id) ==
  \E ro \in Role :
    /\ roles' = Put(roles, id, ro) /\ ~CodeTaken(id, ro.code)
    /\ \/ id \in DOMAIN roles /\ UNCHANGED nextRoleID
       \/ id = nextRoleID /\ nextRoleID' = nextRoleID + 1
    /\ UserRowsUnchanged /\ UNCHANGED deletedRoles

RoleGone(id) ==
  /\ id \in DOMAIN roles /\ roles' = Without(roles, id)
  /\ deletedRoles' = deletedRoles \cup {id}
  /\ UserRowsUnchanged /\ UNCHANGED nextRoleID

RoleIDLost == /\ nextRoleID' = nextRoleID + 1
              /\ UNCHANGED <<roles, deletedRoles>> /\ UserRowsUnchanged

UserWritten(id) == id \in Nat \ {0} /\ (UserPut(id) \/ StatusPut(id) \/ UserGone(id))
RoleWritten(id) == id \in Nat \ {0} /\ (RolePut(id) \/ RoleGone(id))

(* How a write ends. *)
WriteEnds(r) ==
  \/ \E answer \in {"notFound", "conflict", "invalid"} : Refuse(r, answer)
  \/ \E answer \in {"conflict", "invalid"} :
       /\ Finish(r, answer) /\ UNCHANGED <<audit, history>>
       /\ UserIDLost \/ RoleIDLost
  \/ \E id \in Nat \ {0}, step \in {"reread", "audit"} :
       /\ Commit(r, id, step)
       /\ \/ UserWritten(id) /\ call[r].op \notin RoleWrites
          \/ RoleWritten(id) /\ call[r].op \in RoleWrites

LEMMA SubmittedType ==
  ASSUME TypeOK, Checked, NEW r \in Requests, pc[r] \in {"insert", "update"}
  PROVE  Submitted(r) \in User
<1> DEFINE c == call[r]
           fromBody == [username |-> c.username, email |-> c.email, password |-> c.password,
                        status |-> NormalStatus(c.status), roleIDs |-> c.roleIDs]
<1>1. StatusChecked(c) /\ c.op \in {"createUser", "updateUser"} \cup SelfWrites
  BY DEF Checked, At
<1>2. CASE c.op \in {"createUser", "updateUser"}
  <2>1. Submitted(r) = fromBody
    BY <1>2 DEF Submitted
  <2> QED
    BY <1>1, <1>2, <2>1, RequestTypes DEF StatusChecked, User
<1>3. CASE c.op \in SelfWrites
  <2>1. work[r].existing \in User
    BY <1>3 DEF Checked, At, SelfWrites
  <2>2. CASE c.op = "updateProfile"
    <3>1. Submitted(r) = [work[r].existing EXCEPT !.email = c.email, !.password = ""]
      BY <2>2 DEF Submitted
    <3> QED
      BY <2>1, <3>1, RequestTypes, UserDataAssumption DEF User
  <2>3. CASE c.op = "changePassword"
    <3>1. Submitted(r) = [work[r].existing EXCEPT !.password = c.password]
      BY <2>3 DEF Submitted
    <3> QED
      BY <2>1, <3>1, RequestTypes DEF User
  <2> QED
    BY <1>3, <2>2, <2>3 DEF SelfWrites
<1> QED
  BY <1>1, <1>2, <1>3

LEMMA RowType ==
  ASSUME NEW u \in User
  PROVE  /\ Row(u) \in Account /\ Row(u).username = u.username /\ Row(u).email = u.email
         /\ u.roleIDs \in SUBSET Nat
  BY DEF Row, User, Account

LEMMA InsertUserEnds ==
  ASSUME TypeOK, Checked, NEW r \in Requests, InsertUser(r) PROVE WriteEnds(r)
<1> DEFINE u == Submitted(r)
<1>1. u \in User /\ call[r].op = "createUser"
  BY SubmittedType DEF InsertUser, Checked, At
<1> HIDE DEF u
<1>2. CASE UNCHANGED accounts /\ \E answer \in {"conflict", "invalid"} :
             /\ Finish(r, answer) /\ UNCHANGED <<audit, history>>
             /\ nextUserID' = nextUserID + 1 /\ UNCHANGED userRoles /\ RoleRowsUnchanged
  BY <1>2 DEF WriteEnds, UserIDLost
<1>3. ASSUME ~DuplicateUser(0, u), accounts' = Put(accounts, nextUserID, Row(u)),
             userRoles' = ReplaceUserRoles(userRoles, nextUserID, u.roleIDs),
             Commit(r, nextUserID, "reread")
      PROVE  WriteEnds(r)
  <2>1. ~DuplicateUser(nextUserID, Row(u))
    <3>1. (DOMAIN accounts) \ {nextUserID} = (DOMAIN accounts) \ {0}
      BY DEF TypeOK
    <3>2. Row(u).username = u.username /\ Row(u).email = u.email
      BY <1>1, RowType
    <3> QED
      BY <1>3, <3>1, <3>2 DEF DuplicateUser, NameTaken
  <2>2. nextUserID \in Nat \ {0} /\ nextUserID' = nextUserID + 1 /\ RoleRowsUnchanged
    BY DEF TypeOK, InsertUser
  <2>3. UserPut(nextUserID)
    BY <1>1, <1>3, <2>1, <2>2, RowType DEF UserPut
  <2>4. call[r].op \notin RoleWrites
    BY <1>1 DEF RoleWrites
  <2> QED
    BY <1>3, <2>2, <2>3, <2>4 DEF WriteEnds, UserWritten
<1> QED
  BY <1>2, <1>3 DEF InsertUser, u

LEMMA UpdateUserEnds ==
  ASSUME TypeOK, Checked, NEW r \in Requests, UpdateUser(r) PROVE WriteEnds(r)
<1> DEFINE u == Submitted(r)
           id == Target(call[r])
           saved == [Row(u) EXCEPT !.password = IF u.password = "" THEN accounts[id].password
                                                ELSE u.password]
<1>1. u \in User /\ call[r].op \notin RoleWrites
  BY SubmittedType DEF UpdateUser, Checked, At, SelfWrites, RoleWrites
<1> HIDE DEF u
<1>2. ASSUME NEW answer \in {"notFound", "conflict", "invalid"}, Refuse(r, answer)
      PROVE  WriteEnds(r)
  BY <1>2, Answers DEF WriteEnds
<1>3. ASSUME id \in DOMAIN accounts, ~DuplicateUser(id, u),
             accounts' = Put(accounts, id, saved),
             userRoles' = ReplaceUserRoles(userRoles, id, u.roleIDs),
             Commit(r, id, "reread"), RoleRowsUnchanged, UNCHANGED nextUserID
      PROVE  WriteEnds(r)
  <2>1. accounts[id] \in Account /\ id \in Nat \ {0}
    BY <1>3 DEF TypeOK, AccountMap
  <2>2. u.password \in STRING /\ accounts[id].password \in STRING
    BY <1>1, <2>1 DEF User, Account
  <2>3. saved \in Account /\ saved.username = u.username /\ saved.email = u.email
    BY <1>1, <2>2, RowType DEF Account
  <2>4. ~DuplicateUser(id, saved)
    BY <1>3, <2>3 DEF DuplicateUser
  <2> HIDE DEF saved
  <2>5. UserPut(id)
    BY <1>1, <1>3, <2>3, <2>4, RowType DEF UserPut
  <2> QED
    BY <1>1, <1>3, <2>1, <2>5 DEF WriteEnds, UserWritten
<1> QED
  BY <1>2, <1>3 DEF UpdateUser, u

LEMMA OtherUserWritesEnd ==
  ASSUME TypeOK, Checked, NEW r \in Requests, UpdateUserStatus(r) \/ DeleteUser(r)
  PROVE  WriteEnds(r)
<1> DEFINE id == Target(call[r])
<1>1. CASE Refuse(r, "notFound")
  BY <1>1, Answers DEF WriteEnds
<1>2. call[r].op \notin RoleWrites
  BY DEF UpdateUserStatus, DeleteUser, Checked, At, RoleWrites
<1>3. ASSUME id \in DOMAIN accounts, UpdateUserStatus(r),
             accounts' = [accounts EXCEPT ![id].status = call[r].status],
             Commit(r, id, "reread"), RoleRowsUnchanged, UNCHANGED <<userRoles, nextUserID>>
      PROVE  WriteEnds(r)
  <2>1. call[r].status \in Statuses
    BY <1>3 DEF UpdateUserStatus, Checked, At, StatusChecked
  <2>2. id \in Nat \ {0} /\ StatusPut(id)
    BY <1>3, <2>1 DEF StatusPut, TypeOK, AccountMap
  <2> QED
    BY <1>2, <1>3, <2>2 DEF WriteEnds, UserWritten
<1>4. ASSUME id \in DOMAIN accounts, accounts' = Without(accounts, id),
             Commit(r, id, "audit"), RoleRowsUnchanged, UNCHANGED <<userRoles, nextUserID>>
      PROVE  WriteEnds(r)
  <2>1. id \in Nat \ {0} /\ UserGone(id)
    BY <1>4 DEF UserGone, TypeOK, AccountMap
  <2> QED
    BY <1>2, <1>4, <2>1 DEF WriteEnds, UserWritten
<1> QED
  BY <1>1, <1>3, <1>4 DEF UpdateUserStatus, DeleteUser

LEMMA SubmittedRoleType ==
  ASSUME NEW c \in SqlCall
  PROVE  SubmittedRole(c) \in Role /\ SubmittedRole(c).code = c.code
  BY DEF SubmittedRole, SqlCall, CallOf, Role, CleanPermissions

LEMMA InsertRoleEnds ==
  ASSUME TypeOK, Checked, NEW r \in Requests, InsertRole(r) PROVE WriteEnds(r)
<1> DEFINE c == call[r]
           ro == SubmittedRole(c)
<1>1. c \in SqlCall /\ c.op \in RoleWrites
  BY RequestTypes DEF InsertRole, Checked, At
<1>2. ro \in Role /\ ro.code = c.code
  BY <1>1, SubmittedRoleType
<1> HIDE DEF ro
<1>3. CASE UNCHANGED <<roles, deletedRoles>> /\ \E answer \in {"conflict", "invalid"} :
             /\ Finish(r, answer) /\ UNCHANGED <<audit, history>>
             /\ nextRoleID' = nextRoleID + 1 /\ UserRowsUnchanged
  BY <1>3 DEF WriteEnds, RoleIDLost
<1>4. ASSUME ~CodeTaken(0, c.code), roles' = Put(roles, nextRoleID, ro),
             Commit(r, nextRoleID, "reread")
      PROVE  WriteEnds(r)
  <2>1. ~CodeTaken(nextRoleID, ro.code)
    BY <1>2, <1>4 DEF CodeTaken, TypeOK
  <2>2. /\ nextRoleID \in Nat \ {0} /\ nextRoleID' = nextRoleID + 1
        /\ UserRowsUnchanged /\ UNCHANGED deletedRoles
    BY DEF TypeOK, InsertRole
  <2>3. RolePut(nextRoleID)
    BY <1>2, <1>4, <2>1, <2>2 DEF RolePut
  <2> QED
    BY <1>1, <1>4, <2>2, <2>3 DEF WriteEnds, RoleWritten
<1> QED
  BY <1>3, <1>4 DEF InsertRole, ro

LEMMA OtherRoleWritesEnd ==
  ASSUME TypeOK, Checked, NEW r \in Requests, UpdateRole(r) \/ DeleteRole(r)
  PROVE  WriteEnds(r)
<1> DEFINE c == call[r]
           ro == SubmittedRole(c)
<1>1. c \in SqlCall /\ c.op \in RoleWrites
  BY RequestTypes DEF UpdateRole, DeleteRole, Checked, At
<1>2. ro \in Role /\ ro.code = c.code
  BY <1>1, SubmittedRoleType
<1> HIDE DEF ro
<1>3. ASSUME NEW answer \in {"notFound", "conflict", "invalid"}, Refuse(r, answer)
      PROVE  WriteEnds(r)
  BY <1>3, Answers DEF WriteEnds
<1>4. ASSUME c.target \in DOMAIN roles, ~CodeTaken(c.target, c.code),
             roles' = Put(roles, c.target, ro), Commit(r, c.target, "reread"),
             UserRowsUnchanged, UNCHANGED <<deletedRoles, nextRoleID>>
      PROVE  WriteEnds(r)
  <2>1. c.target \in Nat \ {0} /\ RolePut(c.target)
    BY <1>2, <1>4 DEF RolePut, TypeOK, RoleMap
  <2> QED
    BY <1>1, <1>4, <2>1 DEF WriteEnds, RoleWritten
<1>5. ASSUME c.target \in DOMAIN roles, roles' = Without(roles, c.target),
             deletedRoles' = deletedRoles \cup {c.target},
             Commit(r, c.target, "audit"), UserRowsUnchanged, UNCHANGED nextRoleID
      PROVE  WriteEnds(r)
  <2>1. c.target \in Nat \ {0} /\ RoleGone(c.target)
    BY <1>5 DEF RoleGone, TypeOK, RoleMap
  <2> QED
    BY <1>1, <1>5, <2>1 DEF WriteEnds, RoleWritten
<1> QED
  BY <1>3, <1>4, <1>5 DEF UpdateRole, DeleteRole, ro

LEMMA WritesEnd ==
  ASSUME TypeOK, Checked, NEW r \in Requests, Write(r) PROVE WriteEnds(r)
  BY InsertUserEnds, UpdateUserEnds, OtherUserWritesEnd, InsertRoleEnds, OtherRoleWritesEnd
     DEF Write

----------------------------------------------------------------------------
(* The type invariant *)

LEMMA PutAccount ==
  ASSUME NEW as, AccountMap(as), NEW id \in Nat \ {0}, NEW a \in Account
  PROVE  AccountMap(Put(as, id, a))
  BY DEF AccountMap, Put

LEMMA ReplacedType ==
  ASSUME NEW ur \in SUBSET (Nat \X Nat), NEW id \in Nat, NEW held \in SUBSET Nat
  PROVE  ReplaceUserRoles(ur, id, held) \subseteq Nat \X Nat
  BY DEF ReplaceUserRoles

LEMMA UserWrittenType ==
  ASSUME TypeOK, NEW id, UserWritten(id) PROVE StoreTypeOK'
<1>1. id \in Nat \ {0}
  BY DEF UserWritten
<1>2. CASE UserPut(id)
  <2> PICK a \in Account, held \in SUBSET Nat :
        /\ accounts' = Put(accounts, id, a)
        /\ userRoles' = ReplaceUserRoles(userRoles, id, held)
        /\ \/ id \in DOMAIN accounts /\ UNCHANGED nextUserID
           \/ id = nextUserID /\ nextUserID' = nextUserID + 1
        /\ RoleRowsUnchanged
    BY <1>2 DEF UserPut
  <2>1. AccountMap(accounts') /\ userRoles' \subseteq Nat \X Nat
    BY <1>1, PutAccount, ReplacedType DEF TypeOK
  <2>2. nextUserID' \in Nat \ {0} /\ DOMAIN accounts' \subseteq 1..(nextUserID' - 1)
    BY DEF TypeOK, Put
  <2> QED
    BY <2>1, <2>2 DEF StoreTypeOK, TypeOK, RoleRowsUnchanged, RoleMap
<1>3. CASE StatusPut(id)
  <2> PICK status \in Statuses :
        /\ id \in DOMAIN accounts
        /\ accounts' = [accounts EXCEPT ![id].status = status]
        /\ UNCHANGED <<userRoles, nextUserID>> /\ RoleRowsUnchanged
    BY <1>3 DEF StatusPut
  <2>1. accounts[id] \in Account
    BY DEF TypeOK, AccountMap
  <2>2. [accounts[id] EXCEPT !.status = status] \in Account
    BY <2>1 DEF Account
  <2>3. AccountMap(accounts') /\ DOMAIN accounts' = DOMAIN accounts
    BY <2>2 DEF TypeOK, AccountMap
  <2> QED
    BY <2>3 DEF StoreTypeOK, TypeOK, RoleRowsUnchanged, RoleMap
<1>4. CASE UserGone(id)
  <2>1. AccountMap(accounts') /\ DOMAIN accounts' \subseteq DOMAIN accounts
    BY <1>4 DEF UserGone, TypeOK, AccountMap, Without
  <2> QED
    BY <1>4, <2>1 DEF UserGone, StoreTypeOK, TypeOK, RoleRowsUnchanged, RoleMap
<1> QED
  BY <1>2, <1>3, <1>4 DEF UserWritten

LEMMA RoleWrittenType ==
  ASSUME TypeOK, NEW id, RoleWritten(id) PROVE StoreTypeOK'
<1>1. id \in Nat \ {0}
  BY DEF RoleWritten
<1>2. CASE RolePut(id)
  <2> PICK ro \in Role :
        /\ roles' = Put(roles, id, ro)
        /\ \/ id \in DOMAIN roles /\ UNCHANGED nextRoleID
           \/ id = nextRoleID /\ nextRoleID' = nextRoleID + 1
        /\ UserRowsUnchanged /\ UNCHANGED deletedRoles
    BY <1>2 DEF RolePut
  <2>1. RoleMap(roles')
    BY <1>1 DEF TypeOK, RoleMap, Put
  <2>2. nextRoleID' \in Nat \ {0} /\ DOMAIN roles' \cup deletedRoles' \subseteq 1..(nextRoleID' - 1)
    BY DEF TypeOK, Put
  <2> QED
    BY <2>1, <2>2 DEF StoreTypeOK, TypeOK, UserRowsUnchanged, AccountMap
<1>3. CASE RoleGone(id)
  <2>1. /\ RoleMap(roles') /\ DOMAIN roles' \subseteq DOMAIN roles
        /\ deletedRoles' \subseteq DOMAIN roles \cup deletedRoles
    BY <1>3 DEF RoleGone, TypeOK, RoleMap, Without
  <2>2. deletedRoles' \subseteq Nat
    BY <2>1 DEF TypeOK, RoleMap
  <2> QED
    BY <1>3, <2>1, <2>2 DEF RoleGone, StoreTypeOK, TypeOK, UserRowsUnchanged, AccountMap
<1> QED
  BY <1>2, <1>3 DEF RoleWritten

LEMMA WriteKept ==
  ASSUME TypeOK, Checked, NEW r \in Requests, Write(r)
  PROVE  TypeOK' /\ Checked'
<1>1. ASSUME NEW answer \in Responses, Refuse(r, answer) PROVE TypeOK' /\ Checked'
  BY <1>1, RefuseKept
<1>2. ASSUME NEW answer \in {"conflict", "invalid"}, Finish(r, answer),
             UNCHANGED <<audit, history>>, UserIDLost \/ RoleIDLost
      PROVE  TypeOK' /\ Checked'
  <2>1. StoreTypeOK'
    BY <1>2 DEF TypeOK, StoreTypeOK, UserIDLost, RoleIDLost, RoleRowsUnchanged,
                UserRowsUnchanged, AccountMap, RoleMap
  <2>2. LocalTypeOK' /\ Checked'
    BY <1>2, Answers, TypeParts, FinishKept
  <2>3. /\ audit' \subseteq [request : Requests, resource : Nat, failed : BOOLEAN]
        /\ written' \in [Requests -> Nat] /\ undisturbed' \subseteq Requests
    BY <1>2 DEF TypeOK, history
  <2> QED
    BY <2>1, <2>2, <2>3 DEF TypeOK, LocalTypeOK, StoreTypeOK
<1>3. ASSUME NEW id \in Nat \ {0}, NEW step \in {"reread", "audit"}, Commit(r, id, step),
             UserWritten(id) \/ RoleWritten(id)
      PROVE  TypeOK' /\ Checked'
  <2>1. StoreTypeOK'
    BY <1>3, UserWrittenType, RoleWrittenType
  <2>2. pc[r] \notin {"new", "done"}
    BY DEF Write, InsertUser, UpdateUser, UpdateUserStatus, DeleteUser,
           InsertRole, UpdateRole, DeleteRole
  <2> QED
    BY <1>3, <2>1, <2>2, CommitKept
<1> QED
  BY <1>1, <1>2, <1>3, Answers, WritesEnd DEF WriteEnds

LEMMA AuditKept ==
  ASSUME TypeOK, Checked, NEW r \in Requests, WriteAudit(r) \/ WriteAuditFailure(r)
  PROVE  TypeOK' /\ Checked'
<1>1. \A failed \in BOOLEAN :
        Entry(r, failed) \in [request : Requests, resource : Nat, failed : BOOLEAN]
  BY DEF Entry, TypeOK
<1>2. audit' \subseteq [request : Requests, resource : Nat, failed : BOOLEAN]
  BY <1>1 DEF WriteAudit, WriteAuditFailure, TypeOK
<1>3. LocalTypeOK' /\ Checked'
  BY Answers, TypeParts, FinishKept DEF WriteAudit, WriteAuditFailure
<1>4. UNCHANGED <<store, written, undisturbed>>
  BY DEF WriteAudit, WriteAuditFailure, history
<1> QED
  BY <1>2, <1>3, <1>4 DEF TypeOK, LocalTypeOK, store, AccountMap, RoleMap

LEMMA InitTyped == Init => TypeOK /\ Checked
<1> SUFFICES ASSUME Init PROVE TypeOK /\ Checked
  OBVIOUS
<1>1. /\ AccountMap(accounts) /\ RoleMap(roles)
      /\ nextUserID \in Nat \ {0} /\ DOMAIN accounts \subseteq 1..(nextUserID - 1)
      /\ nextRoleID \in Nat \ {0} /\ DOMAIN roles \cup deletedRoles \subseteq 1..(nextRoleID - 1)
  BY SqlUsersAssumption DEF Init, AccountMap, RoleMap
<1>2. userRoles \subseteq Nat \X Nat /\ deletedRoles \subseteq Nat
  BY SqlUsersAssumption DEF Init, AccountMap, RoleMap
<1>3. call \in [Requests -> SqlCall] /\ work \in [Requests -> Work]
  BY SqlUsersAssumption, NoWorkType DEF Init
<1>4. pc \in [Requests -> Steps] /\ response \in [Requests -> Responses]
  BY DEF Init, Steps, Responses
<1>5. Checked
  BY DEF Init, Checked, At
<1> QED
  BY <1>1, <1>2, <1>3, <1>4, <1>5 DEF Init, TypeOK

LEMMA ReadKept ==
  ASSUME TypeOK, Checked, NEW r \in Requests, Read(r)
  PROVE  TypeOK' /\ Checked'
  BY ValidateRoleIDsKept, ReadUserKept, ReadUserRolesKept, FindAdminRoleKept,
     CountActiveUsersKept, ListPageKept, ListPageRolesKept, FindResetRoleKept,
     FindUserKept, FindUserRolesKept, OtherReadsKept DEF Read

LEMMA NextTyped == TypeOK /\ Checked /\ [Next]_vars => TypeOK' /\ Checked'
<1> SUFFICES ASSUME TypeOK, Checked, [Next]_vars PROVE TypeOK' /\ Checked'
  OBVIOUS
<1>1. CASE UNCHANGED vars
  BY <1>1 DEF vars, store, history, TypeOK, Checked, AccountMap, RoleMap
<1>2. ASSUME NEW r \in Requests, StoreFault(r) PROVE TypeOK' /\ Checked'
  BY <1>2, Answers, RefuseKept DEF StoreFault
<1>3. ASSUME NEW r \in Requests, Handle(r) PROVE TypeOK' /\ Checked'
  BY <1>3, StartKept, ReadKept, WriteKept, AuditKept DEF Handle
<1> QED
  BY <1>1, <1>2, <1>3 DEF Next, Quiescent

(* Whatever the requests ask for and however their statements interleave, the *)
(* rows have the right shape, every ID in use has been issued, and a request  *)
(* that writes a user back has read one.                                      *)
THEOREM TypeCorrect == Spec => [](TypeOK /\ Checked)
  BY InitTyped, NextTyped, PTL DEF Spec

----------------------------------------------------------------------------
(* The promises of user and role administration *)

LEMMA StoreSteps ==
  ASSUME TypeOK, Checked, [Next]_vars
  PROVE  \/ UNCHANGED store \/ UserIDLost \/ RoleIDLost
         \/ \E id \in Nat \ {0} : UserWritten(id) \/ RoleWritten(id)
<1>1. ASSUME NEW r \in Requests, Read(r) PROVE UNCHANGED store
  <2>1. ASSUME NEW refused, NEW answer, NEW step, NEW w, Check(r, refused, answer, step, w)
        PROVE  Unwritten
    BY <2>1 DEF Check, Refuse
  <2>2. Unwritten
    BY <1>1, <2>1 DEF Read, ValidateRoleIDs, ReadUser, ReadUserRoles, FindAdminRole,
       Proceed, CountActiveUsers, ListPage, ListPageRoles, FindResetRole, FindUser,
       FindUserRoles, ReadAgain, CheckUsername, ReadRole, CheckCode, CountAssigned,
       Reread, Refuse
  <2> QED
    BY <2>2 DEF Unwritten
<1>2. ASSUME NEW r \in Requests, Write(r)
      PROVE  \/ UNCHANGED store \/ UserIDLost \/ RoleIDLost
             \/ \E id \in Nat \ {0} : UserWritten(id) \/ RoleWritten(id)
  BY <1>2, WritesEnd DEF WriteEnds, Refuse, Unwritten
<1>3. ASSUME NEW r \in Requests,
             Start(r) \/ WriteAudit(r) \/ WriteAuditFailure(r) \/ StoreFault(r)
      PROVE  UNCHANGED store
  BY <1>3 DEF Start, WriteAudit, WriteAuditFailure, StoreFault, Refuse, Unwritten
<1>4. CASE UNCHANGED vars
  BY <1>4 DEF vars
<1> QED
  BY <1>1, <1>2, <1>3, <1>4 DEF Next, Handle, Quiescent

Unique == UniqueUsers(accounts) /\ UniqueRoles(roles)

LEMMA PutKeepsUnique ==
  ASSUME UniqueUsers(accounts), NEW id, UserPut(id)
  PROVE  UniqueUsers(accounts')
<1> PICK a \in Account : accounts' = Put(accounts, id, a) /\ ~DuplicateUser(id, a)
  BY DEF UserPut
<1> SUFFICES ASSUME NEW x \in DOMAIN accounts', NEW y \in DOMAIN accounts', x # y
             PROVE  /\ accounts'[x].username # accounts'[y].username
                    /\ accounts'[x].email # "" => accounts'[x].email # accounts'[y].email
  BY DEF UniqueUsers
<1>1. CASE x # id /\ y # id
  BY <1>1 DEF UniqueUsers, Put
<1>2. CASE x = id
  BY <1>2 DEF DuplicateUser, NameTaken, Put
<1>3. CASE y = id
  BY <1>3 DEF DuplicateUser, NameTaken, Put
<1> QED
  BY <1>1, <1>2, <1>3

LEMMA UniqueStep == TypeOK /\ Checked /\ Unique /\ [Next]_vars => Unique'
<1> SUFFICES ASSUME TypeOK, Checked, Unique, [Next]_vars PROVE Unique'
  OBVIOUS
<1>1. CASE UNCHANGED store \/ UserIDLost \/ RoleIDLost
  BY <1>1 DEF store, UserIDLost, RoleIDLost, RoleRowsUnchanged, UserRowsUnchanged, Unique
<1>2. ASSUME NEW id \in Nat \ {0}, UserWritten(id) PROVE Unique'
  <2>1. CASE UserPut(id)
    BY <2>1, PutKeepsUnique DEF UserPut, RoleRowsUnchanged, Unique
  <2>2. CASE StatusPut(id)
    <3>0. PICK status \in Statuses :
          /\ accounts' = [accounts EXCEPT ![id].status = status] /\ RoleRowsUnchanged
      BY <2>2 DEF StatusPut
    <3>1. \A x \in DOMAIN accounts : /\ accounts'[x].username = accounts[x].username
                                     /\ accounts'[x].email = accounts[x].email
      BY <3>0 DEF TypeOK, AccountMap, Account
    <3>2. DOMAIN accounts' = DOMAIN accounts
      BY <3>0
    <3>3. ASSUME NEW x \in DOMAIN accounts', NEW y \in DOMAIN accounts', x # y
          PROVE  /\ accounts'[x].username # accounts'[y].username
                 /\ accounts'[x].email # "" => accounts'[x].email # accounts'[y].email
      BY <3>1, <3>2, <3>3 DEF UniqueUsers, Unique
    <3>4. UniqueUsers(accounts')
      BY <3>3 DEF UniqueUsers
    <3> QED
      BY <3>0, <3>4 DEF RoleRowsUnchanged, Unique
  <2>3. CASE UserGone(id)
    <3>1. UniqueUsers(Without(accounts, id))
      BY DEF Without, Unique, UniqueUsers
    <3> QED
      BY <2>3, <3>1 DEF UserGone, RoleRowsUnchanged, Unique
  <2> QED
    BY <1>2, <2>1, <2>2, <2>3 DEF UserWritten
<1>3. ASSUME NEW id \in Nat \ {0}, RoleWritten(id) PROVE Unique'
  BY <1>3 DEF RoleWritten, RolePut, RoleGone, Put, Without, CodeTaken, UserRowsUnchanged,
              Unique, UniqueRoles
<1> QED
  BY <1>1, <1>2, <1>3, StoreSteps

LEMMA SameUnique ==
  ASSUME NEW as, NEW ur, NEW rs
  PROVE  /\ Directory!UniqueUsers(Users(as, ur)) <=> UniqueUsers(as)
         /\ Directory!UniqueRoles(rs) <=> UniqueRoles(rs)
  BY DEF Directory!UniqueUsers, Directory!UniqueRoles, UniqueUsers, UniqueRoles,
         Users, WithRoles

LEMMA OtherRoleIDsKept ==
  ASSUME NEW ur, NEW id, NEW held, NEW x, x # id
  PROVE  RoleIDsFor(ReplaceUserRoles(ur, id, held), x) = RoleIDsFor(ur, x)
  BY DEF RoleIDsFor, ReplaceUserRoles

(* A step that writes a user stores or removes one in the directory.          *)
LEMMA UserWriteStep ==
  ASSUME TypeOK, Unique', NEW id, UserWritten(id)
  PROVE  Directory!Next
<1> DEFINE us == Users(accounts, userRoles)
           vs == Users(accounts', userRoles')
<1>1. /\ nextUserID \in Nat \ {0} /\ DOMAIN accounts \subseteq 1..(nextUserID - 1)
      /\ UNCHANGED <<roles, nextRoleID>>
  BY DEF TypeOK, UserWritten, UserPut, StatusPut, UserGone, RoleRowsUnchanged
<1>2. Directory!UniqueUsers(vs) /\ Directory!UniqueRoles(roles')
  BY SameUnique DEF Unique
<1>3. DOMAIN us = DOMAIN accounts /\ DOMAIN vs = DOMAIN accounts'
  BY DEF Users
<1>4. CASE UserPut(id)
  <2> PICK a \in Account, held \in SUBSET Nat :
        /\ accounts' = Put(accounts, id, a)
        /\ userRoles' = ReplaceUserRoles(userRoles, id, held)
        /\ \/ id \in DOMAIN accounts /\ UNCHANGED nextUserID
           \/ id = nextUserID /\ nextUserID' = nextUserID + 1
    BY <1>4 DEF UserPut
  <2>1. \A x \in DOMAIN us \ {id} : vs[x] = us[x]
    BY OtherRoleIDsKept DEF Users, Put
  <2>2. Directory!Stores(us, vs, id) /\ id \in DOMAIN vs
    BY <1>3, <2>1 DEF Directory!Stores, Put
  <2>3. id \in DOMAIN us \/ id \notin 1..(nextUserID - 1)
    BY <1>1, <1>3
  <2>4. 1..(nextUserID' - 1) = 1..(nextUserID - 1) \cup {id}
    BY <1>1
  <2> HIDE DEF us, vs
  <2>5. Directory!StoreUser
    BY <1>1, <2>2, <2>3, <2>4 DEF Directory!StoreUser, us, vs
  <2> QED
    BY <1>2, <2>5 DEF Directory!Next, vs
<1>5. CASE StatusPut(id)
  <2> PICK status \in Statuses :
        /\ id \in DOMAIN accounts
        /\ accounts' = [accounts EXCEPT ![id].status = status]
        /\ UNCHANGED <<userRoles, nextUserID>>
    BY <1>5 DEF StatusPut
  <2>1. \A x \in DOMAIN us \ {id} : vs[x] = us[x]
    BY DEF Users
  <2>2. Directory!Stores(us, vs, id) /\ id \in DOMAIN vs /\ id \in DOMAIN us
    BY <1>3, <2>1 DEF Directory!Stores
  <2>3. 1..(nextUserID' - 1) = 1..(nextUserID - 1) \cup {id}
    BY <1>1
  <2> HIDE DEF us, vs
  <2>4. Directory!StoreUser
    BY <1>1, <2>2, <2>3 DEF Directory!StoreUser, us, vs
  <2> QED
    BY <1>2, <2>4 DEF Directory!Next, vs
<1>6. CASE UserGone(id)
  <2>1. Directory!Removes(us, vs, id) /\ id \in DOMAIN us
    BY <1>3, <1>6 DEF UserGone, Directory!Removes, Without, Users
  <2>2. UNCHANGED nextUserID
    BY <1>6 DEF UserGone
  <2> HIDE DEF us, vs
  <2>3. Directory!RemoveUser
    BY <1>1, <2>1, <2>2 DEF Directory!RemoveUser, us, vs
  <2> QED
    BY <1>2, <2>3 DEF Directory!Next, vs
<1> QED
  BY <1>4, <1>5, <1>6 DEF UserWritten

LEMMA RoleWriteStep ==
  ASSUME TypeOK, Unique', NEW id, RoleWritten(id)
  PROVE  Directory!Next
<1>1. /\ nextRoleID \in Nat \ {0} /\ DOMAIN roles \subseteq 1..(nextRoleID - 1)
      /\ UNCHANGED <<accounts, userRoles, nextUserID>>
  BY DEF TypeOK, RoleWritten, RolePut, RoleGone, UserRowsUnchanged
<1>2. /\ Directory!UniqueUsers(Users(accounts', userRoles'))
      /\ Directory!UniqueRoles(roles')
  BY SameUnique DEF Unique
<1>3. CASE RolePut(id)
  <2> PICK ro \in Role :
        /\ roles' = Put(roles, id, ro)
        /\ \/ id \in DOMAIN roles /\ UNCHANGED nextRoleID
           \/ id = nextRoleID /\ nextRoleID' = nextRoleID + 1
    BY <1>3 DEF RolePut
  <2>1. id \in DOMAIN roles' /\ Directory!Stores(roles, roles', id)
    BY DEF Put, Directory!Stores
  <2>2. id \in DOMAIN roles \/ id \notin 1..(nextRoleID - 1)
    BY <1>1
  <2>3. 1..(nextRoleID' - 1) = 1..(nextRoleID - 1) \cup {id}
    BY <1>1
  <2>4. Directory!StoreRole
    BY <1>1, <2>1, <2>2, <2>3 DEF Directory!StoreRole
  <2> QED
    BY <1>2, <2>4 DEF Directory!Next
<1>4. CASE RoleGone(id)
  <2>1. Directory!Removes(roles, roles', id) /\ id \in DOMAIN roles /\ UNCHANGED nextRoleID
    BY <1>4 DEF RoleGone, Directory!Removes, Without
  <2>2. Directory!RemoveRole
    BY <1>1, <2>1 DEF Directory!RemoveRole
  <2> QED
    BY <1>2, <2>2 DEF Directory!Next
<1> QED
  BY <1>3, <1>4 DEF RoleWritten

LEMMA LargerInterval ==
  ASSUME NEW m \in Nat, NEW n \in Nat, m <= n
  PROVE  1..(m - 1) \subseteq 1..(n - 1)
  OBVIOUS

LEMMA DirectoryStep ==
  ASSUME TypeOK, Checked, Unique, Unique', [Next]_vars
  PROVE  [Directory!Next]_(Directory!vars)
<1>1. CASE UNCHANGED store
  BY <1>1 DEF store, Directory!vars
<1>2. CASE UserIDLost \/ RoleIDLost
  <2>1. /\ nextUserID \in Nat /\ nextUserID' \in Nat /\ nextUserID <= nextUserID'
        /\ nextRoleID \in Nat /\ nextRoleID' \in Nat /\ nextRoleID <= nextRoleID'
        /\ UNCHANGED <<accounts, userRoles, roles>>
    BY <1>2 DEF TypeOK, UserIDLost, RoleIDLost, RoleRowsUnchanged, UserRowsUnchanged
  <2>2. /\ 1..(nextUserID - 1) \subseteq 1..(nextUserID' - 1)
        /\ 1..(nextRoleID - 1) \subseteq 1..(nextRoleID' - 1)
    BY <2>1, LargerInterval
  <2>3. Directory!LoseIDs
    BY <2>1, <2>2 DEF Directory!LoseIDs
  <2>4. /\ Directory!UniqueUsers(Users(accounts', userRoles'))
        /\ Directory!UniqueRoles(roles')
    BY SameUnique DEF Unique
  <2> QED
    BY <2>3, <2>4 DEF Directory!Next
<1>3. CASE \E id \in Nat \ {0} : UserWritten(id) \/ RoleWritten(id)
  BY <1>3, UserWriteStep, RoleWriteStep
<1> QED
  BY <1>1, <1>2, <1>3, StoreSteps

RowsInv == TypeOK /\ Checked /\ Unique

LEMMA RowsInvInit == Init => RowsInv
  BY InitTyped, SqlUsersAssumption DEF Init, RowsInv, Unique

LEMMA RowsInvStep == RowsInv /\ [Next]_vars => RowsInv'
  BY NextTyped, UniqueStep DEF RowsInv

(* The rows implement the directory of users and roles, whatever happens      *)
(* between the statements of a request: names, contacts and codes stay unique *)
(* although the check and the write are separate; a deleted record does not   *)
(* come back; and the values of an identity column that a failed insert used  *)
(* up are not issued again.                                                   *)
THEOREM DirectoryImplemented == Spec => ImplementsDirectory
<1>1. Init => Directory!Init
  <2> SUFFICES ASSUME Init PROVE Directory!Init
    OBVIOUS
  <2>1. TypeOK /\ Unique
    BY RowsInvInit DEF RowsInv
  <2>2. DOMAIN Users(accounts, userRoles) = DOMAIN accounts
    BY DEF Users
  <2>3. /\ DOMAIN accounts \subseteq 1..(nextUserID - 1)
        /\ DOMAIN roles \subseteq 1..(nextRoleID - 1)
    BY <2>1 DEF TypeOK
  <2>4. /\ Directory!UniqueUsers(Users(accounts, userRoles))
        /\ Directory!UniqueRoles(roles)
    BY <2>1, SameUnique DEF Unique
  <2> QED
    BY <2>2, <2>3, <2>4 DEF Directory!Init
<1>2. RowsInv /\ RowsInv' /\ [Next]_vars => [Directory!Next]_(Directory!vars)
  BY DirectoryStep DEF RowsInv
<1> QED
  BY <1>1, <1>2, RowsInvInit, RowsInvStep, PTL DEF Spec, ImplementsDirectory, Directory!Spec

----------------------------------------------------------------------------
(* The answers *)

(* How far a request has come: which requests have written, and that the ID  *)
(* a request wrote was issued.                                               *)
Progress(r) ==
  /\ pc[r] \in {"reread", "audit"} => written[r] # 0
  /\ written[r] # 0 => pc[r] \in {"reread", "audit", "done"}
  /\ written[r] # 0 => written[r] < IF call[r].op \in RoleWrites THEN nextRoleID
                                                                 ELSE nextUserID
  /\ response[r] # "none" => pc[r] = "done"

(* AnswersFitEffects, of one request. *)
Answered(r) ==
  /\ response[r] = "ok" => [request |-> r, resource |-> written[r], failed |-> FALSE] \in audit
                           /\ written[r] # 0
  /\ written[r] # 0 => response[r] \in {"none", "ok", "internal", "notFound"}
  /\ written[r] # 0 /\ response[r] = "notFound" =>
       written[r] \notin IF call[r].op \in RoleWrites THEN DOMAIN roles
                         ELSE DOMAIN accounts

AnswersInv == \A r \in Requests : Progress(r) /\ Answered(r)

(* The statements between the start of a request and its write. *)
Onward == Steps \ {"new", "reread", "audit", "done"}

(* A step of r concerns no other request, and removes nothing from the log. *)
Local(r) ==
  /\ \A q \in Requests \ {r} :
       /\ pc'[q] = pc[q] /\ call'[q] = call[q] /\ work'[q] = work[q]
       /\ response'[q] = response[q] /\ written'[q] = written[q]
  /\ audit \subseteq audit'

(* No value of an identity column comes back. *)
NoReturn ==
  /\ nextUserID' \in Nat /\ nextUserID' >= nextUserID
  /\ nextRoleID' \in Nat /\ nextRoleID' >= nextRoleID
  /\ \A id \in 1..(nextUserID - 1) : id \notin DOMAIN accounts => id \notin DOMAIN accounts'
  /\ \A id \in 1..(nextRoleID - 1) : id \notin DOMAIN roles => id \notin DOMAIN roles'

LEMMA NoneReturns ==
  ASSUME TypeOK, Checked, [Next]_vars
  PROVE  NoReturn
<1>1. nextUserID \in Nat \ {0} /\ nextRoleID \in Nat \ {0}
  BY DEF TypeOK
<1>2. CASE UNCHANGED store \/ UserIDLost \/ RoleIDLost
  BY <1>1, <1>2 DEF store, UserIDLost, RoleIDLost, RoleRowsUnchanged, UserRowsUnchanged,
                    NoReturn
<1>3. ASSUME NEW id \in Nat \ {0}, UserWritten(id) PROVE NoReturn
  <2>1. UNCHANGED <<roles, nextRoleID>>
    BY <1>3 DEF UserWritten, UserPut, StatusPut, UserGone, RoleRowsUnchanged
  <2>2. \/ nextUserID' = nextUserID /\ DOMAIN accounts' \subseteq DOMAIN accounts
        \/ /\ nextUserID' = nextUserID + 1
           /\ DOMAIN accounts' = DOMAIN accounts \cup {nextUserID}
    BY <1>3 DEF UserWritten, UserPut, StatusPut, UserGone, Put, Without
  <2> QED
    BY <1>1, <2>1, <2>2 DEF NoReturn
<1>4. ASSUME NEW id \in Nat \ {0}, RoleWritten(id) PROVE NoReturn
  <2>1. UNCHANGED <<accounts, nextUserID>>
    BY <1>4 DEF RoleWritten, RolePut, RoleGone, UserRowsUnchanged
  <2>2. \/ nextRoleID' = nextRoleID /\ DOMAIN roles' \subseteq DOMAIN roles
        \/ /\ nextRoleID' = nextRoleID + 1
           /\ DOMAIN roles' = DOMAIN roles \cup {nextRoleID}
    BY <1>4 DEF RoleWritten, RolePut, RoleGone, Put, Without
  <2> QED
    BY <1>1, <2>1, <2>2 DEF NoReturn
<1> QED
  BY <1>2, <1>3, <1>4, StoreSteps

LEMMA WriteStepValues ==
  ASSUME NEW c \in SqlCall, c.op # "resetPassword"
  PROVE  /\ WriteStep(c) \in {"name", "again", "status", "delete", "code", "role", "assigned"}
         /\ WriteStep(c) \in Onward /\ StepAfterRoles(c) \in Onward
<1>1. c.op \in Operations
  BY DEF SqlCall, CallOf
<1>2. WriteStep(c) \in {"name", "again", "status", "delete", "code", "role", "assigned"}
  BY <1>1 DEF WriteStep, Operations, UserWrites, SelfWrites, RoleWrites
<1>3. {"name", "again", "status", "delete", "code", "role", "assigned", "user"} \subseteq Onward
  BY DEF Onward, Steps
<1> QED
  BY <1>2, <1>3 DEF StepAfterRoles

(* How a read ends: the request is refused, or goes on. *)
Refusal(r) ==
  \E answer \in Responses \ {"none", "ok"} :
    /\ Refuse(r, answer)
    /\ \/ pc[r] \in Onward
       \/ /\ pc[r] = "reread" /\ answer = "notFound"
          /\ written[r] \notin IF call[r].op \in RoleWrites THEN DOMAIN roles
                               ELSE DOMAIN accounts
    /\ answer = "lastAdministrator" => pc[r] \in {"page", "pageRoles"}

GoesOn(r) ==
  /\ Unwritten
  /\ \E step, w : Continue(r, step, w) /\ step \in Onward
  /\ pc[r] \in Onward
  /\ UNCHANGED call \/ \E c : call' = [call EXCEPT ![r] = c]

Rereads(r) ==
  /\ pc[r] = "reread" /\ Unwritten /\ UNCHANGED call
  /\ \E w : Continue(r, "audit", w)

LEMMA CheckEnds ==
  ASSUME NEW r \in Requests, NEW refused, NEW answer \in Responses \ {"none", "ok"},
         NEW step \in Onward, NEW w,
         Check(r, refused, answer, step, w), pc[r] \in Onward,
         answer = "lastAdministrator" => pc[r] \in {"page", "pageRoles"}
  PROVE  Refusal(r) \/ GoesOn(r)
<1>1. CASE Refuse(r, answer)
  BY <1>1 DEF Refusal
<1>2. CASE Continue(r, step, w) /\ Unwritten /\ UNCHANGED call
  BY <1>2 DEF GoesOn
<1> QED
  BY <1>1, <1>2 DEF Check

LEMMA UnconditionalEnds ==
  ASSUME NEW r \in Requests, NEW step \in Onward, NEW w,
         Check(r, FALSE, "none", step, w), pc[r] \in Onward
  PROVE  GoesOn(r)
  BY DEF Check, GoesOn

LEMMA StepNames ==
  /\ {"user", "userRoles", "admin", "count", "page", "pageRoles", "resetRole", "find",
      "findRoles", "roles", "again", "name", "insert", "update", "role", "code",
      "insertRole", "updateRole", "assigned", "removeRole", "auditFailure"} \subseteq Onward
  /\ {"unauthorized", "forbidden", "invalid", "notFound", "conflict", "lastAdministrator",
      "internal"} \subseteq Responses \ {"none", "ok"}
  BY DEF Onward, Steps, Responses

LEMMA ProceedEnds ==
  ASSUME TypeOK, Checked, NEW r \in Requests, Proceed(r), pc[r] \in {"admin", "pageRoles"}
  PROVE  Refusal(r) \/ GoesOn(r)
<1>1. call[r].op # "resetPassword" /\ call[r] \in SqlCall
  BY RequestTypes DEF Checked, At, Targeting
<1>2. WriteStep(call[r]) \in Onward /\ pc[r] \in Onward
  BY <1>1, WriteStepValues, StepNames
<1>3. \E refused : Check(r, refused, "invalid", WriteStep(call[r]), work[r])
  BY DEF Proceed
<1> QED
  BY <1>2, <1>3, StepNames, CheckEnds

LEMMA ReadUserRolesEnds ==
  ASSUME TypeOK, Checked, NEW r \in Requests, ReadUserRoles(r)
  PROVE  Refusal(r) \/ GoesOn(r)
<1> DEFINE c == call[r]
           u == [work[r].existing EXCEPT !.roleIDs = RoleIDsFor(userRoles, Target(c))]
           seen == [work[r] EXCEPT !.existing = u]
           step == IF c.op = "changePassword" /\ c.current # u.password
                   THEN "auditFailure" ELSE WriteStep(c)
<1>1. pc[r] \in Onward /\ c \in SqlCall
  BY StepNames, RequestTypes DEF ReadUserRoles
<1>2. \/ c.op \in UserWrites /\ Check(r, FALSE, "none", "admin", seen)
      \/ c.op \in SelfWrites /\ Check(r, u.status # "active", "forbidden", step, seen)
  BY DEF ReadUserRoles
<1>3. c.op \in SelfWrites => step \in Onward
  BY <1>1, WriteStepValues, StepNames DEF SelfWrites
<1> HIDE DEF c, u, seen, step
<1> QED
  BY <1>1, <1>2, <1>3, StepNames, CheckEnds, UnconditionalEnds

LEMMA ListPageRolesEnds ==
  ASSUME TypeOK, Checked, NEW r \in Requests, ListPageRoles(r)
  PROVE  Refusal(r) \/ GoesOn(r)
<1>1. pc[r] = "pageRoles"
  BY DEF ListPageRoles
<1>2. \/ \E w : Check(r, FALSE, "none", "pageRoles", w)
      \/ Proceed(r)
      \/ \E refused, w : Check(r, refused, "lastAdministrator", "count", w)
  BY DEF ListPageRoles
<1>3. ASSUME NEW w, Check(r, FALSE, "none", "pageRoles", w) PROVE GoesOn(r)
  BY <1>1, <1>3, StepNames, UnconditionalEnds
<1>4. ASSUME NEW refused, NEW w, Check(r, refused, "lastAdministrator", "count", w)
      PROVE  Refusal(r) \/ GoesOn(r)
  BY <1>1, <1>4, StepNames, CheckEnds
<1> QED
  BY <1>1, <1>2, <1>3, <1>4, ProceedEnds

LEMMA ResetReadsEnd ==
  ASSUME TypeOK, Checked, NEW r \in Requests,
         FindResetRole(r) \/ FindUser(r) \/ FindUserRoles(r)
  PROVE  Refusal(r) \/ GoesOn(r)
<1>1. pc[r] \in {"resetRole", "find", "findRoles"} /\ pc[r] \in Onward
  BY StepNames DEF FindResetRole, FindUser, FindUserRoles
<1>2. CASE Refuse(r, "notFound")
  BY <1>1, <1>2, StepNames DEF Refusal
<1>3. CASE \E w : Check(r, FALSE, "none", "find", w)
  BY <1>1, <1>3, StepNames, UnconditionalEnds
<1>4. CASE /\ Unwritten /\ \E w : Continue(r, "findRoles", w) \/ Continue(r, "roles", w)
           /\ \E c : call' = [call EXCEPT ![r] = c]
  BY <1>1, <1>4, StepNames DEF GoesOn
<1>5. CASE FindResetRole(r)
  BY <1>2, <1>3, <1>5 DEF FindResetRole
<1>6. CASE FindUser(r)
  <2>1. \A id : call' = [call EXCEPT ![r].target = id]
                 => \E c : call' = [call EXCEPT ![r] = c]
    OBVIOUS
  <2> QED
    BY <1>2, <1>4, <1>6, <2>1 DEF FindUser
<1>7. CASE FindUserRoles(r)
  <2>1. \A e, st, held :
          call' = [call EXCEPT ![r].op = "updateUser", ![r].email = e,
                               ![r].status = st, ![r].roleIDs = held]
            => \E c : call' = [call EXCEPT ![r] = c]
    <3> SUFFICES ASSUME NEW e, NEW st, NEW held,
                        call' = [call EXCEPT ![r].op = "updateUser", ![r].email = e,
                                             ![r].status = st, ![r].roleIDs = held]
                 PROVE  call' = [call EXCEPT ![r] = call'[r]]
      OBVIOUS
    <3> QED
      BY DEF TypeOK
  <2> QED
    BY <1>2, <1>4, <1>7, <2>1 DEF FindUserRoles
<1> QED
  BY <1>5, <1>6, <1>7

LEMMA ReadEnds ==
  ASSUME TypeOK, Checked, NEW r \in Requests, Read(r)
  PROVE  Refusal(r) \/ GoesOn(r) \/ Rereads(r)
<1>1. CASE ValidateRoleIDs(r)
  <2>1. call[r].op # "resetPassword" /\ call[r] \in SqlCall /\ pc[r] \in Onward
    BY <1>1, RequestTypes, StepNames DEF ValidateRoleIDs, Checked, At
  <2>2. \E refused : Check(r, refused, "invalid", StepAfterRoles(call[r]), work[r])
    BY <1>1 DEF ValidateRoleIDs
  <2> QED
    BY <2>1, <2>2, WriteStepValues, StepNames, CheckEnds
<1>2. CASE ReadUser(r)
  <2>1. pc[r] \in Onward /\ \E refused, w : Check(r, refused, "notFound", "userRoles", w)
    BY <1>2, StepNames DEF ReadUser
  <2> QED
    BY <2>1, StepNames, CheckEnds
<1>3. CASE FindAdminRole(r)
  <2>1. \/ Proceed(r)
        \/ pc[r] \in Onward /\ \E w : Check(r, FALSE, "none", "count", w)
    BY <1>3, StepNames DEF FindAdminRole
  <2>2. pc[r] = "admin"
    BY <1>3 DEF FindAdminRole
  <2> QED
    BY <2>1, <2>2, StepNames, ProceedEnds, UnconditionalEnds
<1>4. CASE CountActiveUsers(r)
  <2>1. pc[r] \in Onward /\ \E w : Check(r, FALSE, "none", "page", w)
    BY <1>4, StepNames DEF CountActiveUsers
  <2> QED
    BY <2>1, StepNames, UnconditionalEnds
<1>5. CASE ListPage(r)
  <2>1. pc[r] = "page" /\ \E refused, w : Check(r, refused, "lastAdministrator", "pageRoles", w)
    BY <1>5 DEF ListPage
  <2> QED
    BY <2>1, StepNames, CheckEnds
<1>6. CASE ReadAgain(r) \/ CheckUsername(r) \/ ReadRole(r) \/ CheckCode(r) \/ CountAssigned(r)
  <2>1. /\ pc[r] \in Onward
        /\ \E refused, w :
             \E answer \in {"notFound", "conflict"},
                step \in {"name", "insert", "update", "code", "insertRole", "updateRole",
                          "removeRole"} :
               Check(r, refused, answer, step, w)
    BY <1>6, StepNames DEF ReadAgain, CheckUsername, ReadRole, CheckCode, CountAssigned
  <2>2. PICK refused, w : \E answer \in {"notFound", "conflict"},
                step \in {"name", "insert", "update", "code", "insertRole", "updateRole",
                          "removeRole"} :
               Check(r, refused, answer, step, w)
    BY <2>1
  <2>3. PICK answer \in {"notFound", "conflict"},
             step \in {"name", "insert", "update", "code", "insertRole", "updateRole",
                       "removeRole"} : Check(r, refused, answer, step, w)
    BY <2>2
  <2> QED
    BY <2>1, <2>3, StepNames, CheckEnds
<1>7. CASE Reread(r)
  <2> DEFINE live == IF call[r].op \in RoleWrites THEN DOMAIN roles ELSE DOMAIN accounts
  <2>1. pc[r] = "reread" /\ Check(r, written[r] \notin live, "notFound", "audit", work[r])
    BY <1>7 DEF Reread
  <2> HIDE DEF live
  <2>2. CASE written[r] \notin live /\ Refuse(r, "notFound")
    BY <2>1, <2>2, StepNames DEF Refusal, live
  <2>3. CASE Continue(r, "audit", work[r]) /\ Unwritten /\ UNCHANGED call
    BY <2>1, <2>3 DEF Rereads
  <2> QED
    BY <2>1, <2>2, <2>3 DEF Check
<1> QED
  BY <1>1, <1>2, <1>3, <1>4, <1>5, <1>6, <1>7, ReadUserRolesEnds, ListPageRolesEnds,
     ResetReadsEnd DEF Read

LEMMA FinishFacts ==
  ASSUME TypeOK, NEW r \in Requests, NEW answer, Finish(r, answer)
  PROVE  /\ pc'[r] = "done" /\ response'[r] = answer /\ call'[r] = call[r]
         /\ \A q \in Requests \ {r} :
              /\ pc'[q] = pc[q] /\ call'[q] = call[q] /\ work'[q] = work[q]
              /\ response'[q] = response[q]
  BY DEF TypeOK, Finish

LEMMA ContinueFacts ==
  ASSUME TypeOK, NEW r \in Requests, NEW step, NEW w, Continue(r, step, w),
         UNCHANGED call \/ \E c : call' = [call EXCEPT ![r] = c]
  PROVE  /\ pc'[r] = step /\ work'[r] = w /\ response'[r] = response[r]
         /\ \A q \in Requests \ {r} :
              /\ pc'[q] = pc[q] /\ call'[q] = call[q] /\ work'[q] = work[q]
              /\ response'[q] = response[q]
  BY DEF TypeOK, Continue

LEMMA UnwrittenFacts ==
  ASSUME Unwritten
  PROVE  UNCHANGED <<accounts, userRoles, roles, deletedRoles, nextUserID, nextRoleID,
                     audit, written, undisturbed>>
  BY DEF Unwritten, store, history

LEMMA CommitFacts ==
  ASSUME TypeOK, NEW r \in Requests, NEW id, NEW step, Commit(r, id, step)
  PROVE  /\ Continue(r, step, NoWork) /\ UNCHANGED <<audit, call>>
         /\ written'[r] = id
         /\ \A q \in Requests \ {r} : written'[q] = written[q]
         /\ undisturbed' = undisturbed \cap {r}
  BY DEF TypeOK, Commit

(* What the steps of r do to r itself. *)
LEMMA RefusalOwn ==
  ASSUME TypeOK, AnswersInv, NEW r \in Requests, Refusal(r)
  PROVE  Local(r) /\ Progress(r)' /\ Answered(r)'
<1> PICK answer \in Responses \ {"none", "ok"} :
      /\ Refuse(r, answer)
      /\ \/ pc[r] \in Onward
         \/ /\ pc[r] = "reread" /\ answer = "notFound"
            /\ written[r] \notin IF call[r].op \in RoleWrites THEN DOMAIN roles
                                 ELSE DOMAIN accounts
  BY DEF Refusal
<1>1. Finish(r, answer) /\ Unwritten
  BY DEF Refuse
<1>2. /\ pc'[r] = "done" /\ response'[r] = answer /\ call'[r] = call[r]
      /\ UNCHANGED <<accounts, roles, nextUserID, nextRoleID, audit, written>>
  BY <1>1, FinishFacts, UnwrittenFacts
<1>3. pc[r] \in Onward => written[r] = 0
  BY DEF AnswersInv, Progress, Onward
<1>4. Local(r)
  BY <1>1, <1>2, FinishFacts DEF Local
<1>5. Progress(r)'
  BY <1>2 DEF AnswersInv, Progress
<1>6. Answered(r)'
  BY <1>2, <1>3 DEF Answered
<1> QED
  BY <1>4, <1>5, <1>6

LEMMA GoesOnOwn ==
  ASSUME TypeOK, AnswersInv, NEW r \in Requests, GoesOn(r)
  PROVE  Local(r) /\ Progress(r)' /\ Answered(r)'
<1>1. PICK step, w : Continue(r, step, w) /\ step \in Onward
  BY DEF GoesOn
<1>2. /\ Unwritten /\ pc[r] \in Onward
      /\ UNCHANGED call \/ \E c : call' = [call EXCEPT ![r] = c]
  BY DEF GoesOn
<1>3. /\ pc'[r] = step /\ response'[r] = response[r]
      /\ UNCHANGED <<accounts, roles, nextUserID, nextRoleID, audit, written>>
  BY <1>1, <1>2, ContinueFacts, UnwrittenFacts
<1>4. written[r] = 0 /\ response[r] = "none"
  BY <1>2 DEF AnswersInv, Progress, Onward
<1>5. Local(r)
  BY <1>1, <1>2, <1>3, ContinueFacts DEF Local
<1>6. Progress(r)' /\ Answered(r)'
  BY <1>1, <1>3, <1>4 DEF Progress, Answered, Onward
<1> QED
  BY <1>5, <1>6

LEMMA RereadsOwn ==
  ASSUME TypeOK, AnswersInv, NEW r \in Requests, Rereads(r)
  PROVE  Local(r) /\ Progress(r)' /\ Answered(r)'
<1>1. PICK w : Continue(r, "audit", w)
  BY DEF Rereads
<1>2. Unwritten /\ UNCHANGED call /\ pc[r] = "reread"
  BY DEF Rereads
<1>3. /\ pc'[r] = "audit" /\ response'[r] = response[r]
      /\ UNCHANGED <<accounts, roles, nextUserID, nextRoleID, audit, written>>
  BY <1>1, <1>2, ContinueFacts, UnwrittenFacts
<1>4. Local(r)
  BY <1>1, <1>2, <1>3, ContinueFacts DEF Local
<1>5. Progress(r)'
  BY <1>2, <1>3 DEF AnswersInv, Progress
<1>6. Answered(r)'
  BY <1>2, <1>3 DEF AnswersInv, Answered
<1> QED
  BY <1>4, <1>5, <1>6

LEMMA StartOwn ==
  ASSUME TypeOK, AnswersInv, NEW r \in Requests, Start(r)
  PROVE  Local(r) /\ Progress(r)' /\ Answered(r)'
<1>1. /\ pc[r] = "new"
      /\ UNCHANGED <<accounts, roles, nextUserID, nextRoleID, audit, written>>
  BY DEF Start, store
<1>2. written[r] = 0 /\ response[r] = "none"
  BY <1>1 DEF AnswersInv, Progress
<1>3. CASE Finish(r, "invalid")
  <2>1. Local(r)
    BY <1>1, <1>3, FinishFacts DEF Local
  <2>2. Progress(r)' /\ Answered(r)'
    BY <1>1, <1>2, <1>3, FinishFacts DEF Progress, Answered
  <2> QED
    BY <2>1, <2>2
<1>4. CASE Continue(r, FirstStep(call[r]), NoWork) /\ UNCHANGED call
  <2>1. FirstStep(call[r]) \in Onward
    BY RequestTypes, WriteStepValues, StepNames DEF FirstStep
  <2>2. Local(r)
    BY <1>1, <1>4, ContinueFacts DEF Local
  <2>3. Progress(r)' /\ Answered(r)'
    BY <1>1, <1>2, <1>4, <2>1, ContinueFacts DEF Progress, Answered, Onward
  <2> QED
    BY <2>2, <2>3
<1> QED
  BY <1>3, <1>4 DEF Start

LEMMA WriteOwn ==
  ASSUME TypeOK, Checked, AnswersInv, NEW r \in Requests, Write(r)
  PROVE  Local(r) /\ Progress(r)' /\ Answered(r)'
<1>1. pc[r] \in Onward /\ pc[r] \notin {"page", "pageRoles"}
  BY StepNames DEF Write, InsertUser, UpdateUser, UpdateUserStatus, DeleteUser,
                   InsertRole, UpdateRole, DeleteRole, Onward, Steps
<1>2. written[r] = 0 /\ response[r] = "none"
  BY <1>1 DEF AnswersInv, Progress, Onward
<1>3. ASSUME NEW answer \in Responses \ {"ok"}, Finish(r, answer), UNCHANGED <<audit, history>>
      PROVE  Local(r) /\ Progress(r)' /\ Answered(r)'
  <2>1. UNCHANGED <<audit, written>>
    BY <1>3 DEF history
  <2>2. Local(r)
    BY <1>3, <2>1, FinishFacts DEF Local
  <2>3. Progress(r)' /\ Answered(r)'
    BY <1>2, <1>3, <2>1, FinishFacts DEF Progress, Answered
  <2> QED
    BY <2>2, <2>3
<1>4. ASSUME NEW id \in Nat \ {0}, NEW step \in {"reread", "audit"}, Commit(r, id, step),
             \/ UserWritten(id) /\ call[r].op \notin RoleWrites
             \/ RoleWritten(id) /\ call[r].op \in RoleWrites
      PROVE  Local(r) /\ Progress(r)' /\ Answered(r)'
  <2>1. /\ pc'[r] = step /\ written'[r] = id /\ response'[r] = "none"
        /\ UNCHANGED <<audit, call>>
    BY <1>2, <1>4, CommitFacts, ContinueFacts
  <2>2. Local(r)
    BY <1>4, <2>1, CommitFacts, ContinueFacts DEF Local
  <2>3. UserWritten(id) => id < nextUserID'
    BY DEF TypeOK, UserWritten, UserPut, StatusPut, UserGone
  <2>4. RoleWritten(id) => id < nextRoleID'
    BY DEF TypeOK, RoleWritten, RolePut, RoleGone
  <2>5. Progress(r)'
    BY <1>4, <2>1, <2>3, <2>4 DEF Progress
  <2>6. Answered(r)'
    BY <2>1 DEF Answered
  <2> QED
    BY <2>2, <2>5, <2>6
<1>5. ASSUME NEW answer \in Responses, Refuse(r, answer)
      PROVE  Finish(r, answer) /\ UNCHANGED <<audit, history>>
  BY <1>5 DEF Refuse, Unwritten
<1> QED
  BY <1>3, <1>4, <1>5, WritesEnd, Answers DEF WriteEnds

LEMMA OtherOwn ==
  ASSUME TypeOK, Checked, AnswersInv, NEW r \in Requests,
         WriteAudit(r) \/ WriteAuditFailure(r) \/ StoreFault(r)
  PROVE  Local(r) /\ Progress(r)' /\ Answered(r)'
<1>1. \E answer \in {"ok", "unauthorized", "internal"} :
        /\ Finish(r, answer)
        /\ UNCHANGED <<accounts, roles, nextUserID, nextRoleID, written>> /\ audit \subseteq audit'
        /\ answer = "ok" => pc[r] = "audit" /\ audit' = audit \cup {Entry(r, FALSE)}
        /\ answer = "unauthorized" => pc[r] = "auditFailure"
  BY DEF WriteAudit, WriteAuditFailure, StoreFault, Refuse, Unwritten, store, history
<1>2. PICK answer \in {"ok", "unauthorized", "internal"} :
        /\ Finish(r, answer)
        /\ UNCHANGED <<accounts, roles, nextUserID, nextRoleID, written>> /\ audit \subseteq audit'
        /\ answer = "ok" => pc[r] = "audit" /\ audit' = audit \cup {Entry(r, FALSE)}
        /\ answer = "unauthorized" => pc[r] = "auditFailure"
  BY <1>1
<1>3. pc'[r] = "done" /\ response'[r] = answer /\ call'[r] = call[r]
  BY <1>2, FinishFacts
<1>4. Local(r)
  BY <1>2, FinishFacts DEF Local
<1>5. Progress(r)'
  BY <1>2, <1>3 DEF AnswersInv, Progress
<1>6. Answered(r)'
  BY <1>2, <1>3 DEF AnswersInv, Progress, Answered, Entry
<1> QED
  BY <1>4, <1>5, <1>6

LEMMA OwnSteps ==
  ASSUME TypeOK, Checked, AnswersInv, NEW r \in Requests, Handle(r) \/ StoreFault(r)
  PROVE  Local(r) /\ Progress(r)' /\ Answered(r)'
  BY StartOwn, ReadEnds, RefusalOwn, GoesOnOwn, RereadsOwn, WriteOwn, OtherOwn DEF Handle

LEMMA AnswersStep ==
  ASSUME TypeOK, Checked, AnswersInv, [Next]_vars
  PROVE  AnswersInv'
<1>1. CASE UNCHANGED vars
  BY <1>1 DEF vars, store, history, AnswersInv, Progress, Answered
<1>2. ASSUME NEW r \in Requests, Handle(r) \/ StoreFault(r) PROVE AnswersInv'
  <2>1. Local(r) /\ Progress(r)' /\ Answered(r)'
    BY <1>2, OwnSteps
  <2>2. ASSUME NEW q \in Requests \ {r} PROVE Progress(q)' /\ Answered(q)'
    <3>1. /\ pc'[q] = pc[q] /\ call'[q] = call[q] /\ response'[q] = response[q]
          /\ written'[q] = written[q] /\ audit \subseteq audit'
      BY <2>1 DEF Local
    <3>2. /\ Progress(q) /\ Answered(q) /\ written[q] \in Nat
          /\ nextUserID \in Nat /\ nextRoleID \in Nat
      BY DEF AnswersInv, TypeOK
    <3>3. NoReturn
      BY NoneReturns
    <3>4. Progress(q)'
      BY <3>1, <3>2, <3>3 DEF Progress, NoReturn
    <3>5. /\ written[q] # 0 /\ call[q].op \in RoleWrites => written[q] \in 1..(nextRoleID - 1)
          /\ written[q] # 0 /\ call[q].op \notin RoleWrites => written[q] \in 1..(nextUserID - 1)
      BY <3>2 DEF Progress
    <3>6. Answered(q)'
      BY <3>1, <3>2, <3>3, <3>5 DEF Answered, NoReturn
    <3> QED
      BY <3>4, <3>6
  <2> QED
    BY <2>1, <2>2 DEF AnswersInv
<1> QED
  BY <1>1, <1>2 DEF Next, Quiescent

LEMMA AnswersInit == Init => AnswersInv
  BY DEF Init, AnswersInv, Progress, Answered

(* However statements interleave and whichever of them fails: success is      *)
(* answered only after the write and its audit entry, and a request that has  *)
(* written and is told that its record is not there is told what will stay    *)
(* true.                                                                      *)
THEOREM AnswersCorrect == Spec => []AnswersFitEffects
<1>1. AnswersInv => AnswersFitEffects
  BY DEF AnswersInv, Answered, AnswersFitEffects
<1> QED
  BY <1>1, InitTyped, NextTyped, AnswersInit, AnswersStep, PTL DEF Spec

----------------------------------------------------------------------------
(* Requests that no other request has disturbed: what such a request has read *)
(* is still so at its next statement.                                         *)

(* The rows before the k+1st of the active users show no other administrator. *)
Position(as, id) == Cardinality({x \in ActiveUsers(as) : x <= id})
OtherAdministrator(ur, c, w, id) == id # Target(c) /\ w.adminRole \in RoleIDsFor(ur, id)
NoneBefore(as, ur, c, w, k) ==
  \A id \in ActiveUsers(as) : Position(as, id) <= k => ~OtherAdministrator(ur, c, w, id)

OnPage(as, page, id) == /\ Position(as, id) > (page - 1) * PageSize
                        /\ Position(as, id) <= page * PageSize

(* The search for another administrator. *)
Searched(as, ur, rs, c, step, w) ==
  /\ FirstAdminRole(rs, w.adminRole)
  /\ w.existing.status = "active" /\ w.adminRole \in w.existing.roleIDs
  /\ w.page >= 1
  /\ (w.page - 1) * PageSize < Cardinality(ActiveUsers(as))
  /\ NoneBefore(as, ur, c, w, (w.page - 1) * PageSize)
  /\ step # "count" => w.total = Cardinality(ActiveUsers(as))
  /\ step = "pageRoles" =>
       \/ w.found
       \/ \A id \in ActiveUsers(as) \ w.listed :
            OnPage(as, w.page, id) => ~OtherAdministrator(ur, c, w, id)

BeforeRoles == {"new", "resetRole", "find", "findRoles", "roles", "done"}

Known(as, ur, rs, c, step, w) ==
  /\ c.op \in {"createUser", "updateUser"} /\ step \notin BeforeRoles
       => c.roleIDs \subseteq DOMAIN rs
  /\ step = "userRoles" => /\ Target(c) \in DOMAIN as
                           /\ w.existing = WithRoles(as[Target(c)], {})
  /\ step \in {"admin", "count", "page", "pageRoles"}
     \/ (step \in {"again", "name", "update"} /\ c.op \in SelfWrites)
       => Target(c) \in DOMAIN as /\ w.existing = Users(as, ur)[Target(c)]
  /\ step \in {"count", "page", "pageRoles"} => Searched(as, ur, rs, c, step, w)
  /\ step = "removeRole" => \A id \in DOMAIN as : c.target \notin RoleIDsFor(ur, id)

StillKnown ==
  \A r \in undisturbed :
    written[r] = 0 => Known(accounts, userRoles, roles, call[r], pc[r], work[r])

----------------------------------------------------------------------------
(* The positions of the active users *)

LEMMA Positions ==
  ASSUME TypeOK, NEW id \in ActiveUsers(accounts)
  PROVE  Position(accounts, id) \in 1..Cardinality(ActiveUsers(accounts))
<1> DEFINE S == ActiveUsers(accounts)
           before == {x \in S : x <= id}
<1>1. S \subseteq Nat /\ IsFiniteSet(S)
  BY ActiveFinite
<1>2. before \subseteq S /\ id \in before
  BY <1>1
<1>3. IsFiniteSet(before) /\ Cardinality(before) <= Cardinality(S)
  BY <1>1, <1>2, FS_Subset
<1>4. Cardinality(before) \in Nat /\ Cardinality(before) # 0 /\ Cardinality(S) \in Nat
  BY <1>1, <1>2, <1>3, FS_EmptySet, FS_CardinalityType
<1>5. Position(accounts, id) = Cardinality(before)
  BY DEF Position
<1> HIDE DEF before, S
<1> QED
  BY <1>3, <1>4, <1>5 DEF S

LEMMA PositionsDiffer ==
  ASSUME TypeOK, NEW x \in ActiveUsers(accounts), NEW y \in ActiveUsers(accounts), x < y
  PROVE  Position(accounts, x) # Position(accounts, y)
<1> DEFINE S == ActiveUsers(accounts)
           upTo(z) == {w \in S : w <= z}
<1>1. S \subseteq Nat /\ IsFiniteSet(S)
  BY ActiveFinite
<1>2. x \in Nat /\ y \in Nat /\ upTo(x) \subseteq upTo(y) /\ y \in upTo(y) /\ y \notin upTo(x)
  BY <1>1
<1>3. IsFiniteSet(upTo(y))
  BY <1>1, FS_Subset
<1>4. Position(accounts, x) = Cardinality(upTo(x)) /\ Position(accounts, y) = Cardinality(upTo(y))
  BY DEF Position
<1> HIDE DEF upTo
<1> QED
  BY <1>2, <1>3, <1>4, FS_Subset

(* LIMIT and OFFSET skip nobody. *)
LEMMA EveryPosition ==
  ASSUME TypeOK, NEW k \in 1..Cardinality(ActiveUsers(accounts))
  PROVE  \E id \in ActiveUsers(accounts) : Position(accounts, id) = k
<1> DEFINE S == ActiveUsers(accounts)
           N == Cardinality(S)
           f == [id \in S |-> Position(accounts, id)]
<1>1. S \subseteq Nat /\ IsFiniteSet(S) /\ N \in Nat
  BY ActiveFinite
<1>2. f \in [S -> 1..N]
  BY Positions
<1>3. ASSUME NEW a \in S, NEW b \in S, f[a] = f[b] PROVE a = b
  <2>1. ~(a < b) /\ ~(b < a)
    BY <1>3, PositionsDiffer
  <2> QED
    BY <1>1, <2>1
<1>4. f \in Injection(S, 1..N)
  BY <1>2, <1>3 DEF Injection, IsInjective
<1>5. IsFiniteSet(1..N) /\ Cardinality(1..N) = N
  BY <1>1, FS_Interval
<1>6. f \in Surjection(S, 1..N)
  <2> HIDE DEF f, S
  <2> QED
    BY <1>4, <1>5, FS_Injection
<1> QED
  BY <1>6 DEF Surjection

----------------------------------------------------------------------------
(* What a request knows after a read *)

KnownNow(r) == Known(accounts, userRoles, roles, call[r], pc[r], work[r])
KnownNext(r) == Known(accounts, userRoles, roles, call'[r], pc'[r], work'[r])

LEMMA BeforeKnown ==
  ASSUME NEW as, NEW ur, NEW rs, NEW c, NEW step \in BeforeRoles, NEW w
  PROVE  Known(as, ur, rs, c, step, w)
  BY DEF Known, BeforeRoles

LEMMA FinishKnown ==
  ASSUME TypeOK, NEW r \in Requests, NEW answer, Finish(r, answer)
  PROVE  KnownNext(r)
<1>1. pc'[r] = "done" /\ "done" \in BeforeRoles
  BY FinishFacts DEF BeforeRoles
<1> QED
  BY <1>1, BeforeKnown DEF KnownNext

LEMMA ContinueKnown ==
  ASSUME TypeOK, NEW r \in Requests, NEW step, NEW w, Continue(r, step, w), UNCHANGED call,
         Known(accounts, userRoles, roles, call[r], step, w)
  PROVE  KnownNext(r)
  BY ContinueFacts DEF KnownNext

LEMMA CheckKnown ==
  ASSUME TypeOK, NEW r \in Requests, NEW refused, NEW answer, NEW step, NEW w,
         Check(r, refused, answer, step, w),
         ~refused => Known(accounts, userRoles, roles, call[r], step, w)
  PROVE  KnownNext(r)
  BY FinishKnown, ContinueKnown DEF Check, Refuse

LEMMA ValidateRoleIDsKnown ==
  ASSUME TypeOK, Checked, NEW r \in Requests, ValidateRoleIDs(r)
  PROVE  KnownNext(r)
<1> DEFINE c == call[r]
<1>1. c.op \in {"createUser", "updateUser"}
  BY DEF ValidateRoleIDs, Checked, At
<1>2. StepAfterRoles(c) \in {"name", "user"}
  BY <1>1 DEF StepAfterRoles, WriteStep, RoleWrites, SelfWrites
<1>3. c.op \notin SelfWrites
  BY <1>1 DEF SelfWrites
<1>4. c.roleIDs \subseteq DOMAIN roles
        => Known(accounts, userRoles, roles, c, StepAfterRoles(c), work[r])
  BY <1>2, <1>3 DEF Known
<1> QED
  BY <1>4, CheckKnown DEF ValidateRoleIDs

LEMMA ReadUserKnown ==
  ASSUME TypeOK, Checked, NEW r \in Requests, ReadUser(r), KnownNow(r)
  PROVE  KnownNext(r)
<1> DEFINE id == Target(call[r])
           w == [work[r] EXCEPT !.existing = WithRoles(accounts[id], {})]
<1>1. pc[r] = "user" /\ Check(r, id \notin DOMAIN accounts, "notFound", "userRoles", w)
  BY DEF ReadUser
<1>2. w.existing = WithRoles(accounts[id], {})
  BY RequestTypes DEF Work
<1> HIDE DEF w
<1>3. id \in DOMAIN accounts
        => Known(accounts, userRoles, roles, call[r], "userRoles", w)
  BY <1>1, <1>2 DEF KnownNow, Known, BeforeRoles
<1> QED
  BY <1>1, <1>3, CheckKnown

LEMMA ReadUserRolesKnown ==
  ASSUME TypeOK, Checked, NEW r \in Requests, ReadUserRoles(r), KnownNow(r)
  PROVE  KnownNext(r)
<1> DEFINE c == call[r]
           u == [work[r].existing EXCEPT !.roleIDs = RoleIDsFor(userRoles, Target(c))]
           w == [work[r] EXCEPT !.existing = u]
           mismatch == c.op = "changePassword" /\ c.current # u.password
           step == IF mismatch THEN "auditFailure" ELSE WriteStep(c)
<1>1. /\ Target(c) \in DOMAIN accounts /\ work[r].existing = WithRoles(accounts[Target(c)], {})
      /\ c.op \in {"createUser", "updateUser"} => c.roleIDs \subseteq DOMAIN roles
  BY DEF ReadUserRoles, KnownNow, Known, BeforeRoles
<1>2. u = Users(accounts, userRoles)[Target(c)]
  BY <1>1 DEF WithRoles, Users
<1>3. w.existing = u
  BY RequestTypes DEF Work
<1>4. \/ c.op \in UserWrites /\ Check(r, FALSE, "none", "admin", w)
      \/ c.op \in SelfWrites /\ Check(r, u.status # "active", "forbidden", step, w)
  BY DEF ReadUserRoles
<1>5. c.op \in SelfWrites => step \in {"auditFailure", "again"}
  BY DEF WriteStep, SelfWrites
<1> HIDE DEF u, w, step
<1>6. Known(accounts, userRoles, roles, c, "admin", w)
  BY <1>1, <1>2, <1>3 DEF Known
<1>7. c.op \in SelfWrites => Known(accounts, userRoles, roles, c, step, w)
  BY <1>1, <1>2, <1>3, <1>5 DEF Known
<1> QED
  BY <1>4, <1>6, <1>7, CheckKnown

LEMMA ProceedKnown ==
  ASSUME TypeOK, Checked, NEW r \in Requests, Proceed(r), KnownNow(r),
         pc[r] \in {"admin", "pageRoles"}
  PROVE  KnownNext(r)
<1> DEFINE c == call[r]
<1>1. c.op \in Targeting
  BY DEF Checked, At
<1>2. WriteStep(c) \in {"again", "status", "delete"} /\ c.op \notin SelfWrites
  BY <1>1 DEF WriteStep, Targeting, SelfWrites
<1>3. c.op \in {"createUser", "updateUser"} => c.roleIDs \subseteq DOMAIN roles
  BY DEF KnownNow, Known, BeforeRoles
<1>4. Known(accounts, userRoles, roles, c, WriteStep(c), work[r])
  BY <1>2, <1>3 DEF Known
<1>5. \E refused : Check(r, refused, "invalid", WriteStep(c), work[r])
  BY DEF Proceed
<1> QED
  BY <1>4, <1>5, CheckKnown

LEMMA TargetKnown ==
  ASSUME NEW as, NEW ur, NEW rs, NEW c, NEW step, NEW w, Known(as, ur, rs, c, step, w),
         step \in {"admin", "count", "page", "pageRoles"}
  PROVE  /\ Target(c) \in DOMAIN as /\ w.existing = Users(as, ur)[Target(c)]
         /\ c.op \in {"createUser", "updateUser"} => c.roleIDs \subseteq DOMAIN rs
<1>1. step \notin BeforeRoles
  BY DEF BeforeRoles
<1> QED
  BY <1>1 DEF Known

(* The search begins while the user to be written is an active administrator. *)
LEMMA FindAdminRoleKnown ==
  ASSUME TypeOK, Checked, NEW r \in Requests, FindAdminRole(r), KnownNow(r)
  PROVE  KnownNext(r)
<1> DEFINE c == call[r]
           u == work[r].existing
<1>0. pc[r] = "admin"
  BY DEF FindAdminRole
<1>1. /\ Target(c) \in DOMAIN accounts /\ u = Users(accounts, userRoles)[Target(c)]
      /\ c.op \in {"createUser", "updateUser"} => c.roleIDs \subseteq DOMAIN roles
  BY <1>0, TargetKnown DEF KnownNow
<1>2. ASSUME NEW a \in DOMAIN roles, FirstAdminRole(roles, a),
             u.status = "active", a \in u.roleIDs,
             Check(r, FALSE, "none", "count", [work[r] EXCEPT !.adminRole = a, !.page = 1])
      PROVE  KnownNext(r)
  <2> DEFINE w == [work[r] EXCEPT !.adminRole = a, !.page = 1]
             S == ActiveUsers(accounts)
  <2>1. w.adminRole = a /\ w.page = 1 /\ w.existing = u
    BY RequestTypes DEF Work
  <2> HIDE DEF w
  <2>2. Target(c) \in S
    BY <1>1, <1>2 DEF ActiveUsers, Users, WithRoles
  <2>3. \A id \in S : Position(accounts, id) \in Nat \ {0}
    BY Positions
  <2>4. Cardinality(S) \in Nat /\ 0 < Cardinality(S)
    BY <2>2, ActiveFinite, Positions
  <2>5. (w.page - 1) * PageSize = 0
    BY <2>1, SqlUsersAssumption
  <2>6. NoneBefore(accounts, userRoles, c, w, 0)
    BY <2>3 DEF NoneBefore
  <2>7. Searched(accounts, userRoles, roles, c, "count", w)
    BY <1>2, <2>1, <2>4, <2>5, <2>6 DEF Searched
  <2>8. Known(accounts, userRoles, roles, c, "count", w)
    BY <1>1, <2>1, <2>7 DEF Known
  <2> QED
    BY <1>2, <2>8, CheckKnown DEF w
<1> QED
  BY <1>0, <1>2, ProceedKnown DEF FindAdminRole

LEMMA CountActiveUsersKnown ==
  ASSUME TypeOK, Checked, NEW r \in Requests, CountActiveUsers(r), KnownNow(r)
  PROVE  KnownNext(r)
<1> DEFINE c == call[r]
           total == Cardinality(ActiveUsers(accounts))
           w == [work[r] EXCEPT !.total = total]
<1>1. pc[r] = "count" /\ Check(r, FALSE, "none", "page", w)
  BY DEF CountActiveUsers
<1>2. /\ w.existing = work[r].existing /\ w.adminRole = work[r].adminRole
      /\ w.page = work[r].page /\ w.total = total
  BY RequestTypes DEF Work
<1> HIDE DEF w
<1>3. Searched(accounts, userRoles, roles, c, "count", work[r])
  BY <1>1 DEF KnownNow, Known
<1>4. Searched(accounts, userRoles, roles, c, "page", w)
  BY <1>2, <1>3 DEF Searched, NoneBefore, OtherAdministrator
<1>5. Known(accounts, userRoles, roles, c, "page", w)
  BY <1>1, <1>2, <1>4 DEF KnownNow, Known, BeforeRoles
<1> QED
  BY <1>1, <1>5, CheckKnown

LEMMA PageIsOnPage ==
  ASSUME TypeOK, NEW page
  PROVE  PageOfActiveUsers(page) = {id \in ActiveUsers(accounts) : OnPage(accounts, page, id)}
  BY DEF PageOfActiveUsers, OnPage, Position

LEMMA ListPageKnown ==
  ASSUME TypeOK, Checked, NEW r \in Requests, ListPage(r), KnownNow(r)
  PROVE  KnownNext(r)
<1> DEFINE c == call[r]
           listed == PageOfActiveUsers(work[r].page)
           w == [work[r] EXCEPT !.listed = listed, !.found = FALSE]
<1>1. pc[r] = "page" /\ Check(r, listed = {}, "lastAdministrator", "pageRoles", w)
  BY DEF ListPage
<1>2. /\ w.existing = work[r].existing /\ w.adminRole = work[r].adminRole
      /\ w.page = work[r].page /\ w.total = work[r].total /\ w.listed = listed
  BY RequestTypes DEF Work
<1>3. \A id \in ActiveUsers(accounts) \ listed : ~OnPage(accounts, work[r].page, id)
  BY PageIsOnPage
<1> HIDE DEF w, listed
<1>4. Searched(accounts, userRoles, roles, c, "page", work[r])
  BY <1>1 DEF KnownNow, Known
<1>5. Searched(accounts, userRoles, roles, c, "pageRoles", w)
  BY <1>2, <1>3, <1>4 DEF Searched, NoneBefore, OtherAdministrator
<1>6. Known(accounts, userRoles, roles, c, "pageRoles", w)
  BY <1>1, <1>2, <1>5 DEF KnownNow, Known, BeforeRoles
<1> QED
  BY <1>1, <1>6, CheckKnown

(* The roles of the next user of a page; after the last, the next page.       *)
LEMMA NextListedKnown ==
  ASSUME TypeOK, NEW c, NEW w \in Work, NEW id \in w.listed, NEW found \in BOOLEAN,
         Searched(accounts, userRoles, roles, c, "pageRoles", w),
         found <=> w.found \/ OtherAdministrator(userRoles, c, w, id)
  PROVE  Searched(accounts, userRoles, roles, c, "pageRoles",
                  [w EXCEPT !.listed = w.listed \ {id}, !.found = found])
<1> DEFINE v == [w EXCEPT !.listed = w.listed \ {id}, !.found = found]
<1>1. /\ v.existing = w.existing /\ v.adminRole = w.adminRole
      /\ v.page = w.page /\ v.total = w.total
      /\ v.listed = w.listed \ {id} /\ v.found = found
  BY DEF Work
<1> HIDE DEF v
<1>2. \A x : OtherAdministrator(userRoles, c, v, x) <=> OtherAdministrator(userRoles, c, w, x)
  BY <1>1 DEF OtherAdministrator
<1>3. v.found \/ \A x \in ActiveUsers(accounts) \ v.listed :
                   OnPage(accounts, v.page, x) => ~OtherAdministrator(userRoles, c, v, x)
  BY <1>1, <1>2 DEF Searched
<1>4. NoneBefore(accounts, userRoles, c, v, (v.page - 1) * PageSize)
  BY <1>1, <1>2 DEF Searched, NoneBefore
<1>5. Searched(accounts, userRoles, roles, c, "pageRoles", v)
  BY <1>1, <1>3, <1>4 DEF Searched
<1> QED
  BY <1>5 DEF v

(* A page on which there was nobody else. *)
LEMMA PagePassed ==
  ASSUME TypeOK, NEW c, NEW w \in Work, w.listed = {}, ~w.found,
         Searched(accounts, userRoles, roles, c, "pageRoles", w)
  PROVE  NoneBefore(accounts, userRoles, c, w, w.page * PageSize)
<1> SUFFICES ASSUME NEW id \in ActiveUsers(accounts), Position(accounts, id) <= w.page * PageSize
             PROVE  ~OtherAdministrator(userRoles, c, w, id)
  BY DEF NoneBefore
<1>1. CASE Position(accounts, id) <= (w.page - 1) * PageSize
  BY <1>1 DEF Searched, NoneBefore
<1>2. CASE ~(Position(accounts, id) <= (w.page - 1) * PageSize)
  <2>1. Position(accounts, id) \in Nat /\ (w.page - 1) * PageSize \in Int
    <3>1. Position(accounts, id) \in Nat
      BY Positions, ActiveFinite
    <3>2. w.page \in Nat /\ PageSize \in Nat
      BY SqlUsersAssumption DEF Work
    <3> QED
      BY <3>1, <3>2
  <2>2. OnPage(accounts, w.page, id)
    BY <1>2, <2>1 DEF OnPage
  <2> QED
    BY <2>2 DEF Searched
<1> QED
  BY <1>1, <1>2

LEMMA NextPageKnown ==
  ASSUME TypeOK, NEW c, NEW w \in Work, w.listed = {}, ~w.found,
         Searched(accounts, userRoles, roles, c, "pageRoles", w),
         ~(w.page * PageSize >= w.total)
  PROVE  Searched(accounts, userRoles, roles, c, "count", [w EXCEPT !.page = w.page + 1])
<1> DEFINE v == [w EXCEPT !.page = w.page + 1]
<1>1. /\ v.existing = w.existing /\ v.adminRole = w.adminRole
      /\ v.page = w.page + 1 /\ w.page \in Nat
  BY DEF Work
<1> HIDE DEF v
<1>2. v.page - 1 = w.page /\ v.page >= 1
  BY <1>1
<1>3. NoneBefore(accounts, userRoles, c, v, (v.page - 1) * PageSize)
  BY <1>1, <1>2, PagePassed DEF NoneBefore, OtherAdministrator
<1>4. w.total = Cardinality(ActiveUsers(accounts)) /\ w.total \in Nat
  BY ActiveFinite DEF Searched
<1>5. w.page * PageSize \in Nat
  BY <1>1, SqlUsersAssumption
<1>6. (v.page - 1) * PageSize < Cardinality(ActiveUsers(accounts))
  BY <1>2, <1>4, <1>5
<1>7. Searched(accounts, userRoles, roles, c, "count", v)
  BY <1>1, <1>2, <1>3, <1>6 DEF Searched
<1> QED
  BY <1>7 DEF v

(* The ends of ListPageRoles, with the record the handler goes on with.       *)
Seen(w, id, found) == [w EXCEPT !.listed = w.listed \ {id}, !.found = found]
Turned(w) == [w EXCEPT !.page = w.page + 1]

LEMMA ListPageRolesCases ==
  ASSUME TypeOK, NEW r \in Requests, ListPageRoles(r)
  PROVE  \E id \in work[r].listed, found \in BOOLEAN :
           /\ found <=> work[r].found \/ OtherAdministrator(userRoles, call[r], work[r], id)
           /\ LET w == Seen(work[r], id, found)
              IN  \/ Check(r, FALSE, "none", "pageRoles", w)
                  \/ Proceed(r)
                  \/ /\ w.listed = {} /\ ~w.found
                     /\ Check(r, w.page * PageSize >= w.total, "lastAdministrator", "count",
                              Turned(w))
<1> DEFINE c == call[r]
           w == work[r]
<1>1. PICK id \in w.listed :
        LET found == w.found \/ (/\ id # Target(c)
                                 /\ w.adminRole \in RoleIDsFor(userRoles, id))
            v == Seen(w, id, found)
        IN  \/ Check(r, FALSE, "none", "pageRoles", v)
            \/ Proceed(r)
            \/ /\ v.listed = {} /\ ~v.found
               /\ Check(r, v.page * PageSize >= v.total, "lastAdministrator", "count", Turned(v))
  BY DEF ListPageRoles, Seen, Turned
<1> DEFINE found == w.found \/ (id # Target(c) /\ w.adminRole \in RoleIDsFor(userRoles, id))
<1>2. found \in BOOLEAN
  BY RequestTypes DEF Work
<1>3. found <=> w.found \/ OtherAdministrator(userRoles, c, w, id)
  BY DEF OtherAdministrator
<1> QED
  BY <1>1, <1>2, <1>3

LEMMA ListPageRolesKnown ==
  ASSUME TypeOK, Checked, NEW r \in Requests, ListPageRoles(r), KnownNow(r)
  PROVE  KnownNext(r)
<1> DEFINE c == call[r]
           w == work[r]
<1>1. pc[r] = "pageRoles" /\ w \in Work
  BY RequestTypes DEF ListPageRoles
<1>2. Searched(accounts, userRoles, roles, c, "pageRoles", w)
  BY <1>1 DEF KnownNow, Known
<1>3. PICK id \in w.listed, found \in BOOLEAN :
        /\ found <=> w.found \/ OtherAdministrator(userRoles, c, w, id)
        /\ \/ Check(r, FALSE, "none", "pageRoles", Seen(w, id, found))
           \/ Proceed(r)
           \/ /\ Seen(w, id, found).listed = {} /\ ~Seen(w, id, found).found
              /\ Check(r, Seen(w, id, found).page * PageSize >= Seen(w, id, found).total,
                       "lastAdministrator", "count", Turned(Seen(w, id, found)))
  BY ListPageRolesCases
<1> DEFINE v == Seen(w, id, found)
<1>4. v \in Work
  BY <1>1, <1>3 DEF Work, Seen
<1>5. Searched(accounts, userRoles, roles, c, "pageRoles", v)
  BY <1>1, <1>2, <1>3, NextListedKnown DEF Seen
<1> HIDE DEF v
<1>6. /\ Target(c) \in DOMAIN accounts /\ w.existing = Users(accounts, userRoles)[Target(c)]
      /\ c.op \in {"createUser", "updateUser"} => c.roleIDs \subseteq DOMAIN roles
  BY <1>1, TargetKnown DEF KnownNow
<1>7. v.existing = w.existing /\ Turned(v).existing = w.existing
  BY <1>1, <1>4 DEF v, Seen, Turned, Work
<1>8. Known(accounts, userRoles, roles, c, "pageRoles", v)
  BY <1>5, <1>6, <1>7 DEF Known
<1>9. v.listed = {} /\ ~v.found /\ ~(v.page * PageSize >= v.total)
        => Known(accounts, userRoles, roles, c, "count", Turned(v))
  <2> SUFFICES ASSUME v.listed = {}, ~v.found, ~(v.page * PageSize >= v.total)
               PROVE  Known(accounts, userRoles, roles, c, "count", Turned(v))
    OBVIOUS
  <2>1. Searched(accounts, userRoles, roles, c, "count", Turned(v))
    BY <1>4, <1>5, NextPageKnown DEF Turned
  <2> QED
    BY <1>6, <1>7, <2>1 DEF Known
<1>10. \/ Check(r, FALSE, "none", "pageRoles", v)
       \/ Proceed(r)
       \/ /\ v.listed = {} /\ ~v.found
          /\ Check(r, v.page * PageSize >= v.total, "lastAdministrator", "count", Turned(v))
  BY <1>3 DEF v
<1> QED
  BY <1>1, <1>8, <1>9, <1>10, CheckKnown, ProceedKnown

LEMMA ResetReadsKnown ==
  ASSUME TypeOK, Checked, NEW r \in Requests,
         FindResetRole(r) \/ FindUser(r) \/ FindUserRoles(r)
  PROVE  KnownNext(r)
<1>1. \A step \in {"find", "findRoles", "roles", "done"} : step \in BeforeRoles
  BY DEF BeforeRoles
<1>2. pc'[r] \in {"find", "findRoles", "roles", "done"}
  BY DEF FindResetRole, FindUser, FindUserRoles, Refuse, Finish, Check, Continue, TypeOK
<1> QED
  BY <1>1, <1>2, BeforeKnown DEF KnownNext

LEMMA OtherReadsKnown ==
  ASSUME TypeOK, Checked, NEW r \in Requests, KnownNow(r),
         ReadAgain(r) \/ CheckUsername(r) \/ ReadRole(r) \/ CheckCode(r)
  PROVE  KnownNext(r)
<1> DEFINE c == call[r]
<1>1. \E refused, answer :
        \E step \in {"name", "insert", "update", "code", "insertRole", "updateRole"} :
          /\ Check(r, refused, answer, step, work[r])
          /\ step \in {"name", "update"} => pc[r] \in {"again", "name"}
          /\ pc[r] \notin BeforeRoles
  BY DEF ReadAgain, CheckUsername, ReadRole, CheckCode, BeforeRoles
<1>2. PICK refused, answer :
        \E step \in {"name", "insert", "update", "code", "insertRole", "updateRole"} :
          /\ Check(r, refused, answer, step, work[r])
          /\ step \in {"name", "update"} => pc[r] \in {"again", "name"}
          /\ pc[r] \notin BeforeRoles
  BY <1>1
<1>3. PICK step \in {"name", "insert", "update", "code", "insertRole", "updateRole"} :
        /\ Check(r, refused, answer, step, work[r])
        /\ step \in {"name", "update"} => pc[r] \in {"again", "name"}
        /\ pc[r] \notin BeforeRoles
  BY <1>2
<1>4. Known(accounts, userRoles, roles, c, step, work[r])
  BY <1>3 DEF KnownNow, Known
<1> QED
  BY <1>3, <1>4, CheckKnown

LEMMA CountAssignedKnown ==
  ASSUME TypeOK, Checked, NEW r \in Requests, CountAssigned(r)
  PROVE  KnownNext(r)
<1> DEFINE c == call[r]
           assigned == \E p \in userRoles : p[1] \in DOMAIN accounts /\ p[2] = c.target
<1>1. c.op \in RoleWrites
  BY DEF CountAssigned, Checked, At
<1>2. c.op \notin {"createUser", "updateUser"}
  BY <1>1 DEF RoleWrites
<1>3. ASSUME ~assigned
      PROVE  \A id \in DOMAIN accounts : c.target \notin RoleIDsFor(userRoles, id)
  BY <1>3 DEF RoleIDsFor
<1>4. Check(r, assigned, "conflict", "removeRole", work[r])
  BY DEF CountAssigned
<1>5. ASSUME ~assigned PROVE Known(accounts, userRoles, roles, c, "removeRole", work[r])
  BY <1>2, <1>3, <1>5 DEF Known
<1> HIDE DEF assigned
<1> QED
  BY <1>4, <1>5, CheckKnown

LEMMA StartKnown ==
  ASSUME TypeOK, Checked, NEW r \in Requests, Start(r)
  PROVE  KnownNext(r)
<1> DEFINE c == call[r]
<1>1. c \in SqlCall
  BY RequestTypes
<1>2. ASSUME FirstStep(c) \in BeforeRoles
      PROVE  Known(accounts, userRoles, roles, c, FirstStep(c), NoWork)
  BY <1>2, BeforeKnown
<1>3. ASSUME FirstStep(c) \notin BeforeRoles
      PROVE  Known(accounts, userRoles, roles, c, FirstStep(c), NoWork)
  <2>1. /\ FirstStep(c) = StepAfterRoles(c) /\ c.op # "resetPassword"
        /\ c.op \in {"createUser", "updateUser"} => c.roleIDs = {}
    BY <1>3 DEF FirstStep, BeforeRoles
  <2>2. c.op \in Operations
    BY <1>1, <2>1 DEF SqlCall, CallOf
  <2>3. StepAfterRoles(c) \in {"user", "name", "code", "role", "assigned"}
    BY <2>2 DEF StepAfterRoles, WriteStep, Operations, UserWrites, SelfWrites, RoleWrites
  <2>4. StepAfterRoles(c) = "name" => c.op \notin SelfWrites
    BY <2>2 DEF StepAfterRoles, WriteStep, UserWrites, SelfWrites, RoleWrites
  <2> QED
    BY <2>1, <2>3, <2>4 DEF Known
<1>4. Known(accounts, userRoles, roles, c, FirstStep(c), NoWork)
  BY <1>2, <1>3
<1> QED
  BY <1>4, FinishKnown, ContinueKnown DEF Start

LEMMA ReadKnown ==
  ASSUME TypeOK, Checked, NEW r \in Requests, KnownNow(r), Read(r), pc[r] # "reread"
  PROVE  KnownNext(r)
  BY ValidateRoleIDsKnown, ReadUserKnown, ReadUserRolesKnown, FindAdminRoleKnown,
     CountActiveUsersKnown, ListPageKnown, ListPageRolesKnown, ResetReadsKnown,
     OtherReadsKnown, CountAssignedKnown DEF Read, Reread

LEMMA StillKnownFrame ==
  ASSUME StillKnown, NEW r \in Requests, Local(r), UNCHANGED <<accounts, userRoles, roles>>,
         undisturbed' \subseteq undisturbed \cup {r},
         undisturbed \subseteq Requests,
         r \in undisturbed' /\ written'[r] = 0 => KnownNext(r)
  PROVE  StillKnown'
<1> SUFFICES ASSUME NEW q \in undisturbed', written'[q] = 0
             PROVE  Known(accounts, userRoles, roles, call'[q], pc'[q], work'[q])
  BY DEF StillKnown
<1>1. CASE q = r
  BY <1>1 DEF KnownNext
<1>2. CASE q # r
  BY <1>2 DEF Local, StillKnown
<1> QED
  BY <1>1, <1>2

KnownInv == RowsInv /\ AnswersInv /\ StillKnown

LEMMA StillKnownStep ==
  ASSUME KnownInv, [Next]_vars
  PROVE  StillKnown'
<1>0. TypeOK /\ Checked /\ AnswersInv /\ StillKnown /\ undisturbed \subseteq Requests
  BY DEF KnownInv, RowsInv, TypeOK
<1>1. CASE UNCHANGED vars
  BY <1>0, <1>1 DEF vars, store, history, StillKnown
<1>2. ASSUME NEW r \in Requests, Handle(r) \/ StoreFault(r) PROVE StillKnown'
  <2>1. Local(r)
    BY <1>0, <1>2, OwnSteps
  <2>2. ASSUME NEW answer, Finish(r, answer), UNCHANGED <<accounts, userRoles, roles>>,
               undisturbed' \subseteq undisturbed \cup {r}
        PROVE  StillKnown'
    BY <1>0, <2>1, <2>2, FinishKnown, StillKnownFrame
  <2>3. CASE Start(r)
    BY <1>0, <2>1, <2>3, StartKnown, StillKnownFrame DEF Start, store
  <2>4. CASE Read(r)
    <3>1. Unwritten
      BY <1>0, <2>4, ReadEnds DEF Refusal, Refuse, GoesOn, Rereads
    <3>2. /\ UNCHANGED <<accounts, userRoles, roles>> /\ written'[r] = written[r]
          /\ undisturbed' = undisturbed
      BY <3>1, UnwrittenFacts
    <3>3. r \in undisturbed /\ written[r] = 0 => KnownNow(r) /\ pc[r] # "reread"
      BY <1>0 DEF StillKnown, KnownNow, AnswersInv, Progress
    <3> QED
      BY <1>0, <2>1, <2>4, <3>2, <3>3, ReadKnown, StillKnownFrame
  <2>5. CASE Write(r)
    <3>1. CASE \E answer : Refuse(r, answer)
      BY <2>2, <3>1, UnwrittenFacts DEF Refuse
    <3>2. CASE \E answer : /\ Finish(r, answer) /\ UNCHANGED <<audit, history>>
                           /\ UserIDLost \/ RoleIDLost
      BY <2>2, <3>2 DEF history, UserIDLost, RoleIDLost, RoleRowsUnchanged, UserRowsUnchanged
    <3>3. CASE \E id \in Nat \ {0} : \E step : Commit(r, id, step)
      BY <1>0, <3>3, CommitFacts DEF StillKnown
    <3> QED
      BY <1>0, <2>5, <3>1, <3>2, <3>3, WritesEnd DEF WriteEnds
  <2>6. CASE WriteAudit(r) \/ WriteAuditFailure(r) \/ StoreFault(r)
    BY <2>2, <2>6, UnwrittenFacts
       DEF WriteAudit, WriteAuditFailure, StoreFault, Refuse, store, history
  <2> QED
    BY <1>2, <2>3, <2>4, <2>5, <2>6 DEF Handle
<1> QED
  BY <1>1, <1>2 DEF Next, Quiescent

LEMMA KnownInvInit == Init => KnownInv
<1>1. Init => StillKnown
  BY DEF Init, StillKnown
<1> QED
  BY <1>1, RowsInvInit, AnswersInit DEF KnownInv

LEMMA KnownInvStep == KnownInv /\ [Next]_vars => KnownInv'
<1>1. KnownInv /\ [Next]_vars => StillKnown'
  BY StillKnownStep
<1>2. KnownInv => RowsInv /\ TypeOK /\ Checked /\ AnswersInv
  BY DEF KnownInv, RowsInv
<1> QED
  BY <1>1, <1>2, RowsInvStep, AnswersStep DEF KnownInv

----------------------------------------------------------------------------
(* Who is refused as the last administrator *)

LEMMA RefuserSearches ==
  ASSUME KnownInv, NEW r \in Requests, Handle(r) \/ StoreFault(r),
         response'[r] = "lastAdministrator", response[r] = "none"
  PROVE  ListPage(r) \/ ListPageRoles(r)
<1>0. TypeOK /\ Checked
  BY DEF KnownInv, RowsInv
<1>1. ASSUME NEW answer, Finish(r, answer) PROVE answer = "lastAdministrator"
  BY <1>0, <1>1, FinishFacts
<1>2. ASSUME NEW step, NEW w, Continue(r, step, w) PROVE FALSE
  BY <1>2 DEF Continue
<1>3. CASE Read(r)
  <2>1. pc[r] \in {"page", "pageRoles"}
    BY <1>0, <1>1, <1>2, <1>3, ReadEnds DEF Refusal, Refuse, GoesOn, Rereads
  <2> QED
    BY <1>3, <2>1 DEF Read, ValidateRoleIDs, ReadUser, ReadUserRoles, FindAdminRole,
       CountActiveUsers, FindResetRole, FindUser, FindUserRoles, ReadAgain,
       CheckUsername, ReadRole, CheckCode, CountAssigned, Reread
<1>4. CASE Write(r)
  BY <1>0, <1>1, <1>2, <1>4, WritesEnd DEF WriteEnds, Refuse, Commit
<1>5. CASE Start(r) \/ WriteAudit(r) \/ WriteAuditFailure(r) \/ StoreFault(r)
  BY <1>1, <1>2, <1>5 DEF Start, WriteAudit, WriteAuditFailure, StoreFault, Refuse
<1> QED
  BY <1>3, <1>4, <1>5 DEF Handle

(* A page inside the count has somebody on it. *)
LEMMA PageNotEmpty ==
  ASSUME TypeOK, NEW page \in Nat, page >= 1,
         (page - 1) * PageSize < Cardinality(ActiveUsers(accounts))
  PROVE  PageOfActiveUsers(page) # {}
<1> DEFINE start == (page - 1) * PageSize
           N == Cardinality(ActiveUsers(accounts))
<1>1. PageSize \in Nat \ {0} /\ page - 1 \in Nat
  BY SqlUsersAssumption
<1>2. start \in Nat /\ page * PageSize = start + PageSize /\ N \in Nat
  BY <1>1, ActiveFinite
<1> HIDE DEF start
<1>3. start + 1 \in 1..N /\ start < start + 1 /\ start + 1 <= page * PageSize
  BY <1>1, <1>2 DEF start
<1>4. PICK id \in ActiveUsers(accounts) : Position(accounts, id) = start + 1
  BY <1>3, EveryPosition
<1>5. OnPage(accounts, page, id)
  BY <1>3, <1>4 DEF OnPage, start
<1> QED
  BY <1>5, PageIsOnPage

(* Nobody else among the active users is an administrator. *)
LEMMA OnlyAdministrator ==
  ASSUME RowsInv, NEW c, NEW w \in Work,
         Target(c) \in DOMAIN accounts,
         w.existing = Users(accounts, userRoles)[Target(c)],
         FirstAdminRole(roles, w.adminRole),
         w.existing.status = "active", w.adminRole \in w.existing.roleIDs,
         \A id \in ActiveUsers(accounts) : ~OtherAdministrator(userRoles, c, w, id)
  PROVE  Administrators(Users(accounts, userRoles), roles) = {Target(c)}
<1> DEFINE us == Users(accounts, userRoles)
           a == w.adminRole
<1>1. AdminRoles(roles) = {a}
  BY DEF RowsInv, Unique, UniqueRoles, FirstAdminRole, AdminRoles
<1>2. /\ DOMAIN us = DOMAIN accounts
      /\ \A id \in DOMAIN accounts : /\ us[id].status = accounts[id].status
                                     /\ us[id].roleIDs = RoleIDsFor(userRoles, id)
  BY DEF Users, WithRoles
<1>3. ActiveUsers(us) = ActiveUsers(accounts)
  BY <1>2 DEF ActiveUsers
<1>4. ActiveUsers(accounts) \subseteq DOMAIN accounts
  BY DEF ActiveUsers
<1> HIDE DEF us
<1>5. Administrators(us, roles)
        = {id \in ActiveUsers(accounts) : a \in RoleIDsFor(userRoles, id)}
  BY <1>1, <1>2, <1>3, <1>4 DEF Administrators
<1>6. Target(c) \in ActiveUsers(accounts) /\ a \in RoleIDsFor(userRoles, Target(c))
  BY <1>2 DEF ActiveUsers, us
<1> QED
  BY <1>5, <1>6 DEF OtherAdministrator, us

LEMMA RefusedRightly ==
  ASSUME KnownInv, NEW r \in undisturbed, ListPage(r) \/ ListPageRoles(r),
         response'[r] = "lastAdministrator", response[r] = "none"
  PROVE  Administrators(Users(accounts, userRoles), roles) = {Target(call[r])}
<1> DEFINE c == call[r]
           w == work[r]
<1>1. RowsInv /\ TypeOK /\ Checked /\ r \in Requests
  BY DEF KnownInv, RowsInv, TypeOK
<1>2. w \in Work /\ pc[r] \in {"page", "pageRoles"} /\ written[r] = 0
  BY <1>1, RequestTypes DEF ListPage, ListPageRoles, KnownInv, AnswersInv, Progress
<1>3. Known(accounts, userRoles, roles, c, pc[r], w)
  BY <1>2 DEF KnownInv, StillKnown
<1>4. Searched(accounts, userRoles, roles, c, pc[r], w)
  BY <1>2, <1>3 DEF Known
<1>5. Target(c) \in DOMAIN accounts /\ w.existing = Users(accounts, userRoles)[Target(c)]
  BY <1>2, <1>3, TargetKnown
<1>6. ASSUME NEW step, NEW v, Continue(r, step, v) PROVE FALSE
  BY <1>6 DEF Continue
<1>7. CASE ListPage(r)
  <2>1. PageOfActiveUsers(w.page) = {}
    BY <1>6, <1>7 DEF ListPage, Check
  <2>2. w.page \in Nat /\ w.page >= 1
        /\ (w.page - 1) * PageSize < Cardinality(ActiveUsers(accounts))
    BY <1>2, <1>4 DEF Searched, Work
  <2> QED
    BY <1>1, <2>1, <2>2, PageNotEmpty
<1>8. CASE ListPageRoles(r)
  <2>1. PICK id \in w.listed, found \in BOOLEAN :
          /\ found <=> w.found \/ OtherAdministrator(userRoles, c, w, id)
          /\ \/ Check(r, FALSE, "none", "pageRoles", Seen(w, id, found))
             \/ Proceed(r)
             \/ /\ Seen(w, id, found).listed = {} /\ ~Seen(w, id, found).found
                /\ Check(r, Seen(w, id, found).page * PageSize >= Seen(w, id, found).total,
                         "lastAdministrator", "count", Turned(Seen(w, id, found)))
    BY <1>1, <1>8, ListPageRolesCases
  <2> DEFINE v == Seen(w, id, found)
  <2>2. ~Proceed(r)
    <3>1. ASSUME Finish(r, "invalid") PROVE FALSE
      BY <1>1, <3>1, FinishFacts
    <3> QED
      BY <1>6, <3>1 DEF Proceed, Check, Refuse
  <2>3. Searched(accounts, userRoles, roles, c, "pageRoles", v)
    BY <1>1, <1>2, <1>4, <1>8, <2>1, NextListedKnown DEF ListPageRoles, Seen
  <2>4. /\ v \in Work /\ v.page = w.page
        /\ v.adminRole = w.adminRole /\ v.existing = w.existing /\ v.total = w.total
    BY <1>2, <2>1 DEF Work, Seen
  <2> HIDE DEF v
  <2>5. v.listed = {} /\ ~v.found /\ w.page * PageSize >= w.total
    BY <1>6, <2>1, <2>2, <2>4 DEF Check, v
  <2>6. NoneBefore(accounts, userRoles, c, v, w.page * PageSize)
    BY <1>1, <2>3, <2>4, <2>5, PagePassed
  <2>7. w.total = Cardinality(ActiveUsers(accounts))
    BY <1>4, <1>8 DEF ListPageRoles, Searched
  <2>8. \A x \in ActiveUsers(accounts) : Position(accounts, x) <= w.page * PageSize
    <3>1. w.page * PageSize \in Nat
      BY <1>2, SqlUsersAssumption DEF Work
    <3>2. Cardinality(ActiveUsers(accounts)) \in Nat
      BY <1>1, ActiveFinite
    <3> QED
      BY <1>1, <2>5, <2>7, <3>1, <3>2, Positions
  <2>9. \A x \in ActiveUsers(accounts) : ~OtherAdministrator(userRoles, c, w, x)
    BY <2>4, <2>6, <2>8 DEF NoneBefore, OtherAdministrator
  <2> QED
    BY <1>1, <1>2, <1>4, <1>5, <2>9, OnlyAdministrator DEF Searched
<1> QED
  BY <1>7, <1>8

(* Who is told that it would remove the last active administrator is writing  *)
(* to the only one there is, as long as no other request writes meanwhile:    *)
(* the pages of the search leave nobody out, however many there are.          *)
THEOREM RefusalsJustified == Spec => RefusalJustified
<1>1. ASSUME KnownInv, [Next]_vars, NEW r \in undisturbed,
             response'[r] = "lastAdministrator", response[r] = "none"
      PROVE  Administrators(Users(accounts, userRoles), roles) = {Target(call[r])}
  <2>1. r \in Requests
    BY <1>1 DEF KnownInv, RowsInv, TypeOK
  <2>2. ~UNCHANGED vars
    BY <1>1 DEF vars
  <2>3. PICK q \in Requests : Handle(q) \/ StoreFault(q)
    BY <1>1, <2>2 DEF Next, Quiescent
  <2>4. Local(q)
    BY <1>1, <2>3, OwnSteps DEF KnownInv, RowsInv
  <2>5. q = r
    BY <1>1, <2>1, <2>4 DEF Local
  <2> QED
    BY <1>1, <2>3, <2>5, RefuserSearches, RefusedRightly
<1>2. KnownInv /\ [Next]_vars
        => [\A r \in undisturbed :
              response'[r] = "lastAdministrator" /\ response[r] = "none"
                => Administrators(Users(accounts, userRoles), roles) = {Target(call[r])}]_vars
  BY <1>1
<1> QED
  BY <1>2, KnownInvInit, KnownInvStep, PTL DEF Spec, RefusalJustified

----------------------------------------------------------------------------
(* The roles of the users *)

LEMMA KnownRoles ==
  ASSUME NEW as, NEW ur, NEW rs
  PROVE  RolesKnown(Users(as, ur), rs)
           <=> \A id \in DOMAIN as : RoleIDsFor(ur, id) \subseteq DOMAIN rs
  BY DEF RolesKnown, Users, WithRoles

LEMMA ReplacedRoleIDs ==
  ASSUME NEW ur \in SUBSET (Nat \X Nat), NEW id \in Nat, NEW held \in SUBSET Nat, NEW x
  PROVE  RoleIDsFor(ReplaceUserRoles(ur, id, held), x)
           = IF x = id THEN held ELSE RoleIDsFor(ur, x)
<1> DEFINE new == ReplaceUserRoles(ur, id, held)
<1>1. new \in SUBSET (Nat \X Nat)
  BY ReplacedType
<1>2. \A y : <<x, y>> \in new <=> IF x = id THEN y \in held ELSE <<x, y>> \in ur
  BY DEF ReplaceUserRoles
<1>3. ASSUME NEW rows \in SUBSET (Nat \X Nat), NEW y
      PROVE  y \in RoleIDsFor(rows, x) <=> <<x, y>> \in rows
  BY DEF RoleIDsFor
<1> HIDE DEF new
<1>4. \A y : y \in RoleIDsFor(new, x) <=> y \in IF x = id THEN held ELSE RoleIDsFor(ur, x)
  BY <1>1, <1>2, <1>3
<1> QED
  BY <1>4 DEF new

(* The role IDs a user is to have are those of roles.                         *)
LEMMA SubmittedRolesKnown ==
  ASSUME TypeOK, Checked, NEW r \in Requests, KnownNow(r), pc[r] \in {"insert", "update"},
         RolesKnown(Users(accounts, userRoles), roles)
  PROVE  Submitted(r).roleIDs \subseteq DOMAIN roles
<1> DEFINE c == call[r]
           u == work[r].existing
<1>1. c.op \in {"createUser", "updateUser"} \cup SelfWrites
  BY DEF Checked, At
<1>2. CASE c.op \in {"createUser", "updateUser"}
  <2>1. c.roleIDs \subseteq DOMAIN roles
    BY <1>2 DEF KnownNow, Known, BeforeRoles
  <2>2. Submitted(r).roleIDs = c.roleIDs
    BY <1>2 DEF Submitted
  <2> QED
    BY <2>1, <2>2
<1>3. CASE c.op \in SelfWrites
  <2>1. pc[r] = "update"
    BY <1>3 DEF Checked, At, SelfWrites
  <2>2. Target(c) \in DOMAIN accounts /\ u = Users(accounts, userRoles)[Target(c)]
    BY <1>3, <2>1 DEF KnownNow, Known
  <2>3. u.roleIDs \subseteq DOMAIN roles
    BY <2>2 DEF RolesKnown, Users
  <2>4. u \in User
    BY <1>3, <2>1 DEF Checked, At
  <2>5. Submitted(r).roleIDs = u.roleIDs
    BY <1>3, <2>4 DEF Submitted, SelfWrites, User
  <2> QED
    BY <2>3, <2>5
<1> QED
  BY <1>1, <1>2, <1>3

LEMMA PutKeepsKnown ==
  ASSUME TypeOK, RolesKnown(Users(accounts, userRoles), roles),
         NEW id \in Nat, NEW a, NEW held \in SUBSET Nat, held \subseteq DOMAIN roles,
         accounts' = Put(accounts, id, a), userRoles' = ReplaceUserRoles(userRoles, id, held),
         roles' = roles
  PROVE  RolesKnown(Users(accounts', userRoles'), roles')
<1>1. DOMAIN accounts' \subseteq DOMAIN accounts \cup {id}
  BY DEF Put
<1>2. userRoles \in SUBSET (Nat \X Nat)
  BY DEF TypeOK
<1>3. \A x : RoleIDsFor(userRoles', x) = IF x = id THEN held ELSE RoleIDsFor(userRoles, x)
  BY <1>2, ReplacedRoleIDs
<1> QED
  BY <1>1, <1>3, KnownRoles

LEMMA WriteKeepsKnown ==
  ASSUME KnownInv, NEW r \in Requests, Write(r), written[r] # written'[r], r \in undisturbed,
         RolesKnown(Users(accounts, userRoles), roles)
  PROVE  RolesKnown(Users(accounts', userRoles'), roles')
<1>0. TypeOK /\ Checked
  BY DEF KnownInv, RowsInv
<1>1. pc[r] \in Onward
  BY StepNames DEF Write, InsertUser, UpdateUser, UpdateUserStatus, DeleteUser,
                   InsertRole, UpdateRole, DeleteRole, Onward, Steps
<1>2. written[r] = 0
  BY <1>1 DEF KnownInv, AnswersInv, Progress, Onward
<1>3. KnownNow(r)
  BY <1>2 DEF KnownInv, StillKnown, KnownNow
<1>4. \A id \in DOMAIN accounts : RoleIDsFor(userRoles, id) \subseteq DOMAIN roles
  BY KnownRoles
<1>5. ASSUME NEW answer, Refuse(r, answer) PROVE FALSE
  BY <1>5, UnwrittenFacts DEF Refuse
<1>6. ~UNCHANGED history
  BY DEF history
<1>7. CASE InsertUser(r) \/ UpdateUser(r)
  <2>1. /\ Submitted(r).roleIDs \subseteq DOMAIN roles /\ Submitted(r).roleIDs \in SUBSET Nat
    <3>1. pc[r] \in {"insert", "update"}
      BY <1>7 DEF InsertUser, UpdateUser
    <3>2. Submitted(r) \in User
      BY <1>0, <3>1, SubmittedType
    <3> QED
      BY <1>0, <1>3, <3>1, <3>2, RowType, SubmittedRolesKnown
  <2>2. \E id \in Nat : \E a :
          /\ accounts' = Put(accounts, id, a)
          /\ userRoles' = ReplaceUserRoles(userRoles, id, Submitted(r).roleIDs)
          /\ roles' = roles
    <3>1. nextUserID \in Nat /\ Target(call[r]) \in Nat
      BY <1>0, RequestTypes DEF TypeOK
    <3>2. CASE InsertUser(r)
      BY <1>6, <3>1, <3>2 DEF InsertUser, RoleRowsUnchanged
    <3>3. CASE UpdateUser(r)
      BY <1>5, <3>1, <3>3 DEF UpdateUser, RoleRowsUnchanged
    <3> QED
      BY <1>7, <3>2, <3>3
  <2> QED
    BY <1>0, <2>1, <2>2, PutKeepsKnown
<1>8. CASE UpdateUserStatus(r) \/ DeleteUser(r)
  <2>1. /\ DOMAIN accounts' \subseteq DOMAIN accounts
        /\ UNCHANGED <<userRoles, roles>>
    BY <1>5, <1>8 DEF UpdateUserStatus, DeleteUser, Without, RoleRowsUnchanged
  <2> QED
    BY <1>4, <2>1, KnownRoles
<1>9. CASE InsertRole(r) \/ UpdateRole(r)
  <2>1. /\ DOMAIN roles \subseteq DOMAIN roles'
        /\ UNCHANGED <<accounts, userRoles>>
    BY <1>5, <1>6, <1>9 DEF InsertRole, UpdateRole, Put, UserRowsUnchanged
  <2> QED
    BY <1>4, <2>1, KnownRoles
<1>10. CASE DeleteRole(r)
  <2>1. /\ roles' = Without(roles, call[r].target)
        /\ UNCHANGED <<accounts, userRoles>>
    BY <1>5, <1>10 DEF DeleteRole, UserRowsUnchanged
  <2>2. \A id \in DOMAIN accounts : call[r].target \notin RoleIDsFor(userRoles, id)
    BY <1>3, <1>10 DEF DeleteRole, KnownNow, Known
  <2>3. DOMAIN roles' = DOMAIN roles \ {call[r].target}
    BY <2>1 DEF Without
  <2> QED
    BY <1>4, <2>1, <2>2, <2>3, KnownRoles
<1> QED
  BY <1>7, <1>8, <1>9, <1>10 DEF Write

(* While every role ID a user has is the ID of a role, a write keeps it so if *)
(* no other request has written since it began: what validateRoleIDs, GetUser *)
(* and the count of DeleteRole have read is still true at the write.          *)
THEOREM RolesStayKnown == Spec => KeepsRolesKnown
<1>1. ASSUME KnownInv, [Next]_vars, RolesKnown(Users(accounts, userRoles), roles),
             Committing \subseteq undisturbed
      PROVE  RolesKnown(Users(accounts', userRoles'), roles')
  <2>0. TypeOK /\ Checked
    BY <1>1 DEF KnownInv, RowsInv
  <2>1. CASE UNCHANGED <<accounts, userRoles, roles>>
    BY <1>1, <2>1
  <2>2. ASSUME NEW r \in Requests, Write(r)
        PROVE  \/ UNCHANGED <<accounts, userRoles, roles>>
               \/ written[r] # written'[r]
    <3>1. CASE \E answer : Refuse(r, answer)
      BY <3>1, UnwrittenFacts DEF Refuse
    <3>2. CASE UserIDLost \/ RoleIDLost
      BY <3>2 DEF UserIDLost, RoleIDLost, RoleRowsUnchanged, UserRowsUnchanged
    <3>3. CASE \E id \in Nat \ {0} : \E step : Commit(r, id, step)
      <4>1. written[r] = 0
        <5>1. pc[r] \in Onward
          BY <2>2, StepNames DEF Write, InsertUser, UpdateUser, UpdateUserStatus, DeleteUser,
                           InsertRole, UpdateRole, DeleteRole, Onward, Steps
        <5> QED
          BY <1>1, <5>1 DEF KnownInv, AnswersInv, Progress, Onward
      <4> QED
        BY <2>0, <3>3, <4>1, CommitFacts
    <3> QED
      BY <2>0, <2>2, <3>1, <3>2, <3>3, WritesEnd DEF WriteEnds
  <2>3. ASSUME NEW r \in Requests, Read(r) PROVE UNCHANGED <<accounts, userRoles, roles>>
    BY <2>0, <2>3, ReadEnds, UnwrittenFacts DEF Refusal, Refuse, GoesOn, Rereads
  <2>4. ASSUME NEW r \in Requests,
               Start(r) \/ WriteAudit(r) \/ WriteAuditFailure(r) \/ StoreFault(r)
        PROVE  UNCHANGED <<accounts, userRoles, roles>>
    BY <2>4 DEF Start, WriteAudit, WriteAuditFailure, StoreFault, Refuse, Unwritten, store
  <2>5. ASSUME NEW r \in Requests, Write(r), written[r] # written'[r]
        PROVE  RolesKnown(Users(accounts', userRoles'), roles')
    BY <1>1, <2>5, WriteKeepsKnown DEF Committing
  <2>6. UNCHANGED vars => UNCHANGED <<accounts, userRoles, roles>>
    BY DEF vars, store
  <2> QED
    BY <1>1, <2>1, <2>2, <2>3, <2>4, <2>5, <2>6 DEF Next, Handle, Quiescent
<1>2. KnownInv /\ [Next]_vars
        => [RolesKnown(Users(accounts, userRoles), roles) /\ Committing \subseteq undisturbed
              => RolesKnown(Users(accounts', userRoles'), roles')]_vars
  BY <1>1
<1> QED
  BY <1>2, KnownInvInit, KnownInvStep, PTL DEF Spec, KeepsRolesKnown

----------------------------------------------------------------------------
(* Every request comes nearer to its answer *)

Search == {"count", "page", "pageRoles"}

(* The order in which a request executes its statements; those of the search *)
(* for another administrator come again and again.                           *)
Rank(step) ==
  CASE step = "new" -> 0
    [] step = "resetRole" -> 1
    [] step = "find" -> 2
    [] step = "findRoles" -> 3
    [] step = "roles" -> 4
    [] step = "user" -> 5
    [] step = "userRoles" -> 6
    [] step = "admin" -> 7
    [] step \in Search -> 8
    [] step \in {"again", "role"} -> 9
    [] step \in {"name", "code"} -> 10
    [] step \in {"insert", "update", "status", "delete",
                 "insertRole", "updateRole", "assigned"} -> 11
    [] step = "removeRole" -> 12
    [] step = "reread" -> 13
    [] step \in {"audit", "auditFailure"} -> 14
    [] step = "done" -> 15

(* A step of the search: the count, the rows of the page counted for, the    *)
(* roles of one listed user after another, and the next page, provided that  *)
(* the count was not reached.                                                *)
SearchGoesOn(r) ==
  LET w == work[r]
      v == work'[r]
  IN
  \/ /\ pc[r] = "count" /\ pc'[r] = "page"
     /\ v.page = w.page /\ v.total = Cardinality(ActiveUsers(accounts))
  \/ /\ pc[r] = "page" /\ pc'[r] = "pageRoles"
     /\ v.page = w.page /\ v.total = w.total /\ v.listed \subseteq ActiveUsers(accounts)
  \/ /\ pc[r] = "pageRoles" /\ pc'[r] = "pageRoles"
     /\ v.page = w.page /\ v.total = w.total
     /\ \E id \in w.listed : v.listed = w.listed \ {id}
  \/ /\ pc[r] = "pageRoles" /\ pc'[r] = "count"
     /\ v.page = w.page + 1 /\ ~(w.page * PageSize >= w.total)

(* A step of a request brings it nearer to its answer; others do not move it. *)
Advances(r) ==
  IF Handle(r) \/ StoreFault(r)
  THEN Rank(pc'[r]) > Rank(pc[r]) \/ SearchGoesOn(r)
  ELSE UNCHANGED <<pc[r], work[r]>>

(* No search has come further than to a page that the IDs issued can fill. *)
PagesBounded ==
  \A r \in Requests : pc[r] \in Search =>
    /\ work[r].page >= 1 /\ (work[r].page - 1) * PageSize < nextUserID
    /\ pc[r] # "count" => work[r].total < nextUserID
    /\ pc[r] = "pageRoles" => IsFiniteSet(work[r].listed)

LEMMA DoneLast == \A step \in Steps \ {"done"} : Rank("done") > Rank(step)
  BY DEF Rank, Steps, Search

(* A read that is no step of the search. *)
LEMMA CheckAdvances ==
  ASSUME TypeOK, NEW r \in Requests, pc[r] # "done",
         NEW refused, NEW answer, NEW step, NEW w, Check(r, refused, answer, step, w),
         Rank(step) > Rank(pc[r]), step \notin Search
  PROVE  Rank(pc'[r]) > Rank(pc[r]) /\ pc'[r] \notin Search
<1>1. pc[r] \in Steps \ {"done"}
  BY DEF TypeOK
<1>2. CASE Refuse(r, answer)
  BY <1>1, <1>2, FinishFacts, DoneLast DEF Refuse, Search
<1>3. CASE Continue(r, step, w) /\ UNCHANGED call
  BY <1>3, ContinueFacts
<1> QED
  BY <1>2, <1>3 DEF Check

LEMMA ProceedAdvances ==
  ASSUME TypeOK, Checked, NEW r \in Requests, Proceed(r), pc[r] \in {"admin", "pageRoles"}
  PROVE  Rank(pc'[r]) > Rank(pc[r]) /\ pc'[r] \notin Search
<1>1. call[r].op # "resetPassword" /\ call[r] \in SqlCall
  BY RequestTypes DEF Checked, At, Targeting
<1>2. WriteStep(call[r]) \in {"name", "again", "status", "delete", "code", "role", "assigned"}
  BY <1>1, WriteStepValues
<1>3. Rank(WriteStep(call[r])) > Rank(pc[r]) /\ WriteStep(call[r]) \notin Search
  BY <1>2 DEF Rank, Search
<1>4. \E refused : Check(r, refused, "invalid", WriteStep(call[r]), work[r])
  BY DEF Proceed
<1> QED
  BY <1>3, <1>4, CheckAdvances

LEMMA SearchAdvances ==
  ASSUME TypeOK, Checked, NEW r \in Requests,
         CountActiveUsers(r) \/ ListPage(r) \/ ListPageRoles(r)
  PROVE  \/ Rank(pc'[r]) > Rank(pc[r]) /\ pc'[r] \notin Search
         \/ SearchGoesOn(r)
<1>0. work[r] \in Work /\ \A step \in Search : Rank("done") > Rank(step)
  BY RequestTypes, DoneLast DEF Rank, Search
<1>1. CASE CountActiveUsers(r)
  <2> DEFINE w == [work[r] EXCEPT !.total = Cardinality(ActiveUsers(accounts))]
  <2>1. pc[r] = "count" /\ Continue(r, "page", w) /\ UNCHANGED call
    BY <1>1 DEF CountActiveUsers, Check
  <2>2. w.page = work[r].page /\ w.total = Cardinality(ActiveUsers(accounts))
    BY <1>0 DEF Work
  <2> HIDE DEF w
  <2> QED
    BY <2>1, <2>2, ContinueFacts DEF SearchGoesOn
<1>2. CASE ListPage(r)
  <2> DEFINE listed == PageOfActiveUsers(work[r].page)
             w == [work[r] EXCEPT !.listed = listed, !.found = FALSE]
  <2>1. pc[r] = "page" /\ Check(r, listed = {}, "lastAdministrator", "pageRoles", w)
    BY <1>2 DEF ListPage
  <2>2. w.page = work[r].page /\ w.total = work[r].total /\ w.listed = listed
    BY <1>0 DEF Work
  <2>3. listed \subseteq ActiveUsers(accounts)
    BY PageIsOnPage
  <2> HIDE DEF w, listed
  <2>4. CASE Refuse(r, "lastAdministrator")
    BY <1>0, <2>1, <2>4, FinishFacts DEF Refuse, Search
  <2>5. CASE Continue(r, "pageRoles", w) /\ UNCHANGED call
    BY <2>1, <2>2, <2>3, <2>5, ContinueFacts DEF SearchGoesOn
  <2> QED
    BY <2>1, <2>4, <2>5 DEF Check
<1>3. CASE ListPageRoles(r)
  <2>1. PICK id \in work[r].listed, found \in BOOLEAN :
          LET w == Seen(work[r], id, found)
          IN  \/ Check(r, FALSE, "none", "pageRoles", w)
              \/ Proceed(r)
              \/ Check(r, w.page * PageSize >= w.total, "lastAdministrator", "count", Turned(w))
    BY <1>3, ListPageRolesCases
  <2> DEFINE w == Seen(work[r], id, found)
  <2>2. /\ w.page = work[r].page /\ w.total = work[r].total
        /\ w.listed = work[r].listed \ {id} /\ Turned(w).page = work[r].page + 1
    BY <1>0 DEF Work, Seen, Turned
  <2>3. pc[r] = "pageRoles" /\ pc[r] \in Search
    BY <1>3 DEF ListPageRoles, Search
  <2> HIDE DEF w
  <2>4. CASE Check(r, FALSE, "none", "pageRoles", w)
    BY <2>2, <2>3, <2>4, ContinueFacts DEF Check, SearchGoesOn
  <2>5. CASE Check(r, w.page * PageSize >= w.total, "lastAdministrator", "count", Turned(w))
    <3>1. CASE Refuse(r, "lastAdministrator")
      BY <1>0, <2>3, <3>1, FinishFacts DEF Refuse, Search
    <3>2. CASE /\ ~(w.page * PageSize >= w.total)
               /\ Continue(r, "count", Turned(w)) /\ UNCHANGED call
      BY <2>2, <2>3, <3>2, ContinueFacts DEF SearchGoesOn
    <3> QED
      BY <2>5, <3>1, <3>2 DEF Check
  <2> QED
    BY <2>1, <2>3, <2>4, <2>5, ProceedAdvances DEF w
<1> QED
  BY <1>1, <1>2, <1>3

(* Where a search begins. *)
SearchBegins(r) == pc[r] = "admin" /\ pc'[r] = "count" /\ work'[r].page = 1

LEMMA ReadAdvances ==
  ASSUME TypeOK, Checked, NEW r \in Requests, Read(r)
  PROVE  \/ /\ Rank(pc'[r]) > Rank(pc[r])
            /\ pc'[r] \notin Search \/ SearchBegins(r)
         \/ SearchGoesOn(r)
<1> DEFINE Later == Rank(pc'[r]) > Rank(pc[r]) /\ pc'[r] \notin Search
<1>1. CASE ValidateRoleIDs(r)
  <2>1. /\ call[r].op # "resetPassword" /\ call[r] \in SqlCall
        /\ pc[r] = "roles" /\ Rank(pc[r]) = 4
    BY <1>1, RequestTypes DEF ValidateRoleIDs, Checked, At, Rank, Search
  <2>2. \E refused : Check(r, refused, "invalid", StepAfterRoles(call[r]), work[r])
    BY <1>1 DEF ValidateRoleIDs
  <2>3. StepAfterRoles(call[r]) \in {"user", "name", "again", "status", "delete", "code",
                                     "role", "assigned"}
    BY <2>1, WriteStepValues DEF StepAfterRoles
  <2>4. Rank(StepAfterRoles(call[r])) > Rank(pc[r]) /\ StepAfterRoles(call[r]) \notin Search
    BY <2>1, <2>3 DEF Rank, Search
  <2> QED
    BY <2>1, <2>2, <2>4, CheckAdvances
<1>2. CASE ReadUser(r)
  <2>1. /\ pc[r] = "user" /\ Rank("userRoles") > Rank("user") /\ "userRoles" \notin Search
        /\ \E refused, w : Check(r, refused, "notFound", "userRoles", w)
    BY <1>2 DEF ReadUser, Rank, Search
  <2> QED
    BY <2>1, CheckAdvances
<1>3. CASE ReadUserRoles(r)
  <2>1. /\ pc[r] = "userRoles" /\ call[r] \in SqlCall
        /\ \E refused, answer, step, w :
             /\ Check(r, refused, answer, step, w)
             /\ \/ step = "admin" \/ step = "auditFailure"
                \/ step = WriteStep(call[r]) /\ call[r].op \in SelfWrites
    BY <1>3, RequestTypes DEF ReadUserRoles
  <2>2. PICK refused, answer, step, w :
             /\ Check(r, refused, answer, step, w)
             /\ \/ step = "admin" \/ step = "auditFailure"
                \/ step = WriteStep(call[r]) /\ call[r].op \in SelfWrites
    BY <2>1
  <2>3. call[r].op \in SelfWrites => call[r].op # "resetPassword"
    BY DEF SelfWrites
  <2>4. step \in {"admin", "auditFailure", "name", "again", "status", "delete", "code",
                  "role", "assigned"}
    BY <2>1, <2>2, <2>3, WriteStepValues
  <2>5. Rank(step) > Rank(pc[r]) /\ step \notin Search
    BY <2>1, <2>4 DEF Rank, Search
  <2> QED
    BY <2>1, <2>2, <2>5, CheckAdvances
<1>4. CASE FindAdminRole(r)
  <2>1. pc[r] = "admin" /\ work[r] \in Work
    BY <1>4, RequestTypes DEF FindAdminRole
  <2>2. CASE Proceed(r)
    BY <2>1, <2>2, ProceedAdvances
  <2>3. ASSUME NEW a, Check(r, FALSE, "none", "count",
                            [work[r] EXCEPT !.adminRole = a, !.page = 1])
        PROVE  Rank(pc'[r]) > Rank(pc[r]) /\ SearchBegins(r)
    <3> DEFINE w == [work[r] EXCEPT !.adminRole = a, !.page = 1]
    <3>1. w.page = 1 /\ Continue(r, "count", w) /\ UNCHANGED call
      BY <2>1, <2>3 DEF Check, Work
    <3> HIDE DEF w
    <3>2. Rank("count") > Rank("admin")
      BY DEF Rank, Search
    <3> QED
      BY <2>1, <3>1, <3>2, ContinueFacts DEF SearchBegins
  <2> QED
    BY <1>4, <2>2, <2>3 DEF FindAdminRole
<1>5. CASE FindResetRole(r) \/ FindUser(r) \/ FindUserRoles(r)
  <2>1. /\ pc[r] \in {"resetRole", "find", "findRoles"}
        /\ \/ Refuse(r, "notFound")
           \/ pc[r] = "resetRole" /\ pc' = [pc EXCEPT ![r] = "find"]
           \/ pc[r] = "find" /\ pc' = [pc EXCEPT ![r] = "findRoles"]
           \/ pc[r] = "findRoles" /\ pc' = [pc EXCEPT ![r] = "roles"]
    BY <1>5 DEF FindResetRole, FindUser, FindUserRoles, Check, Continue
  <2>2. pc'[r] = "done" \/ (pc[r] = "resetRole" /\ pc'[r] = "find")
          \/ (pc[r] = "find" /\ pc'[r] = "findRoles") \/ (pc[r] = "findRoles" /\ pc'[r] = "roles")
    BY <2>1 DEF Refuse, Finish, TypeOK
  <2> QED
    BY <2>1, <2>2 DEF Rank, Search
<1>6. CASE ReadAgain(r) \/ CheckUsername(r) \/ ReadRole(r) \/ CheckCode(r) \/ CountAssigned(r)
           \/ Reread(r)
  <2>1. \E refused, answer, step, w :
          /\ Check(r, refused, answer, step, w)
          /\ \/ pc[r] = "again" /\ step = "name"
             \/ pc[r] = "name" /\ step \in {"insert", "update"}
             \/ pc[r] = "role" /\ step = "code"
             \/ pc[r] = "code" /\ step \in {"insertRole", "updateRole"}
             \/ pc[r] = "assigned" /\ step = "removeRole"
             \/ pc[r] = "reread" /\ step = "audit"
    BY <1>6 DEF ReadAgain, CheckUsername, ReadRole, CheckCode, CountAssigned, Reread
  <2>2. PICK refused, answer, step, w :
          /\ Check(r, refused, answer, step, w)
          /\ \/ pc[r] = "again" /\ step = "name"
             \/ pc[r] = "name" /\ step \in {"insert", "update"}
             \/ pc[r] = "role" /\ step = "code"
             \/ pc[r] = "code" /\ step \in {"insertRole", "updateRole"}
             \/ pc[r] = "assigned" /\ step = "removeRole"
             \/ pc[r] = "reread" /\ step = "audit"
    BY <2>1
  <2>3. Rank(step) > Rank(pc[r]) /\ step \notin Search /\ pc[r] # "done"
    BY <2>2 DEF Rank, Search
  <2> QED
    BY <2>2, <2>3, CheckAdvances
<1> QED
  BY <1>1, <1>2, <1>3, <1>4, <1>5, <1>6, SearchAdvances DEF Read

LEMMA HandleAdvances ==
  ASSUME TypeOK, Checked, NEW r \in Requests, Handle(r) \/ StoreFault(r)
  PROVE  \/ /\ Rank(pc'[r]) > Rank(pc[r])
            /\ pc'[r] \notin Search \/ SearchBegins(r)
         \/ SearchGoesOn(r)
<1>1. CASE Read(r)
  BY <1>1, ReadAdvances
<1>2. CASE pc[r] # "done" /\ pc'[r] = "done"
  <2>1. pc[r] \in Steps
    BY DEF TypeOK
  <2> QED
    BY <1>2, <2>1, DoneLast DEF Search
<1>3. CASE Start(r)
  <2>1. CASE Finish(r, "invalid")
    BY <1>2, <1>3, <2>1, FinishFacts DEF Start
  <2>2. CASE Continue(r, FirstStep(call[r]), NoWork) /\ UNCHANGED call
    <3>1. pc[r] = "new" /\ pc'[r] = FirstStep(call[r]) /\ call[r] \in SqlCall
      BY <1>3, <2>2, ContinueFacts, RequestTypes DEF Start
    <3>2. FirstStep(call[r]) \in {"resetRole", "roles", "user", "name", "again", "status",
                                  "delete", "code", "role", "assigned"}
      BY <3>1, WriteStepValues DEF FirstStep, StepAfterRoles
    <3> QED
      BY <3>1, <3>2 DEF Rank, Search
  <2> QED
    BY <1>3, <2>1, <2>2 DEF Start
<1>4. CASE Write(r)
  <2>1. pc[r] \in {"insert", "update", "status", "delete", "insertRole", "updateRole",
                   "removeRole"}
    BY <1>4 DEF Write, InsertUser, UpdateUser, UpdateUserStatus, DeleteUser, InsertRole,
                UpdateRole, DeleteRole
  <2>2. pc'[r] \in {"done", "reread", "audit"}
    BY <1>4, WritesEnd, FinishFacts, CommitFacts, ContinueFacts DEF WriteEnds, Refuse
  <2> QED
    BY <2>1, <2>2 DEF Rank, Search
<1>5. CASE WriteAudit(r) \/ WriteAuditFailure(r) \/ StoreFault(r)
  BY <1>2, <1>5, FinishFacts DEF WriteAudit, WriteAuditFailure, StoreFault, Refuse
<1> QED
  BY <1>1, <1>3, <1>4, <1>5 DEF Handle

(* There are fewer active users than IDs were issued. *)
LEMMA ActiveBelowNext ==
  ASSUME TypeOK
  PROVE  Cardinality(ActiveUsers(accounts)) < nextUserID
<1>1. ActiveUsers(accounts) \subseteq 1..(nextUserID - 1) /\ nextUserID \in Nat \ {0}
  BY DEF ActiveUsers, TypeOK
<1>2. IsFiniteSet(1..(nextUserID - 1)) /\ Cardinality(1..(nextUserID - 1)) = nextUserID - 1
  BY <1>1, FS_Interval
<1>3. Cardinality(ActiveUsers(accounts)) <= nextUserID - 1
  BY <1>1, <1>2, FS_Subset
<1> QED
  BY <1>1, <1>3, ActiveFinite

LEMMA PagesBoundedStep ==
  ASSUME KnownInv, PagesBounded, [Next]_vars
  PROVE  PagesBounded' /\ \A r \in Requests : Advances(r)
<1>0. TypeOK /\ Checked /\ AnswersInv /\ TypeOK'
  BY NextTyped DEF KnownInv, RowsInv
<1>1. /\ nextUserID \in Nat \ {0} /\ nextUserID' \in Nat /\ nextUserID' >= nextUserID
      /\ PageSize \in Nat \ {0} /\ \A q \in Requests : work[q] \in Work /\ work'[q] \in Work
  BY <1>0, NoneReturns, SqlUsersAssumption DEF NoReturn, TypeOK
<1>2. \A q \in Requests : Handle(q) \/ StoreFault(q) =>
        Rank(pc'[q]) > Rank(pc[q]) \/ SearchGoesOn(q)
  BY <1>0, HandleAdvances
<1> DEFINE Bounded(step, w, next) ==
      step \in Search =>
        /\ w.page >= 1 /\ (w.page - 1) * PageSize < next
        /\ step # "count" => w.total < next
        /\ step = "pageRoles" => IsFiniteSet(w.listed)
<1>3. \A q \in Requests : Bounded(pc[q], work[q], nextUserID)
  BY DEF PagesBounded
<1>4. ASSUME NEW step, NEW w \in Work, Bounded(step, w, nextUserID)
      PROVE  Bounded(step, w, nextUserID')
  <2>1. w.page \in Nat /\ w.total \in Nat /\ (w.page - 1) * PageSize \in Int
    <3>1. w.page \in Nat /\ w.total \in Nat
      BY DEF Work
    <3> QED
      BY <1>1, <3>1
  <2> QED
    BY <1>1, <1>4, <2>1
<1>5. CASE UNCHANGED vars
  <2>1. \A q \in Requests : UNCHANGED <<pc[q], work[q]>>
    BY <1>5 DEF vars
  <2>2. \A q \in Requests : Bounded(pc'[q], work'[q], nextUserID')
    BY <1>1, <1>3, <1>4, <2>1
  <2> QED
    BY <1>2, <2>1, <2>2 DEF Advances, PagesBounded
<1>6. ASSUME NEW r \in Requests, Handle(r) \/ StoreFault(r)
      PROVE  PagesBounded' /\ \A q \in Requests : Advances(q)
  <2>1. \A q \in Requests \ {r} : UNCHANGED <<pc[q], work[q]>>
    BY <1>0, <1>6, OwnSteps DEF Local
  <2>2. \A q \in Requests \ {r} : Bounded(pc'[q], work'[q], nextUserID')
    BY <1>1, <1>3, <1>4, <2>1
  <2>3. Bounded(pc'[r], work'[r], nextUserID)
    <3> DEFINE w == work[r]
               v == work'[r]
    <3>1. /\ w.page \in Nat /\ w.total \in Nat /\ v.page \in Nat /\ v.total \in Nat
          /\ w.page * PageSize \in Nat /\ (w.page - 1) * PageSize \in Int
      <4>1. w.page \in Nat /\ w.total \in Nat /\ v.page \in Nat /\ v.total \in Nat
        BY <1>1 DEF Work
      <4> QED
        BY <1>1, <4>1
    <3>2. Bounded(pc[r], w, nextUserID)
      BY <1>3
    <3>3. CASE pc'[r] \notin Search
      BY <3>3
    <3>4. CASE SearchBegins(r)
      <4>1. (v.page - 1) * PageSize = 0
        BY <1>1, <3>4 DEF SearchBegins
      <4> QED
        BY <1>1, <3>4, <4>1 DEF SearchBegins
    <3>5. CASE SearchGoesOn(r)
      <4>1. pc[r] \in Search
        BY <3>5 DEF SearchGoesOn, Search
      <4>2. CASE /\ pc[r] = "count" /\ pc'[r] = "page"
                 /\ v.page = w.page /\ v.total = Cardinality(ActiveUsers(accounts))
        BY <1>0, <3>2, <4>1, <4>2, ActiveBelowNext
      <4>3. CASE /\ pc[r] = "page" /\ pc'[r] = "pageRoles"
                 /\ v.page = w.page /\ v.total = w.total
                 /\ v.listed \subseteq ActiveUsers(accounts)
        BY <1>0, <3>2, <4>1, <4>3, ActiveFinite, FS_Subset
      <4>4. CASE /\ pc[r] = "pageRoles" /\ pc'[r] = "pageRoles"
                 /\ v.page = w.page /\ v.total = w.total
                 /\ \E id \in w.listed : v.listed = w.listed \ {id}
        BY <3>2, <4>1, <4>4, FS_RemoveElement
      <4>5. CASE /\ pc[r] = "pageRoles" /\ pc'[r] = "count"
                 /\ v.page = w.page + 1 /\ ~(w.page * PageSize >= w.total)
        <5>1. v.page - 1 = w.page /\ v.page >= 1
          BY <3>1, <4>5
        <5>2. w.total < nextUserID
          BY <3>2, <4>1, <4>5
        <5> QED
          BY <1>1, <3>1, <4>5, <5>1, <5>2
      <4> QED
        BY <3>5, <4>2, <4>3, <4>4, <4>5 DEF SearchGoesOn
    <3> HIDE DEF Bounded
    <3> QED
      BY <1>0, <1>6, <3>3, <3>4, <3>5, HandleAdvances
  <2>4. \A q \in Requests : Bounded(pc'[q], work'[q], nextUserID')
    BY <1>1, <1>4, <2>2, <2>3
  <2> QED
    BY <1>2, <1>6, <2>1, <2>4 DEF Advances, PagesBounded
<1> QED
  BY <1>5, <1>6 DEF Next, Quiescent

(* The safety half of RequestsAnswered: each step of a request is a later     *)
(* statement than the one before or goes on with the search for another       *)
(* administrator, on to the next user of a page, of which there are finitely  *)
(* many, or to the next page; no other request takes it back; and the pages   *)
(* stay within the user IDs issued so far, whatever others write between the  *)
(* statements, so that only requests that create users make a search longer.  *)
THEOREM SearchesAdvance ==
  Spec => []PagesBounded /\ [][\A r \in Requests : Advances(r)]_vars
<1>1. Init => PagesBounded
  BY DEF Init, PagesBounded, Search
<1>2. KnownInv /\ PagesBounded /\ [Next]_vars
      => PagesBounded' /\ [\A r \in Requests : Advances(r)]_vars
  BY PagesBoundedStep
<1> QED
  BY <1>1, <1>2, KnownInvInit, KnownInvStep, PTL DEF Spec
============================================================================
