# GOV2: a verification development

TLA+ models of GOV2: its back end (Go, `internal/` and `cmd/`) and the session of its web
client (`web/src/`), with the runs that model-check them and proofs about them. Paths in this
file are relative to the repository. Everything here is translated from the code; where a
document of the repository says something else, the section *Findings* says so.

## 1. Inventory

GOV2 is an administration back end: a Go HTTP server over a store that is either in memory or
PostgreSQL, and a Vue front end. One request is one goroutine. The layers call downwards only,
and nothing calls back:

    web client -> httpapi (Router, require, handlers) -> service -> repository
                                                          |          |- memory.Store
                                                       security      '- sqlstore.Store

| Component | State | Operations | What makes it correct |
|---|---|---|---|
| HTTP API (`httpapi/api.go`) | none of its own; per request the caller it loaded | `require`, one handler per route, `auditResource`, `writeServiceError` | every write is by a caller who may make it; success is answered only after write and audit entry |
| User and role service (`service/service.go`) | none; reads kept in locals between store calls | `Create`, `Update`, `SetStatus`, `Delete`, `UpdateProfile`, `ChangePassword`, role writes | an active administrator stays; role IDs exist; self service writes only its own fields |
| Menu service | none | `CreateMenu`, `UpdateMenu`, `DeleteMenu` | menus are a forest with unique names |
| Dictionaries and settings | maps, tables | reads and writes of types, items, settings | unique codes and keys; what is answered is what is stored |
| In-memory store (`store/memory/store.go`) | maps by ID, next IDs, one `sync.RWMutex` | a critical section per repository call | calls are atomic and end; unique names; deleted records stay deleted |
| SQL store (`store/sqlstore/store.go`) | the tables of `migrations/` | one statement or transaction per step | the same, by indexes and conditions of the statements |
| Menu tree (`buildMenuTree`, `sortMenus`, `menusForPermissions`, `menuTreeContainsDescendant`) | none | pure functions | a profile shows what the permissions allow |
| Sign-in and tokens (`service.Login`, `security/token.go`) | signed tokens, in the clients | `Login`, `Sign`, `Verify`, `require` | only active users are signed in or let in; expiry is honoured |
| Initial administrator (`bootstrap/admin.go`), development data (`BootstrapDevelopmentData`) | users and roles of the SQL store | create, reset, bootstrap at start | one administrator, whatever is run how often |
| Migrations (`migration/migration.go`) | the version table and the schema | `RunUp`, `RunSeeds` | each file applied once, in order, resumable |
| Server life cycle (`cmd/gov2/main.go`, `app/app.go`) | where `runServer` is, the pool of connections | open the store, listen, shut down, close | a stop loses no request, and comes |
| Web session (`web/src/stores/session.js`, `api/client.js`, `router/index.js`) | per tab a token and a profile; the token in local storage | sign in, sign out, reload, guard, 401 handling | tab and storage agree; no shell without a profile |
| Passwords, configuration, module registry, middleware and metrics, front-end views, generators | see section 6 | | |

**What is hard.** The in-memory store locks one call, the SQL store commits one statement or
transaction; a service operation makes several. Whatever an operation has read may be stale
when it writes, so every rule that relates two records (the last administrator, an assigned
role, a parent and its child, an ancestor and its descendant) depends on where its check is
made. Over PostgreSQL even one record is read in pieces: a user and its roles, a dictionary and
its items. Any store call may fail, after the write as well as before. The ancestor checks are
loops over shared data and end only if the data is a forest; the search for another
administrator ends only if its pages do. The tree is built by copying values in list order. A
server that stops waits ten seconds for handlers that may take longer. `PROJECT.json` lists each
of these hazards at its line, with the properties that watch it.

## 2. Modules

| Module | Models | Used by |
|---|---|---|
| `UserData` | users, roles, calls, and the checks that need no store | `UserDirectory`, `UserAdmin`, `SqlUsers` |
| `UserDirectory` | abstract specification of user and role administration | `UserAdmin`, `SqlUsers` (as `Directory`) |
| `UserAdmin` | handlers, service and in-memory store for users and roles | `MCUserAdmin`, `UserAdminProofs` |
| `SqlUsers` | service and SQL store for users and roles, and `admin reset-password` | `MCSqlUsers`, `SqlUsersProofs` |
| `MenuData` | what a map of menus is: forest, chain of ancestors, names | all menu modules |
| `MenuForest` | abstract specification of menu administration | `MenuStore`, `SqlMenu` (as `Administration`) |
| `MenuStore` | menu administration over the in-memory store | `MCMenuStore`, `MenuProofs` |
| `SqlMenu` | menu administration over the SQL store, and the seed file | `MCSqlMenu`, `SqlMenuProofs` |
| `MenuTree` | building, searching and filtering the tree | `MCMenuTree`, `MenuProofs` |
| `NamedRecords` | abstract specification of a table of named records | `Catalog` (as `Dictionaries` and `Settings`) |
| `Catalog` | dictionaries and settings over either store | `Server` |
| `Server` | the life of a server process around the requests of `Catalog` | `MCServer`, `ServerProofs` |
| `Deployment` | migrations, seeds, development data and `admin create` by several processes | `MCDeployment`, `DeploymentProofs` |
| `Session` | tabs of a browser, their shared token, and the server that signs and checks tokens | `MCSession`, `SessionProofs` |
| `MenuDataProofs` | lemmas about forests and chains | `MenuProofs`, `SqlMenuProofs` |
| `UserAdminProofs`, `SqlUsersProofs`, `MenuProofs`, `SqlMenuProofs`, `ServerProofs`, `DeploymentProofs`, `SessionProofs` | theorems | |

### UserData, UserDirectory, UserAdmin

`UserDirectory` says what user and role administration promises, whatever the store: a step
stores one user or role, under its own ID or one never issued, or removes one for good; no two
users share a username or contact, no two roles a code.

In `UserAdmin` one step is one store call with the computation that follows it. `pc[r]` is the
store call request `r` makes next, `call[r]` the request (its body, the path's ID and the
subject of its token), `work[r]` the locals of its handler: the caller loaded by `require`, the
user read before the write, the admin role and the page of the administrator search. `users`,
`roles` and the two next IDs are the maps of `memory.Store`; `audit` is its log as a set.

    Start            a request with a valid token arrives
    LoadPrincipal    require: GetUser of the subject            auth
    CheckPermission  require: ListRoles, Policy.Allows; input   policy
    ValidateRoleIDs  validateRoleIDs: ListRoles                 roles
    ReadUser         GetUser of the user to be written          read
    FindAdminRole    removesLastActiveAdministrator: ListRoles  admin
    ScanPage         hasOtherActiveAdministrator: ListUsers     scan (once per page)
    CreateUser ...   the write                                  write
    WriteAudit       auditResource                              audit
    StoreFault       a store call returns an error              any

`undisturbed` is a history variable: the requests since whose start no other one has written.
Properties that the code keeps only for these say so, while every interleaving is explored; the
race that breaks such a property is a run or a finding of its own. `committed` has the requests
whose write took effect.

Names are their trimmed, case-folded form; email stands for email and phone, which are checked
alike; a hash is the password it accepts; nickname, avatar, role names and timestamps are left
out.

### SqlUsers

The same service over PostgreSQL, one statement or transaction per step. A user's row and its
role IDs are two statements (`ReadUser`, `ReadUserRoles`), a page of users is a count, the rows
and one statement per row (`CountActiveUsers`, `ListPage`, `ListPageRoles`), and a write is
preceded by `GetUser` (`ReadAgain`) and a look for the name (`CheckUsername`), and followed by
`GetUser` for the answer (`Reread`). `accounts` and `roles` are the live rows, `userRoles` the
rows of `gov2_user_roles`, which stay when a user or role is deleted, `deletedRoles` the IDs a
foreign key still accepts. The identity columns advance when an insert fails. `resetPassword` is
the command: it finds the admin role and the user, and then is an `updateUser` with the values
it has read.

Requests arrive authorized: `require` is the same code for both stores and is in `UserAdmin`.

### MenuForest, MenuStore, SqlMenu

`MenuForest` says what menu administration promises: a menu is created, replaced or removed, and
the menus are a forest after every step (parents exist, no menu is its own ancestor, names are
unique, a menu with children is not removed).

`MenuStore` has the lock of `memory.Store` as a variable and takes the loop of
`menuHasAncestorLocked` turn by turn (`Climb`) while it is held, so that a loop that never ends
would be seen as requests that are never answered. The other critical sections are one step.
`SqlMenu` takes one statement per step: `GetMenu`, `menuIDByName`, `ensureMenuParent`, the
recursive `menuHasAncestor`, the count of children, the writing transaction with its unique
index, the read back, the audit entry. `CheckListedTree` stands for the service's look into the
listed tree: it finds no more than `MayBeFound` and all of `MustBeFound`, which `MenuProofs` shows
of the search in the tree itself (`ListedTreeChecked`).

A menu is its parent and name (and, for SQL, the permission its row refers to); path, icon, sort
and the flags are checked by `normalizeMenuInput` and are one bit, `valid`.

`RunSeeds` of `SqlMenu` is the menu part of `migrations/seeds/system.sql` between the requests:
the root menus are put in or brought up to date by name, then the others below the row named
`system`. `deletedNames` has what is left of deleted menus, which the join on the parent's name
finds too. The file is one transaction and one step; where one of its statements fails, it
leaves only the values drawn from the identity column. One step is enough for its two statements
on menus: the first locks the root rows it writes until the commit, and what another transaction
commits to other rows in between might as well have come before both. Names are case-folded, as the
unique index has them. The join compares them as they are spelled: over a live row `System`, which
the file would bring up to date by its folded name, it finds no parent and puts no menu below. The
module leaves that out; no two names of its run differ in case alone. `ImplementsForest` is stated
for this module over the undisturbed writes of requests: a step of another kind may be any step.

### MenuTree

The listing and filtering of one profile, step by step: `ListMenus` takes the rows in the order of
the store (for the in-memory store any order of rows with equal `sort`), `Attach` is one turn of the
loop of `buildMenuTree`, `SortTree` picks the roots and sorts every list, `Profile` comes with the
permissions, and `Walk(id)` is the return of `menusForPermissions` from one list, once those below it
have returned. Nothing recurses, so that the module can be proved about. A tree is flat: `tree[id]` is
the list of the menus below menu `id`, `tree[0]` the roots. The loop copies a menu into its parent's
children as it is then: `children[id]` are those of the menu itself, `copied[id]` those of the copy in
its parent's list, and which of the two the tree has is `Placed`. `MenuTreeContainsDescendant` reads
the finished tree.

### NamedRecords, Catalog, Server

`NamedRecords` is the abstract table: a step stores one record under its ID or a new one, or
removes one for good, and names are unique. `Catalog` implements it twice over each store. Over
`memory` a call is one step; over `postgres` a read of a dictionary is its ID by code
(`FindRow`), its row (`ReadRow`) and its items (`ReadItems`), a list is the rows and then the
items of each, and a write ends with the same reads. `shown[r]` is what request `r` has read for
its answer, `todo[r]` the rows it still has to read. Content is a dictionary's item values or a
setting's one value; `JSONValues` are those that are valid JSON. A value that is not is refused
with the body or by `normalizeSettingInput`, with the same answer.

`Server` extends `Catalog` by the process around it: `phase` is where `runServer` is, `open` the
pool, `signalled` the channel. `OpenStore`, `ListenFailed`, `Signal`, `BeginShutdown`, `Drained`,
`TimeOut` and `CloseStore` are its steps, and `Kill` ends the process anywhere. A request is let
in while the server listens, or, on an open connection, while it drains; its statements need the
pool. That there is no bound on the connections (`SetMaxOpenConns` is not called) is why a
statement that reads items while the rows are open never waits for one.

### Deployment

The steps before a server listens, and the commands, as processes on one database. `kind` says
what a process is: `development` and `production` servers with `auto_migrate`, `plain` ones
outside production without it, and the commands `migrate` (up), `seed` and `admin` (create).
`pc` follows `openStore`, `RunUp`, `BootstrapDevelopmentData` and `CreateInitialAdmin`, one
statement or transaction per step:

    EnsureTable, CheckVersion, ApplyMigration      RunUp: the table, then each file
    RunSeeds                                       RunSeeds: permissions and roles
    CountUsers, EnsureRoles, CreateDefaultUsers    BootstrapDevelopmentData
    ListRoles, ListUsers, CreateAdministrator, WriteAudit   CreateInitialAdmin
    Crash                                          killed, timed out, disconnected

A `Crash` is possible at every step and keeps what was committed; a restarted process is another
process. `effects` counts how often a file was executed to its commit, a history variable beside
the versions the code records. Of a role the model keeps whether it exists and has its default
permissions, of a user the name and the role. `CreateUser` is one step: its lookup of the name
and its unique index refuse alike, and no name is given up. A file that was executed cannot be
executed again beside its record, whose key decides.

### Session

`tab[t]` is a tab: the token and profile of its session store, the view it shows (`start` is a
page that is still loading), the guard call of its latest navigation and the call its sign-in
form is busy with. `stored` is the token in local storage. `call[c]` is one HTTP request from
`fetch` to what the page does with its answer; `use` says who waits for it.

    SubmitLogin, SignedIn, Entered, SignInFailed   LoginView.submit, session.login
    Navigate, GuardPassed, GuardFailed             router.beforeEach
    Reload                                         the page is loaded again
    SignOut, SignedOut, SignOutFailed              AdminLayout.logout, session.logout
    Work, Updated, Refreshed, WorkDone             AccountView, session.updateProfile
    SessionExpired                                 client.js on 401, listener of main.js
    CheckCredentials, RecordSignIn                 AuthService.Login
    LoadPrincipal, Handle                          require, then a handler
    StoreFault, Lose, Tick, SetStatus              failures, time, administration

Calls are answered in any order. What follows an answer runs to completion, as JavaScript does,
up to the next `fetch`; the 401 listener, the waiting caller and the navigation they start are
one step. `RecordSignIn` stands for the three store calls after signing: an account that is gone
at any of them fails the sign-in. A token is its subject and its expiry; views behind the guard
are one view, `shell`. `late`, `barred` and `writer` are history variables.

## 3. Runs

| Run | Instance | Shows |
|---|---|---|
| `UserAdminRequests` | 2 overlapping requests, 28 calls, 3 users, pages of one, faults | refines `UserDirectory`; success means written and audited; undisturbed writes are authorized, keep to their fields, keep an administrator and the role IDs known |
| `LastAdministratorRace` | 2 administrators remove each other | *violated*: none is left |
| `SqlUsersRequests` | 2 overlapping requests, 27 calls with reset-password, 3 users, pages of two, faults, fairness | refines `UserDirectory`, too; answers fit effects; an undisturbed refusal is justified; role IDs stay known; every search ends |
| `MenuStoreRequests` | 3 overlapping requests, 14 calls, 4 menus, fairness | refines `MenuForest`; the loop ends and the lock is returned |
| `SqlMenuRequests` | 2 overlapping requests, 20 calls, faults, 2 seed runs, fairness | undisturbed writes refine `MenuForest`; names unique, deleted stays deleted under any interleaving; answers fit effects; a seed run leaves nothing for the next to change; undisturbed recursive queries return |
| `MenuCycleRace` | 2 menus moved below each other | *violated*: a cycle |
| `MenuTreeListed` | all 4-menu forests in all orders; 3-menu forests with all flags; 3 menus with cycles | the tree follows the rows, sorted and complete in two levels; sound search; exact filter |
| `MenuTreeDepth` | three levels | *violated*: the third is lost |
| `ServedCatalog` | 2 overlapping requests, 17 calls, both stores, faults, signals, kill, fairness of `runServer` | refines `NamedRecords` twice; answers show what is stored; a graceful stop leaves nothing unanswered or unaudited; a signalled server stops |
| `DeploymentCrashes` | 3 processes of any kinds, 2 files, 3 databases, crashes | files executed once, in order; a start by itself succeeds; a server has an administrator; `admin create` refuses a second |
| `SessionTabs` | 2 tabs, 2 calls, 1 account, tokens of one tick, faults, lost answers | no expired or barred token is served; the last writer agrees with storage; no shell without a profile |
| `UnauthorizedForPassword` | 1 tab | *violated*: 401 for a wrong password |

**Bounds.** Two overlapping requests suffice for users, SQL menus and the catalog: the hazards
are about what one request does between two steps of another, the properties speak of one
request or of two records, and all but those marked in section 4 are proved for any number.
Three users, two of them administrators, with pages of one or two: the search for an
administrator reads up to three pages, with the written user on any of them. Four menus give a
chain of three below which the first can be moved: long enough for the second turn of the
ancestor loop and for what the listed tree does not show. The calls reach every answer of every
operation and are chosen so that requests meet on the same users, roles, names, parents and
codes. Missing IDs are 9. `CHECK_DEADLOCK FALSE` is set only for `Deployment`, whose processes
end; a `Server` that has ended stays so (`Ended`), and so does an answered profile of `MenuTree`
(`Answered`). Three processes are one that stops anywhere and two that find its remains and each
other. Of the two migration files the first has the tables, as in `migrations/`. The databases
are an empty one, one of the release before the last file whose roles were changed, and one whose
roles were deleted; both lie behind calls of the API. In `SessionTabs` two calls let an answer
overtake another, of the same tab or of the other one; a token lives one tick and the clock moves
once, so that tokens expire under way.

**Fairness.** `FairSpec` of `MenuStore`, `SqlMenu` and `SqlUsers` has weak fairness of the next
step of each request (`Handle(r)`): the Go runtime schedules every goroutine, `sync.RWMutex` does
not starve a waiting writer, and PostgreSQL executes the statements it is sent. It never requires
a store call to fail, nor the seed file to run. `ServerSpec` is fair to `runServer` alone, whose
timer runs whatever else happens: the handlers may hang, and no signal has to come. `UserAdmin`,
`Deployment` and `Session` assume no fairness and state no liveness.

Every property of a passing run comes with a mutant, a plausible bug in one definition (the
definitions marked *Faulty variant*), that violates it.

## 4. Proofs

All theorems hold for every value of the constants that satisfies the module's named assumption
(types of the initial data, unique names, IDs not yet issued). Of the seed file's menus
`SqlMenuAssumption` says what `seeds/system.sql` shows: their names differ and the parent of each
is one of them.

`UserAdminProofs`:

* `TypeCorrect`: `[](TypeOK /\ InputChecked)`. `InputChecked` is the strengthening that `TypeOK`
  needs: a request past `CheckPermission` has valid input, and the user it carries is one of the
  store's type, so what it writes is well typed.
* `DirectoryImplemented`: the refinement of `UserDirectory`. `StoreSteps` reduces every step to
  one of a few effects on the store (put, status, removal of a user; put, removal of a role); a
  put is guarded by the conflict check in the same step, and IDs in use are below the next one.
* `AuditTrailKept`, from `AuditInv`, which follows each request from its write to its answer.
* `WritesAuthorized`, `OwnFieldsWritten`, `RolesStayKnown` and `LastAdministratorKept`, all from
  one invariant: for an undisturbed request, what it has read is what is stored (the caller, the
  validated role IDs, the user it will write, the admin role, and past the search that the write
  leaves an administrator). It holds because a step that writes takes every other request out of
  `undisturbed`. The write then keeps the promise, one lemma for each operation.
  `LastAdministratorRace` is what the invariant excludes.

`SqlUsersProofs`:

* `TypeCorrect` and `DirectoryImplemented`. Nothing that a request has read is used but for its
  type; the refinement follows from the unique indexes and the conditions of the writing
  statements alone, which is the point of it.
* `AnswersCorrect`, from `AnswersInv`: how far a request is when it has written, and that an ID
  that is gone does not come back (`NoReturn`), so that *not found* stays true.
* `RefusalsJustified` and `RolesStayKnown`, from `StillKnown`: what an undisturbed request has
  found out between its statements is still so in the rows. For the search over the pages that is
  `Searched`: no active user of the pages already read, and none of the present one whose roles
  were read, is another administrator. `Position` is how many active users there are up to an ID;
  `EveryPosition` says that every position up to the count is some user's, so that `LIMIT` and
  `OFFSET` over unchanged rows skip nobody, and a page that is not empty goes on where the last
  one ended (`PageNotEmpty`). A search that ends without finding anyone has therefore seen all
  (`OnlyAdministrator`).
* `SearchesAdvance`, the safety half of `RequestsAnswered`: every step of a request has a higher
  `Rank`, or is one of the search, which lists one user less or counts for the next page only while
  the count was not reached (`SearchGoesOn`). `PagesBounded` says that no search comes to a page that
  the user IDs issued so far could not fill.

`MenuProofs`, with `MenuDataProofs`, on the in-memory store:

* `TypeCorrect`, `ForestKept` and `StoreImplementsForest`, all from
  `IInv == TypeOK /\ StoreGood /\ Climbing`. `Climbing` is the invariant of the ancestor loop: while
  the lock is held, the menu the loop is at is an ancestor of the new parent, and the moved menu is not
  among those already passed. When the loop ends at a root, the moved menu is no ancestor of its new
  parent, and the lemmas of `MenuDataProofs` say that moving it keeps the menus acyclic. Each step is
  then a step of `MenuForest` or leaves the menus alone.
* `RequestsAdvance`, the safety half of `RequestsAnswered`: a step of a request takes it to a later
  step, or is a turn of the loop with strictly fewer menus above (`ChainShrinks`, which needs the
  menus acyclic); no other request moves it, and the lock is held only by the request in the loop.

On the tree, for any stored menus, in any order of equals, cyclic ones included:

* `TreeAgreesWithRows` and `TreeCheckCorrect`, from `ListInv`. `Attached` is the invariant of the loop:
  a menu has its children among the menus handled so far, its copy those that were handled before it.
  That the sorted lists exist (`SortingExists`) and what lies below a menu in the lists (`FoundBelow`,
  `ListedChain`) are inductions over data, done by the least counterexample: `LeastSet` picks among the
  sets with a property one that has no smaller such set in it.
* `ProfileCorrect`, from `ListInv /\ Walked`. `Walked` says that what walk has returned is final
  and that a menu it keeps leads down to an allowed one past no hidden menu (`LeadsToAllowed`).
* `TwoLevelsShown`: where no menu lies more than one level below a root, a profile has all the menus
  its permissions allow. Without that hypothesis `AllowedMenusShown` is what `MenuTreeDepth` violates.
* `ListedTreeChecked`: from whatever menus the tree was listed, the search in it has an outcome that
  `CheckListedTree` of both stores' modules allows for.

`SqlMenuProofs`, with `MenuDataProofs`:

* `TypeCorrect`, `AnswersCorrect`, `RowsDistinct`, `ForestImplemented` and `SeedRepeats`, from
  `IInv`. Its part `StillFound` says that what an undisturbed request has found out is still so:
  the new parent exists, the moved menu is not among its ancestors, the menu to be deleted has no
  children. The transaction of such a request is then one of `MenuForest`; the transactions of
  others keep the names unique and bring no ID back, by the index and the identity column.
* The lemmas on `Seeded`: a run writes each seed menu under the ID of the row with its name, or a
  new one, differently for different names (`SeedIDInjective`), and finds every parent
  (`ParentRowExists`), so that `SeedingAgain`: a second run finds what it would write.
* `SerialStoreImplementsForest`: while writes do not overlap and the seed file has not run
  (`SerialWrites`), the SQL store implements all of `MenuForest`, and no request is caught in the
  recursive query. This is the safety half of `RequestsAnswered`; the hypothesis is that of the
  property, and `MenuCycleRace` shows what happens without it.

`DeploymentProofs`, for any processes and number of files:

* `TypeCorrect`, `MigrationsExact` and `ServersHaveAdministrator` from `IInv`. Its parts beyond
  the properties: a process is only where its kind leads it; the file before the one it is at is
  recorded (so that it never skips one); and the first user is an administrator, which is what
  lets the bootstrap conclude from *some user exists* that *an administrator exists*.
* `RestartsSucceed` from `AloneInv`: a process that prepares the database by itself still finds
  what it read last, and a development server past its seeds finds tables, permissions and roles.
  `OwnStep` says that the step of one process concerns no other that is alone.
* `SecondAdministratorRefused` from `RefusalInv`: an administrator that was there when a process
  started still is, so that no `admin create` started then gets past its look at the users.

`SessionProofs`, for any accounts, tabs, calls, validity and clock bound: `TypeCorrect`,
`StaleTokens`, `WriterInSync` and `EntersWithProfile` from
`IInv == TypeOK /\ CallsGood /\ LastWriterInSync`. `CallsGood` says that what was found when a
call was sent is still so: the user of a barred call is inactive now, the token of a late one has
expired, and neither was let in.

`ServerProofs`, for `Catalog` in a server that may stop at any point: `TypeCorrect`,
`AnswersCorrect`, `StopIsGraceful` and `RecordsImplemented`, all from `IInv`. Beyond types it says
that only checked input gets past `Start` (so that what is stored is storable), that live records
differ in name, how far a request is when it has written (`Progress`), that its answer fits
(`Answered`), and that no request is at work once the store is being closed (`Closed`). Each
action of a request is shown to do one of five things to the rows (`StoreStep`), nothing to the
other requests (`Frame`), and to keep what holds of its own; rows are never lost and an ID below
the next one does not come to life again (`RowsGrow`), which is why an answer *not found* stays
true. Both refinements follow from `StoreStep`, whose writes carry the guard against a taken name.
`AnswersShowRecords` is from `ShownInv`: for an undisturbed request, the row it has written stands
(`WriteStands`), and what it has read so far is a copy of the rows it was asked for, those it still
has to read without their items (`Copies`). Every action either leaves the live rows alone or takes
all other requests out of `undisturbed` (`Disturbs`).
`StopAdvances` is the safety half of `StopsAfterSignal`: only a step towards the end changes where
the server is, a received signal stays, and (`PoolOutlivesHandlers`, from `PoolKept`) the pool is open
for every handler at work and closed when the process has ended well.

Each inductive invariant was also checked by TLC on the instance of its run, those of `MenuTree` on
a part of it.

Only model-checked: liveness under fairness (`RequestsAnswered` of three modules,
`StopsAfterSignal`), for which the proof system has no rules. Of each the safety half is proved:
by `RequestsAdvance`, `SearchesAdvance` and `StopAdvances` no step leads away from the end and each
own step leads nearer to it, and by `SerialStoreImplementsForest` no request of `SqlMenu`, whose
steps otherwise come in a fixed order, is caught in the recursive query. Left to the runs is that a
step can always be taken, which is about `ENABLED`, and that fairness then takes it.

## 5. Findings

Each is a run that TLC finds violated; `PROJECT.json` quotes the document.

* Two administrators can remove each other (`LastAdministratorRace`): check and write are
  separate store calls.
* Two moves can close a cycle in the SQL store (`MenuCycleRace`); the next move below it runs a
  recursive query that does not return.
* A menu two levels below a root is lost from the tree (`MenuTreeDepth`).
* A wrong current password is answered 401 (`UnauthorizedForPassword`), which the client takes
  for the end of the session: a typing error signs the user out. A store that fails while
  `require` reads the account has the same effect.

Seen in the models and not given a run. `admin reset-password` writes back the roles and the
status it has read: an administrator who is demoted or disabled meanwhile becomes an active
administrator again, while docs/06-security/01-security-authorization.md:138 has the command not
elevate users. The seed file fails on a database where the system menu was deleted and created
again, for its join does not skip deleted rows (`JoinedTwice`; a development server with
`auto_migrate` then does not start), and it can close a cycle, for it sets parents without the
check that an update makes (`system` moved below one of its menus that was moved away before). In
the web client a 401 for a call sent with an old token ends a newer session, a profile that
arrives after another account signed in is kept beside the new token, and a sign-out whose call
fails leaves the shell on the screen. A disabled user who signs in is answered 403 where
docs/03-backend/02-api-contract.md:59 has the 401 of invalid credentials. A shutdown that runs out
of its ten seconds ends the process without closing the pool, and with it the handlers, whose
writes may stand without an audit entry.

More races lie outside of what `undisturbed` requests promise: a profile update writes the whole
user back and undoes a change made meanwhile (`SelfServiceWritesOwnFields`), a role can be deleted
between its validation and its assignment (`KeepsRolesKnown`; over PostgreSQL the foreign key does
not see that it was deleted), a permission can be withdrawn between its check and the write
(`WritesAreAuthorized`), a menu of the SQL store can get a child between the count of its children
and its deletion (`ImplementsForest` of `SqlMenu`), and a list of dictionaries can show items of a
dictionary that was changed after its row was read (`AnswersShowStore`). Two `admin create`
commands that overlap can make two administrators; `AdminCreationRefused` is about those that were
there before. Two servers that start at once on an empty database can make each other fail, which
a restart mends (`StartAloneSucceeds`).

## 6. Not modelled

Left out, for they have no state that a step could disturb: password hashing and token bytes
(`security/password.go`; the policy is the constant `AcceptablePasswords`); reading and validating
the configuration (`config/`), of which the models keep the choice of the store and of the
environment; the module registry, which checks the modules compiled into the program once, at
start, and whose outcome is the constant `Catalog`; HTTP headers and metrics text, whose counters
are updated in one critical section; the dashboard, audit-log listing and health checks, which
read for display; the views of the front end; generators. Of the web client the permissions of
routes and the display preferences are left out, of sign-in its audit entries.
