# UserPermission in TLA+

UserPermission is a small identity service: users, groups and memberships in an
SQLite file, JWT access tokens, a REST API, a web UI, a Rust core library with a
local and a remote ("relay") backend, and Python bindings. This directory models
the parts of it that keep or change state, checks them with TLC on small
instances, and proves the central facts about them with TLAPS for all sizes.

Paths below are relative to `src/`; `core/` stands for
`crates/user-permission-core/src/` and `server/` for `crates/user-permission/src/`.

## 1. Inventory

### Components, their state and what makes them right

| Component | State | Operations that change it | What must hold |
|---|---|---|---|
| schema (`migrations/0001_init.sql`, `core/database.rs:112`) | `users`, `groups`, `user_groups`, `sqlite_sequence` | the SQL statements below | keys and names unique, ids never reused, no membership without its user and group |
| `UserManager`, local backend (`core/user.rs`) | the tables; a pooled connection per call | `create`, `update`, `delete`, `set_admin` | each call is all or nothing; the first user is an administrator; `set_admin` keeps its word |
| `GroupManager`, local backend (`core/group.rs`) | the tables | `create`, `update`, `delete`, `add_user`, `remove_user` | the same |
| `authenticate` (`core/user.rs:335`) | none | reads the row, then `is_admin`, then issues a token | the token names an active user |
| secret file (`core/token.rs:13`) | a file shared by all processes that open the database | `load_or_create_secret` at each start | everybody signs and verifies with the same full-length secret, also after restarts |
| `TokenManager` (`core/token.rs`) | the secret | `create_token`, `verify_token` | accepted until expiry, by everybody |
| `Database` (`core/database.rs`) | the pool of up to 8 connections, WAL, `foreign_keys(true)` | `open_local`, `open_relay`, `close`, `run_migrations` | whoever serves finds the tables and columns the code reads, whatever file was opened and whoever opened it meanwhile |
| relay backend (`core/relay.rs`, and the `Relay` arms of `user.rs`, `group.rs`) | an HTTP client and one shared token | every manager method as a request | executed at most once; success and `false` can be believed; a call acts for who was logged in when it was made |
| REST API (`server/api.rs`, `auth.rs`, `error.rs`) | none of its own | one handler per route | only those entitled act; status codes tell the truth |
| web UI (`server/webui.rs`) | a cookie in the browser | one handler per route | the same; nobody takes its own administrator status with `users_toggle_admin` (deactivating or deleting oneself is allowed) |
| routing (`server/lib.rs`), server binary (`main.rs`) | none | start-up | API and web UI reachable under the chosen prefixes |
| Python bindings (`crates/user-permission-python`, `python/`) | an optional open `Database` behind a lock | `connect`, `close`, `login`, every method forwarded | calls see an open database or an error; after `close` nothing runs; nobody waits forever |
| password hashing (`core/password.rs`), templates | none | pure | library, layout |

### How they interact

Handlers and Python calls run as tokio tasks and call manager methods. Each method
takes a connection of the pool for one statement, or for a transaction (`create`,
`set_admin`), and SQLite arbitrates between connections and between processes.
Handlers make several method calls and hold nothing between them. A token carries
`sub` (a user id) and `is_admin`; the server looks only at `sub` and asks the
database for the rest. All processes that open the same database share the secret
file. When a client disconnects, hyper drops the handler's future at its current
await; a dropped transaction is rolled back by the connection's worker thread.

### What is hard

* `COUNT(*)` and the insert that depends on it, the selection of an admin group and
  the insert into it: read-then-write transactions on concurrent connections.
* SQLite's locks: a transaction that has read and then wants to write gets
  `SQLITE_BUSY` at once, without the busy timeout; nothing retries.
* Requests that check a right, look up a target and act in separate calls, while
  other requests take the right or the target away.
* Errors that are turned into other answers (`false`, 404, success) on the way up.
* exists/create/write of the secret file, with other starts and crashes in between.
* Relay: requests and answers that get lost before or after the server has acted, and
  a token that a login replaces under calls in progress.
* Several processes that open an older or half-made file at once, statement by
  statement.
* Python tasks that close, reopen and cancel while other tasks are inside a method,
  over a pool with fewer connections than callers.

`PROJECT.json` lists the hazards one by one, each at its line.

## 2. Modules

```
Tables                  rows, statements and what the multi-statement methods do
  +- UserStore          ABSTRACT: each method is one atomic step
       +- SqliteStore   DETAILED: statements, snapshots, locks, failures, crashes
       +- Requests      handlers of the API and the web UI on top of UserStore
            +- Relay    COMPOSED: client, network and shared token in front of Requests
RemoteCall              ABSTRACT: what a remote call promises; Relay implements it
SecretFile              ABSTRACT for Opening: load_or_create_secret by several processes
  +- Opening            COMPOSED: open_local, migration and then the secret
PyDatabase              the Python Database: connect, close, calls, pool, cancellation

UserStoreProofs, SqliteStoreProofs, SecretFileProofs, OpeningProofs,
RequestsProofs, HandlersProofs, RelayProofs, PyDatabaseProofs   theorems
MCUserStore, MCSqliteStore, MCRequests, MCRelay,
MCOpening, MCSecretFile                                 instances for TLC
```

### Tables

A database is a record of the three tables (sets of rows; `members` is a set of
pairs user, group) and the two rows of `sqlite_sequence`. One operator per SQL
statement (`InsertUser`, `UpdateUserRow`, ...) with its constraint as a predicate
(`UsernameTaken`, `UserUpdatable`, `Joinable`), and the net effect of `create` and
`set_admin`. `ForeignKeys = FALSE` is a `user_groups` table made by an older version
without `REFERENCES`, which `CREATE TABLE IF NOT EXISTS` keeps. Display names,
descriptions and timestamps decide nothing and are left out; a password hash is the
password it verifies.

Operators called `Bug_X` are no part of the model. Each is `X` with a plausible
mistake; replacing `X` by it must make a named property fail (`PROJECT.json`,
"mutants"), which shows that the property has teeth.

### UserStore

What the managers promise: variable `db`, one action per mutating method, enabled
when the method succeeds. A failing call is a stuttering step.

### SqliteStore

The same methods as they run. Per connection: `pc` (the statement it is about to
issue), `call`, `view` (what its transaction sees), `chosen` (the local variable of
`set_admin`), `stale` (another commit has overtaken its snapshot), and `reply`;
globally `wlock`, the holder of the WAL write lock.

| Code | Actions |
|---|---|
| `create` (`user.rs:52`) | `Begin`, `Count`, `InsertUserRow`/`InsertUserFails`, `EnsureAdmin`/`EnsureAdminFails`, `JoinAdmin`, `Commit` |
| `set_admin(_, true)` (`user.rs:281`) | `Begin`, `SelectGroup`, `MakeAdminGroup`/`MakeAdminGroupFails`, `Grant`/`GrantFails`, `Commit` |
| `set_admin(_, false)` (`user.rs:319`) | `Begin`, `Revoke`, `Commit` |
| one-statement methods | `Begin`, `ExecuteWrite` or `ExecuteUpdate` and `Reread`, `ExecuteFails` |
| SQLite and sqlx | `Busy`, `LockTimeout`, `Release` (queued ROLLBACK), `Crash` |
| tokio | `Abort`: the future is dropped at an await |

The SQLite and sqlx behaviour is external to the repository; the model follows from
the options in `core/database.rs:44-49` (WAL, foreign keys, defaults otherwise):

* `begin()` is a deferred `BEGIN`; the first `SELECT` takes the snapshot.
* Read-to-write upgrade: immediate `SQLITE_BUSY` if the lock is held or if a commit
  overtook the snapshot (`SQLITE_BUSY_SNAPSHOT`), else the connection has the lock.
* A single statement, or a transaction whose first statement writes, waits for the
  lock up to the 5 s busy timeout.
* A failed statement leaves the transaction, and its lock, in place until sqlx's
  queued ROLLBACK has run; the caller has its error before that.
* `INSERT OR IGNORE` does not hide a violated foreign key.
* An `UPDATE` that touches a row overtakes snapshots even if all values are equal
  (`updated_at` changes, at least the page is written).
* A crash keeps exactly what was committed. `AUTOINCREMENT` fails with `SQLITE_FULL`
  when ids run out: that is what `MaxUserId` and `MaxGroupId` bound.

The write lock makes the two statements of "look for `admin`, then update or insert
it" (`user.rs:83-102`) inseparable, so they are one action; so are the two SELECTs of
`set_admin`, which share one snapshot.

`Effect` is what success promises of each method in the database as it is by then. Of
`update` that is only that the row is there: between its UPDATE and the SELECT other
connections may have changed the fields again. What the answer says of the edit itself
is `EditedIsTrue`, in Requests.

### Requests

One slot per request in progress. `pc` follows the handler from database call to
database call: `identify` (`resolve_user`), `authorize` (`is_admin` and the guard of
the handler, between which there is no await, and the 400 of `add_member` for a body
that names another group than the path), `group` and `user` (lookups), `status`
(`is_admin` of the target), `authenticate` and `claim`, `act` (the effect, an action
of UserStore), `reread`, `badge` (`is_admin` for the answer), `done`. What the API shows
to every user does without `authorize` (`AfterIdentify`); the pages of the web UI and
everything else read `is_admin` first. API and web
handlers that make the same calls in the same order share a kind; kinds and classes of
kinds (`AnyUser`, `SelfOrAdmin`, ...) are spelled out in the module. `OnError` is the
table of what a failed call may become at each place, by handler. `tokens` is the set of claims ever
handed out; a client may use any of them at any time. `witnessed` is a history
variable: which facts about the request have been true at some moment since it
arrived; properties are stated with it, and no action reads it.

A method call is one step here. That is what `SqliteStoreProofs!Refinement` justifies
for `db`; `Faults = TRUE` adds the failures that SqliteStore shows to be possible at
any call. The server may start on any database that satisfies the constraints of
`0001_init.sql` (`StartAssumption`), not only on an empty one.

### SecretFile

`load_or_create_secret` step by step: `Check` (`exists`), `Read`, or `Generate`,
`Create` (`std::fs::write` opens with create and truncate) and `Write`; `Down` is a
crash, a stop, or a failing write. `Overlap` and `Interrupted` switch two
circumstances on: starts that overlap, and a crash between create and write.

Once the file holds a secret, starts may overlap even without `Overlap`: what must not
overlap is only the making of it. A file and tokens of an earlier run may be there at
the beginning.

### Opening

`Database::open_local` as it runs in each process, on top of SecretFile: the three
`CREATE TABLE IF NOT EXISTS` of `0001_init.sql`, each committed by itself, `TableInfo`
(the PRAGMA and the test), `AddColumn` or `DuplicateColumn` (the ALTER TABLE, which
fails when another process was faster), and `LoadSecret`, the start of SecretFile's
steps. `Quit` is a crash or a failing statement. The file may be new, made by an older
version, or left half-made. `rejected` remembers who failed in `DuplicateColumn`; such
a process may open again.

### RemoteCall and Relay

RemoteCall is the promise: a call is performed at most once, a success implies that it
was, an error implies nothing, and the server may still perform it after the caller has
its error. Relay is the code in front of Requests:

| Code | Actions |
|---|---|
| `send` (`relay.rs:123`) | `Send`: the token is read when the request is built |
| decoding (`relay.rs:63-121`), `login` (`relay.rs:35`) | `Receive` with `Outcome`; a login stores its token |
| `Error::Http` | `GiveUp`, at any moment of the wait |
| network | `Lose` (before the server), `Deliver`; answers get lost by `GiveUp` before `Receive` |
| `401` without a handler | `Reject`: no token, or one that has expired |
| server | `Serve`: any step of a handler of Requests; `Hangup`: hyper drops the handler of a closed connection between two database calls |

The calls there are, with their arguments, are the set `Call`; which request and which
decoding each method uses is in `Anonymous`, `Flags`, `Optionals`, `Values` and
`RequestFor`. `performed` is a history variable: the effect
has been committed, or for a read the answer computed. The refinement mapping is in the
module (`Phase`, `Result`). HTTP retries are off: `reqwest` as built in `relay.rs:20`
retries nothing, and redirects do not occur on API routes.

### PyDatabase

`inner` is the `Arc<Mutex<Option<Database>>>`. `connect`/`__aenter__` are `Connect` and
then `Opened` (which replaces what is in place) or `NotOpened`; `close`/`__aexit__` are
`Close` (take it out; the pool hands out no more connections) and `Closed` (when the
connections in use are back). A method is `Begin` (`get_db`, synchronous, may raise),
`Acquire` or `Refused`, `Execute` or `Fail`, and again `Acquire` for the methods that
take a second connection (`update` reads the row back; `authenticate` reads `is_admin`).
`Cancel` is the cancellation of the awaiting Python task, which drops the Rust future;
`Drain` is the worker thread that finishes the statement under way before it gives the
connection back, with or without effect. `Drop` frees a Database no clone refers to.
An `update` without fields only reads, and counts as `read` here.

## 3. Runs

| Run | Instance | Result |
|---|---|---|
| `user_store` | 2 names, 2 group names, 3 ids each | `TypeOK`, `Keys`, `NoOrphans`, `IdsNeverReused`, `NewUserStartsClean`, `FirstUserIsAdmin` hold |
| `legacy_schema` | as above without foreign keys | `NoOrphans` fails: see findings |
| `sqlite_everything` | 2 connections, 2 names, 2 ids each, every method, crashes and disconnects anywhere | `TxTypeOK`, `LockHolderIsCurrent`, `BusyNeedsARival`, `FirstUserIsAdmin`, `NewUserStartsClean`, `OkMeansDone` hold, and `Spec` (UserStore) is implemented |
| `sqlite_live` | 2 connections, every method, fairness | `EveryCallReturns` holds |
| `opening` | 3 processes, 3 secrets, new, older and half-made files, crashes anywhere, starts one at a time until there is a secret | `OTypeOK`, `TokensStayValid`, `ServedIsPersisted`, `ServedIsMigrated`, `RetrySucceeds` hold |
| `secret_unguarded` | starts may overlap | `ServedIsWhole` fails: see findings |
| `requests_alone` | 1 slot, a request of every kind, failing database calls | `RTypeOK`, `DeletedTokensStayDead` hold |
| `requests_pairs` | 2 slots, 2 administrators against each other, a third user id and a second group id for new rows | `NotFoundIsTrue`, `ShownToTheEntitled`, `AuthorityIsFresh`, `ToggleLeavesAnAdmin`, `EditedIsTrue` hold |
| `already_member` | 1 slot | `AlreadyMemberIsTrue` fails: see findings |
| `password_page` | 2 slots, passwords set for a user that is deleted | `PasswordChangedIsTrue` fails: see findings |
| `relay` | 2 calls at once, 2 users, a call of every way to send and decode, logins, losses, failing database calls | `RelayTypeOK`, `FalseIsNotDone`, `ActsForItsCaller`, `EveryCallComesBack` hold, and `AtMostOnce` (RemoteCall) is implemented |
| `pydatabase` | 2 tasks, 2 calls, 2 Databases alive, pools of 1 | `PyTypeOK`, `ClosedIsQuiet`, `ConnectedIsOpen`, `FailedIsNotDone`, `EverythingReturns` hold |

### Why the bounds are enough to be interesting

* Two names and three user ids let a name be taken, freed and taken again under a new
  id, and let ids run out. Two group names are `admin` and one other, so the group
  called `admin` may be missing, plain or an admin group, next to another admin group.
* Two connections meet in every pair of labels. What a third one could do to the first
  two (take the lock, overtake a snapshot) the second one can do as well; the theorems
  hold for any number.
* Two requests meet in every pair of labels; for both facts a request relies on (its
  right and its target) the other slot takes them away, one after the other.
* Edits: a third user id and a second group id are free to be created between an UPDATE
  that misses its row and the SELECT that follows, so an edit of an id that nobody had
  when the request came does find somebody else's new row; `EditedIsTrue` excepts it.
* Two remote calls are one that is under way and one that repeats it or logs in. A call
  the caller has given up keeps its slot, so its late execution meets the repetition.
* One connection and two calls is the smallest pool at its limit; a third party (a
  cancelled call that still drains) is one of the two. Two Databases let a connect
  replace, or race with the close of, another one.
* Three processes open: one that has migrated, one about to, and one that crashes.
* Passwords: one where no property looks at them, two where one is replaced.

### Deadlock and fairness

Deadlock is checked in every run.

* `EveryCallReturns`, under `WF_vars(Step(c))` for each connection: sqlx gives each
  connection a worker thread of its own and tokio polls every task that is ready, so a
  connection that can issue its next statement, commit, time out or roll back will.
  Nothing is assumed about clients: `Begin`, `Abort` and `Crash` are not fair. Weak
  fairness suffices because a waiting statement always has the busy timeout as long as
  the lock is taken.
* `EveryCallComesBack`, under weak fairness of the network (a request is delivered,
  refused or lost), of the server's handlers, of the arrival of an answer, and of the
  detection of a broken connection, `GiveUp` when nothing of the call is left. The
  client itself sets no timeout, so a server that stays silent on a healthy connection
  would keep the caller waiting; the fairness of `Serve` excludes exactly that. `GiveUp`
  in general is not fair: nobody loses patience on their behalf.
* `EverythingReturns`, under weak fairness of each statement's end, of `Opened` or
  `NotOpened`, and of `Closed`, and strong fairness of `Acquire`: a call waits while
  others take the connection again and again, so `Acquire` is enabled infinitely often
  but not continuously; sqlx's semaphore serves waiters in order. `PoolTimedOut` and
  cancellation may happen and are not relied on. That nobody holds one connection while
  waiting for another is what makes it true; the mutant `Bug_Holders` shows it.

### Findings

* `legacy_schema`: a `user_groups` table from before the `REFERENCES` clauses is never
  rebuilt, so deletions do not cascade there, although README.md:253 says they do.
* `secret_unguarded`: a process may serve with an empty secret, either because it
  started while another one was between `create` and `write`, or because a crash or a
  full disk hit there: a file that exists is never validated.
* `already_member`: `GroupManager::add_user` turns every error into `false`
  (`group.rs:228`), which is answered "Already a member".
* `password_page`: the password pages drop the result of `update` and report success.

Some properties say less than one might wish, or hold only in the circumstances of
their run, and that is deliberate. `ToggleLeavesAnAdmin` does not say that there is
always an administrator: two administrators may demote each other at once and leave
none, and no document excludes it. It says that this, or another request that takes the
caller's right or activity between the guard and the toggle, is the only way a toggle
can do so; an administrator who deactivates or deletes itself is not its business.
`EditedIsTrue` excepts ids that had not been given out when the request arrived.
`NotFoundIsTrue` needs database calls that do not fail (`webui.rs:833`, `1312` and
`1316` answer 404 on any error). `TokensStayValid` and `ServedIsPersisted` need starts
that do not overlap until there is a secret file: that two first starts may read, write
and overwrite each other's secret is a hazard which these two do not catch, and which
`secret_unguarded` shows. `AuthorityIsFresh` says that the caller was active at
some moment and an administrator at some moment since the request arrived; that it was
both at the same moment, or still is when the handler acts, is not what the code does.
`FailedIsNotDone` excepts `update`, which may fail to read the row back after its write;
`ClosedIsQuiet` is about a close that was waited for: one that was cancelled has taken
the Database out and leaves calls running, and a second close has nothing to wait for.

## 4. Proofs

| Theorem | Says | From |
|---|---|---|
| `TypeCorrect`, `KeysHold` | `Spec => []TypeOK`, `[]Keys` | `TablesAssumption`, `UserStoreAssumption` |
| `NoOrphansHold` | `Spec => []NoOrphans` | and `ForeignKeys` |
| `IdsAreNeverReused`, `FirstUserIsAnAdmin` | action properties of `Spec` | |
| `NewUsersStartClean` | action property of `Spec` | and `ForeignKeys` |
| `TxTypeCorrect` | `TxSpec => []TxTypeOK` | and `SqliteStoreAssumption` |
| `Refinement` | `TxSpec => Spec` | |
| `LockHolderWorksOnLatest` | `TxSpec => []LockHolderIsCurrent` | |
| `RaceFirstUserIsAdmin`, `RaceNewUserStartsClean` | the action properties, of `TxSpec` | the second `ForeignKeys` |
| `RaceIdsAreNeverReused` | `TxSpec => []Keys /\ IdsNeverReused` | |
| `BusyNeedsARivalHolds`, `OkMeansDoneHolds` | action properties of `TxSpec`: what callers are told | |
| `TokensStayValidHolds`, `ServedIsPersistedHolds` | invariants of `SecretFile!Spec` | `~Overlap` |
| `ServedIsWholeHolds`, `OpenedSecretIsWhole` | `Spec => []ServedIsWhole`, `OSpec => []ServedIsWhole` | `~Overlap` and `~Interrupted` |
| `OpeningImplementsSecretFile` | `OSpec => Spec` | `SecretFileAssumption` |
| `OpenedTokensStayValid` | `OSpec => []TokensStayValid` | and `~Overlap` |
| `OpeningTypeCorrect`, `ServedIsMigratedHolds`, `RetrySucceedsHolds` | `OSpec => []OTypeOK`, `[]ServedIsMigrated`, `[]RetrySucceeds` | `SecretFileAssumption` |
| `ShownToTheEntitledHolds`, `AuthorityIsFreshHolds` | of `RSpec`, any slots, requests, database and `Faults` | `RequestsAssumption` |
| `NotFoundIsTrueHolds` | `RSpec => []NotFoundIsTrue` | and `~Faults` |
| `RTypeCorrect` | `RSpec => []RTypeOK` | `RequestsAssumption`, `StartAssumption` |
| `ServerCallsTheStore` | `RSpec => [][Next]_db`: the server takes the steps of UserStore | |
| `ServedKeysHold`, `ServedNoOrphansHold` | `RSpec => []Keys`, `[]NoOrphans` | the second `ForeignKeys` |
| `ServedStoreKeepsItsPromises` | `RSpec => IdsNeverReused /\ FirstUserIsAdmin` | |
| `DeletedTokensStayDeadHolds` | action property of `RSpec`, any slots, requests and `Faults` | |
| `ToggleLeavesAnAdminHolds` | action property of `RSpec`, any slots, requests and `Faults` | `RequestsAssumption`, `StartAssumption` |
| `EditedIsTrueHolds` | `RSpec => []EditedIsTrue`, any slots, requests and `Faults` | `RequestsAssumption`, `StartAssumption` |
| `RelayIsAtMostOnce` | `RelaySpec => AtMostOnce`, that is `Remote!Spec` | `RelayAssumption` |
| `FalseIsNotDoneHolds`, `ActsForItsCallerHolds` | `RelaySpec => []FalseIsNotDone`, `[]ActsForItsCaller` | `RelayAssumption` |
| `RelayTypeCorrect`, `RelayCallsTheStore` | `RelaySpec => []RelayTypeOK`, `[][Next]_db` | and `StartAssumption` |
| `RelayTokensStayDead` | tokens of a relay come from logins, and `DeletedTokensStayDead` of `RelaySpec` | |
| `PyTypeCorrect`, `ClosedIsQuietHolds`, `ConnectedIsOpenHolds`, `FailedIsNotDoneHolds` | invariants of `PySpec` | `PyAssumption` |

**UserStoreProofs.** The inductive invariant is `Sound(db)`: well typed, unique keys
below their sequence, and, if the schema has foreign keys, no orphans. One lemma per
statement says that it keeps a sound database sound; `NextSound` puts them together by
action. The multi-statement operators reuse the lemmas of their statements.
`CreateUserRowEffect` says which memberships a new user starts with; the two action
properties about new users follow from it.

**SqliteStoreProofs.** `LockHolderIsCurrent` is not inductive by itself: that the lock
holder's view is current at `commit` depends on what it was before the upgrade. The
inductive invariant `TxInv` adds, per connection, which labels go with the lock
(`LockInv`) and with which method (`CallInv`), that a snapshot that is not stale is the
committed database (`SnapshotInv`), and that the view of a writer is the committed
database with the statements issued so far (`WriterInv`). Each action has a lemma; the
actions that only end a call share `DropStep`, those that write inside a transaction
share `WriteStep`. Refinement needs no mapping beyond `db` itself: every action but
`Commit` and `Execute` leaves `db` alone, `CommitIsNext` shows from `WriterInv` that a
commit is one step of UserStore, and `ExecuteIsNext` that a single statement is. The
action properties of UserStore then carry over, and so do unique names and ids that are
never used again.

What callers are told follows from the same invariant. `OkMeansDone`: only `Commit`,
`ExecuteWrite` and `Reread` answer with success; `CommitMeansDone` reads off `WriterInv` what
the view of a committing transaction contains, by method, and `PromoteMakesAdmin` and
`DemoteUnmakesAdmin` say that this is what `set_admin` was asked for.
`BusyNeedsARival`: an upgrade or a wait fails only if the lock is taken, and `LockInv` says
that whoever holds it is at work, or if the snapshot has been overtaken.

**SecretFileProofs.** `Agreement`: until there is a secret in the file at most one
process is starting; while it is generating or creating, the file is missing; while it
writes, nobody serves and no token exists; whoever serves holds what the file holds, and
that signed all tokens. Once the file holds a secret nothing changes it. `Unfinished`
adds that a file without content is about to be written, unless a start was interrupted:
`ServedIsWhole` fails in the run `secret_unguarded` because of overlapping or interrupted
starts, and of nothing else.

**OpeningProofs.** Refinement again needs no mapping: `LoadSecret` is SecretFile's
`Start` and the other steps of the migration leave its variables alone. That `Start` is
allowed where `LoadSecret` is needs an invariant of its own: whoever migrates counts as
opening. Then the theorems of SecretFile carry over. For the schema, the invariant says
which tables exist at which label, so that a process past `TableInfo` or `AddColumn`
knows the column is there, and that tables and columns are never taken away.
`RetrySucceeds` is inductive next to it: whoever was rejected was so because of the
column, which stays, so `TableInfo` does not send it to `ALTER TABLE` again.

**RequestsProofs.** `AuthInv` says, for each slot, what has been witnessed at which
label: past `identify` the caller was active, past `authorize` it is entitled by its
kind, by being its own subject, or as a witnessed administrator (`MayAct`). History only
grows (`Grows`), so what other slots do cannot take that away (`OthersStayEntitled`).
`ActOnOwnBehalf` then goes through the effects that are left to somebody who is no
administrator. For 404, `SeekInv` says that a handler only looks for what its request is
about, and `MissedIsAbsent` that what it does not find is absent at that very moment.

**HandlersProofs.** That handlers call the store as UserStore allows is not obvious: a
handler passes on ids it has from a token, from a row it read earlier, or from its
request, and the actions of UserStore are about ids and names of their types. The
inductive invariant `HandlerInv` says that the database is sound, that every slot holds a
request the API has, that its token is one that was handed out, and that tokens and the
user found by a login name ids that have been assigned (`t.sub <= db.userSeq`). With that
`EffectIsNext` goes through the effects, and what UserStoreProofs says of a step of
`Next` holds for the server. `DeletedTokensStayDead` needs the bound on `sub` a second
time: an id that has been assigned and is free is below `userSeq`, and new rows get ids
above it.

`ToggleLeavesAnAdmin` has an invariant of its own, `ToggleInv`: from `authorize` on the
caller has been found active, past it an administrator, and it is not the one to be
toggled. What others do keeps it, since history only grows (`ToggleStays`). If the
caller is still an active administrator when the handler acts, `ToggleActs` shows that
it remains one: the toggle of another user leaves its row and its right alone, although
both may be members of the same groups (`ToggleSparesOthers`). If it is not, the second
half of the property is `ToggleInv`.

`EditedIsTrue` rests on `EditInv`: after the UPDATE either the edit has been made or the
id had not been given out (`Settled`), or the row is gone for good (`Gone`). The last is
stable (`GoneStays`) because of the sequences: a user's id is at most `userSeq` and free,
and `IdsStep` says that it stays so; for groups, which are also created by `create` and
`set_admin`, `StoreGivesNextGroup` says that any step gives at most the next id. So a row
that is read back after a missed UPDATE had an id nobody had been given, and
`EditAdvances` goes through the handlers of edits to see what their client is told.

**RelayProofs.** The inductive invariant relates the four places a call may be in (the
client's stage, the wire, the server's label, the history): on the wire the server has
not started and nothing was performed; before `act` nothing was performed; `done` with
`ok` means performed, and the answers that decode to `false` mean not performed. The
step of the detailed specification that executes a call is the step that sets
`performed`; a `Receive` is `Succeed` or `Fail` according to `Outcome`.
`ActsForItsCaller` needs one thing more, that a slot at rest holds no request
(`CarriedInv`): the next call in it would otherwise meet a token it did not carry.
For types and the database, `RelayInv` joins that invariant with `HandlerInv` and with
`TokensKnown`, that the tokens a relay holds or has sent come from logins;
`CallsBecomeRequests` shows that `RequestFor` makes a request the API has of every call,
and then each step of the server is one HandlersProofs has dealt with.

**PyDatabaseProofs.** The invariant adds to the properties that a task that is closing
has taken the Database out, that a pool is closed only without holders and stays so
because nothing is acquired from it, and that a call that has not returned its first
connection has done nothing.

**Only model-checked.** Liveness (`EveryCallReturns`, `EveryCallComesBack`,
`EverythingReturns`) is out of the prover's reach. Every other property of a passing run
is a theorem. Two properties that a run finds violated are theorems without the
circumstance that breaks them: `NoOrphans` with foreign keys, `ServedIsWhole` as above; the
other two, `AlreadyMemberIsTrue` and `PasswordChangedIsTrue`, are false. No model has a
`RECURSIVE` operator or an induction over data.

## 5. Not modelled, and what is left

* **Token times**: `exp` (a cast and an addition), the 60 s leeway of `jsonwebtoken`,
  extra claims that replace base claims. Expiry appears as a 401 at any moment (Relay)
  or as a token that is used no more (Requests).
* **Routing** (`server/lib.rs`), **server binary**: tables and start-up, without steps.
* **Python**: `TokenManager`, password functions and `serve` forward to the core and
  convert values; `login` and `token_manager` only look at the Database.
* Two toggles at once (`webui.rs:826`) and a rename during `me_password`
  (`webui.rs:645`): the interleavings are in Requests, but no document says what should
  come of them.
* `update` of an id that does not exist yet (`user.rs:214`) may be answered with a row
  that was created meanwhile; `EditedIsTrue` excepts it, since no document says otherwise.
* Outside: Argon2 (library), templates and htmx fragments (layout), argument parsing,
  the order of listings (SQL's), cookies (browser state).

What would add most next: token times against clocks that differ; an abstract
specification of the Python Database that PyDatabase implements.
