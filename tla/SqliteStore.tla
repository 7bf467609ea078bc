----------------------------- MODULE SqliteStore -----------------------------
(***************************************************************************)
(* UserManager and GroupManager on the local backend as they run: every    *)
(* call takes a pooled connection and issues its SQL statements one by     *)
(* one, interleaved with the statements of other connections, with clients *)
(* that go away and with crashes.                                          *)
(*                                                                         *)
(* The file is in WAL mode and sqlx's begin() sends a plain BEGIN, so a    *)
(* transaction                                                             *)
(*   - sees the snapshot its first SELECT took (view);                     *)
(*   - may turn writer only if no connection holds the write lock and no   *)
(*     commit overtook its snapshot (stale); otherwise the statement fails *)
(*     at once with SQLITE_BUSY, without the 5 s busy timeout;             *)
(*   - waits for the lock, up to that timeout, if its first statement is   *)
(*     already a write, as does a statement outside a transaction;         *)
(*   - keeps the lock when a statement fails: dropping sqlx's Transaction  *)
(*     only queues the ROLLBACK, after the caller has its error.           *)
(***************************************************************************)
EXTENDS UserStore

CONSTANTS
  Conn,     \* connections of the pool (open_local allows 8)
  NoConn,   \* holder of a free write lock
  Calls     \* the method calls clients make, a subset of Call

\* The mutating methods and their arguments.  A change with every field Unset
\* is an update of display_name or description only; an update without any
\* field at all is a plain read and not a call here.
Call ==
       [op: {"create"}, name: Usernames, password: Passwords]
  \cup [op: {"promote", "demote", "delete_user"}, user: UserIdArg]
  \cup [op: {"update_user"}, user: UserIdArg, change: UserChange]
  \cup [op: {"create_group"}, name: GroupNames, is_admin: BOOLEAN]
  \cup [op: {"update_group"}, group: GroupIdArg, change: GroupChange]
  \cup [op: {"delete_group"}, group: GroupIdArg]
  \cup [op: {"add_user", "remove_user"}, group: GroupIdArg, user: UserIdArg]

ASSUME SqliteStoreAssumption == NoConn \notin Conn /\ Calls \subseteq Call

VARIABLES
  pc,       \* how far the call on each connection got
  call,     \* the call, NoCall on an idle connection
  view,     \* what the connection's transaction sees
  chosen,   \* the group set_admin selected, as a set of at most one id
  stale,    \* a commit has overtaken the connection's snapshot
  wlock,    \* the connection that holds the WAL write lock
  reply     \* what the caller got, "none" while it waits

vars == <<db, pc, call, view, chosen, stale, wlock, reply>>

NoCall == [op |-> "none"]

Transactional == {"create", "promote", "demote"}

TxInit ==
  /\ Init
  /\ pc = [c \in Conn |-> "idle"]
  /\ call = [c \in Conn |-> NoCall]
  /\ view = [c \in Conn |-> EmptyDb]
  /\ chosen = [c \in Conn |-> {}]
  /\ stale = [c \in Conn |-> FALSE]
  /\ wlock = NoConn
  /\ reply = [c \in Conn |-> "none"]

Goto(c, label) == pc' = [pc EXCEPT ![c] = label]

\* The method returns r and what it read or wrote is of no more use.  The
\* connection has yet to go back to the pool.
Return(c, r) ==
  /\ Goto(c, "release")
  /\ reply' = [reply EXCEPT ![c] = r]
  /\ call' = [call EXCEPT ![c] = NoCall]
  /\ view' = [view EXCEPT ![c] = EmptyDb]
  /\ chosen' = [chosen EXCEPT ![c] = {}]

\* The transaction is dropped, with whatever lock it has.
Drop(c, r) ==
  /\ Return(c, r)
  /\ stale' = [stale EXCEPT ![c] = FALSE]
  /\ UNCHANGED db

\* A statement failed: `?` returns the error and drops the transaction.
\* GroupManager::add_user turns every error into false.
Fail(c, error) == Drop(c, IF call[c].op = "add_user" THEN "no" ELSE error)

-----------------------------------------------------------------------------
(* Connections and locks *)

Begin(c, k) ==
  /\ pc[c] = "idle"
  /\ Goto(c, IF k.op \in Transactional THEN "begun" ELSE "statement")
  /\ call' = [call EXCEPT ![c] = k]
  /\ UNCHANGED <<db, view, chosen, stale, wlock, reply>>

\* Connections whose transaction has read but not yet written.
Reading == {c \in Conn : pc[c] \in {"first", "later", "make", "grant"} /\ wlock # c}

\* A transaction that has read may write whatever was committed meanwhile.
Bug_MayUpgrade(c) == wlock = NoConn

MayUpgrade(c) == wlock = NoConn /\ ~stale[c]
MayWrite(c)   == wlock = c \/ MayUpgrade(c)

\* A commit that wrote to the file overtakes every other snapshot.
Overtake(c, wrote) ==
  stale' = [k \in Conn |-> stale[k] \/ (wrote /\ k \in Reading \ {c})]

\* The first write of a transaction that has read finds the lock taken or its
\* snapshot overtaken.
Busy(c) ==
  /\ pc[c] \in {"first", "later", "make", "grant"}
  /\ ~MayWrite(c)
  /\ Fail(c, "busy")
  /\ UNCHANGED wlock

\* No busy timeout: a statement waits for the lock as long as it takes.
Bug_LockTimeout(c) == FALSE

\* The busy timeout of a statement that waits for the lock.
LockTimeout(c) ==
  /\ pc[c] = "statement" \/ (pc[c] = "begun" /\ call[c].op = "demote")
  /\ wlock # NoConn
  /\ Fail(c, "busy")
  /\ UNCHANGED wlock

Commit(c) ==
  /\ pc[c] = "commit"
  /\ db' = view[c]
  /\ Overtake(c, view[c] # db)
  /\ wlock' = NoConn
  /\ Return(c, "ok")

\* The connection is given out again before it is rolled back.
Bug_Release(c) ==
  /\ pc[c] = "release"
  /\ Goto(c, "idle")
  /\ reply' = [reply EXCEPT ![c] = "none"]
  /\ UNCHANGED <<db, call, view, chosen, stale, wlock>>

\* The worker thread rolls back what is left of the transaction and the
\* connection is idle again.
Release(c) ==
  /\ pc[c] = "release"
  /\ wlock' = IF wlock = c THEN NoConn ELSE wlock
  /\ Goto(c, "idle")
  /\ reply' = [reply EXCEPT ![c] = "none"]
  /\ UNCHANGED <<db, call, view, chosen, stale>>

\* The caller goes away and its future is dropped at an await.
Abort(c) ==
  /\ pc[c] \notin {"idle", "release"}
  /\ Drop(c, "gone")
  /\ UNCHANGED wlock

\* The process dies and is started again: only what was committed is left.
Crash ==
  /\ UNCHANGED db
  /\ pc' = [c \in Conn |-> "idle"]
  /\ call' = [c \in Conn |-> NoCall]
  /\ view' = [c \in Conn |-> EmptyDb]
  /\ chosen' = [c \in Conn |-> {}]
  /\ stale' = [c \in Conn |-> FALSE]
  /\ wlock' = NoConn
  /\ reply' = [c \in Conn |-> "none"]

\* A write inside the transaction of c succeeds, or fails with error.
WriteView(c, d, label) ==
  /\ MayWrite(c)
  /\ wlock' = c
  /\ view' = [view EXCEPT ![c] = d]
  /\ Goto(c, label)
  /\ UNCHANGED <<db, call, stale, reply>>

WriteFails(c, error) == MayWrite(c) /\ wlock' = c /\ Fail(c, error)

-----------------------------------------------------------------------------
(* UserManager::create *)

\* SELECT COUNT( * ) FROM users: takes the snapshot and decides is_first.
Count(c) ==
  /\ pc[c] = "begun" /\ call[c].op = "create"
  /\ view' = [view EXCEPT ![c] = db]
  /\ Goto(c, IF db.users = {} THEN "first" ELSE "later")
  /\ UNCHANGED <<db, call, chosen, stale, wlock, reply>>

\* COUNT moved behind the INSERT: it never finds the table empty.
Bug_InsertUserRow(c) ==
  /\ pc[c] \in {"first", "later"}
  /\ ~UsernameTaken(view[c], call[c].name)
  /\ view[c].userSeq < MaxUserId
  /\ WriteView(c, InsertUser(view[c], call[c].name, call[c].password), "commit")
  /\ UNCHANGED chosen

InsertUserRow(c) ==
  /\ pc[c] \in {"first", "later"}
  /\ ~UsernameTaken(view[c], call[c].name)
  /\ view[c].userSeq < MaxUserId
  /\ WriteView(c, InsertUser(view[c], call[c].name, call[c].password),
               IF pc[c] = "first" THEN "ensure" ELSE "commit")
  /\ UNCHANGED chosen

InsertUserFails(c) ==
  /\ pc[c] \in {"first", "later"}
  /\ \/ UsernameTaken(view[c], call[c].name) /\ WriteFails(c, "exists")
     \/ view[c].userSeq >= MaxUserId /\ WriteFails(c, "full")

\* SELECT the group named "admin", then UPDATE it or INSERT it.  Nobody can
\* interfere between the two: the connection has the write lock.
EnsureAdmin(c) ==
  /\ pc[c] = "ensure"
  /\ NamedAdmin(view[c]) = {} => view[c].groupSeq < MaxGroupId
  /\ WriteView(c, EnsureAdminGroup(view[c]), "enrol")
  /\ UNCHANGED chosen

EnsureAdminFails(c) ==
  /\ pc[c] = "ensure"
  /\ NamedAdmin(view[c]) = {} /\ view[c].groupSeq >= MaxGroupId
  /\ WriteFails(c, "full")

JoinAdmin(c) ==
  /\ pc[c] = "enrol"
  /\ WriteView(c, EnrolFirstUser(view[c]), "commit")
  /\ UNCHANGED chosen

-----------------------------------------------------------------------------
(* UserManager::set_admin *)

\* The SELECTs that look for an admin group share one snapshot.
SelectGroup(c) ==
  /\ pc[c] = "begun" /\ call[c].op = "promote"
  /\ view' = [view EXCEPT ![c] = db]
  /\ chosen' = [chosen EXCEPT ![c] = PromotionGroups(db)]
  /\ Goto(c, IF PromotionGroups(db) = {} THEN "make" ELSE "grant")
  /\ UNCHANGED <<db, call, stale, wlock, reply>>

MakeAdminGroup(c) ==
  /\ pc[c] = "make"
  /\ ~GroupNameTaken(view[c], AdminName)
  /\ view[c].groupSeq < MaxGroupId
  /\ WriteView(c, InsertGroup(view[c], AdminName, TRUE), "grant")
  /\ chosen' = [chosen EXCEPT ![c] = {view[c].groupSeq + 1}]

\* A plain group called "admin" is in the way, or ids have run out.
MakeAdminGroupFails(c) ==
  /\ pc[c] = "make"
  /\ \/ GroupNameTaken(view[c], AdminName) /\ WriteFails(c, "constraint")
     \/ view[c].groupSeq >= MaxGroupId /\ WriteFails(c, "full")

\* INSERT OR IGNORE; it does not ignore a broken FOREIGN KEY.
Grant(c) ==
  /\ pc[c] = "grant"
  /\ ForeignKeys => call[c].user \in UserIds(view[c])
  /\ WriteView(c, [view[c] EXCEPT !.members =
                     @ \cup {<<call[c].user, g>> : g \in chosen[c]}], "commit")
  /\ UNCHANGED chosen

GrantFails(c) ==
  /\ pc[c] = "grant"
  /\ ForeignKeys /\ call[c].user \notin UserIds(view[c])
  /\ WriteFails(c, "constraint")

\* The DELETE is the transaction's first statement, so it waits for the lock
\* and sees the latest commit.
Revoke(c) ==
  /\ pc[c] = "begun" /\ call[c].op = "demote"
  /\ wlock = NoConn
  /\ WriteView(c, Demote(db, call[c].user), "commit")
  /\ UNCHANGED chosen

-----------------------------------------------------------------------------
(* The methods that are one statement on a connection of the pool *)

\* A UNIQUE or FOREIGN KEY constraint, or the end of the ids, stops it.
Refused(k, d) ==
  \/ k.op = "update_user" /\ ~UserUpdatable(d, k.user, k.change)
  \/ k.op = "create_group" /\ (GroupNameTaken(d, k.name) \/ d.groupSeq >= MaxGroupId)
  \/ k.op = "update_group" /\ ~GroupUpdatable(d, k.group, k.change)
  \/ k.op = "add_user" /\ (~Joinable(d, k.user, k.group)
                             \/ <<k.user, k.group>> \in d.members)

After(k, d) ==
  CASE k.op = "update_user"  -> UpdateUserRow(d, k.user, k.change)
    [] k.op = "delete_user"  -> DeleteUserRow(d, k.user)
    [] k.op = "create_group" -> InsertGroup(d, k.name, k.is_admin)
    [] k.op = "update_group" -> UpdateGroupRow(d, k.group, k.change)
    [] k.op = "delete_group" -> DeleteGroupRow(d, k.group)
    [] k.op = "add_user"     -> InsertMember(d, k.user, k.group)
    [] k.op = "remove_user"  -> DeleteMember(d, k.user, k.group)

\* An UPDATE writes updated_at even if it changes nothing else.
Rewrites(k, d) ==
  \/ k.op = "update_user" /\ k.user \in UserIds(d)
  \/ k.op = "update_group" /\ k.group \in GroupIds(d)

Update == {"update_user", "update_group"}

\* The statement runs and commits in one step once the lock is free.
Execute(c) ==
  /\ pc[c] = "statement"
  /\ wlock = NoConn
  /\ ~Refused(call[c], db)
  /\ db' = After(call[c], db)
  /\ Overtake(c, db' # db \/ Rewrites(call[c], db))
  /\ UNCHANGED wlock

\* delete and remove_user report whether they found a row.
ExecuteWrite(c) ==
  /\ Execute(c)
  /\ call[c].op \notin Update
  /\ Return(c, IF db' = db THEN "no" ELSE "ok")

\* update reads the row back with a statement of its own ...
ExecuteUpdate(c) ==
  /\ Execute(c)
  /\ call[c].op \in Update
  /\ Goto(c, "reread")
  /\ UNCHANGED <<call, view, chosen, reply>>

\* ... which finds none if there never was one, or if it is gone meanwhile.
Reread(c) ==
  /\ pc[c] = "reread"
  /\ Drop(c, IF Rewrites(call[c], db) THEN "ok" ELSE "no")
  /\ UNCHANGED wlock

\* A taken username or group name is told apart from other constraints by
\* UserManager::update and GroupManager::create, not by GroupManager::update.
Refusal(k, d) ==
  CASE k.op = "update_user" -> "exists"
    [] k.op = "create_group" -> IF GroupNameTaken(d, k.name) THEN "exists" ELSE "full"
    [] OTHER -> "constraint"

ExecuteFails(c) ==
  /\ pc[c] = "statement"
  /\ wlock = NoConn
  /\ Refused(call[c], db)
  /\ Fail(c, Refusal(call[c], db))
  /\ UNCHANGED wlock

-----------------------------------------------------------------------------

\* What the connection's own thread does next, whatever the others do.
Step(c) ==
  \/ Count(c) \/ InsertUserRow(c) \/ InsertUserFails(c)
  \/ EnsureAdmin(c) \/ EnsureAdminFails(c) \/ JoinAdmin(c)
  \/ SelectGroup(c) \/ MakeAdminGroup(c) \/ MakeAdminGroupFails(c)
  \/ Grant(c) \/ GrantFails(c) \/ Revoke(c)
  \/ Busy(c) \/ LockTimeout(c) \/ Commit(c) \/ Release(c)
  \/ ExecuteWrite(c) \/ ExecuteUpdate(c) \/ Reread(c) \/ ExecuteFails(c)

TxNext ==
  \/ \E c \in Conn : \/ \E k \in Calls : Begin(c, k)
                     \/ Step(c)
                     \/ Abort(c)
  \/ Crash

TxSpec == TxInit /\ [][TxNext]_vars

\* sqlx runs each connection on a thread of its own, and the tokio runtime
\* polls every future that is ready.  Nothing makes clients call or go away.
FairTxSpec == TxSpec /\ \A c \in Conn : WF_vars(Step(c))

-----------------------------------------------------------------------------

Labels == {"idle", "begun", "first", "later", "ensure", "enrol", "make", "grant",
           "commit", "statement", "reread", "release"}

Replies == {"none", "ok", "no", "exists", "constraint", "full", "busy", "gone"}

TxTypeOK ==
  /\ TypeOK
  /\ pc \in [Conn -> Labels]
  /\ call \in [Conn -> Call \cup {NoCall}]
  /\ view \in [Conn -> Db]
  /\ chosen \in [Conn -> SUBSET Id]
  /\ stale \in [Conn -> BOOLEAN]
  /\ wlock \in Conn \cup {NoConn}
  /\ reply \in [Conn -> Replies]

\* What a method promises its caller of the database it committed.
Effect(k, d) ==
  CASE k.op = "create"       -> UsernameTaken(d, k.name)
    [] k.op = "promote"      -> IsAdmin(d, k.user)
    [] k.op = "demote"       -> ~IsAdmin(d, k.user)
    [] k.op = "delete_user"  -> k.user \notin UserIds(d)
    [] k.op = "create_group" -> GroupNameTaken(d, k.name)
    [] k.op = "delete_group" -> k.group \notin GroupIds(d)
    [] k.op = "add_user"     -> <<k.user, k.group>> \in d.members
    [] k.op = "remove_user"  -> <<k.user, k.group>> \notin d.members
    [] k.op = "update_user"  -> k.user \in UserIds(d)
    [] k.op = "update_group" -> k.group \in GroupIds(d)

\* A method that returns success keeps its promise in the database as it is
\* when it returns: between the SELECT of set_admin and its COMMIT the chosen
\* group may have been deleted, renamed or stripped of its is_admin flag by
\* another connection.  update promises no more than that the row it returns
\* is there: its fields may have been changed again (see EditedIsTrue).
OkMeansDone ==
  [][\A c \in Conn : reply[c] = "none" /\ reply'[c] = "ok" => Effect(call[c], db')]_vars

\* Whoever has the write lock works on the latest commit: what it will commit
\* is that database and its own statements, and overwrites nobody's commit.  No
\* connection is back in the pool with the lock.
LockHolderIsCurrent ==
  \A c \in Conn : wlock = c =>
    LET k == call[c] IN
    /\ pc[c] \in {"ensure", "enrol", "grant", "commit", "release"}
    /\ pc[c] = "ensure" => view[c] = InsertUser(db, k.name, k.password)
    /\ pc[c] = "commit" /\ k.op = "create" =>
         view[c] = CreateUserRow(db, k.name, k.password)
    /\ pc[c] = "commit" /\ k.op = "promote" => view[c] = Promote(db, k.user)
    /\ pc[c] = "commit" /\ k.op = "demote" => view[c] = Demote(db, k.user)

\* A busy database is only reported while another connection is in use or
\* because one committed since the call read; so a pool of one connection, or
\* a caller whose pool is otherwise idle, never gets SQLITE_BUSY.  Needs that
\* no connection goes back to the pool with the lock of a dropped transaction.
BusyNeedsARival ==
  [][\A c \in Conn : reply[c] # "busy" /\ reply'[c] = "busy" =>
       stale[c] \/ \E k \in Conn \ {c} : pc[k] # "idle"]_vars

\* Every call returns and every connection becomes usable again: nobody waits
\* for a lock whose holder waits for something else.
EveryCallReturns == \A c \in Conn : pc[c] # "idle" ~> pc[c] = "idle"
=============================================================================
