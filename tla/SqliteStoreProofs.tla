-------------------------- MODULE SqliteStoreProofs --------------------------
(***************************************************************************)
(* Proof that SqliteStore implements UserStore for any pool, any calls and *)
(* any id bounds, and what follows for its committed database.             *)
(*                                                                         *)
(* The inductive invariant says, for each label a call can be at, what the *)
(* connection's private view is in terms of the committed database: the    *)
(* database itself while the snapshot is not stale, and the result of the  *)
(* statements issued so far once the connection has the write lock.        *)
(***************************************************************************)
EXTENDS SqliteStore, UserStoreProofs

CreateAllowed(k) ==
  ~UsernameTaken(db, k.name) /\ db.userSeq < MaxUserId

RoomForAdmin == NamedAdmin(db) = {} => db.groupSeq < MaxGroupId

GroupMissing ==
  /\ PromotionGroups(db) = {}
  /\ ~GroupNameTaken(db, AdminName)
  /\ db.groupSeq < MaxGroupId

\* The lock and the labels at which a connection must, may or cannot have it.
LockInv(c) ==
  /\ wlock = c => pc[c] \in {"ensure", "enrol", "grant", "commit", "release"} /\ ~stale[c]
  /\ pc[c] \in {"ensure", "enrol", "commit"} => wlock = c

\* A call at a label of create or set_admin is a call of that method.
CallInv(c) ==
  /\ pc[c] = "begun" => call[c].op \in Transactional
  /\ pc[c] \in {"first", "later", "ensure", "enrol"} => call[c].op = "create"
  /\ pc[c] \in {"make", "grant"} => call[c].op = "promote"
  /\ pc[c] = "commit" => call[c].op \in Transactional
  /\ pc[c] \in {"statement", "reread"} => call[c].op \notin Transactional
  /\ pc[c] \notin {"idle", "release"} => call[c] \in Call

\* A transaction that has only read.
SnapshotInv(c) ==
  wlock # c =>
    /\ pc[c] \in {"first", "later", "make", "grant"} /\ ~stale[c] => view[c] = db
    /\ pc[c] = "first" => view[c].users = {}
    /\ pc[c] = "later" => view[c].users # {}
    /\ pc[c] = "make"  => PromotionGroups(view[c]) = {}
    /\ pc[c] = "grant" => chosen[c] = PromotionGroups(view[c]) /\ chosen[c] # {}

\* A transaction that has written: its view is what it makes of db.
WriterInv(c) ==
  LET k == call[c] IN
  /\ pc[c] = "ensure" =>
       db.users = {} /\ CreateAllowed(k) /\ view[c] = InsertUser(db, k.name, k.password)
  /\ pc[c] = "enrol" =>
       /\ db.users = {} /\ CreateAllowed(k) /\ RoomForAdmin
       /\ view[c] = EnsureAdminGroup(InsertUser(db, k.name, k.password))
  /\ pc[c] = "grant" /\ wlock = c =>
       /\ GroupMissing
       /\ view[c] = InsertGroup(db, AdminName, TRUE)
       /\ chosen[c] = {db.groupSeq + 1}
  /\ pc[c] = "commit" /\ k.op = "create" =>
       /\ CreateAllowed(k) /\ (db.users = {} => RoomForAdmin)
       /\ view[c] = CreateUserRow(db, k.name, k.password)
  /\ pc[c] = "commit" /\ k.op = "promote" =>
       /\ PromotionGroups(db) = {} => GroupMissing
       /\ ForeignKeys => k.user \in UserIds(db)
       /\ view[c] = Promote(db, k.user)
  /\ pc[c] = "commit" /\ k.op = "demote" => view[c] = Demote(db, k.user)

ConnInv(c) ==
  /\ LockInv(c) /\ CallInv(c) /\ SnapshotInv(c) /\ WriterInv(c)
  /\ Sound(view[c])

TxInv == TxTypeOK /\ Sound(db) /\ \A c \in Conn : ConnInv(c)

USE TablesAssumption, UserStoreAssumption, SqliteStoreAssumption

-----------------------------------------------------------------------------
(* Frame lemmas: a step of one connection leaves the others' part alone *)

\* The other connections keep their local state, and the lock if they have it.
OthersKeep(c) ==
  \A k \in Conn \ {c} :
    /\ pc'[k] = pc[k] /\ call'[k] = call[k] /\ view'[k] = view[k]
    /\ chosen'[k] = chosen[k] /\ (wlock' = k <=> wlock = k)

\* A step that commits nothing keeps what holds of every other connection.
LEMMA LocalStep ==
  ASSUME TxInv, NEW c \in Conn, db' = db, TxTypeOK', ConnInv(c)', OthersKeep(c),
         \A k \in Conn \ {c} : stale'[k] = stale[k]
  PROVE  TxInv'
<1>1. ASSUME NEW k \in Conn \ {c} PROVE ConnInv(k)'
  <2>1. ConnInv(k)
    BY DEF TxInv
  <2>2. /\ pc'[k] = pc[k] /\ call'[k] = call[k] /\ view'[k] = view[k]
        /\ chosen'[k] = chosen[k] /\ stale'[k] = stale[k]
        /\ (wlock' = k <=> wlock = k)
    BY DEF OthersKeep
  <2>3. LockInv(k)' /\ CallInv(k)'
    BY <2>1, <2>2 DEF ConnInv, LockInv, CallInv
  <2>4. SnapshotInv(k)'
    BY <2>1, <2>2 DEF ConnInv, SnapshotInv
  <2>5. WriterInv(k)'
    BY <2>1, <2>2 DEF ConnInv, WriterInv, CreateAllowed, RoomForAdmin, GroupMissing
  <2>6. Sound(view[k])'
    BY <2>1, <2>2 DEF ConnInv
  <2> QED BY <2>3, <2>4, <2>5, <2>6 DEF ConnInv
<1>2. \A k \in Conn : ConnInv(k)'
  BY <1>1
<1>3. Sound(db)'
  BY DEF TxInv
<1> QED BY <1>2, <1>3 DEF TxInv

\* A commit keeps it too: no other connection has the lock, and the snapshots
\* of those that were reading become stale.
LEMMA CommitStep ==
  ASSUME TxInv, NEW c \in Conn, TxTypeOK', ConnInv(c)', OthersKeep(c), Sound(db'),
         wlock \in {c, NoConn}, NEW wrote \in BOOLEAN, Overtake(c, wrote), db' # db => wrote
  PROVE  TxInv'
<1>1. ASSUME NEW k \in Conn \ {c} PROVE ConnInv(k)'
  <2>1. ConnInv(k)
    BY DEF TxInv
  <2>2. /\ pc'[k] = pc[k] /\ call'[k] = call[k] /\ view'[k] = view[k]
        /\ chosen'[k] = chosen[k] /\ wlock # k /\ wlock' # k
        /\ stale'[k] = (stale[k] \/ (wrote /\ k \in Reading \ {c}))
    BY DEF OthersKeep, Overtake
  <2>3. LockInv(k)' /\ CallInv(k)'
    BY <2>1, <2>2 DEF ConnInv, LockInv, CallInv
  <2>4. SnapshotInv(k)'
    BY <2>1, <2>2 DEF ConnInv, SnapshotInv, Reading
  <2>5. WriterInv(k)'
    BY <2>1, <2>2 DEF ConnInv, LockInv, WriterInv
  <2>6. Sound(view[k])'
    BY <2>1, <2>2 DEF ConnInv
  <2> QED BY <2>3, <2>4, <2>5, <2>6 DEF ConnInv
<1>2. \A k \in Conn : ConnInv(k)'
  BY <1>1
<1> QED BY <1>2 DEF TxInv

\* A connection that drops its transaction keeps the invariant, whether or not
\* its last statement took the lock.
LEMMA DropStep ==
  ASSUME TxInv, NEW c \in Conn, NEW r \in Replies, Drop(c, r),
         wlock' = wlock \/ (MayWrite(c) /\ wlock' = c)
  PROVE  TxInv' /\ db' = db
<1>1. db' = db
  BY DEF Drop
<1>2. /\ pc' = [pc EXCEPT ![c] = "release"] /\ reply' = [reply EXCEPT ![c] = r]
      /\ call' = [call EXCEPT ![c] = NoCall] /\ view' = [view EXCEPT ![c] = EmptyDb]
      /\ chosen' = [chosen EXCEPT ![c] = {}] /\ stale' = [stale EXCEPT ![c] = FALSE]
  BY DEF Drop, Return, Goto
<1>3. TxTypeOK'
  <2>1. EmptyDb \in Db
    BY EmptyDbSound DEF Sound
  <2>2. wlock' \in Conn \cup {NoConn}
    BY DEF TxInv, TxTypeOK
  <2> QED BY <1>1, <1>2, <2>1, <2>2 DEF TxInv, TxTypeOK, TypeOK, Labels
<1>4. OthersKeep(c) /\ \A k \in Conn \ {c} : stale'[k] = stale[k]
  BY <1>2 DEF OthersKeep, TxInv, TxTypeOK, MayWrite, MayUpgrade
<1>5. ConnInv(c)'
  <2>1. pc'[c] = "release" /\ view'[c] = EmptyDb /\ stale'[c] = FALSE
    BY <1>2 DEF TxInv, TxTypeOK
  <2>2. LockInv(c)' /\ CallInv(c)' /\ SnapshotInv(c)' /\ WriterInv(c)'
    BY <2>1 DEF LockInv, CallInv, SnapshotInv, WriterInv
  <2> QED BY <2>1, <2>2, EmptyDbSound DEF ConnInv
<1> QED BY <1>1, <1>3, <1>4, <1>5, LocalStep

\* A write inside a transaction keeps the invariant if its result is sound and
\* the connection's own part holds afterwards.
LEMMA WriteStep ==
  ASSUME TxInv, NEW c \in Conn, NEW d, Sound(d), NEW label \in Labels,
         WriteView(c, d, label), ConnInv(c)',
         chosen' \in [Conn -> SUBSET Id], \A k \in Conn \ {c} : chosen'[k] = chosen[k]
  PROVE  TxInv' /\ db' = db
<1>1. /\ db' = db /\ call' = call /\ stale' = stale /\ reply' = reply /\ wlock' = c
      /\ pc' = [pc EXCEPT ![c] = label] /\ view' = [view EXCEPT ![c] = d]
      /\ MayWrite(c)
  BY DEF WriteView, Goto
<1>2. TxTypeOK'
  BY <1>1 DEF TxInv, TxTypeOK, TypeOK, Sound
<1>3. OthersKeep(c) /\ \A k \in Conn \ {c} : stale'[k] = stale[k]
  BY <1>1 DEF OthersKeep, TxInv, TxTypeOK, MayWrite, MayUpgrade
<1> QED BY <1>1, <1>2, <1>3, LocalStep

-----------------------------------------------------------------------------
(* The steps of create *)

\* The private view of a connection that writes.
LEMMA WriteViewEffect ==
  ASSUME TxInv, NEW c \in Conn, NEW d, NEW label, WriteView(c, d, label)
  PROVE  /\ wlock' = c /\ pc'[c] = label /\ view'[c] = d /\ db' = db
         /\ call'[c] = call[c] /\ stale'[c] = stale[c] /\ ~stale[c]
BY DEF TxInv, TxTypeOK, WriteView, Goto, MayWrite, MayUpgrade, ConnInv, LockInv

\* SELECT COUNT( * ) keeps the invariant: the view is the committed database.
LEMMA CountStep ==
  ASSUME TxInv, NEW c \in Conn, Count(c)
  PROVE  TxInv' /\ db' = db
<1>1. /\ pc' = [pc EXCEPT ![c] = IF db.users = {} THEN "first" ELSE "later"]
      /\ view' = [view EXCEPT ![c] = db]
      /\ UNCHANGED <<db, call, chosen, stale, wlock, reply>>
      /\ pc[c] = "begun" /\ call[c].op = "create"
  BY DEF Count, Goto
<1>2. TxTypeOK'
  BY <1>1 DEF TxInv, TxTypeOK, TypeOK, Labels, Sound
<1>3. OthersKeep(c) /\ \A k \in Conn \ {c} : stale'[k] = stale[k]
  BY <1>1 DEF OthersKeep, TxInv, TxTypeOK
<1>4. ConnInv(c)'
  <2>1. /\ \/ pc'[c] = "first" /\ db.users = {}
           \/ pc'[c] = "later" /\ db.users # {}
        /\ view'[c] = db /\ call'[c] = call[c] /\ wlock' = wlock /\ db' = db
    BY <1>1 DEF TxInv, TxTypeOK
  <2>2. wlock # c /\ call[c] \in Call
    BY <1>1 DEF TxInv, ConnInv, LockInv, CallInv
  <2>3. LockInv(c)' /\ CallInv(c)'
    BY <1>1, <2>1, <2>2 DEF LockInv, CallInv
  <2>4. SnapshotInv(c)'
    BY <2>1 DEF SnapshotInv
  <2>5. WriterInv(c)'
    BY <2>1 DEF WriterInv
  <2> QED BY <2>1, <2>3, <2>4, <2>5 DEF ConnInv, TxInv
<1> QED BY <1>1, <1>2, <1>3, <1>4, LocalStep

\* INSERT INTO users keeps the invariant: the snapshot it extends is current.
LEMMA InsertUserRowStep ==
  ASSUME TxInv, NEW c \in Conn, InsertUserRow(c)
  PROVE  TxInv' /\ db' = db
<1> DEFINE n == call[c].name
           p == call[c].password
           label == IF pc[c] = "first" THEN "ensure" ELSE "commit"
           d == InsertUser(view[c], n, p)
<1>1. /\ pc[c] \in {"first", "later"} /\ ~UsernameTaken(view[c], n)
      /\ view[c].userSeq < MaxUserId /\ WriteView(c, d, label) /\ chosen' = chosen
  BY DEF InsertUserRow
<1>2. /\ wlock' = c /\ pc'[c] = label /\ view'[c] = d /\ db' = db
      /\ call'[c] = call[c] /\ ~stale[c] /\ stale'[c] = stale[c]
  BY <1>1, WriteViewEffect
<1>3. ConnInv(c)
  BY DEF TxInv
<1>4. wlock # c
  BY <1>1, <1>3 DEF ConnInv, LockInv
<1>5. /\ view[c] = db /\ call[c].op = "create" /\ call[c] \in Call
      /\ pc[c] = "first" => db.users = {}
      /\ pc[c] = "later" => db.users # {}
  BY <1>1, <1>2, <1>3, <1>4 DEF ConnInv, SnapshotInv, CallInv
<1>6. n \in Usernames /\ p \in Passwords
  BY <1>5 DEF Call
<1>7. Sound(d)
  BY <1>1, <1>5, <1>6, InsertUserSound DEF TxInv
<1>8. CreateAllowed(call[c])
  BY <1>1, <1>5 DEF CreateAllowed
<1>9. ConnInv(c)'
  <2>1. LockInv(c)' /\ CallInv(c)' /\ SnapshotInv(c)'
    BY <1>2, <1>5 DEF LockInv, CallInv, SnapshotInv, Transactional
  <2>2. WriterInv(c)'
    <3>1. CreateAllowed(call[c])'
      BY <1>2, <1>8 DEF CreateAllowed
    <3>2. CASE pc[c] = "first"
      BY <1>2, <1>5, <3>1, <3>2 DEF WriterInv
    <3>3. CASE pc[c] = "later"
      <4>1. d = CreateUserRow(db, n, p)
        BY <1>5, <3>3 DEF CreateUserRow
      <4> QED BY <1>2, <1>5, <3>1, <3>3, <4>1 DEF WriterInv
    <3> QED BY <1>1, <3>2, <3>3
  <2> QED BY <1>2, <1>7, <2>1, <2>2 DEF ConnInv
<1>10. label \in Labels
  BY DEF Labels
<1>11. chosen' \in [Conn -> SUBSET Id] /\ \A k \in Conn \ {c} : chosen'[k] = chosen[k]
  BY <1>1 DEF TxInv, TxTypeOK
<1> HIDE DEF d, label
<1> QED BY <1>1, <1>7, <1>9, <1>10, <1>11, WriteStep

\* Making or raising the group "admin" keeps the invariant.
LEMMA EnsureAdminStep ==
  ASSUME TxInv, NEW c \in Conn, EnsureAdmin(c)
  PROVE  TxInv' /\ db' = db
<1> DEFINE n == call[c].name
           p == call[c].password
           d == EnsureAdminGroup(view[c])
<1>1. /\ pc[c] = "ensure" /\ WriteView(c, d, "enrol") /\ chosen' = chosen
      /\ NamedAdmin(view[c]) = {} => view[c].groupSeq < MaxGroupId
  BY DEF EnsureAdmin
<1>2. /\ wlock' = c /\ pc'[c] = "enrol" /\ view'[c] = d /\ db' = db
      /\ call'[c] = call[c] /\ ~stale[c] /\ stale'[c] = stale[c]
  BY <1>1, WriteViewEffect
<1>3. ConnInv(c)
  BY DEF TxInv
<1>4. /\ call[c].op = "create" /\ call[c] \in Call
      /\ db.users = {} /\ CreateAllowed(call[c])
      /\ view[c] = InsertUser(db, n, p)
  BY <1>1, <1>3 DEF ConnInv, CallInv, WriterInv
<1>5. n \in Usernames /\ p \in Passwords
  BY <1>4 DEF Call
<1>6. RoomForAdmin
  <2>1. view[c].groups = db.groups /\ view[c].groupSeq = db.groupSeq
    BY <1>4, <1>5, InsertUserEffect DEF TxInv
  <2> QED BY <1>1, <2>1 DEF RoomForAdmin, NamedAdmin
<1>7. Sound(d)
  BY <1>3, EnsureAdminGroupSound DEF ConnInv
<1>8. ConnInv(c)'
  <2>1. LockInv(c)' /\ CallInv(c)'
    BY <1>2, <1>4 DEF LockInv, CallInv
  <2>2. SnapshotInv(c)'
    BY <1>2 DEF SnapshotInv
  <2>3. CreateAllowed(call[c])' /\ RoomForAdmin'
    BY <1>2, <1>4, <1>6 DEF CreateAllowed, RoomForAdmin
  <2>4. WriterInv(c)'
    BY <1>2, <1>4, <2>3 DEF WriterInv
  <2> QED BY <1>2, <1>7, <2>1, <2>2, <2>4 DEF ConnInv
<1>9. chosen' \in [Conn -> SUBSET Id] /\ \A k \in Conn \ {c} : chosen'[k] = chosen[k]
  BY <1>1 DEF TxInv, TxTypeOK
<1> HIDE DEF d
<1> QED BY <1>1, <1>7, <1>8, <1>9, WriteStep DEF Labels

\* The last write of a first registration keeps the invariant: the view is
\* what the abstract CreateUser makes of the committed database.
LEMMA JoinAdminStep ==
  ASSUME TxInv, NEW c \in Conn, JoinAdmin(c)
  PROVE  TxInv' /\ db' = db
<1> DEFINE n == call[c].name
           p == call[c].password
           a == InsertUser(db, n, p)
           b == EnsureAdminGroup(a)
           d == EnrolFirstUser(view[c])
<1>1. pc[c] = "enrol" /\ WriteView(c, d, "commit") /\ chosen' = chosen
  BY DEF JoinAdmin
<1>2. /\ wlock' = c /\ pc'[c] = "commit" /\ view'[c] = d /\ db' = db
      /\ call'[c] = call[c] /\ ~stale[c] /\ stale'[c] = stale[c]
  BY <1>1, WriteViewEffect
<1>3. ConnInv(c)
  BY DEF TxInv
<1>4. /\ call[c].op = "create" /\ call[c] \in Call
      /\ db.users = {} /\ CreateAllowed(call[c]) /\ RoomForAdmin
      /\ view[c] = b
  BY <1>1, <1>3 DEF ConnInv, CallInv, WriterInv
<1>5. n \in Usernames /\ p \in Passwords
  BY <1>4 DEF Call
<1>6. Sound(d)
  <2>1. Sound(a)
    BY <1>4, <1>5, InsertUserSound DEF CreateAllowed, TxInv
  <2>2. a.userSeq \in UserIds(a)
    BY <1>5, InsertUserEffect DEF TxInv
  <2> HIDE DEF a
  <2>3. Sound(b) /\ b.users = a.users /\ b.userSeq = a.userSeq
    BY <2>1, EnsureAdminGroupSound
  <2>4. b.userSeq \in UserIds(b)
    BY <2>2, <2>3 DEF UserIds
  <2> QED BY <1>4, <2>3, <2>4, EnrolFirstUserSound
<1>7. d = CreateUserRow(db, n, p)
  BY <1>4 DEF CreateUserRow
<1>8. ConnInv(c)'
  <2>1. LockInv(c)' /\ CallInv(c)'
    BY <1>2, <1>4 DEF LockInv, CallInv, Transactional
  <2>2. SnapshotInv(c)'
    BY <1>2 DEF SnapshotInv
  <2>3. CreateAllowed(call[c])' /\ RoomForAdmin'
    BY <1>2, <1>4 DEF CreateAllowed, RoomForAdmin
  <2>4. WriterInv(c)'
    BY <1>2, <1>4, <1>7, <2>3 DEF WriterInv
  <2> QED BY <1>2, <1>6, <2>1, <2>2, <2>4 DEF ConnInv
<1>9. chosen' \in [Conn -> SUBSET Id] /\ \A k \in Conn \ {c} : chosen'[k] = chosen[k]
  BY <1>1 DEF TxInv, TxTypeOK
<1> HIDE DEF d
<1> QED BY <1>1, <1>6, <1>8, <1>9, WriteStep DEF Labels

-----------------------------------------------------------------------------
(* The steps of set_admin *)

\* The SELECTs of set_admin keep the invariant.
LEMMA SelectGroupStep ==
  ASSUME TxInv, NEW c \in Conn, SelectGroup(c)
  PROVE  TxInv' /\ db' = db
<1>1. /\ pc' = [pc EXCEPT ![c] = IF PromotionGroups(db) = {} THEN "make" ELSE "grant"]
      /\ view' = [view EXCEPT ![c] = db]
      /\ chosen' = [chosen EXCEPT ![c] = PromotionGroups(db)]
      /\ UNCHANGED <<db, call, stale, wlock, reply>>
      /\ pc[c] = "begun" /\ call[c].op = "promote"
  BY DEF SelectGroup, Goto
<1>2. PromotionGroups(db) \subseteq Id
  BY DEF PromotionGroups, TxInv, Sound, Db, GroupRow
<1>3. TxTypeOK'
  BY <1>1, <1>2 DEF TxInv, TxTypeOK, TypeOK, Labels, Sound
<1>4. OthersKeep(c) /\ \A k \in Conn \ {c} : stale'[k] = stale[k]
  BY <1>1 DEF OthersKeep, TxInv, TxTypeOK
<1>5. ConnInv(c)'
  <2>1. /\ \/ pc'[c] = "make" /\ PromotionGroups(db) = {}
           \/ pc'[c] = "grant" /\ PromotionGroups(db) # {}
        /\ view'[c] = db /\ chosen'[c] = PromotionGroups(db)
        /\ call'[c] = call[c] /\ wlock' = wlock /\ db' = db
    BY <1>1 DEF TxInv, TxTypeOK
  <2>2. wlock # c /\ call[c] \in Call
    BY <1>1 DEF TxInv, ConnInv, LockInv, CallInv
  <2>3. LockInv(c)' /\ CallInv(c)'
    BY <1>1, <2>1, <2>2 DEF LockInv, CallInv
  <2>4. SnapshotInv(c)'
    BY <2>1 DEF SnapshotInv
  <2>5. WriterInv(c)'
    BY <2>1, <2>2 DEF WriterInv
  <2> QED BY <2>1, <2>3, <2>4, <2>5 DEF ConnInv, TxInv
<1> QED BY <1>1, <1>3, <1>4, <1>5, LocalStep

\* Making the group "admin" keeps the invariant.
LEMMA MakeAdminGroupStep ==
  ASSUME TxInv, NEW c \in Conn, MakeAdminGroup(c)
  PROVE  TxInv' /\ db' = db
<1> DEFINE d == InsertGroup(view[c], AdminName, TRUE)
<1>1. /\ pc[c] = "make" /\ WriteView(c, d, "grant")
      /\ ~GroupNameTaken(view[c], AdminName) /\ view[c].groupSeq < MaxGroupId
      /\ chosen' = [chosen EXCEPT ![c] = {view[c].groupSeq + 1}]
  BY DEF MakeAdminGroup
<1>2. /\ wlock' = c /\ pc'[c] = "grant" /\ view'[c] = d /\ db' = db
      /\ call'[c] = call[c] /\ ~stale[c] /\ stale'[c] = stale[c]
  BY <1>1, WriteViewEffect
<1>3. ConnInv(c)
  BY DEF TxInv
<1>4. wlock # c
  BY <1>1, <1>3 DEF ConnInv, LockInv
<1>5. /\ view[c] = db /\ call[c].op = "promote" /\ call[c] \in Call
      /\ PromotionGroups(db) = {}
  BY <1>1, <1>2, <1>3, <1>4 DEF ConnInv, SnapshotInv, CallInv
<1>6. Sound(d)
  BY <1>1, <1>5, InsertGroupSound DEF TxInv
<1>7. GroupMissing
  BY <1>1, <1>5 DEF GroupMissing
<1>8. /\ chosen'[c] = {db.groupSeq + 1} /\ chosen' \in [Conn -> SUBSET Id]
      /\ \A k \in Conn \ {c} : chosen'[k] = chosen[k]
  <2>1. db.groupSeq + 1 \in Id
    BY DEF TxInv, Sound, Db, Id
  <2> QED BY <1>1, <1>5, <2>1 DEF TxInv, TxTypeOK
<1>9. ConnInv(c)'
  <2>1. LockInv(c)' /\ CallInv(c)'
    BY <1>2, <1>5 DEF LockInv, CallInv
  <2>2. SnapshotInv(c)'
    BY <1>2 DEF SnapshotInv
  <2>3. GroupMissing'
    BY <1>2, <1>7 DEF GroupMissing
  <2>4. WriterInv(c)'
    BY <1>2, <1>5, <1>8, <2>3 DEF WriterInv
  <2> QED BY <1>2, <1>6, <2>1, <2>2, <2>4 DEF ConnInv
<1> HIDE DEF d
<1> QED BY <1>1, <1>6, <1>8, <1>9, WriteStep DEF Labels

\* Adding the membership keeps the invariant: the view is what the abstract
\* PromoteUser makes of the committed database, whether the group was found
\* or made by this transaction.
LEMMA GrantStep ==
  ASSUME TxInv, NEW c \in Conn, Grant(c)
  PROVE  TxInv' /\ db' = db
<1> DEFINE u == call[c].user
           ms == view[c].members \cup {<<u, g>> : g \in chosen[c]}
           d == [view[c] EXCEPT !.members = ms]
<1>1. /\ pc[c] = "grant" /\ WriteView(c, d, "commit") /\ chosen' = chosen
      /\ ForeignKeys => u \in UserIds(view[c])
  BY DEF Grant
<1>2. /\ wlock' = c /\ pc'[c] = "commit" /\ view'[c] = d /\ db' = db
      /\ call'[c] = call[c] /\ ~stale[c] /\ stale'[c] = stale[c]
  BY <1>1, WriteViewEffect
<1>3. ConnInv(c)
  BY DEF TxInv
<1>4. call[c].op = "promote" /\ call[c] \in Call
  BY <1>1, <1>3 DEF ConnInv, CallInv
<1>5. u \in Id
  BY <1>4 DEF Call, UserIdArg, Id
<1>6. /\ view[c] = WithPromotionGroup(db)
      /\ chosen[c] = PromotionGroups(view[c])
      /\ PromotionGroups(db) = {} => GroupMissing
  <2>1. CASE wlock = c
    <3>1. /\ GroupMissing /\ view[c] = InsertGroup(db, AdminName, TRUE)
          /\ chosen[c] = {db.groupSeq + 1}
      BY <1>1, <1>3, <2>1 DEF ConnInv, WriterInv
    <3>2. view[c] = WithPromotionGroup(db)
      BY <3>1 DEF GroupMissing, WithPromotionGroup
    <3> DEFINE r == [id |-> db.groupSeq + 1, name |-> AdminName, is_admin |-> TRUE]
               e == InsertGroup(db, AdminName, TRUE)
               named(x) == {g \in {h \in x.groups : h.is_admin} : g.name = AdminName}
    <3>3. e.groups = db.groups \cup {r}
      BY DEF InsertGroup, TxInv, Sound, Db
    <3>4. r.is_admin = TRUE /\ r.name = AdminName /\ r.id = db.groupSeq + 1
      OBVIOUS
    <3>5. named(db) = {}
      BY <3>1 DEF GroupMissing, PromotionGroups
    <3> HIDE DEF r, e
    <3>6. named(e) = {r}
      BY <3>3, <3>4, <3>5
    <3>7. PromotionGroups(e) = {g.id : g \in named(e)}
      BY <3>6 DEF PromotionGroups
    <3>8. PromotionGroups(e) = {db.groupSeq + 1}
      BY <3>4, <3>6, <3>7
    <3> QED BY <3>1, <3>2, <3>8 DEF e
  <2>2. CASE wlock # c
    <3>1. view[c] = db /\ chosen[c] = PromotionGroups(view[c]) /\ chosen[c] # {}
      BY <1>1, <1>2, <1>3, <2>2 DEF ConnInv, SnapshotInv
    <3> QED BY <3>1 DEF WithPromotionGroup
  <2> QED BY <2>1, <2>2
<1>7. d = Promote(db, u)
  BY <1>6 DEF Promote
<1>8. UserIds(view[c]) = UserIds(db)
  <2>1. view[c].users = db.users
    BY <1>6 DEF WithPromotionGroup, InsertGroup, TxInv, Sound, Db
  <2> QED BY <2>1 DEF UserIds
<1>9. Sound(d)
  <2>1. chosen[c] \subseteq GroupIds(view[c])
    BY <1>6 DEF PromotionGroups, GroupIds
  <2>2. Sound(view[c])
    BY <1>3 DEF ConnInv
  <2>3. GroupIds(view[c]) \subseteq Id
    BY <2>2 DEF Sound, Db, GroupRow, GroupIds
  <2>4. ms \subseteq Id \X Id /\ (ForeignKeys => ms \subseteq UserIds(view[c]) \X GroupIds(view[c]))
    BY <1>1, <1>5, <2>1, <2>2, <2>3 DEF Sound, Db, NoOrphansOf
  <2> HIDE DEF ms
  <2> QED BY <2>2, <2>4, MembersSound
<1>10. ConnInv(c)'
  <2>1. LockInv(c)' /\ CallInv(c)'
    BY <1>2, <1>4 DEF LockInv, CallInv, Transactional
  <2>2. SnapshotInv(c)'
    BY <1>2 DEF SnapshotInv
  <2>3. (PromotionGroups(db) = {} => GroupMissing)'
    BY <1>2, <1>6 DEF GroupMissing
  <2> HIDE DEF d
  <2>4. WriterInv(c)'
    BY <1>1, <1>2, <1>4, <1>7, <1>8, <2>3 DEF WriterInv
  <2> QED BY <1>2, <1>9, <2>1, <2>2, <2>4 DEF ConnInv
<1>11. chosen' \in [Conn -> SUBSET Id] /\ \A k \in Conn \ {c} : chosen'[k] = chosen[k]
  BY <1>1 DEF TxInv, TxTypeOK
<1> HIDE DEF d
<1> QED BY <1>1, <1>9, <1>10, <1>11, WriteStep DEF Labels

\* The DELETE of set_admin keeps the invariant: it starts from the committed
\* database, having waited for the lock.
LEMMA RevokeStep ==
  ASSUME TxInv, NEW c \in Conn, Revoke(c)
  PROVE  TxInv' /\ db' = db
<1> DEFINE u == call[c].user
           m == {x \in db.members : ~ \E g \in db.groups : g.is_admin /\ x = <<u, g.id>>}
           d == Demote(db, u)
<1>1. /\ pc[c] = "begun" /\ call[c].op = "demote"
      /\ WriteView(c, d, "commit") /\ chosen' = chosen
  BY DEF Revoke
<1>2. /\ wlock' = c /\ pc'[c] = "commit" /\ view'[c] = d /\ db' = db
      /\ call'[c] = call[c] /\ ~stale[c] /\ stale'[c] = stale[c]
  BY <1>1, WriteViewEffect
<1>3. call[c] \in Call
  BY <1>1 DEF TxInv, ConnInv, CallInv
<1>4. Sound(d)
  <2>1. d = [db EXCEPT !.members = m]
    BY DEF Demote
  <2>2. m \subseteq db.members
    OBVIOUS
  <2> HIDE DEF m, d
  <2> QED BY <2>1, <2>2, FewerMembersSound DEF TxInv
<1>5. ConnInv(c)'
  <2>1. LockInv(c)' /\ CallInv(c)'
    BY <1>1, <1>2, <1>3 DEF LockInv, CallInv, Transactional
  <2>2. SnapshotInv(c)'
    BY <1>2 DEF SnapshotInv
  <2>3. WriterInv(c)'
    BY <1>1, <1>2 DEF WriterInv
  <2> QED BY <1>2, <1>4, <2>1, <2>2, <2>3 DEF ConnInv
<1>6. chosen' \in [Conn -> SUBSET Id] /\ \A k \in Conn \ {c} : chosen'[k] = chosen[k]
  BY <1>1 DEF TxInv, TxTypeOK
<1> HIDE DEF d
<1> QED BY <1>1, <1>4, <1>5, <1>6, WriteStep DEF Labels

-----------------------------------------------------------------------------
(* Calls, commits, crashes *)

\* A call that arrives keeps the invariant.
LEMMA BeginStep ==
  ASSUME TxInv, NEW c \in Conn, NEW k \in Calls, Begin(c, k)
  PROVE  TxInv' /\ db' = db
<1> DEFINE label == IF k.op \in Transactional THEN "begun" ELSE "statement"
<1>1. /\ pc' = [pc EXCEPT ![c] = label] /\ call' = [call EXCEPT ![c] = k]
      /\ UNCHANGED <<db, view, chosen, stale, wlock, reply>>
      /\ pc[c] = "idle" /\ k \in Call
  BY DEF Begin, Goto
<1>2. TxTypeOK'
  BY <1>1 DEF TxInv, TxTypeOK, TypeOK, Labels
<1>3. OthersKeep(c) /\ \A j \in Conn \ {c} : stale'[j] = stale[j]
  BY <1>1 DEF OthersKeep, TxInv, TxTypeOK
<1>4. ConnInv(c)'
  <2>1. /\ \/ pc'[c] = "begun" /\ k.op \in Transactional
           \/ pc'[c] = "statement" /\ k.op \notin Transactional
        /\ call'[c] = k /\ view'[c] = view[c] /\ wlock' = wlock
    BY <1>1 DEF TxInv, TxTypeOK
  <2>2. wlock # c /\ Sound(view[c])
    BY <1>1 DEF TxInv, ConnInv, LockInv
  <2>3. LockInv(c)' /\ CallInv(c)'
    BY <1>1, <2>1, <2>2 DEF LockInv, CallInv
  <2>4. SnapshotInv(c)'
    BY <2>1 DEF SnapshotInv
  <2>5. WriterInv(c)'
    BY <2>1 DEF WriterInv
  <2> QED BY <2>1, <2>2, <2>3, <2>4, <2>5 DEF ConnInv
<1> QED BY <1>1, <1>2, <1>3, <1>4, LocalStep

\* A connection going back to the pool keeps the invariant.
LEMMA ReleaseStep ==
  ASSUME TxInv, NEW c \in Conn, Release(c)
  PROVE  TxInv' /\ db' = db
<1>1. /\ pc' = [pc EXCEPT ![c] = "idle"] /\ reply' = [reply EXCEPT ![c] = "none"]
      /\ UNCHANGED <<db, call, view, chosen, stale>>
      /\ wlock' = IF wlock = c THEN NoConn ELSE wlock
  BY DEF Release, Goto
<1>2. TxTypeOK'
  BY <1>1 DEF TxInv, TxTypeOK, TypeOK, Labels, Replies
<1>3. OthersKeep(c) /\ \A j \in Conn \ {c} : stale'[j] = stale[j]
  BY <1>1 DEF OthersKeep, TxInv, TxTypeOK
<1>4. ConnInv(c)'
  <2>1. pc'[c] = "idle" /\ wlock' # c /\ view'[c] = view[c] /\ Sound(view[c])
    BY <1>1 DEF TxInv, TxTypeOK, ConnInv
  <2>2. LockInv(c)' /\ CallInv(c)' /\ SnapshotInv(c)' /\ WriterInv(c)'
    BY <2>1 DEF LockInv, CallInv, SnapshotInv, WriterInv
  <2> QED BY <2>1, <2>2 DEF ConnInv
<1> QED BY <1>1, <1>2, <1>3, <1>4, LocalStep

\* The empty database with a pool of idle connections satisfies the invariant.
LEMMA InitInv ==
  ASSUME TxInit
  PROVE  TxInv
<1>1. Sound(db) /\ EmptyDb \in Db
  BY EmptyDbSound DEF TxInit, Init, Sound
<1>2. TxTypeOK
  BY <1>1 DEF TxInit, Init, TxTypeOK, TypeOK, Labels, Replies
<1>3. ASSUME NEW c \in Conn PROVE ConnInv(c)
  BY EmptyDbSound DEF TxInit, ConnInv, LockInv, CallInv, SnapshotInv, WriterInv
<1> QED BY <1>1, <1>2, <1>3 DEF TxInv

\* A crash keeps the invariant: the committed database is all that is left.
LEMMA CrashStep ==
  ASSUME TxInv, Crash
  PROVE  TxInv' /\ db' = db
<1>1. EmptyDb \in Db
  BY EmptyDbSound DEF Sound
<1>2. TxTypeOK'
  BY <1>1 DEF Crash, TxInv, TxTypeOK, TypeOK, Labels, Replies
<1>3. ASSUME NEW c \in Conn PROVE ConnInv(c)'
  BY EmptyDbSound DEF Crash, ConnInv, LockInv, CallInv, SnapshotInv, WriterInv
<1> QED BY <1>2, <1>3 DEF Crash, TxInv

\* A commit keeps the invariant and is one step of the abstract store.
LEMMA CommitIsNext ==
  ASSUME TxInv, NEW c \in Conn, Commit(c)
  PROVE  TxInv' /\ Next
<1> DEFINE k == call[c]
<1>1. /\ pc[c] = "commit" /\ db' = view[c] /\ Overtake(c, view[c] # db) /\ wlock' = NoConn
      /\ pc' = [pc EXCEPT ![c] = "release"] /\ reply' = [reply EXCEPT ![c] = "ok"]
      /\ call' = [call EXCEPT ![c] = NoCall] /\ view' = [view EXCEPT ![c] = EmptyDb]
      /\ chosen' = [chosen EXCEPT ![c] = {}]
  BY DEF Commit, Return, Goto
<1>2. ConnInv(c)
  BY DEF TxInv
<1>3. k \in Call /\ k.op \in Transactional /\ wlock = c
  BY <1>1, <1>2 DEF ConnInv, CallInv, LockInv
<1>4. Next
  <2>1. CASE k.op = "create"
    <3>1. k.name \in Usernames /\ k.password \in Passwords
      BY <1>3, <2>1 DEF Call
    <3>2. CreateUser(k.name, k.password)
      BY <1>1, <1>2, <2>1
      DEF ConnInv, WriterInv, CreateUser, CreateAllowed, RoomForAdmin
    <3> QED BY <3>1, <3>2 DEF Next
  <2>2. CASE k.op = "promote"
    <3>1. k.user \in UserIdArg
      BY <1>3, <2>2 DEF Call
    <3>2. PromoteUser(k.user)
      BY <1>1, <1>2, <2>2 DEF ConnInv, WriterInv, PromoteUser, GroupMissing
    <3> QED BY <3>1, <3>2 DEF Next
  <2>3. CASE k.op = "demote"
    <3>1. k.user \in UserIdArg
      BY <1>3, <2>3 DEF Call
    <3>2. DemoteUser(k.user)
      BY <1>1, <1>2, <2>3 DEF ConnInv, WriterInv, DemoteUser
    <3> QED BY <3>1, <3>2 DEF Next
  <2> QED BY <1>3, <2>1, <2>2, <2>3 DEF Transactional
<1>5. Sound(db')
  BY <1>4, NextSound DEF IInv, TxInv
<1>6. stale' \in [Conn -> BOOLEAN]
  BY <1>1 DEF Overtake, TxInv, TxTypeOK
<1>7. TxTypeOK'
  <2>1. EmptyDb \in Db
    BY EmptyDbSound DEF Sound
  <2>2. db' \in Db
    BY <1>5 DEF Sound
  <2> QED BY <1>1, <1>6, <2>1, <2>2 DEF TxInv, TxTypeOK, TypeOK, Labels, Replies
<1>8. OthersKeep(c)
  BY <1>1, <1>3 DEF OthersKeep, TxInv, TxTypeOK
<1>9. ConnInv(c)'
  <2>1. pc'[c] = "release" /\ view'[c] = EmptyDb /\ wlock' # c
    BY <1>1 DEF TxInv, TxTypeOK
  <2>2. LockInv(c)' /\ CallInv(c)' /\ SnapshotInv(c)' /\ WriterInv(c)'
    BY <2>1 DEF LockInv, CallInv, SnapshotInv, WriterInv
  <2> QED BY <2>1, <2>2, EmptyDbSound DEF ConnInv
<1>10. wlock \in {c, NoConn} /\ (db' # db => (view[c] # db)) /\ (view[c] # db) \in BOOLEAN
  BY <1>1, <1>3
<1> QED BY <1>1, <1>4, <1>5, <1>7, <1>8, <1>9, <1>10, CommitStep

\* A single statement that runs is one step of the abstract store.
LEMMA ExecuteIsNext ==
  ASSUME TxInv, NEW c \in Conn, Execute(c)
  PROVE  Next /\ Sound(db')
<1> DEFINE k == call[c]
<1>1. /\ pc[c] = "statement" /\ ~Refused(k, db) /\ db' = After(k, db)
  BY DEF Execute
<1>2. k \in Call /\ k.op \notin Transactional
  BY <1>1 DEF TxInv, ConnInv, CallInv
<1>3. Next
  <2>1. CASE k.op = "update_user"
    <3>1. k.user \in UserIdArg /\ k.change \in UserChange
      BY <1>2, <2>1 DEF Call
    <3>2. UpdateUser(k.user, k.change)
      BY <1>1, <2>1 DEF Refused, After, UpdateUser
    <3> QED BY <3>1, <3>2 DEF Next
  <2>2. CASE k.op = "delete_user"
    <3>1. k.user \in UserIdArg
      BY <1>2, <2>2 DEF Call
    <3>2. DeleteUser(k.user)
      BY <1>1, <2>2 DEF After, DeleteUser
    <3> QED BY <3>1, <3>2 DEF Next
  <2>3. CASE k.op = "create_group"
    <3>1. k.name \in GroupNames /\ k.is_admin \in BOOLEAN
      BY <1>2, <2>3 DEF Call
    <3>2. db.groupSeq \in Nat
      BY DEF TxInv, Sound, Db
    <3>3. CreateGroup(k.name, k.is_admin)
      BY <1>1, <2>3, <3>2 DEF Refused, After, CreateGroup
    <3> QED BY <3>1, <3>3 DEF Next
  <2>4. CASE k.op = "update_group"
    <3>1. k.group \in GroupIdArg /\ k.change \in GroupChange
      BY <1>2, <2>4 DEF Call
    <3>2. UpdateGroup(k.group, k.change)
      BY <1>1, <2>4 DEF Refused, After, UpdateGroup
    <3> QED BY <3>1, <3>2 DEF Next
  <2>5. CASE k.op = "delete_group"
    <3>1. k.group \in GroupIdArg
      BY <1>2, <2>5 DEF Call
    <3>2. DeleteGroup(k.group)
      BY <1>1, <2>5 DEF After, DeleteGroup
    <3> QED BY <3>1, <3>2 DEF Next
  <2>6. CASE k.op = "add_user"
    <3>1. k.group \in GroupIdArg /\ k.user \in UserIdArg
      BY <1>2, <2>6 DEF Call
    <3>2. AddUser(k.group, k.user)
      BY <1>1, <2>6 DEF Refused, After, AddUser
    <3> QED BY <3>1, <3>2 DEF Next
  <2>7. CASE k.op = "remove_user"
    <3>1. k.group \in GroupIdArg /\ k.user \in UserIdArg
      BY <1>2, <2>7 DEF Call
    <3>2. RemoveUser(k.group, k.user)
      BY <1>1, <2>7 DEF After, RemoveUser
    <3> QED BY <3>1, <3>2 DEF Next
  <2>8. k.op \in {"create", "promote", "demote", "update_user", "delete_user",
                  "create_group", "update_group", "delete_group",
                  "add_user", "remove_user"}
    BY <1>2 DEF Call
  <2> QED BY <1>2, <2>1, <2>2, <2>3, <2>4, <2>5, <2>6, <2>7, <2>8 DEF Transactional
<1> QED BY <1>3, NextSound DEF IInv, TxInv

\* A method of one statement keeps the invariant and is one abstract step.
LEMMA ExecuteStep ==
  ASSUME TxInv, NEW c \in Conn, ExecuteWrite(c) \/ ExecuteUpdate(c)
  PROVE  TxInv' /\ Next
<1> DEFINE wrote == db' # db \/ Rewrites(call[c], db)
<1>1. /\ Execute(c)
      /\ pc[c] = "statement" /\ wlock = NoConn /\ wlock' = NoConn
      /\ Overtake(c, wrote)
  BY DEF ExecuteWrite, ExecuteUpdate, Execute
<1>2. Next /\ Sound(db')
  BY <1>1, ExecuteIsNext
<1>3. ConnInv(c)
  BY DEF TxInv
<1>4. stale' \in [Conn -> BOOLEAN] /\ wrote \in BOOLEAN
  BY <1>1 DEF Overtake, TxInv, TxTypeOK, Rewrites
<1>5. EmptyDb \in Db /\ db' \in Db
  BY <1>2, EmptyDbSound DEF Sound
<1>6. TxTypeOK' /\ OthersKeep(c) /\ ConnInv(c)'
  <2>1. CASE ExecuteWrite(c)
    <3>1. /\ pc' = [pc EXCEPT ![c] = "release"]
          /\ reply' = [reply EXCEPT ![c] = IF db' = db THEN "no" ELSE "ok"]
          /\ call' = [call EXCEPT ![c] = NoCall] /\ view' = [view EXCEPT ![c] = EmptyDb]
          /\ chosen' = [chosen EXCEPT ![c] = {}]
      BY <2>1 DEF ExecuteWrite, Return, Goto
    <3>2. TxTypeOK'
      BY <1>1, <1>4, <1>5, <3>1 DEF TxInv, TxTypeOK, TypeOK, Labels, Replies
    <3>3. OthersKeep(c)
      BY <1>1, <3>1 DEF OthersKeep, TxInv, TxTypeOK
    <3>4. pc'[c] = "release" /\ view'[c] = EmptyDb /\ wlock' # c
      BY <1>1, <3>1 DEF TxInv, TxTypeOK
    <3>5. LockInv(c)' /\ CallInv(c)' /\ SnapshotInv(c)' /\ WriterInv(c)'
      BY <3>4 DEF LockInv, CallInv, SnapshotInv, WriterInv
    <3> QED BY <3>2, <3>3, <3>4, <3>5, EmptyDbSound DEF ConnInv
  <2>2. CASE ExecuteUpdate(c)
    <3>1. /\ pc' = [pc EXCEPT ![c] = "reread"] /\ UNCHANGED <<call, view, chosen, reply>>
      BY <2>2 DEF ExecuteUpdate, Goto
    <3>2. TxTypeOK'
      BY <1>1, <1>4, <1>5, <3>1 DEF TxInv, TxTypeOK, TypeOK, Labels
    <3>3. OthersKeep(c)
      BY <1>1, <3>1 DEF OthersKeep, TxInv, TxTypeOK
    <3>4. /\ pc'[c] = "reread" /\ view'[c] = view[c] /\ call'[c] = call[c] /\ wlock' # c
      BY <1>1, <3>1 DEF TxInv, TxTypeOK
    <3>5. LockInv(c)' /\ SnapshotInv(c)' /\ WriterInv(c)'
      BY <3>4 DEF LockInv, SnapshotInv, WriterInv
    <3>6. CallInv(c)' /\ Sound(view[c])'
      BY <1>1, <1>3, <3>4 DEF ConnInv, CallInv
    <3> QED BY <3>2, <3>3, <3>5, <3>6 DEF ConnInv
  <2> QED BY <2>1, <2>2
<1>7. wlock \in {c, NoConn} /\ (db' # db => wrote)
  BY <1>1
<1> HIDE DEF wrote
<1> QED BY <1>1, <1>2, <1>4, <1>6, <1>7, CommitStep

-----------------------------------------------------------------------------
(* Every step *)

\* A step that fails or is given up keeps the invariant and commits nothing.
LEMMA FailureStep ==
  ASSUME TxInv, NEW c \in Conn,
         \/ InsertUserFails(c) \/ EnsureAdminFails(c) \/ MakeAdminGroupFails(c)
         \/ GrantFails(c) \/ Busy(c) \/ LockTimeout(c) \/ ExecuteFails(c)
         \/ Reread(c) \/ Abort(c)
  PROVE  TxInv' /\ db' = db
<1>1. ASSUME NEW e \in {"exists", "constraint", "full", "busy"}, WriteFails(c, e)
      PROVE  TxInv' /\ db' = db
  <2>1. PICK r \in Replies : Drop(c, r)
    BY <1>1 DEF WriteFails, Fail, Replies
  <2>2. MayWrite(c) /\ wlock' = c
    BY <1>1 DEF WriteFails
  <2> QED BY <2>1, <2>2, DropStep
<1>2. ASSUME NEW e \in {"exists", "constraint", "full", "busy"}, Fail(c, e), wlock' = wlock
      PROVE  TxInv' /\ db' = db
  <2>1. PICK r \in Replies : Drop(c, r)
    BY <1>2 DEF Fail, Replies
  <2> QED BY <1>2, <2>1, DropStep
<1>3. ASSUME NEW r \in Replies, Drop(c, r), wlock' = wlock
      PROVE  TxInv' /\ db' = db
  BY <1>3, DropStep
<1>4. CASE InsertUserFails(c)
  BY <1>1, <1>4 DEF InsertUserFails
<1>5. CASE EnsureAdminFails(c)
  BY <1>1, <1>5 DEF EnsureAdminFails
<1>6. CASE MakeAdminGroupFails(c)
  BY <1>1, <1>6 DEF MakeAdminGroupFails
<1>7. CASE GrantFails(c)
  BY <1>1, <1>7 DEF GrantFails
<1>8. CASE Busy(c)
  BY <1>2, <1>8 DEF Busy
<1>9. CASE LockTimeout(c)
  BY <1>2, <1>9 DEF LockTimeout
<1>10. CASE ExecuteFails(c)
  <2>1. Refusal(call[c], db) \in {"exists", "constraint", "full", "busy"}
    BY DEF Refusal
  <2> QED BY <1>2, <1>10, <2>1 DEF ExecuteFails
<1>11. CASE Reread(c)
  BY <1>3, <1>11 DEF Reread, Replies
<1>12. CASE Abort(c)
  BY <1>3, <1>12 DEF Abort, Replies
<1> QED BY <1>4, <1>5, <1>6, <1>7, <1>8, <1>9, <1>10, <1>11, <1>12

\* Every step keeps the invariant and is a step of UserStore or a stutter.
LEMMA TxNextStep ==
  ASSUME TxInv, TxNext
  PROVE  TxInv' /\ [Next]_db
<1>1. ASSUME NEW c \in Conn, NEW k \in Calls, Begin(c, k)
      PROVE  TxInv' /\ db' = db
  BY <1>1, BeginStep
<1>2. ASSUME NEW c \in Conn, Step(c)
      PROVE  TxInv' /\ [Next]_db
  <2>1. CASE Count(c)
    BY <2>1, CountStep
  <2>2. CASE InsertUserRow(c)
    BY <2>2, InsertUserRowStep
  <2>3. CASE EnsureAdmin(c)
    BY <2>3, EnsureAdminStep
  <2>4. CASE JoinAdmin(c)
    BY <2>4, JoinAdminStep
  <2>5. CASE SelectGroup(c)
    BY <2>5, SelectGroupStep
  <2>6. CASE MakeAdminGroup(c)
    BY <2>6, MakeAdminGroupStep
  <2>7. CASE Grant(c)
    BY <2>7, GrantStep
  <2>8. CASE Revoke(c)
    BY <2>8, RevokeStep
  <2>9. CASE Commit(c)
    BY <2>9, CommitIsNext
  <2>10. CASE Release(c)
    BY <2>10, ReleaseStep
  <2>11. CASE ExecuteWrite(c) \/ ExecuteUpdate(c)
    BY <2>11, ExecuteStep
  <2>12. CASE \/ InsertUserFails(c) \/ EnsureAdminFails(c) \/ MakeAdminGroupFails(c)
              \/ GrantFails(c) \/ Busy(c) \/ LockTimeout(c) \/ ExecuteFails(c) \/ Reread(c)
    BY <2>12, FailureStep
  <2> QED
    BY <1>2, <2>1, <2>2, <2>3, <2>4, <2>5, <2>6, <2>7, <2>8, <2>9, <2>10, <2>11, <2>12
    DEF Step
<1>3. ASSUME NEW c \in Conn, Abort(c)
      PROVE  TxInv' /\ db' = db
  BY <1>3, FailureStep
<1>4. CASE Crash
  BY <1>4, CrashStep
<1> QED BY <1>1, <1>2, <1>3, <1>4 DEF TxNext

\* A stuttering step keeps the invariant.
LEMMA StutterStep ==
  ASSUME TxInv, UNCHANGED vars
  PROVE  TxInv' /\ db' = db
<1>1. TxTypeOK' /\ Sound(db)'
  BY DEF vars, TxInv, TxTypeOK, TypeOK
<1>2. ASSUME NEW c \in Conn PROVE ConnInv(c)'
  <2>1. ConnInv(c)
    BY DEF TxInv
  <2>2. UNCHANGED <<db, pc, call, view, chosen, stale, wlock>>
    BY DEF vars
  <2>3. LockInv(c)' /\ CallInv(c)' /\ SnapshotInv(c)' /\ Sound(view[c])'
    BY <2>1, <2>2 DEF ConnInv, LockInv, CallInv, SnapshotInv
  <2>4. WriterInv(c)'
    BY <2>1, <2>2 DEF ConnInv, WriterInv, CreateAllowed, RoomForAdmin, GroupMissing
  <2> QED BY <2>3, <2>4 DEF ConnInv
<1> QED BY <1>1, <1>2 DEF vars, TxInv

-----------------------------------------------------------------------------
(* Theorems *)

LEMMA TxInvariance == TxSpec => []TxInv
<1>1. TxInit => TxInv
  BY InitInv
<1>2. TxInv /\ [TxNext]_vars => TxInv'
  BY TxNextStep, StutterStep
<1> QED BY <1>1, <1>2, PTL DEF TxSpec

\* The pool's bookkeeping is well typed in every state, and every private view
\* is a database that satisfies the schema.
THEOREM TxTypeCorrect == TxSpec => []TxTypeOK
<1>1. TxInv => TxTypeOK
  BY DEF TxInv
<1> QED BY <1>1, TxInvariance, PTL

\* The methods are atomic: with any number of connections, whatever fails,
\* aborts or crashes, the committed database changes only as UserStore says.
THEOREM Refinement == TxSpec => Spec
<1>1. TxInit => Init
  BY DEF TxInit
<1>2. TxInv /\ [TxNext]_vars => [Next]_db
  BY TxNextStep, StutterStep
<1> QED BY <1>1, <1>2, TxInvariance, PTL DEF TxSpec, Spec

\* A connection commits what its statements make of the latest database.
THEOREM LockHolderWorksOnLatest == TxSpec => []LockHolderIsCurrent
<1>1. TxInv => LockHolderIsCurrent
  BY DEF TxInv, ConnInv, LockInv, WriterInv, LockHolderIsCurrent
<1> QED BY <1>1, TxInvariance, PTL

\* However many registrations race for an empty table, the first committed
\* user is an administrator ...
THEOREM RaceFirstUserIsAdmin == TxSpec => FirstUserIsAdmin
BY Refinement, FirstUserIsAnAdmin

\* ... and no later one becomes administrator by registering.
THEOREM RaceNewUserStartsClean ==
  ASSUME ForeignKeys = TRUE
  PROVE  TxSpec => NewUserStartsClean
BY Refinement, NewUsersStartClean

\* Names and ids stay unique, and an id whose user is gone stays unused,
\* however statements of different connections interleave, fail or are lost.
THEOREM RaceIdsAreNeverReused == TxSpec => []Keys /\ IdsNeverReused
BY Refinement, KeysHold, IdsAreNeverReused

-----------------------------------------------------------------------------
(* What callers are told *)

\* A connection answers its caller in one step, and no other connection does.
LEMMA RepliesOf ==
  ASSUME TxInv, TxNext, NEW c \in Conn, reply'[c] # reply[c], reply'[c] \in {"ok", "busy"}
  PROVE  \/ Commit(c) \/ ExecuteWrite(c) \/ Reread(c)
         \/ reply'[c] = "busy" /\ (Busy(c) \/ LockTimeout(c))
<1> USE DEF TxInv, TxTypeOK
<1>1. PICK k \in Conn : (\E j \in Calls : Begin(k, j)) \/ Step(k) \/ Abort(k)
  BY DEF TxNext, Crash
<1>2. reply' # reply
  OBVIOUS
<1>3. ASSUME NEW r, Return(k, r)
      PROVE  c = k /\ reply'[c] = r
  BY <1>3 DEF Return
<1>4. ASSUME NEW r, Drop(k, r)
      PROVE  c = k /\ reply'[c] = r
  BY <1>3, <1>4 DEF Drop
<1>5. ASSUME NEW e, Fail(k, e)
      PROVE  c = k /\ reply'[c] \in {e, "no"}
  BY <1>4, <1>5 DEF Fail
<1>6. ASSUME NEW e \in {"exists", "constraint", "full"}
      PROVE  ~Fail(k, e)
  BY <1>5
<1>7. ~Count(k) /\ ~InsertUserRow(k) /\ ~EnsureAdmin(k) /\ ~JoinAdmin(k)
  BY <1>2 DEF Begin, Count, InsertUserRow, EnsureAdmin, JoinAdmin, WriteView
<1>8. \A j \in Calls : ~Begin(k, j)
  BY <1>2 DEF Begin
<1>9. /\ ~SelectGroup(k) /\ ~MakeAdminGroup(k) /\ ~Grant(k) /\ ~Revoke(k)
      /\ ~ExecuteUpdate(k)
  BY <1>2 DEF SelectGroup, MakeAdminGroup, Grant, Revoke, WriteView, ExecuteUpdate
<1>10. /\ ~InsertUserFails(k) /\ ~EnsureAdminFails(k) /\ ~MakeAdminGroupFails(k)
       /\ ~GrantFails(k)
  BY <1>6 DEF InsertUserFails, EnsureAdminFails, MakeAdminGroupFails, GrantFails, WriteFails
<1>11. ~ExecuteFails(k)
  BY <1>6 DEF ExecuteFails, Refusal
<1>12. ~Abort(k)
  BY <1>4 DEF Abort
<1>13. ~Release(k)
  BY DEF Release
<1>14. \/ Commit(k) \/ ExecuteWrite(k) \/ Reread(k) \/ Busy(k) \/ LockTimeout(k)
  BY <1>1, <1>7, <1>8, <1>9, <1>10, <1>11, <1>12, <1>13 DEF Step
<1>15. CASE Commit(k)
  BY <1>3, <1>15 DEF Commit
<1>16. CASE ExecuteWrite(k)
  BY <1>3, <1>16 DEF ExecuteWrite
<1>17. CASE Reread(k)
  BY <1>4, <1>17 DEF Reread
<1>18. CASE Busy(k) \/ LockTimeout(k)
  BY <1>5, <1>18 DEF Busy, LockTimeout
<1> QED BY <1>14, <1>15, <1>16, <1>17, <1>18

\* The lock is free, its holder is in the middle of a call, or a snapshot was
\* overtaken: a pool of one connection never sees SQLITE_BUSY.
THEOREM BusyNeedsARivalHolds == TxSpec => BusyNeedsARival
<1>1. TxInv /\ [TxNext]_vars =>
        [\A c \in Conn : reply[c] # "busy" /\ reply'[c] = "busy" =>
           stale[c] \/ \E k \in Conn \ {c} : pc[k] # "idle"]_vars
  <2> SUFFICES ASSUME TxInv, TxNext, NEW c \in Conn, reply[c] # "busy", reply'[c] = "busy"
               PROVE  stale[c] \/ \E k \in Conn \ {c} : pc[k] # "idle"
    OBVIOUS
  <2>1. \A k \in Conn : LockInv(k) /\ wlock \in Conn \cup {NoConn}
    BY DEF TxInv, ConnInv, TxTypeOK
  <2>2. ~Commit(c) /\ ~ExecuteWrite(c) /\ ~Reread(c)
    BY DEF TxInv, TxTypeOK, Commit, ExecuteWrite, Reread, Drop, Return
  <2>3. CASE Busy(c)
    BY <2>1, <2>3 DEF Busy, MayWrite, MayUpgrade, LockInv
  <2>4. CASE LockTimeout(c)
    BY <2>1, <2>4 DEF LockTimeout, LockInv
  <2> QED BY <2>2, <2>3, <2>4, RepliesOf
<1> QED BY <1>1, TxInvariance, PTL DEF TxSpec, BusyNeedsARival

\* set_admin(_, true) finds or makes a group that makes its user an
\* administrator.
LEMMA PromoteMakesAdmin ==
  ASSUME NEW d, Sound(d), NEW u
  PROVE  IsAdmin(Promote(d, u), u)
<1> DEFINE e == WithPromotionGroup(d)
           r == [id |-> d.groupSeq + 1, name |-> AdminName, is_admin |-> TRUE]
<1>1. PromotionGroups(e) # {}
  <2>1. CASE PromotionGroups(d) # {}
    BY <2>1 DEF WithPromotionGroup
  <2>2. CASE PromotionGroups(d) = {}
    <3>1. e.groups = d.groups \cup {r}
      BY <2>2 DEF WithPromotionGroup, InsertGroup, Sound, Db
    <3>2. r.is_admin /\ r.name = AdminName
      OBVIOUS
    <3> HIDE DEF r, e
    <3>3. r \in {g \in {h \in e.groups : h.is_admin} : g.name = AdminName}
      BY <3>1, <3>2
    <3> QED BY <3>3 DEF PromotionGroups
  <2> QED BY <2>1, <2>2
<1>2. PICK g \in e.groups : g.is_admin /\ g.id \in PromotionGroups(e)
  BY <1>1 DEF PromotionGroups
<1>3. Promote(d, u).members = e.members \cup {<<u, x>> : x \in PromotionGroups(e)}
  <2>1. e = [users |-> e.users, groups |-> e.groups, members |-> e.members,
             userSeq |-> e.userSeq, groupSeq |-> e.groupSeq]
    BY DEF WithPromotionGroup, InsertGroup, Sound, Db
  <2> HIDE DEF e
  <2>2. Promote(d, u) = [e EXCEPT !.members = @ \cup {<<u, x>> : x \in PromotionGroups(e)}]
    BY DEF Promote, e
  <2> QED BY <2>1, <2>2
<1>4. Promote(d, u).groups = e.groups
  BY DEF Promote, WithPromotionGroup, InsertGroup, Sound, Db
<1> QED BY <1>2, <1>3, <1>4 DEF IsAdmin

\* ... and set_admin(_, false) leaves it in none.
LEMMA DemoteUnmakesAdmin ==
  ASSUME NEW d, Sound(d), NEW u
  PROVE  ~IsAdmin(Demote(d, u), u)
<1>1. /\ Demote(d, u).groups = d.groups
      /\ Demote(d, u).members =
           {m \in d.members : ~ \E g \in d.groups : g.is_admin /\ m = <<u, g.id>>}
  BY DEF Demote, Sound, Db
<1> QED BY <1>1 DEF IsAdmin

\* A transaction that commits has done what its method is named for.
LEMMA CommitMeansDone ==
  ASSUME TxInv, NEW c \in Conn, Commit(c)
  PROVE  Effect(call[c], db')
<1> DEFINE k == call[c]
<1>1. ConnInv(c) /\ Sound(db) /\ pc[c] = "commit" /\ db' = view[c]
  BY DEF TxInv, Commit
<1>2. k \in Call /\ k.op \in Transactional
  BY <1>1 DEF ConnInv, CallInv
<1>3. CASE k.op = "create"
  <2>1. k.name \in Usernames /\ k.password \in Passwords
    BY <1>2, <1>3 DEF Call
  <2>2. db' = CreateUserRow(db, k.name, k.password)
    BY <1>1, <1>3 DEF ConnInv, WriterInv
  <2>3. UsernameTaken(db', k.name)
    <3> DEFINE a == InsertUser(db, k.name, k.password)
               b == EnsureAdminGroup(a)
    <3>1. Sound(a)
      BY <1>1, <1>3, <2>1, InsertUserSound DEF ConnInv, WriterInv, CreateAllowed
    <3>2. UsernameTaken(a, k.name) /\ a.userSeq \in UserIds(a)
      <4> DEFINE r == [id |-> db.userSeq + 1, username |-> k.name,
                       password |-> k.password, active |-> TRUE]
      <4>1. a.users = db.users \cup {r}
        BY <1>1 DEF InsertUser, Sound, Db
      <4>2. r.username = k.name
        OBVIOUS
      <4> HIDE DEF r, a
      <4>3. UsernameTaken(a, k.name)
        BY <4>1, <4>2 DEF UsernameTaken
      <4>4. a.userSeq \in UserIds(a)
        BY <1>1, <2>1, InsertUserEffect DEF a
      <4> QED BY <4>3, <4>4
    <3> HIDE DEF a
    <3>3. Sound(b) /\ b.users = a.users /\ b.userSeq = a.userSeq
      BY <3>1, EnsureAdminGroupSound
    <3> HIDE DEF b
    <3>4. EnrolFirstUser(b).users = b.users
      BY <3>2, <3>3, EnrolFirstUserSound DEF UserIds
    <3> QED BY <2>2, <3>2, <3>3, <3>4 DEF CreateUserRow, UsernameTaken, a, b
  <2> QED BY <1>3, <2>3 DEF Effect
<1>4. CASE k.op = "promote"
  <2>1. db' = Promote(db, k.user)
    BY <1>1, <1>4 DEF ConnInv, WriterInv
  <2> QED BY <1>1, <1>4, <2>1, PromoteMakesAdmin DEF Effect
<1>5. CASE k.op = "demote"
  <2>1. db' = Demote(db, k.user)
    BY <1>1, <1>5 DEF ConnInv, WriterInv
  <2> QED BY <1>1, <1>5, <2>1, DemoteUnmakesAdmin DEF Effect
<1> QED BY <1>2, <1>3, <1>4, <1>5 DEF Transactional

\* So has a method of one statement, once it ran.
LEMMA ExecuteMeansDone ==
  ASSUME TxInv, NEW c \in Conn, ExecuteWrite(c)
  PROVE  Effect(call[c], db')
<1> DEFINE k == call[c]
<1>1. /\ Sound(db) /\ db' = After(k, db) /\ ~Refused(k, db)
      /\ pc[c] = "statement" /\ k.op \notin Update
  BY DEF TxInv, ExecuteWrite, Execute
<1>2. k \in Call /\ k.op \notin Transactional
  BY <1>1 DEF TxInv, ConnInv, CallInv
<1>3. CASE k.op = "delete_user"
  <2>1. k.user \in Id
    BY <1>2, <1>3 DEF Call, UserIdArg, Id
  <2> QED BY <1>1, <1>3, <2>1, DeleteUserSound DEF After, Effect
<1>4. CASE k.op = "create_group"
  <2>1. db'.groups = db.groups \cup
          {[id |-> db.groupSeq + 1, name |-> k.name, is_admin |-> k.is_admin]}
    BY <1>1, <1>4 DEF After, InsertGroup, Sound, Db
  <2>2. GroupNameTaken(db', k.name)
    BY <2>1 DEF GroupNameTaken
  <2> QED BY <1>4, <2>2 DEF Effect
<1>5. CASE k.op = "delete_group"
  <2>1. db'.groups = {g \in db.groups : g.id # k.group}
    BY <1>1, <1>5 DEF After, DeleteGroupRow, Sound, Db
  <2>2. k.group \notin GroupIds(db')
    BY <2>1 DEF GroupIds
  <2> QED BY <1>5, <2>2 DEF Effect
<1>6. CASE k.op = "add_user"
  <2>1. db'.members = db.members \cup {<<k.user, k.group>>}
    BY <1>1, <1>6 DEF After, InsertMember, Sound, Db
  <2> QED BY <1>6, <2>1 DEF Effect
<1>7. CASE k.op = "remove_user"
  <2>1. db'.members = db.members \ {<<k.user, k.group>>}
    BY <1>1, <1>7 DEF After, DeleteMember, Sound, Db
  <2> QED BY <1>7, <2>1 DEF Effect
<1>8. k.op \in {"delete_user", "create_group", "delete_group", "add_user", "remove_user"}
  BY <1>1, <1>2 DEF Call, Transactional, Update
<1> QED BY <1>3, <1>4, <1>5, <1>6, <1>7, <1>8

\* A method that returns success has done what it is named for, whatever
\* other connections did between its statements.
THEOREM OkMeansDoneHolds == TxSpec => OkMeansDone
<1>1. TxInv /\ [TxNext]_vars =>
        [\A c \in Conn : reply[c] = "none" /\ reply'[c] = "ok" => Effect(call[c], db')]_vars
  <2> SUFFICES ASSUME TxInv, TxNext, NEW c \in Conn, reply[c] = "none", reply'[c] = "ok"
               PROVE  Effect(call[c], db')
    OBVIOUS
  <2>1. CASE Commit(c)
    BY <2>1, CommitMeansDone
  <2>2. CASE ExecuteWrite(c)
    BY <2>2, ExecuteMeansDone
  <2>3. CASE Reread(c)
    <3>1. Rewrites(call[c], db)
      BY <2>3 DEF Reread, Drop, Return, TxInv, TxTypeOK
    <3>2. db' = db
      BY <2>3 DEF Reread, Drop
    <3> QED BY <3>1, <3>2 DEF Effect, Rewrites
  <2> QED BY <2>1, <2>2, <2>3, RepliesOf
<1> QED BY <1>1, TxInvariance, PTL DEF TxSpec, OkMeansDone
=============================================================================
