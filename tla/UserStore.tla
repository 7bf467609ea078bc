------------------------------ MODULE UserStore ------------------------------
(***************************************************************************)
(* What UserManager and GroupManager promise on the local backend: each    *)
(* mutating method changes the committed database in one indivisible step, *)
(* or not at all.  A call that fails (a UNIQUE or FOREIGN KEY constraint,  *)
(* a busy database, a missing row) leaves the database alone, so it is a   *)
(* stuttering step here.  SqliteStore shows how far the code, which issues *)
(* its statements one by one on pooled connections, keeps this promise.    *)
(***************************************************************************)
EXTENDS Tables

CONSTANTS
  MaxUserId,    \* largest rowid of users: INSERT fails beyond it
  MaxGroupId    \* largest rowid of groups

ASSUME UserStoreAssumption == MaxUserId \in Nat /\ MaxGroupId \in Nat

VARIABLE db     \* the committed content of the SQLite file

UserIdArg  == 1..MaxUserId     \* ids a caller may name, existing or not
GroupIdArg == 1..MaxGroupId

Init == db = EmptyDb

\* The first user needs room for a group called "admin" as well.
CreateUser(n, p) ==
  /\ db.userSeq < MaxUserId
  /\ ~UsernameTaken(db, n)
  /\ db.users = {} /\ NamedAdmin(db) = {} => db.groupSeq < MaxGroupId
  /\ db' = CreateUserRow(db, n, p)

UpdateUser(i, ch) ==
  /\ UserUpdatable(db, i, ch)
  /\ db' = UpdateUserRow(db, i, ch)

DeleteUser(i) == db' = DeleteUserRow(db, i)

PromoteUser(i) ==
  /\ PromotionGroups(db) = {} =>
       ~GroupNameTaken(db, AdminName) /\ db.groupSeq < MaxGroupId
  /\ ForeignKeys => i \in UserIds(db)
  /\ db' = Promote(db, i)

DemoteUser(i) == db' = Demote(db, i)

CreateGroup(n, a) ==
  /\ db.groupSeq < MaxGroupId
  /\ ~GroupNameTaken(db, n)
  /\ db' = InsertGroup(db, n, a)

UpdateGroup(i, ch) ==
  /\ GroupUpdatable(db, i, ch)
  /\ db' = UpdateGroupRow(db, i, ch)

DeleteGroup(i) == db' = DeleteGroupRow(db, i)

AddUser(g, u) ==
  /\ Joinable(db, u, g)
  /\ <<u, g>> \notin db.members
  /\ db' = InsertMember(db, u, g)

RemoveUser(g, u) == db' = DeleteMember(db, u, g)

Next ==
  \/ \E n \in Usernames, p \in Passwords : CreateUser(n, p)
  \/ \E i \in UserIdArg, ch \in UserChange : UpdateUser(i, ch)
  \/ \E i \in UserIdArg : DeleteUser(i) \/ PromoteUser(i) \/ DemoteUser(i)
  \/ \E n \in GroupNames, a \in BOOLEAN : CreateGroup(n, a)
  \/ \E i \in GroupIdArg, ch \in GroupChange : UpdateGroup(i, ch)
  \/ \E i \in GroupIdArg : DeleteGroup(i)
  \/ \E g \in GroupIdArg, u \in UserIdArg : AddUser(g, u) \/ RemoveUser(g, u)

Spec == Init /\ [][Next]_db

-----------------------------------------------------------------------------

TypeOK == db \in Db

\* Ids are never above the sequence that hands them out, and neither ids nor
\* names are shared: what PRIMARY KEY, AUTOINCREMENT and UNIQUE are there for.
KeysOf(d) ==
  /\ \A u \in d.users : u.id <= d.userSeq
  /\ \A u, v \in d.users : (u.id = v.id \/ u.username = v.username) => u = v
  /\ \A g \in d.groups : g.id <= d.groupSeq
  /\ \A g, h \in d.groups : (g.id = h.id \/ g.name = h.name) => g = h

Keys == KeysOf(db)

\* README, "データベーススキーマ": deleting a user or a group deletes its
\* user_groups rows too, so every membership row names rows that exist.
NoOrphansOf(d) == d.members \subseteq UserIds(d) \X GroupIds(d)

NoOrphans == NoOrphansOf(db)

\* An id that was given out and deleted is never given out again.  Tokens
\* name their user by id alone and outlive the row, so a reused id would hand
\* a deleted account's sessions to whoever registers next.
IdsNeverReused ==
  [][\A i \in 1..db.userSeq : i \notin UserIds(db) => i \notin UserIds(db')]_db

\* A user that appears starts without any group, except that the first one
\* starts in the group called "admin"; in particular nobody can be enrolled
\* before existing.
NewUserStartsClean ==
  [][\A u \in UserIds(db') \ UserIds(db), g \in GroupIds(db') :
       <<u, g>> \in db'.members =>
         db.users = {} /\ \E a \in NamedAdmin(db') : a.id = g]_db

\* The user created while the table is empty is an administrator in the very
\* commit that creates it (first_user_auto_admin), even if the table was
\* emptied again or a plain group took the name "admin" before.
FirstUserIsAdmin ==
  [][db.users = {} => \A u \in UserIds(db') : IsAdmin(db', u)]_db
=============================================================================
