--------------------------- MODULE UserStoreProofs ---------------------------
(***************************************************************************)
(* Proofs about UserStore, for any names, passwords and id bounds.  The    *)
(* inductive invariant is the conjunction of what the schema declares; it  *)
(* is a predicate on a database value (Sound), so that each statement of   *)
(* Tables gets one lemma and each action of UserStore cites one.           *)
(***************************************************************************)
EXTENDS UserStore, TLAPS

\* The constraints of 0001_init.sql on a database value.  Without foreign
\* keys (a legacy user_groups table) nothing is said of the membership rows.
Sound(d) == d \in Db /\ KeysOf(d) /\ (ForeignKeys => NoOrphansOf(d))

USE TablesAssumption, UserStoreAssumption

\* The empty database of a fresh file satisfies every constraint.
LEMMA EmptyDbSound == Sound(EmptyDb)
BY DEF Sound, EmptyDb, Db, KeysOf, NoOrphansOf, UserIds, GroupIds

\* INSERT INTO users keeps the constraints when the name is free.
LEMMA InsertUserSound ==
  ASSUME NEW d, Sound(d), NEW n \in Usernames, NEW p \in Passwords,
         ~UsernameTaken(d, n)
  PROVE  Sound(InsertUser(d, n, p))
<1> DEFINE r == [id |-> d.userSeq + 1, username |-> n, password |-> p, active |-> TRUE]
           e == InsertUser(d, n, p)
<1>1. /\ r \in UserRow
      /\ r.id = d.userSeq + 1 /\ r.username = n
  BY DEF Sound, Db, UserRow, Id
<1>2. /\ e.users = d.users \cup {r} /\ e.groups = d.groups
      /\ e.members = d.members /\ e.groupSeq = d.groupSeq
      /\ e.userSeq = d.userSeq + 1
  BY DEF Sound, InsertUser, Db
<1>3. e \in Db
  <2> DEFINE d1 == [d EXCEPT !.users = @ \cup {r}]
  <2>1. d1 \in Db /\ d.userSeq \in Nat
    BY <1>1 DEF Sound, Db
  <2> HIDE DEF d1
  <2>2. [d1 EXCEPT !.userSeq = d.userSeq + 1] \in Db
    BY <2>1 DEF Db
  <2> QED BY <2>2 DEF InsertUser, d1
<1> HIDE DEF e, r
<1>4. KeysOf(e)
  BY <1>1, <1>2 DEF Sound, KeysOf, Db, UserRow, GroupRow, Id, UsernameTaken
<1>5. ForeignKeys => NoOrphansOf(e)
  BY <1>2 DEF Sound, NoOrphansOf, UserIds, GroupIds
<1>6. Sound(e)
  BY <1>3, <1>4, <1>5 DEF Sound
<1> QED BY <1>6 DEF e

\* INSERT INTO groups keeps the constraints when the name is free.
LEMMA InsertGroupSound ==
  ASSUME NEW d, Sound(d), NEW n \in GroupNames, NEW a \in BOOLEAN,
         ~GroupNameTaken(d, n)
  PROVE  Sound(InsertGroup(d, n, a))
<1> DEFINE r == [id |-> d.groupSeq + 1, name |-> n, is_admin |-> a]
           e == InsertGroup(d, n, a)
<1>1. /\ r \in GroupRow
      /\ r.id = d.groupSeq + 1 /\ r.name = n
  BY DEF Sound, Db, GroupRow, Id
<1>2. /\ e.users = d.users /\ e.groups = d.groups \cup {r}
      /\ e.members = d.members /\ e.userSeq = d.userSeq
      /\ e.groupSeq = d.groupSeq + 1
  BY DEF Sound, InsertGroup, Db
<1>3. e \in Db
  <2> DEFINE d1 == [d EXCEPT !.groups = @ \cup {r}]
  <2>1. d1 \in Db /\ d.groupSeq \in Nat
    BY <1>1 DEF Sound, Db
  <2> HIDE DEF d1
  <2>2. [d1 EXCEPT !.groupSeq = d.groupSeq + 1] \in Db
    BY <2>1 DEF Db
  <2> QED BY <2>2 DEF InsertGroup, d1
<1> HIDE DEF e, r
<1>4. KeysOf(e)
  BY <1>1, <1>2 DEF Sound, KeysOf, Db, UserRow, GroupRow, Id, GroupNameTaken
<1>5. ForeignKeys => NoOrphansOf(e)
  BY <1>2 DEF Sound, NoOrphansOf, UserIds, GroupIds
<1>6. Sound(e)
  BY <1>3, <1>4, <1>5 DEF Sound
<1> QED BY <1>6 DEF e

\* Replacing the membership rows keeps the constraints when the new rows are
\* typed and, under foreign keys, name existing rows.
LEMMA MembersSound ==
  ASSUME NEW d, Sound(d), NEW m, m \subseteq Id \X Id,
         ForeignKeys => m \subseteq UserIds(d) \X GroupIds(d)
  PROVE  Sound([d EXCEPT !.members = m])
BY DEF Sound, Db, KeysOf, NoOrphansOf, UserIds, GroupIds

\* UPDATE users keeps the constraints when the new name, if any, is free.
LEMMA UpdateUserSound ==
  ASSUME NEW d, Sound(d), NEW i \in Id, NEW ch \in UserChange, UserUpdatable(d, i, ch)
  PROVE  Sound(UpdateUserRow(d, i, ch))
<1> DEFINE f(u) == IF u.id # i THEN u
                   ELSE [id |-> i, username |-> Coalesce(ch.username, u.username),
                         password |-> Coalesce(ch.password, u.password),
                         active |-> Coalesce(ch.active, u.active)]
           us == {f(u) : u \in d.users}
           e  == UpdateUserRow(d, i, ch)
<1>1. \A u \in d.users : u \in UserRow /\ f(u) \in UserRow /\ f(u).id = u.id
                         /\ f(u).username = IF u.id # i THEN u.username
                                            ELSE Coalesce(ch.username, u.username)
  BY DEF Sound, Db, UserRow, UserChange, Coalesce
<1>2. /\ e.users = us /\ e.groups = d.groups /\ e.members = d.members
      /\ e.userSeq = d.userSeq /\ e.groupSeq = d.groupSeq
  BY DEF Sound, Db, UpdateUserRow
<1>3. /\ \A v \in us : \E u \in d.users : v = f(u)
      /\ \A u \in d.users : f(u) \in us
  OBVIOUS
<1>4. e \in Db
  <2>1. us \subseteq UserRow
    BY <1>1
  <2> HIDE DEF us
  <2>2. [d EXCEPT !.users = us] \in Db
    BY <2>1 DEF Sound, Db
  <2> QED BY <2>2 DEF UpdateUserRow, us
<1> HIDE DEF e, us, f
<1>5. \A u, v \in d.users : (u.id = v.id \/ f(u).username = f(v).username) => u = v
  BY <1>1 DEF Sound, KeysOf, UserUpdatable, Coalesce, UserRow
<1>6. KeysOf(e)
  BY <1>1, <1>2, <1>3, <1>5 DEF Sound, KeysOf
<1>7. UserIds(d) \subseteq UserIds(e)
  BY <1>1, <1>2, <1>3 DEF UserIds
<1>8. ForeignKeys => NoOrphansOf(e)
  BY <1>2, <1>7 DEF Sound, NoOrphansOf, GroupIds
<1>9. Sound(e)
  BY <1>4, <1>6, <1>8 DEF Sound
<1> QED BY <1>9 DEF e

\* UPDATE groups keeps the constraints when the new name, if any, is free.
LEMMA UpdateGroupSound ==
  ASSUME NEW d, Sound(d), NEW i \in Id, NEW ch \in GroupChange, GroupUpdatable(d, i, ch)
  PROVE  Sound(UpdateGroupRow(d, i, ch))
<1> DEFINE f(g) == IF g.id # i THEN g
                   ELSE [id |-> i, name |-> Coalesce(ch.name, g.name),
                         is_admin |-> Coalesce(ch.is_admin, g.is_admin)]
           gs == {f(g) : g \in d.groups}
           e  == UpdateGroupRow(d, i, ch)
<1>1. \A g \in d.groups : g \in GroupRow /\ f(g) \in GroupRow /\ f(g).id = g.id
                          /\ f(g).name = IF g.id # i THEN g.name
                                         ELSE Coalesce(ch.name, g.name)
  BY DEF Sound, Db, GroupRow, GroupChange, Coalesce
<1>2. /\ e.users = d.users /\ e.groups = gs /\ e.members = d.members
      /\ e.userSeq = d.userSeq /\ e.groupSeq = d.groupSeq
  BY DEF Sound, Db, UpdateGroupRow
<1>3. /\ \A h \in gs : \E g \in d.groups : h = f(g)
      /\ \A g \in d.groups : f(g) \in gs
  OBVIOUS
<1>4. e \in Db
  <2>1. gs \subseteq GroupRow
    BY <1>1
  <2> HIDE DEF gs
  <2>2. [d EXCEPT !.groups = gs] \in Db
    BY <2>1 DEF Sound, Db
  <2> QED BY <2>2 DEF UpdateGroupRow, gs
<1> HIDE DEF e, gs, f
<1>5. \A g, h \in d.groups : (g.id = h.id \/ f(g).name = f(h).name) => g = h
  BY <1>1 DEF Sound, KeysOf, GroupUpdatable, Coalesce, GroupRow
<1>6. KeysOf(e)
  BY <1>1, <1>2, <1>3, <1>5 DEF Sound, KeysOf
<1>7. GroupIds(d) \subseteq GroupIds(e)
  BY <1>1, <1>2, <1>3 DEF GroupIds
<1>8. ForeignKeys => NoOrphansOf(e)
  BY <1>2, <1>7 DEF Sound, NoOrphansOf, UserIds
<1>9. Sound(e)
  BY <1>4, <1>6, <1>8 DEF Sound
<1> QED BY <1>9 DEF e

\* DELETE FROM users keeps the constraints: the cascade takes the memberships.
LEMMA DeleteUserSound ==
  ASSUME NEW d, Sound(d), NEW i \in Id
  PROVE  /\ Sound(DeleteUserRow(d, i))
         /\ DeleteUserRow(d, i).userSeq = d.userSeq
         /\ UserIds(DeleteUserRow(d, i)) = UserIds(d) \ {i}
<1> DEFINE us == {u \in d.users : u.id # i}
           ms == IF ForeignKeys THEN {m \in d.members : m[1] # i} ELSE d.members
           e  == DeleteUserRow(d, i)
<1>1. /\ e.users = us /\ e.groups = d.groups /\ e.members = ms
      /\ e.userSeq = d.userSeq /\ e.groupSeq = d.groupSeq
  BY DEF Sound, Db, DeleteUserRow
<1>2. us \subseteq d.users /\ ms \subseteq d.members
  OBVIOUS
<1>3. e \in Db
  <2> HIDE DEF us, ms
  <2> DEFINE d1 == [d EXCEPT !.users = us]
  <2>1. d1 \in Db
    BY <1>2 DEF Sound, Db
  <2>2. ms \subseteq Id \X Id
    BY <1>2 DEF Sound, Db
  <2> HIDE DEF d1
  <2>3. [d1 EXCEPT !.members = ms] \in Db
    BY <2>1, <2>2 DEF Db
  <2> QED BY <2>3 DEF DeleteUserRow, d1, us, ms
<1>4. UserIds(e) = UserIds(d) \ {i}
  BY <1>1 DEF UserIds
<1>5. ForeignKeys => NoOrphansOf(e)
  <2>1. ASSUME ForeignKeys, NEW m \in ms
        PROVE  m \in (UserIds(d) \ {i}) \X GroupIds(d)
    BY <2>1 DEF Sound, NoOrphansOf
  <2>2. GroupIds(e) = GroupIds(d)
    BY <1>1 DEF GroupIds
  <2> QED BY <1>1, <1>4, <2>1, <2>2 DEF NoOrphansOf
<1>6. KeysOf(e)
  BY <1>1, <1>2 DEF Sound, KeysOf
<1>7. Sound(e)
  BY <1>3, <1>5, <1>6 DEF Sound
<1> QED BY <1>1, <1>4, <1>7 DEF e

\* DELETE FROM groups keeps the constraints likewise.
LEMMA DeleteGroupSound ==
  ASSUME NEW d, Sound(d), NEW i \in Id
  PROVE  Sound(DeleteGroupRow(d, i))
<1> DEFINE gs == {g \in d.groups : g.id # i}
           ms == IF ForeignKeys THEN {m \in d.members : m[2] # i} ELSE d.members
           e  == DeleteGroupRow(d, i)
<1>1. /\ e.users = d.users /\ e.groups = gs /\ e.members = ms
      /\ e.userSeq = d.userSeq /\ e.groupSeq = d.groupSeq
  BY DEF Sound, Db, DeleteGroupRow
<1>2. gs \subseteq d.groups /\ ms \subseteq d.members
  OBVIOUS
<1>3. e \in Db
  <2> HIDE DEF gs, ms
  <2> DEFINE d1 == [d EXCEPT !.groups = gs]
  <2>1. d1 \in Db
    BY <1>2 DEF Sound, Db
  <2>2. ms \subseteq Id \X Id
    BY <1>2 DEF Sound, Db
  <2> HIDE DEF d1
  <2>3. [d1 EXCEPT !.members = ms] \in Db
    BY <2>1, <2>2 DEF Db
  <2> QED BY <2>3 DEF DeleteGroupRow, d1, gs, ms
<1>4. ForeignKeys => NoOrphansOf(e)
  <2>1. GroupIds(e) = GroupIds(d) \ {i}
    BY <1>1 DEF GroupIds
  <2>2. ASSUME ForeignKeys, NEW m \in ms
        PROVE  m \in UserIds(d) \X (GroupIds(d) \ {i})
    BY <2>2 DEF Sound, NoOrphansOf
  <2>3. UserIds(e) = UserIds(d)
    BY <1>1 DEF UserIds
  <2> QED BY <1>1, <2>1, <2>2, <2>3 DEF NoOrphansOf
<1>5. KeysOf(e)
  BY <1>1, <1>2 DEF Sound, KeysOf
<1>6. Sound(e)
  BY <1>3, <1>4, <1>5 DEF Sound
<1> QED BY <1>6 DEF e

\* The first-user branch leaves a group called "admin" that is an admin group,
\* and touches neither users nor memberships.
LEMMA EnsureAdminGroupSound ==
  ASSUME NEW d, Sound(d)
  PROVE  LET e == EnsureAdminGroup(d)
         IN  /\ Sound(e)
             /\ e.users = d.users /\ e.members = d.members /\ e.userSeq = d.userSeq
             /\ \E g \in NamedAdmin(e) : g.is_admin
<1> DEFINE e == EnsureAdminGroup(d)
<1>1. CASE NamedAdmin(d) = {}
  <2>1. e = InsertGroup(d, AdminName, TRUE) /\ ~GroupNameTaken(d, AdminName)
    BY <1>1 DEF EnsureAdminGroup, NamedAdmin, GroupNameTaken
  <2>2. Sound(e)
    BY <2>1, InsertGroupSound
  <2>3. [id |-> d.groupSeq + 1, name |-> AdminName, is_admin |-> TRUE] \in NamedAdmin(e)
    BY <2>1 DEF Sound, Db, InsertGroup, NamedAdmin
  <2>4. \E g \in NamedAdmin(e) : g.is_admin
    BY <2>3
  <2>5. e.users = d.users /\ e.members = d.members /\ e.userSeq = d.userSeq
    BY <2>1 DEF Sound, Db, InsertGroup
  <2> QED BY <2>2, <2>4, <2>5
<1>2. CASE NamedAdmin(d) # {}
  <2> DEFINE f(g) == IF g.name = AdminName THEN [g EXCEPT !.is_admin = TRUE] ELSE g
             gs == {f(g) : g \in d.groups}
  <2>1. \A g \in d.groups : /\ f(g) \in GroupRow /\ f(g).id = g.id /\ f(g).name = g.name
                            /\ g.name = AdminName => f(g).is_admin
    BY DEF Sound, Db, GroupRow
  <2>2. e = [d EXCEPT !.groups = gs]
    BY <1>2 DEF EnsureAdminGroup
  <2>3. /\ \A h \in gs : \E g \in d.groups : h = f(g)
        /\ \A g \in d.groups : f(g) \in gs
    OBVIOUS
  <2> HIDE DEF gs, f, e
  <2>4. /\ e \in Db
        /\ e.users = d.users /\ e.groups = gs /\ e.members = d.members
        /\ e.userSeq = d.userSeq /\ e.groupSeq = d.groupSeq
    BY <2>1, <2>2, <2>3 DEF Sound, Db
  <2>5. KeysOf(e)
    BY <2>1, <2>3, <2>4 DEF Sound, KeysOf
  <2>6. GroupIds(d) \subseteq GroupIds(e)
    BY <2>1, <2>3, <2>4 DEF GroupIds
  <2>7. ForeignKeys => NoOrphansOf(e)
    BY <2>4, <2>6 DEF Sound, NoOrphansOf, UserIds
  <2>8. \E g \in NamedAdmin(e) : g.is_admin
    BY <1>2, <2>1, <2>3, <2>4 DEF NamedAdmin
  <2>9. Sound(e)
    BY <2>4, <2>5, <2>7 DEF Sound
  <2> QED BY <2>4, <2>8, <2>9 DEF e
<1> QED BY <1>1, <1>2

\* Enrolling the newest user in the group called "admin" adds only that pair.
LEMMA EnrolFirstUserSound ==
  ASSUME NEW d, Sound(d), d.userSeq \in UserIds(d)
  PROVE  LET e == EnrolFirstUser(d)
         IN  /\ Sound(e)
             /\ e.users = d.users /\ e.groups = d.groups /\ e.userSeq = d.userSeq
             /\ \A u, g : <<u, g>> \in e.members <=>
                  \/ <<u, g>> \in d.members
                  \/ u = d.userSeq /\ \E a \in NamedAdmin(d) : a.id = g
<1> DEFINE new == {<<d.userSeq, g.id>> : g \in NamedAdmin(d)}
           ms  == d.members \cup new
           e   == EnrolFirstUser(d)
<1>1. e = [d EXCEPT !.members = ms]
  BY DEF EnrolFirstUser
<1>2. new \subseteq UserIds(d) \X GroupIds(d)
  BY DEF NamedAdmin, GroupIds
<1>3. UserIds(d) \subseteq Id /\ GroupIds(d) \subseteq Id
  BY DEF Sound, Db, UserRow, GroupRow, UserIds, GroupIds
<1>4. \A u, g : <<u, g>> \in ms <=>
         \/ <<u, g>> \in d.members
         \/ u = d.userSeq /\ \E a \in NamedAdmin(d) : a.id = g
  OBVIOUS
<1> HIDE DEF new
<1>5. ms \subseteq Id \X Id /\ (ForeignKeys => ms \subseteq UserIds(d) \X GroupIds(d))
  BY <1>2, <1>3 DEF Sound, Db, NoOrphansOf
<1> HIDE DEF ms, e
<1>6. Sound(e)
  BY <1>1, <1>5, MembersSound
<1>7. e.users = d.users /\ e.groups = d.groups /\ e.userSeq = d.userSeq /\ e.members = ms
  BY <1>1 DEF Sound, Db
<1> QED BY <1>4, <1>6, <1>7 DEF e

\* A freshly inserted user owns the new id, and no membership names that id
\* under foreign keys.
LEMMA InsertUserEffect ==
  ASSUME NEW d, Sound(d), NEW n \in Usernames, NEW p \in Passwords
  PROVE  LET e == InsertUser(d, n, p)
         IN  /\ e.userSeq = d.userSeq + 1 /\ e.members = d.members
             /\ e.groups = d.groups /\ e.groupSeq = d.groupSeq
             /\ UserIds(e) = UserIds(d) \cup {e.userSeq}
             /\ e.userSeq \notin UserIds(d)
             /\ ForeignKeys => \A g : <<e.userSeq, g>> \notin d.members
<1> DEFINE r == [id |-> d.userSeq + 1, username |-> n, password |-> p, active |-> TRUE]
           e == InsertUser(d, n, p)
<1>1. r.id = d.userSeq + 1
  OBVIOUS
<1>2. /\ e.users = d.users \cup {r} /\ e.groups = d.groups
      /\ e.members = d.members /\ e.userSeq = d.userSeq + 1
      /\ e.groupSeq = d.groupSeq
  BY DEF Sound, InsertUser, Db
<1> HIDE DEF e, r
<1>3. UserIds(e) = UserIds(d) \cup {e.userSeq}
  BY <1>1, <1>2 DEF UserIds
<1>4. e.userSeq \notin UserIds(d)
  BY <1>2 DEF Sound, Db, KeysOf, UserIds, UserRow, Id
<1>5. ForeignKeys => \A g : <<e.userSeq, g>> \notin d.members
  BY <1>4 DEF Sound, NoOrphansOf
<1> QED BY <1>2, <1>3, <1>4, <1>5 DEF e

\* The whole of UserManager::create: the new id is the only new one, the
\* first user is an administrator, and under foreign keys a new user's only
\* possible group is "admin", and only when it is the first.
LEMMA CreateUserRowEffect ==
  ASSUME NEW d, Sound(d), NEW n \in Usernames, NEW p \in Passwords,
         ~UsernameTaken(d, n)
  PROVE  LET e == CreateUserRow(d, n, p)
         IN  /\ Sound(e)
             /\ e.userSeq = d.userSeq + 1
             /\ UserIds(e) = UserIds(d) \cup {e.userSeq}
             /\ d.users = {} => IsAdmin(e, e.userSeq)
             /\ ForeignKeys => \A g : <<e.userSeq, g>> \in e.members =>
                                 d.users = {} /\ \E a \in NamedAdmin(e) : a.id = g
<1> DEFINE a == InsertUser(d, n, p)
           b == EnsureAdminGroup(a)
           c == EnrolFirstUser(b)
           e == CreateUserRow(d, n, p)
<1>1. Sound(a)
  BY InsertUserSound
<1>2. /\ a.userSeq = d.userSeq + 1 /\ a.members = d.members
      /\ UserIds(a) = UserIds(d) \cup {a.userSeq}
      /\ ForeignKeys => \A g : <<a.userSeq, g>> \notin d.members
  BY InsertUserEffect
<1>3. CASE d.users # {}
  <2>1. e = a
    BY <1>3 DEF CreateUserRow
  <2> QED BY <1>1, <1>2, <1>3, <2>1
<1>4. CASE d.users = {}
  <2>1. e = c
    BY <1>4 DEF CreateUserRow
  <2> HIDE DEF a
  <2>2. /\ Sound(b)
        /\ b.users = a.users /\ b.members = a.members /\ b.userSeq = a.userSeq
        /\ \E g \in NamedAdmin(b) : g.is_admin
    BY <1>1, EnsureAdminGroupSound
  <2>3. UserIds(b) = UserIds(a)
    BY <2>2 DEF UserIds
  <2>4. b.userSeq \in UserIds(b)
    BY <1>2, <2>2, <2>3
  <2> HIDE DEF b
  <2>5. /\ Sound(c)
        /\ c.users = b.users /\ c.groups = b.groups /\ c.userSeq = b.userSeq
        /\ \A u, g : <<u, g>> \in c.members <=>
             \/ <<u, g>> \in b.members
             \/ u = b.userSeq /\ \E x \in NamedAdmin(b) : x.id = g
    BY <2>2, <2>4, EnrolFirstUserSound
  <2> HIDE DEF c, e
  <2>6. UserIds(c) = UserIds(b) /\ NamedAdmin(c) = NamedAdmin(b)
    BY <2>5 DEF UserIds, NamedAdmin
  <2>7. IsAdmin(c, c.userSeq)
    <3>1. PICK g \in NamedAdmin(b) : g.is_admin
      BY <2>2
    <3>2. g \in c.groups /\ <<c.userSeq, g.id>> \in c.members
      BY <2>5 DEF NamedAdmin
    <3> QED BY <3>1, <3>2 DEF IsAdmin
  <2>8. ForeignKeys => \A g : <<c.userSeq, g>> \in c.members =>
                         \E x \in NamedAdmin(c) : x.id = g
    BY <1>2, <2>2, <2>5, <2>6
  <2>9. c.userSeq = d.userSeq + 1 /\ UserIds(c) = UserIds(d) \cup {c.userSeq}
    BY <1>2, <2>2, <2>3, <2>5, <2>6
  <2> QED BY <1>4, <2>1, <2>5, <2>7, <2>8, <2>9 DEF e
<1> QED BY <1>3, <1>4

\* set_admin(_, true) keeps the constraints and touches no users row.
LEMMA PromoteSound ==
  ASSUME NEW d, Sound(d), NEW i \in Id, ForeignKeys => i \in UserIds(d),
         PromotionGroups(d) = {} => ~GroupNameTaken(d, AdminName)
  PROVE  LET e == Promote(d, i)
         IN  Sound(e) /\ e.users = d.users /\ e.userSeq = d.userSeq
<1> DEFINE b == WithPromotionGroup(d)
           ms == b.members \cup {<<i, g>> : g \in PromotionGroups(b)}
           e == Promote(d, i)
<1>1. Sound(b) /\ b.users = d.users /\ b.userSeq = d.userSeq
  <2>1. CASE PromotionGroups(d) = {}
    <3>1. b = InsertGroup(d, AdminName, TRUE)
      BY <2>1 DEF WithPromotionGroup
    <3>2. Sound(b)
      BY <2>1, <3>1, InsertGroupSound
    <3>3. b.users = d.users /\ b.userSeq = d.userSeq
      BY <3>1 DEF Sound, Db, InsertGroup
    <3> QED BY <3>2, <3>3
  <2>2. CASE PromotionGroups(d) # {}
    BY <2>2 DEF WithPromotionGroup
  <2> QED BY <2>1, <2>2
<1>2. e = [b EXCEPT !.members = ms]
  BY DEF Promote
<1> HIDE DEF b
<1>3. UserIds(b) = UserIds(d) /\ UserIds(b) \subseteq Id /\ GroupIds(b) \subseteq Id
  BY <1>1 DEF Sound, Db, UserRow, GroupRow, UserIds, GroupIds
<1>4. PromotionGroups(b) \subseteq GroupIds(b)
  BY DEF PromotionGroups, GroupIds
<1>5. ms \subseteq Id \X Id /\ (ForeignKeys => ms \subseteq UserIds(b) \X GroupIds(b))
  BY <1>1, <1>3, <1>4 DEF Sound, Db, NoOrphansOf
<1> HIDE DEF ms, e
<1>6. Sound(e)
  BY <1>1, <1>2, <1>5, MembersSound
<1>7. e.users = b.users /\ e.userSeq = b.userSeq
  BY <1>1, <1>2 DEF Sound, Db
<1> QED BY <1>1, <1>6, <1>7 DEF e

\* Dropping membership rows keeps the constraints and touches no users row:
\* set_admin(_, false) and remove_user.
LEMMA FewerMembersSound ==
  ASSUME NEW d, Sound(d), NEW m, m \subseteq d.members
  PROVE  LET e == [d EXCEPT !.members = m]
         IN  Sound(e) /\ e.users = d.users /\ e.userSeq = d.userSeq /\ e.members = m
<1>1. m \subseteq Id \X Id /\ (ForeignKeys => m \subseteq UserIds(d) \X GroupIds(d))
  BY DEF Sound, Db, NoOrphansOf
<1> QED BY <1>1, MembersSound DEF Sound, Db

-----------------------------------------------------------------------------
(* The inductive invariant and what a step may do to the user ids *)

IInv == Sound(db)

\* What one statement or method may do to the set of user ids: keep it, remove
\* some, or add the id the sequence hands out next (CreateUser).
Fresh(d, e) ==
  /\ e.userSeq = d.userSeq + 1
  /\ UserIds(e) = UserIds(d) \cup {e.userSeq}
  /\ d.users = {} => IsAdmin(e, e.userSeq)
  /\ ForeignKeys => \A g : <<e.userSeq, g>> \in e.members =>
                      d.users = {} /\ \E a \in NamedAdmin(e) : a.id = g

NoNewUser(d, e) == e.userSeq = d.userSeq /\ UserIds(e) \subseteq UserIds(d)

\* Every step keeps the invariant, and adds at most the fresh id, within bounds.
LEMMA NextSound ==
  ASSUME IInv, Next
  PROVE  /\ IInv' /\ (NoNewUser(db, db') \/ Fresh(db, db'))
         /\ db'.userSeq # db.userSeq => db.userSeq < MaxUserId
<1> USE DEF IInv
<1>0. UserIdArg \subseteq Id /\ GroupIdArg \subseteq Id
  BY DEF UserIdArg, GroupIdArg, Id
<1>1. ASSUME NEW n \in Usernames, NEW p \in Passwords, CreateUser(n, p)
      PROVE  Sound(db') /\ Fresh(db, db') /\ db.userSeq < MaxUserId
  <2>1. db' = CreateUserRow(db, n, p) /\ ~UsernameTaken(db, n) /\ db.userSeq < MaxUserId
    BY <1>1 DEF CreateUser
  <2> QED BY <2>1, CreateUserRowEffect DEF Fresh
<1>2. ASSUME NEW i \in UserIdArg, NEW ch \in UserChange, UpdateUser(i, ch)
      PROVE  Sound(db') /\ NoNewUser(db, db')
  <2>1. db' = UpdateUserRow(db, i, ch) /\ UserUpdatable(db, i, ch)
    BY <1>2 DEF UpdateUser
  <2>2. Sound(db')
    BY <1>0, <2>1, UpdateUserSound
  <2>3. \A v \in db'.users : \E u \in db.users : v.id = u.id
    BY <2>1 DEF Sound, Db, UpdateUserRow
  <2>4. db'.userSeq = db.userSeq
    BY <2>1 DEF Sound, Db, UpdateUserRow
  <2> QED BY <2>2, <2>3, <2>4 DEF NoNewUser, UserIds
<1>3. ASSUME NEW i \in UserIdArg, DeleteUser(i)
      PROVE  Sound(db') /\ NoNewUser(db, db')
  <2>1. db' = DeleteUserRow(db, i)
    BY <1>3 DEF DeleteUser
  <2> QED BY <1>0, <2>1, DeleteUserSound DEF NoNewUser
<1>4. ASSUME NEW i \in UserIdArg, PromoteUser(i)
      PROVE  Sound(db') /\ NoNewUser(db, db')
  <2>1. /\ db' = Promote(db, i)
        /\ ForeignKeys => i \in UserIds(db)
        /\ PromotionGroups(db) = {} => ~GroupNameTaken(db, AdminName)
    BY <1>4 DEF PromoteUser
  <2> QED BY <1>0, <2>1, PromoteSound DEF NoNewUser, UserIds
<1>5. ASSUME NEW i \in UserIdArg, DemoteUser(i)
      PROVE  Sound(db') /\ NoNewUser(db, db')
  <2> DEFINE m == {x \in db.members : ~ \E g \in db.groups : g.is_admin /\ x = <<i, g.id>>}
  <2>1. db' = [db EXCEPT !.members = m]
    BY <1>5 DEF DemoteUser, Demote
  <2>2. m \subseteq db.members
    OBVIOUS
  <2> HIDE DEF m
  <2> QED BY <2>1, <2>2, FewerMembersSound DEF NoNewUser, UserIds
<1>6. ASSUME NEW n \in GroupNames, NEW a \in BOOLEAN, CreateGroup(n, a)
      PROVE  Sound(db') /\ NoNewUser(db, db')
  <2>1. db' = InsertGroup(db, n, a) /\ ~GroupNameTaken(db, n)
    BY <1>6 DEF CreateGroup
  <2>2. Sound(db')
    BY <2>1, InsertGroupSound
  <2>3. db'.users = db.users /\ db'.userSeq = db.userSeq
    BY <2>1 DEF Sound, Db, InsertGroup
  <2> QED BY <2>2, <2>3 DEF NoNewUser, UserIds
<1>7. ASSUME NEW i \in GroupIdArg, NEW ch \in GroupChange, UpdateGroup(i, ch)
      PROVE  Sound(db') /\ NoNewUser(db, db')
  <2>1. db' = UpdateGroupRow(db, i, ch) /\ GroupUpdatable(db, i, ch)
    BY <1>7 DEF UpdateGroup
  <2>2. Sound(db')
    BY <1>0, <2>1, UpdateGroupSound
  <2>3. db'.users = db.users /\ db'.userSeq = db.userSeq
    BY <2>1 DEF Sound, Db, UpdateGroupRow
  <2> QED BY <2>2, <2>3 DEF NoNewUser, UserIds
<1>8. ASSUME NEW i \in GroupIdArg, DeleteGroup(i)
      PROVE  Sound(db') /\ NoNewUser(db, db')
  <2>1. db' = DeleteGroupRow(db, i)
    BY <1>8 DEF DeleteGroup
  <2>2. Sound(db')
    BY <1>0, <2>1, DeleteGroupSound
  <2>3. db'.users = db.users /\ db'.userSeq = db.userSeq
    BY <2>1 DEF Sound, Db, DeleteGroupRow
  <2> QED BY <2>2, <2>3 DEF NoNewUser, UserIds
<1>9. ASSUME NEW g \in GroupIdArg, NEW u \in UserIdArg, AddUser(g, u)
      PROVE  Sound(db') /\ NoNewUser(db, db')
  <2> DEFINE m == db.members \cup {<<u, g>>}
  <2>1. db' = [db EXCEPT !.members = m] /\ Joinable(db, u, g)
    BY <1>9 DEF AddUser, InsertMember
  <2>2. m \subseteq Id \X Id /\ (ForeignKeys => m \subseteq UserIds(db) \X GroupIds(db))
    BY <1>0, <2>1 DEF Joinable, Sound, Db, NoOrphansOf
  <2> HIDE DEF m
  <2>3. Sound(db')
    BY <2>1, <2>2, MembersSound
  <2>4. db'.users = db.users /\ db'.userSeq = db.userSeq
    BY <2>1 DEF Sound, Db
  <2> QED BY <2>3, <2>4 DEF NoNewUser, UserIds
<1>10. ASSUME NEW g \in GroupIdArg, NEW u \in UserIdArg, RemoveUser(g, u)
       PROVE  Sound(db') /\ NoNewUser(db, db')
  <2> DEFINE m == db.members \ {<<u, g>>}
  <2>1. db' = [db EXCEPT !.members = m]
    BY <1>10 DEF RemoveUser, DeleteMember
  <2>2. m \subseteq db.members
    OBVIOUS
  <2> HIDE DEF m
  <2> QED BY <2>1, <2>2, FewerMembersSound DEF NoNewUser, UserIds
<1>11. /\ Sound(db')
       /\ NoNewUser(db, db') \/ (Fresh(db, db') /\ db.userSeq < MaxUserId)
  BY <1>1, <1>2, <1>3, <1>4, <1>5, <1>6, <1>7, <1>8, <1>9, <1>10 DEF Next
<1> QED BY <1>11 DEF NoNewUser

\* The action properties, one step at a time: stated of a step of Next from a
\* sound database, they hold of whatever takes such steps (HandlersProofs).
LEMMA IdsStep ==
  IInv /\ [Next]_db =>
    [\A i \in 1..db.userSeq : i \notin UserIds(db) => i \notin UserIds(db')]_db
<1> SUFFICES ASSUME IInv, Next, NEW i \in 1..db.userSeq, i \notin UserIds(db)
             PROVE  i \notin UserIds(db')
  OBVIOUS
<1>1. CASE NoNewUser(db, db')
  BY <1>1 DEF NoNewUser
<1>2. CASE Fresh(db, db')
  BY <1>2 DEF Fresh, IInv, Sound, Db
<1> QED BY <1>1, <1>2, NextSound

LEMMA CleanStep ==
  ASSUME ForeignKeys = TRUE
  PROVE  IInv /\ [Next]_db =>
           [\A u \in UserIds(db') \ UserIds(db), g \in GroupIds(db') :
              <<u, g>> \in db'.members =>
                db.users = {} /\ \E a \in NamedAdmin(db') : a.id = g]_db
<1> SUFFICES ASSUME IInv, Next,
                    NEW u \in UserIds(db') \ UserIds(db), NEW g \in GroupIds(db'),
                    <<u, g>> \in db'.members
             PROVE  db.users = {} /\ \E a \in NamedAdmin(db') : a.id = g
  OBVIOUS
<1>1. ~NoNewUser(db, db')
  BY DEF NoNewUser
<1>2. Fresh(db, db')
  BY <1>1, NextSound
<1>3. u = db'.userSeq
  BY <1>2 DEF Fresh
<1> QED BY <1>2, <1>3 DEF Fresh

LEMMA FirstUserStep ==
  IInv /\ [Next]_db => [db.users = {} => \A u \in UserIds(db') : IsAdmin(db', u)]_db
<1> SUFFICES ASSUME IInv, Next, db.users = {}, NEW u \in UserIds(db')
             PROVE  IsAdmin(db', u)
  OBVIOUS
<1>1. UserIds(db) = {}
  BY DEF UserIds
<1>2. Fresh(db, db')
  BY <1>1, NextSound DEF NoNewUser
<1>3. u = db'.userSeq
  BY <1>1, <1>2 DEF Fresh
<1> QED BY <1>2, <1>3 DEF Fresh

-----------------------------------------------------------------------------
(* Theorems *)

LEMMA Invariance == Spec => []IInv
<1>1. Init => IInv
  BY EmptyDbSound DEF Init, IInv
<1>2. IInv /\ [Next]_db => IInv'
  BY NextSound DEF IInv
<1> QED BY <1>1, <1>2, PTL DEF Spec

\* Every value of the committed database is one its columns admit.
THEOREM TypeCorrect == Spec => []TypeOK
<1>1. IInv => TypeOK
  BY DEF IInv, Sound, TypeOK
<1> QED BY <1>1, Invariance, PTL

\* PRIMARY KEY, AUTOINCREMENT and UNIQUE hold of every committed database.
THEOREM KeysHold == Spec => []Keys
<1>1. IInv => Keys
  BY DEF IInv, Sound, Keys
<1> QED BY <1>1, Invariance, PTL

\* With the foreign keys of 0001_init.sql every membership names existing rows.
THEOREM NoOrphansHold ==
  ASSUME ForeignKeys = TRUE
  PROVE  Spec => []NoOrphans
<1>1. IInv => NoOrphans
  BY DEF IInv, Sound, NoOrphans
<1> QED BY <1>1, Invariance, PTL

\* A deleted user id is never handed out again, with or without foreign keys.
THEOREM IdsAreNeverReused == Spec => IdsNeverReused
  BY IdsStep, Invariance, PTL DEF Spec, IdsNeverReused

\* With foreign keys, nobody is enrolled before existing, and only the first
\* user is enrolled by being created.
THEOREM NewUsersStartClean ==
  ASSUME ForeignKeys = TRUE
  PROVE  Spec => NewUserStartsClean
BY CleanStep, Invariance, PTL DEF Spec, NewUserStartsClean

\* Whoever is created while there is no user is an administrator at once.
THEOREM FirstUserIsAnAdmin == Spec => FirstUserIsAdmin
  BY FirstUserStep, Invariance, PTL DEF Spec, FirstUserIsAdmin
=============================================================================
