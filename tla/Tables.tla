------------------------------- MODULE Tables -------------------------------
(***************************************************************************)
(* The relational schema of UserPermission (migrations/0001_init.sql) and  *)
(* the SQL statements that UserManager and GroupManager issue, as pure     *)
(* operators on a database value.  A table is the set of its rows.         *)
(*                                                                         *)
(* Columns no decision of the code depends on (display_name, description,  *)
(* the timestamps) are left out.  A password hash is represented by the    *)
(* one password it verifies.                                               *)
(*                                                                         *)
(* An operator called Bug_X, here and in the other modules, is not part of *)
(* the model: it is X with a plausible mistake in the code, kept to see    *)
(* that some property notices when X is replaced by it.                    *)
(***************************************************************************)
EXTENDS Integers

CONSTANTS
  Usernames,    \* values of users.username
  Passwords,    \* passwords a hash may verify
  GroupNames,   \* values of groups.name
  AdminName,    \* the literal "admin"
  Unset,        \* None in an Option field of UserUpdate / GroupUpdate
  ForeignKeys   \* FALSE for a user_groups table made before the REFERENCES
                \* clauses: CREATE TABLE IF NOT EXISTS leaves it as it is

ASSUME TablesAssumption ==
  /\ AdminName \in GroupNames
  /\ Unset \notin Usernames \cup Passwords \cup GroupNames \cup BOOLEAN
  /\ ForeignKeys \in BOOLEAN

Id == Nat \ {0}

UserRow  == [id: Id, username: Usernames, password: Passwords, active: BOOLEAN]
GroupRow == [id: Id, name: GroupNames, is_admin: BOOLEAN]

\* userSeq and groupSeq are the rows of sqlite_sequence that AUTOINCREMENT
\* keeps: the largest id ever given out.
Db == [users: SUBSET UserRow, groups: SUBSET GroupRow,
       members: SUBSET (Id \X Id), userSeq: Nat, groupSeq: Nat]

EmptyDb == [users |-> {}, groups |-> {}, members |-> {},
            userSeq |-> 0, groupSeq |-> 0]

UserIds(d)  == {u.id : u \in d.users}
GroupIds(d) == {g.id : g \in d.groups}

-----------------------------------------------------------------------------
(* Queries *)

UsernameTaken(d, n)  == \E u \in d.users : u.username = n
GroupNameTaken(d, n) == \E g \in d.groups : g.name = n

\* The join behind UserManager::is_admin; it looks at no users row, so it
\* answers for a deactivated user too.
IsAdmin(d, u) == \E g \in d.groups : g.is_admin /\ <<u, g.id>> \in d.members

\* `AND is_admin = 1` forgotten in the first SELECT of set_admin.
Bug_PromotionGroups(d) ==
  LET named  == {g \in d.groups : g.name = AdminName}
      admins == {g \in d.groups : g.is_admin}
  IN  {g.id : g \in IF named # {} THEN named
                     ELSE {g \in admins : \A h \in admins : g.id <= h.id}}

\* The group set_admin(_, true) adds the user to: the admin group named
\* "admin", else the admin group with the lowest id.  Empty if there is none.
PromotionGroups(d) ==
  LET admins == {g \in d.groups : g.is_admin}
      named  == {g \in admins : g.name = AdminName}
      lowest == {g \in admins : \A h \in admins : g.id <= h.id}
  IN  {g.id : g \in IF named # {} THEN named ELSE lowest}

-----------------------------------------------------------------------------
(* Statements *)

\* Without AUTOINCREMENT the next rowid is one above the largest in the table.
Bug_InsertUser(d, n, p) ==
  LET id == CHOOSE i \in 1..(d.userSeq + 1) :
              /\ \A u \in d.users : u.id < i
              /\ i = 1 \/ \E u \in d.users : u.id = i - 1
  IN  [d EXCEPT !.users = @ \cup {[id |-> id, username |-> n, password |-> p,
                                   active |-> TRUE]},
                !.userSeq = id]

InsertUser(d, n, p) ==
  [d EXCEPT !.users = @ \cup {[id |-> d.userSeq + 1, username |-> n,
                               password |-> p, active |-> TRUE]},
            !.userSeq = @ + 1]

InsertGroup(d, n, a) ==
  [d EXCEPT !.groups = @ \cup {[id |-> d.groupSeq + 1, name |-> n,
                                is_admin |-> a]},
            !.groupSeq = @ + 1]

\* foreign_keys(true) forgotten when the pool is opened.
Bug_Joinable(d, u, g) == TRUE

\* The FOREIGN KEY clauses of user_groups, when the table has them.
Joinable(d, u, g) == ForeignKeys => u \in UserIds(d) /\ g \in GroupIds(d)

InsertMember(d, u, g) == [d EXCEPT !.members = @ \cup {<<u, g>>}]

DeleteMember(d, u, g) == [d EXCEPT !.members = @ \ {<<u, g>>}]

\* Fields of an update: a new value, or Unset to keep the old one.
UserChange  == [username: Usernames \cup {Unset}, password: Passwords \cup {Unset},
                active: BOOLEAN \cup {Unset}]
GroupChange == [name: GroupNames \cup {Unset}, is_admin: BOOLEAN \cup {Unset}]

\* A field that is None is written as NULL.
Bug_Coalesce(new, old) == new

Coalesce(new, old) == IF new = Unset THEN old ELSE new

\* users.username is not UNIQUE.
Bug_UserUpdatable(d, i, ch) == TRUE

UserUpdatable(d, i, ch) ==
  \A u, v \in d.users : u.id = i /\ v.username = ch.username => v.id = i

UpdateUserRow(d, i, ch) ==
  [d EXCEPT !.users =
     {IF u.id # i THEN u
      ELSE [id |-> i, username |-> Coalesce(ch.username, u.username),
            password |-> Coalesce(ch.password, u.password),
            active |-> Coalesce(ch.active, u.active)] : u \in @}]

GroupUpdatable(d, i, ch) ==
  \A g, h \in d.groups : g.id = i /\ h.name = ch.name => h.id = i

UpdateGroupRow(d, i, ch) ==
  [d EXCEPT !.groups =
     {IF g.id # i THEN g
      ELSE [id |-> i, name |-> Coalesce(ch.name, g.name),
            is_admin |-> Coalesce(ch.is_admin, g.is_admin)] : g \in @}]

\* ON DELETE CASCADE forgotten for users.
Bug_DeleteUserRow(d, i) == [d EXCEPT !.users = {u \in @ : u.id # i}]

\* ON DELETE CASCADE, when the table has it.
DeleteUserRow(d, i) ==
  [d EXCEPT !.users = {u \in @ : u.id # i},
            !.members = IF ForeignKeys THEN {m \in @ : m[1] # i} ELSE @]

DeleteGroupRow(d, i) ==
  [d EXCEPT !.groups = {g \in @ : g.id # i},
            !.members = IF ForeignKeys THEN {m \in @ : m[2] # i} ELSE @]

-----------------------------------------------------------------------------
(* What the two multi-statement methods do to the database as a whole *)

NamedAdmin(d) == {g \in d.groups : g.name = AdminName}

\* UPDATE groups SET is_admin = 1 forgotten for a group that exists.
Bug_EnsureAdminGroup(d) ==
  IF NamedAdmin(d) = {} THEN InsertGroup(d, AdminName, TRUE) ELSE d

\* The first-user branch of UserManager::create: raise an existing group
\* called "admin", or make it ...
EnsureAdminGroup(d) ==
  IF NamedAdmin(d) = {} THEN InsertGroup(d, AdminName, TRUE)
  ELSE [d EXCEPT !.groups = {IF g.name = AdminName
                             THEN [g EXCEPT !.is_admin = TRUE] ELSE g : g \in @}]

\* ... then enrol the row just inserted in it.
EnrolFirstUser(d) ==
  [d EXCEPT !.members = @ \cup {<<d.userSeq, g.id>> : g \in NamedAdmin(d)}]

CreateUserRow(d, n, p) ==
  IF d.users = {} THEN EnrolFirstUser(EnsureAdminGroup(InsertUser(d, n, p)))
  ELSE InsertUser(d, n, p)

\* set_admin(_, true) first makes the "admin" group if no admin group is left.
WithPromotionGroup(d) ==
  IF PromotionGroups(d) = {} THEN InsertGroup(d, AdminName, TRUE) ELSE d

Promote(d, u) ==
  LET e == WithPromotionGroup(d)
  IN  [e EXCEPT !.members = @ \cup {<<u, g>> : g \in PromotionGroups(e)}]

Demote(d, u) ==
  [d EXCEPT !.members = {m \in @ : ~ \E g \in d.groups : g.is_admin /\ m = <<u, g.id>>}]
=============================================================================
