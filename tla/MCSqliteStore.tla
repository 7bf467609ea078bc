--------------------------- MODULE MCSqliteStore ---------------------------
(* TLC instances of SqliteStore: what the clients of each run may call. *)
EXTENDS SqliteStore, TLC

Sym == Permutations(Conn)

\* One call of every method.  Registration, promotion and demotion race with
\* each other and with the making, demotion and deletion of the groups they
\* look for and of the user.
Everything ==
  [op: {"create"}, name: Usernames, password: Passwords]
    \cup [op: {"promote", "demote", "delete_user"}, user: {1}]
    \cup [op: {"update_user"}, user: {1},
          change: [username: Usernames, password: {Unset}, active: {Unset}]]
    \cup [op: {"create_group"}, name: {AdminName}, is_admin: {FALSE}]
    \cup [op: {"create_group"}, name: GroupNames \ {AdminName}, is_admin: {TRUE}]
    \cup [op: {"update_group"}, group: {1},
          change: [name: {Unset, AdminName}, is_admin: {FALSE}]]
    \cup [op: {"delete_group"}, group: 1..MaxGroupId]
    \cup [op: {"add_user", "remove_user"}, group: {1}, user: {1}]
=============================================================================
