----------------------------- MODULE MCRequests -----------------------------
(* TLC instances of Requests: the database each run starts with and the     *)
(* requests its clients send.                                               *)
EXTENDS Requests, TLC

CONSTANTS alice, bob, pw, new

SlotSymmetry == Permutations(Slot)

\* alice, the first user, is an administrator and bob is not.
AliceAndBob == CreateUserRow(CreateUserRow(EmptyDb, alice, pw), bob, pw)

BothAdmins == Promote(AliceAndBob, 2)

Tokens == [sub: {1, 2}, is_admin: BOOLEAN]

Edit(name, active) == [NoChange EXCEPT !.username = name, !.active = active]

\* Two administrators who may demote, deactivate or delete each other, or
\* take the rights from their group, while requests are under way.
Power ==
  [kind: {"update_user"}, token: Tokens, user: {2, 3}, change: {Edit(Unset, FALSE)}]
    \cup [kind: {"delete_user"}, token: Tokens, user: {2}]
    \cup [kind: {"toggle_admin"}, token: Tokens, user: {1, 2}]
    \cup [kind: {"remove_member"}, token: Tokens, group: {1}, user: {1}]
    \cup [kind: {"update_group"}, token: Tokens, group: {1, 2},
          change: [name: {Unset}, is_admin: {FALSE}]]

\* Requests about a user and a group that others delete, and a page for
\* administrators only.
Vanishing ==
  [kind: {"toggle_active"}, token: Tokens, user: {2}]
    \cup [kind: {"delete_group"}, token: Tokens, group: {1}]
    \cup [kind: {"group_add_member"}, token: Tokens, group: {1}, user: {2}]
    \cup [kind: {"users_edit_page"}, token: Tokens, user: {1}]

\* A user is added to a group, through the API, that may have been deleted.
Joining ==
  [kind: {"add_member"}, token: Tokens, group: {1}, user: {2}, body: {1}]
    \cup [kind: {"remove_member"}, token: Tokens, group: {1}, user: {1, 2}]
    \cup [kind: {"delete_user"}, token: Tokens, user: {2}]

\* A password is set for a user that may be deleted meanwhile.
Resetting ==
  [kind: {"reset_password"}, token: Tokens, user: {2}, password: {new}]
    \cup [kind: {"me_password"}, token: Tokens, current: {pw}, password: {new}]
    \cup [kind: {"delete_user"}, token: Tokens, user: {2}]

\* New rows, for those that a deletion has left an edit without.
Appearing ==
  [kind: {"create_user"}, name: {bob}, password: {pw}]
    \cup [kind: {"create_group"}, token: Tokens, name: {AdminName}, is_admin: {TRUE}]

Rivals == Power \cup Vanishing \cup Appearing

\* One request of every kind.
Everything ==
  [kind: Open, name: {alice, bob}, password: {pw}]
    \cup [kind: {"users_create"}, token: Tokens, name: {bob}, password: {pw}]
    \cup [kind: {"me_update"}, token: Tokens, name: {bob}]
    \cup [kind: {"me_password"}, token: Tokens, current: {pw}, password: {new}]
    \cup [kind: {"update_user"}, token: Tokens, user: {2}, change: {Edit(alice, Unset)}]
    \cup [kind: {"users_edit"}, token: Tokens, user: {2}, change: {Edit(bob, FALSE)}]
    \cup [kind: {"delete_user", "toggle_active"}, token: Tokens, user: {2}]
    \cup [kind: {"toggle_admin"}, token: Tokens, user: {1, 2}]
    \cup [kind: {"reset_password"}, token: Tokens, user: {2}, password: {new}]
    \cup [kind: {"create_group"}, token: Tokens, name: GroupNames, is_admin: {FALSE}]
    \cup [kind: GroupUpdates, token: Tokens, group: {2},
          change: [name: {AdminName}, is_admin: {TRUE}]]
    \cup [kind: {"delete_group"}, token: Tokens, group: {2}]
    \cup [kind: {"add_member"}, token: Tokens, group: {2}, user: {2}, body: {1, 2}]
    \cup [kind: {"group_add_member", "remove_member"}, token: Tokens, group: {2}, user: {2}]
    \cup [kind: {"read"}, token: Tokens]
    \cup [kind: {"get_user", "users_edit_page"}, token: Tokens, user: {2}]
    \cup [kind: {"get_group"}, token: Tokens, group: {2}]
=============================================================================
