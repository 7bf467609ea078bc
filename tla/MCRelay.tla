------------------------------- MODULE MCRelay -------------------------------
(* TLC instance of Relay: alice, the administrator, and bob, once there is   *)
(* one, share a Database.                                                    *)
EXTENDS Relay

CONSTANTS alice, bob, pw

Alice == CreateUserRow(EmptyDb, alice, pw)

Logins == [kind: {"login"}, name: {alice, bob}, password: {pw}]

\* One call of every way to send and to decode.
SomeCalls ==
  Logins
    \cup [kind: {"create_user"}, name: {bob}, password: {pw}]
    \cup [kind: {"delete_user", "is_admin"}, user: {2}]
    \cup [kind: {"update_user"}, user: {2},
          change: {[username |-> Unset, password |-> Unset, active |-> FALSE]}]
=============================================================================
