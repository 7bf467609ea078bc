---------------------------- MODULE MCUserStore ----------------------------
(* TLC instance of UserStore: names and passwords are interchangeable model *)
(* values, except the group name "admin".                                   *)
EXTENDS UserStore, TLC

Symmetry == Permutations(Usernames) \cup Permutations(Passwords)
=============================================================================
