------------------------------ MODULE MCOpening ------------------------------
(* TLC instance of Opening: processes and secrets are interchangeable. *)
EXTENDS Opening, TLC

Symmetry == Permutations(Proc) \cup Permutations(Secrets)
=============================================================================
