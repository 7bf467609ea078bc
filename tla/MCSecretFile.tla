---------------------------- MODULE MCSecretFile ----------------------------
(* TLC instance of SecretFile: processes and secrets are interchangeable. *)
EXTENDS SecretFile, TLC

Symmetry == Permutations(Proc) \cup Permutations(Secrets)
=============================================================================
