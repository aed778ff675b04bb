---------------------------- MODULE MCRecovery ----------------------------
(* Resources, and backups, are interchangeable. *)
EXTENDS Recovery, TLC

Symmetry == Permutations(Resources) \cup Permutations(Backups)
=============================================================================
