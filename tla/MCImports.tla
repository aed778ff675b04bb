----------------------------- MODULE MCImports -----------------------------
(* The requests of the account are interchangeable. *)
EXTENDS Imports, TLC

Symmetry == Permutations(Clients)
=============================================================================
