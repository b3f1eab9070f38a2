------------------------------ MODULE MCClient ------------------------------
(* A Client small enough for TLC. *)
EXTENDS Client, TLC

Symmetry == Permutations(Contents)
=============================================================================
