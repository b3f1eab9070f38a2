----------------------------- MODULE MCSession -----------------------------
(* A Session small enough for TLC. *)
EXTENDS Session, TLC

Symmetry ==
  Permutations(Sessions) \cup Permutations(Threads) \cup Permutations(Namespaces)
=============================================================================
