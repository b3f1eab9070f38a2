--------------------------- MODULE MCTransactions ---------------------------
(* Instances of Transactions for TLC: threads, transactions and addresses   *)
(* are interchangeable.                                                     *)
EXTENDS Transactions, TLC

Symmetry == Permutations(Threads) \cup Permutations(Txns) \cup Permutations(Addresses)
=============================================================================
