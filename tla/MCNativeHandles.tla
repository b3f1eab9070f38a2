--------------------------- MODULE MCNativeHandles ---------------------------
(* Instances of NativeHandles for TLC: objects are interchangeable, and so  *)
(* are addresses.                                                           *)
EXTENDS NativeHandles

Symmetry == Permutations(Objects) \cup Permutations(Addresses)
=============================================================================
