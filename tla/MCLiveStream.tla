---------------------------- MODULE MCLiveStream ----------------------------
(* Instances of LiveStream for TLC: the threads are interchangeable.       *)
EXTENDS LiveStream, TLC

ThreadSymmetry == Permutations(Threads)

(* CloseReturns for one of the threads: enough, since nothing tells them   *)
(* apart, and cheaper than all of them.                                    *)
SomeCloseReturns == ReturnsFromClose(CHOOSE t \in Threads : TRUE)
=============================================================================
