---------------------------- MODULE SessionView ----------------------------
(***************************************************************************)
(* What getNamespace() and getDatabase() of a Surreal promise: the two     *)
(* together are the place the server told of in its last answer that       *)
(* arrived, and they change from one such place to another in one step.    *)
(* The session itself may move without telling.                            *)
(***************************************************************************)
CONSTANTS Sessions, Places, Nowhere

VARIABLES
  at,     \* where each session is
  told,   \* where the last answer said it is
  shown   \* what the two getters say

view == <<at, told, shown>>

ViewInit ==
  /\ at \in [Sessions -> Places]
  /\ told = [s \in Sessions |-> Nowhere]
  /\ shown = [s \in Sessions |-> Nowhere]

Stray(s) ==
  /\ \E p \in Places : at' = [at EXCEPT ![s] = p]
  /\ UNCHANGED <<told, shown>>

Tell(s) ==
  /\ \E p \in Places : /\ at' = [at EXCEPT ![s] = p]
                       /\ told' = [told EXCEPT ![s] = p]
  /\ UNCHANGED shown

Show(s) ==
  /\ shown' = [shown EXCEPT ![s] = told[s]]
  /\ UNCHANGED <<at, told>>

ViewNext == \E s \in Sessions : Stray(s) \/ Tell(s) \/ Show(s)

ViewSpec == ViewInit /\ [][ViewNext]_view
=============================================================================
