--------------------------- MODULE TransactionView ---------------------------
(***************************************************************************)
(* What a Transaction promises an application that locks it: each call has *)
(* its effect in one step, between its start and its return, on the very   *)
(* transaction it was made on, and only while that is open.  commit() and  *)
(* cancel() do not end before it is over: they leave it as they say or     *)
(* dropped, or find it over.  A query may fail to have an effect.  What    *)
(* nobody holds any more may be dropped.                                   *)
(***************************************************************************)
EXTENDS Naturals

CONSTANTS Threads, Txns, Nothing

VARIABLES
  state,    \* of each transaction
  queries,  \* run in each
  known,    \* transactions the application holds
  method,   \* the call each thread is in, or "none"
  target,   \* on which transaction
  acted     \* threads whose call has had its effect, or found that it can have none

calls == <<method, target, acted>>
view == <<state, queries, known, calls>>

ViewInit ==
  /\ state = [x \in Txns |-> "none"] /\ queries = [x \in Txns |-> 0]
  /\ known = {}
  /\ method = [t \in Threads |-> "none"] /\ target = [t \in Threads |-> Nothing]
  /\ acted = {}

New(x) ==
  /\ state[x] = "none"
  /\ state' = [state EXCEPT ![x] = "open"] /\ known' = known \cup {x}
  /\ UNCHANGED <<queries, calls>>

Invoke(t, x) ==
  /\ method[t] = "none" /\ x \in known
  /\ \E m \in {"commit", "cancel", "query"} : method' = [method EXCEPT ![t] = m]
  /\ target' = [target EXCEPT ![t] = x]
  /\ UNCHANGED <<state, queries, known, acted>>

Query(t) ==
  /\ method[t] = "query" /\ t \notin acted /\ state[target[t]] = "open"
  /\ queries' = [queries EXCEPT ![target[t]] = @ + 1]
  /\ acted' = acted \cup {t}
  /\ UNCHANGED <<state, known, method, target>>

Ends == [commit |-> {"committed", "dropped"}, cancel |-> {"cancelled", "dropped"}]

End(t) ==
  /\ method[t] \in {"commit", "cancel"} /\ t \notin acted /\ state[target[t]] = "open"
  /\ \E end \in Ends[method[t]] : state' = [state EXCEPT ![target[t]] = end]
  /\ acted' = acted \cup {t}
  /\ UNCHANGED <<queries, known, method, target>>

TooLate(t) ==
  /\ method[t] \in {"commit", "cancel"} /\ t \notin acted /\ state[target[t]] # "open"
  /\ acted' = acted \cup {t}
  /\ UNCHANGED <<state, queries, known, method, target>>

Leave(t) ==
  /\ t \in acted \/ method[t] = "query"
  /\ method' = [method EXCEPT ![t] = "none"]
  /\ target' = [target EXCEPT ![t] = Nothing]
  /\ acted' = acted \ {t}
  /\ UNCHANGED <<state, queries, known>>

Forget(x) ==
  /\ x \in known /\ known' = known \ {x}
  /\ UNCHANGED <<state, queries, calls>>

Abandon(x) ==
  /\ x \notin known /\ state[x] = "open" /\ \A t \in Threads : target[t] # x
  /\ state' = [state EXCEPT ![x] = "dropped"]
  /\ UNCHANGED <<queries, known, calls>>

ViewNext ==
  \/ \E x \in Txns : New(x) \/ Forget(x) \/ Abandon(x) \/ \E t \in Threads : Invoke(t, x)
  \/ \E t \in Threads : Query(t) \/ End(t) \/ TooLate(t) \/ Leave(t)

ViewSpec == ViewInit /\ [][ViewNext]_view
=============================================================================
