---------------------------- MODULE Transactions ----------------------------
(***************************************************************************)
(* Client-side transactions: com.surrealdb.Transaction, its native methods *)
(* (transaction.rs) and what they ask of the server.  commit() and         *)
(* cancel() take the SDK's transaction out of its box, because completing  *)
(* it consumes it; query() borrows it for the time of the request.  Any    *)
(* thread may call any of them on any Transaction it can reach, while the  *)
(* finalizer deletes those that nothing reaches any more.  A thread is     *)
(* interrupted between reading Native.ptr, looking it up, taking the box   *)
(* and the answer of the server.                                           *)
(***************************************************************************)
EXTENDS Naturals

CONSTANTS
  Threads,
  Txns,        \* Transaction objects, each begun at most once
  Addresses,   \* of their boxes
  Null,        \* the pointer 0; no transaction
  Build,       \* "debug" (handles are looked up in ALLOCATOR) or "release"
  MaxQueries   \* bound: queries run in one transaction

ASSUME TransactionsAssumption ==
  /\ Null \notin Addresses /\ Null \notin Txns
  /\ Build \in {"debug", "release"}
  /\ MaxQueries \in Nat

VARIABLES
  heap,    \* whose box is at each address
  ptr,     \* Native.ptr of each Transaction
  held,    \* the Transactions that the application can reach
  server,  \* what has become of each on the server
  ran,     \* queries that the server has run in each
  pc,      \* where each thread is
  op,      \* the method it has called
  obj,     \* on which Transaction
  given,   \* the pointer it read there
  taken,   \* the transaction it has taken out of a box
  fault    \* undefined behaviour has happened

vars == <<heap, ptr, held, server, ran, pc, op, obj, given, taken, fault>>

Completing == {"commit", "cancel"}
Ops == Completing \cup {"query"}

Init ==
  /\ heap = [a \in Addresses |-> Null]
  /\ ptr = [x \in Txns |-> Null] /\ held = {}
  /\ server = [x \in Txns |-> "none"] /\ ran = [x \in Txns |-> 0]
  /\ pc = [t \in Threads |-> "idle"] /\ op = [t \in Threads |-> "none"]
  /\ obj = [t \in Threads |-> Null] /\ given = [t \in Threads |-> Null]
  /\ taken = [t \in Threads |-> Null]
  /\ fault = FALSE

Goto(t, there) ==
  pc' = [pc EXCEPT ![t] = there] /\ UNCHANGED <<op, obj, given>>

Return(t) ==
  /\ pc' = [pc EXCEPT ![t] = "idle"] /\ op' = [op EXCEPT ![t] = "none"]
  /\ obj' = [obj EXCEPT ![t] = Null] /\ given' = [given EXCEPT ![t] = Null]
-----------------------------------------------------------------------------
(* Surreal.beginTransaction() *)
Begin(t) ==
  /\ pc[t] = "idle"
  /\ \E x \in Txns, a \in Addresses :
       /\ server[x] = "none" /\ heap[a] = Null
       /\ server' = [server EXCEPT ![x] = "open"]
       /\ heap' = [heap EXCEPT ![a] = x]
       /\ ptr' = [ptr EXCEPT ![x] = a]
       /\ held' = held \cup {x}
  /\ UNCHANGED <<ran, pc, op, obj, given, taken, fault>>

(* commit(getPtr()), cancel(getPtr()), query(getPtr(), sql)                *)
Call(t, o, x) ==
  /\ pc[t] = "idle" /\ x \in held
  /\ op' = [op EXCEPT ![t] = o] /\ obj' = [obj EXCEPT ![t] = x]
  /\ given' = [given EXCEPT ![t] = ptr[x]]
  /\ pc' = [pc EXCEPT ![t] = "look"]
  /\ UNCHANGED <<heap, ptr, held, server, ran, taken, fault>>

(* The pointer is 0, or with debug assertions one that is not (or no       *)
(* longer) in ALLOCATOR.  The finally of commit() and cancel() runs all    *)
(* the same.                                                               *)
Unusable(p) == p = Null \/ (Build = "debug" /\ p # Null /\ heap[p] = Null)

LookFails(t) ==
  /\ pc[t] = "look" /\ Unusable(given[t])
  /\ IF op[t] \in Completing THEN Goto(t, "zero") ELSE Return(t)
  /\ UNCHANGED <<heap, ptr, held, server, ran, taken, fault>>

Look(t) ==
  /\ pc[t] = "look" /\ ~Unusable(given[t])
  /\ Goto(t, IF op[t] \in Completing THEN "take" ELSE "send")
  /\ UNCHANGED <<heap, ptr, held, server, ran, taken, fault>>

(* Mutant: the transaction is cloned and its box left where it is.         *)
TakeCopy(t) ==
  /\ pc[t] = "take" /\ heap[given[t]] # Null
  /\ taken' = [taken EXCEPT ![t] = heap[given[t]]]
  /\ Goto(t, "send")
  /\ UNCHANGED <<heap, ptr, held, server, ran, fault>>

(* Box::from_raw: the transaction moves out of the box, which is freed.    *)
Take(t) ==
  /\ pc[t] = "take" /\ heap[given[t]] # Null
  /\ taken' = [taken EXCEPT ![t] = heap[given[t]]]
  /\ heap' = [heap EXCEPT ![given[t]] = Null]
  /\ Goto(t, "send")
  /\ UNCHANGED <<ptr, held, server, ran, fault>>

(* The server completes the transaction.  The answer may still be lost on  *)
(* the way, which the application sees as a failure like the next.         *)
Complete(t) ==
  /\ pc[t] = "send" /\ op[t] \in Completing
  /\ server' = [server EXCEPT ![taken[t]] =
                  IF op[t] = "commit" THEN "committed" ELSE "cancelled"]
  /\ taken' = [taken EXCEPT ![t] = Null]
  /\ Goto(t, "zero")
  /\ UNCHANGED <<heap, ptr, held, ran, fault>>

(* It does not, and the SDK's transaction is dropped unfinished.           *)
CompleteFails(t) ==
  /\ pc[t] = "send" /\ op[t] \in Completing
  /\ server' = [server EXCEPT ![taken[t]] = "dropped"]
  /\ taken' = [taken EXCEPT ![t] = Null]
  /\ Goto(t, "zero")
  /\ UNCHANGED <<heap, ptr, held, ran, fault>>

(* Mutant: moved() is not in a finally.                                    *)
MovedOnSuccess(t) ==
  /\ pc[t] = "zero"
  /\ ptr' = [ptr EXCEPT ![obj[t]] = IF server[obj[t]] = "dropped" THEN @ ELSE Null]
  /\ Return(t)
  /\ UNCHANGED <<heap, held, server, ran, taken, fault>>

(* Mutant: moved() is missing in cancel().                                 *)
MovedAfterCommit(t) ==
  /\ pc[t] = "zero"
  /\ ptr' = [ptr EXCEPT ![obj[t]] = IF op[t] = "cancel" THEN @ ELSE Null]
  /\ Return(t)
  /\ UNCHANGED <<heap, held, server, ran, taken, fault>>

(* finally { moved(); } and the return, or the exception.                  *)
Moved(t) ==
  /\ pc[t] = "zero"
  /\ ptr' = [ptr EXCEPT ![obj[t]] = Null]
  /\ Return(t)
  /\ UNCHANGED <<heap, held, server, ran, taken, fault>>

(* Mutant: a request is sent again when its answer is late.                *)
RunTwice(t) ==
  /\ pc[t] = "send" /\ op[t] = "query" /\ heap[given[t]] # Null
  /\ ran[heap[given[t]]] < MaxQueries
  /\ \E n \in 1 .. 2 : ran' = [ran EXCEPT ![heap[given[t]]] = @ + n]
  /\ Goto(t, "answer")
  /\ UNCHANGED <<heap, ptr, held, server, taken, fault>>

(* A query: the server runs it in the transaction that is in the box.      *)
Run(t) ==
  /\ pc[t] = "send" /\ op[t] = "query" /\ heap[given[t]] # Null
  /\ ran[heap[given[t]]] < MaxQueries
  /\ ran' = [ran EXCEPT ![heap[given[t]]] = @ + 1]
  /\ Goto(t, "answer")
  /\ UNCHANGED <<heap, ptr, held, server, taken, fault>>

(* The request fails before it has reached the server.                     *)
RunFails(t) ==
  /\ pc[t] = "send" /\ op[t] = "query" /\ heap[given[t]] # Null
  /\ Return(t)
  /\ UNCHANGED <<heap, ptr, held, server, ran, taken, fault>>

(* The answer, good or bad; the transaction was borrowed until here.       *)
Answer(t) ==
  /\ pc[t] = "answer" /\ heap[given[t]] # Null
  /\ Return(t)
  /\ UNCHANGED <<heap, ptr, held, server, ran, taken, fault>>
-----------------------------------------------------------------------------
(* The application forgets a Transaction.                                  *)
Drop(x) ==
  /\ x \in held
  /\ held' = held \ {x}
  /\ UNCHANGED <<heap, ptr, server, ran, pc, op, obj, given, taken, fault>>

(* commit() and cancel() still write to their Transaction at the end;      *)
(* query() has no use for it once the pointer is read.                     *)
Reachable ==
  held \cup {obj[t] : t \in {u \in Threads : pc[u] # "idle" /\ op[u] \in Completing}}

(* Mutant: the transaction is forgotten instead of dropped.                *)
FinalizeLeaks(x) ==
  /\ x \notin Reachable /\ ptr[x] # Null /\ heap[ptr[x]] # Null
  /\ heap' = [heap EXCEPT ![ptr[x]] = Null]
  /\ ptr' = [ptr EXCEPT ![x] = Null]
  /\ UNCHANGED <<held, server, ran, pc, op, obj, given, taken, fault>>

(* Native.finalize: release_instance drops the box with an unfinished      *)
(* transaction in it.                                                      *)
Finalize(x) ==
  /\ x \notin Reachable /\ ptr[x] # Null /\ heap[ptr[x]] # Null
  /\ server' = [server EXCEPT ![heap[ptr[x]]] = "dropped"]
  /\ heap' = [heap EXCEPT ![ptr[x]] = Null]
  /\ ptr' = [ptr EXCEPT ![x] = Null]
  /\ UNCHANGED <<held, ran, pc, op, obj, given, taken, fault>>

(* A box that was freed is taken, used or freed again.                     *)
UndefinedBehaviour ==
  /\ \/ \E t \in Threads :
          /\ \/ pc[t] \in {"take", "answer"}
             \/ pc[t] = "send" /\ op[t] = "query"
          /\ heap[given[t]] = Null
     \/ \E x \in Txns \ Reachable : ptr[x] # Null /\ heap[ptr[x]] = Null
  /\ fault' = TRUE
  /\ UNCHANGED <<heap, ptr, held, server, ran, pc, op, obj, given, taken>>

Step(t) ==
  \/ Begin(t) \/ \E o \in Ops, x \in Txns : Call(t, o, x)
  \/ Look(t) \/ LookFails(t)
  \/ Take(t) \/ Complete(t) \/ CompleteFails(t) \/ Moved(t)
  \/ Run(t) \/ RunFails(t) \/ Answer(t)

Next ==
  /\ ~fault
  /\ \/ \E t \in Threads : Step(t)
     \/ \E x \in Txns : Drop(x) \/ Finalize(x)
     \/ UndefinedBehaviour

Spec == Init /\ [][Next]_vars

(* An application that guards each Transaction with a lock of its own, and *)
(* does not forget one while a query runs in it.                           *)
Users(x) == {t \in Threads : pc[t] # "idle" /\ obj[t] = x}

Discipline ==
  /\ \A t \in Threads, x \in Txns :
       pc[t] = "idle" /\ pc'[t] = "look" /\ obj'[t] = x => Users(x) = {}
  /\ \A x \in held \ held' : \A t \in Users(x) : op[t] \in Completing

DisciplinedSpec == Init /\ [][Next /\ Discipline]_vars

(* An application without the lock whose threads begin and complete        *)
(* transactions, run no query and forget no Transaction.                   *)
CompletesOnly == held \subseteq held' /\ \A t \in Threads : op'[t] # "query"

CompletingSpec == Init /\ [][Next /\ CompletesOnly]_vars
-----------------------------------------------------------------------------
Places == {"idle", "look", "take", "send", "answer", "zero"}
Outcomes == {"none", "open", "committed", "cancelled", "dropped"}

TypeOK ==
  /\ heap \in [Addresses -> Txns \cup {Null}]
  /\ ptr \in [Txns -> Addresses \cup {Null}]
  /\ held \in SUBSET Txns
  /\ server \in [Txns -> Outcomes] /\ ran \in [Txns -> 0 .. MaxQueries]
  /\ pc \in [Threads -> Places] /\ op \in [Threads -> Ops \cup {"none"}]
  /\ obj \in [Threads -> Txns \cup {Null}]
  /\ given \in [Threads -> Addresses \cup {Null}]
  /\ taken \in [Threads -> Txns \cup {Null}]
  /\ fault \in BOOLEAN

(* Whatever the threads do, a transaction that is completed or dropped     *)
(* stays what it is, and no query is run in it any more.                   *)
CompletedForGood ==
  [][\A x \in Txns : server[x] \notin {"none", "open"} =>
       server'[x] = server[x] /\ ran'[x] = ran[x]]_vars

(* Whatever the threads do, a transaction that is still open on the server *)
(* can still be completed: a box that some Transaction points to holds it, *)
(* or a thread in commit() or cancel() has it.  No moved(), and no failure *)
(* before it, loses one.                                                   *)
OpenIsNotLost ==
  \A x \in Txns : server[x] = "open" =>
    \/ ptr[x] # Null /\ heap[ptr[x]] = x
    \/ \E t \in Threads : pc[t] = "send" /\ taken[t] = x

(* After commit() or cancel(), whether it returned or threw, and after the *)
(* server has dropped it, a Transaction is empty: every later call throws. *)
CompletedIsEmpty ==
  \A x \in Txns :
    server[x] \notin {"none", "open"} /\ (\A t \in Threads : obj[t] = x => pc[t] # "zero")
      => ptr[x] = Null

(* With the lock, a query runs in, and commit() and cancel() complete, no  *)
(* transaction but the one they were called on, although its address may   *)
(* have served others.  (That the box is there is NoUseAfterFree.)         *)
RightTransaction ==
  \A t \in Threads :
    /\ pc[t] = "take" \/ (pc[t] = "send" /\ op[t] = "query") =>
         heap[given[t]] \in {obj[t], Null}
    /\ pc[t] = "send" /\ op[t] \in Completing => taken[t] = obj[t]

(* With the lock, a Transaction is atomic: each call has its effect in one  *)
(* step, on its own transaction and only while that is open, and commit()  *)
(* and cancel() return only when it is over.                               *)
TheView == INSTANCE TransactionView WITH
  Nothing <- Null, state <- server, queries <- ran, known <- held,
  method <- op, target <- obj, acted <- {t \in Threads : pc[t] \in {"answer", "zero"}}

LifeCycle == TheView!ViewSpec

(* With the lock, neither a second commit() or cancel() nor a query after  *)
(* one, nor the finalizer, reaches a freed box.                            *)
NoUseAfterFree == ~fault
=============================================================================
