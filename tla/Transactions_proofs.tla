------------------------ MODULE Transactions_proofs ------------------------
(* Theorems about Transactions, for any threads, transactions, addresses    *)
(* and numbers of queries and in both builds: first whatever the            *)
(* application does, then with one call at a time on each Transaction.      *)
EXTENDS Transactions, TLAPS

(* An open transaction is in one place: one box, or the hands of one thread *)
(* in commit() or cancel().  Only open transactions are anywhere.           *)
OnePlace ==
  /\ \A a \in Addresses : heap[a] # Null => server[heap[a]] = "open"
  /\ \A a, b \in Addresses : heap[a] # Null /\ heap[a] = heap[b] => a = b
  /\ \A t \in Threads : taken[t] # Null =>
       /\ pc[t] = "send" /\ op[t] \in Completing
       /\ server[taken[t]] = "open"
       /\ \A a \in Addresses : heap[a] # taken[t]
       /\ \A u \in Threads : taken[t] = taken[u] => t = u

(* What a thread in a call has to go by.                                    *)
Calls ==
  /\ \A x \in Txns : x \in held \/ ptr[x] # Null => server[x] # "none"
  /\ \A t \in Threads : pc[t] # "idle" =>
       /\ obj[t] \in Txns /\ op[t] \in Ops
       /\ server[obj[t]] # "none"
       /\ ptr[obj[t]] \in {Null, given[t]}
  /\ \A t \in Threads :
       /\ pc[t] \in {"take", "send", "answer"} => given[t] \in Addresses
       /\ pc[t] = "send" /\ op[t] \in Completing => taken[t] \in Txns
       /\ pc[t] \in {"take", "zero"} => op[t] \in Completing

(* Once a thread has taken something out of the box, its transaction is not *)
(* there any more: moved() forgets nothing.                                 *)
NothingToForget ==
  \A t \in Threads :
    pc[t] = "zero" \/ (pc[t] = "send" /\ op[t] \in Completing) =>
      given[t] = Null \/ heap[given[t]] # obj[t]

Inv == OnePlace /\ Calls /\ NothingToForget /\ OpenIsNotLost

(* Who has a pointer that is not 0 keeps the types.                         *)
LEMMA TypeStep == TypeOK /\ Calls /\ [Next]_vars => TypeOK'
<1> SUFFICES ASSUME TypeOK, Calls, [Next]_vars
             PROVE  TypeOK'
  OBVIOUS
<1> USE TransactionsAssumption
    DEF Ops, Completing, Places, Outcomes, TypeOK, Goto, Return
<1>1. CASE UNCHANGED vars
  BY <1>1 DEF vars
<1>2. ASSUME NEW t \in Threads, Begin(t)
      PROVE  TypeOK'
  BY <1>2 DEF Begin
<1>3. ASSUME NEW t \in Threads, NEW o \in Ops, NEW x \in Txns, Call(t, o, x)
      PROVE  TypeOK'
  BY <1>3 DEF Call
<1>4. ASSUME NEW t \in Threads, Look(t) \/ LookFails(t)
      PROVE  TypeOK'
  BY <1>4 DEF Look, LookFails
<1>5. ASSUME NEW t \in Threads, Take(t)
      PROVE  TypeOK'
  <2>1. given[t] \in Addresses
    BY <1>5 DEF Take, Calls
  <2>2. QED
    BY <1>5, <2>1 DEF Take
<1>6. ASSUME NEW t \in Threads, Complete(t) \/ CompleteFails(t)
      PROVE  TypeOK'
  BY <1>6 DEF Complete, CompleteFails
<1>7. ASSUME NEW t \in Threads, Moved(t)
      PROVE  TypeOK'
  BY <1>7 DEF Moved
<1>8. ASSUME NEW t \in Threads, Run(t)
      PROVE  TypeOK'
  <2>1. given[t] \in Addresses
    BY <1>8 DEF Run, Calls
  <2>2. heap[given[t]] \in Txns
    BY <1>8, <2>1 DEF Run
  <2>3. ran' \in [Txns -> 0 .. MaxQueries]
    BY <1>8, <2>2 DEF Run
  <2>4. QED
    BY <1>8, <2>3 DEF Run
<1>9. ASSUME NEW t \in Threads, RunFails(t) \/ Answer(t)
      PROVE  TypeOK'
  BY <1>9 DEF RunFails, Answer
<1>10. ASSUME NEW x \in Txns, Drop(x)
       PROVE  TypeOK'
  BY <1>10 DEF Drop
<1>11. ASSUME NEW x \in Txns, Finalize(x)
       PROVE  TypeOK'
  BY <1>11 DEF Finalize
<1>12. CASE UndefinedBehaviour
  BY <1>12 DEF UndefinedBehaviour
<1>13. QED
  BY <1>1, <1>2, <1>3, <1>4, <1>5, <1>6, <1>7, <1>8, <1>9, <1>10, <1>11, <1>12 DEF Next, Step

LEMMA InvStep == TypeOK /\ TypeOK' /\ Inv /\ [Next]_vars => Inv'
<1> SUFFICES ASSUME TypeOK, TypeOK', Inv, [Next]_vars
             PROVE  Inv'
  OBVIOUS
<1> USE TransactionsAssumption DEF Completing
<1>1. OnePlace /\ Calls /\ NothingToForget /\ OpenIsNotLost
  BY DEF Inv
<1>2. CASE UNCHANGED vars
  BY <1>1, <1>2 DEF vars, Inv, OnePlace, Calls, NothingToForget, OpenIsNotLost
<1>3. ASSUME NEW t \in Threads, Begin(t)
      PROVE  Inv'
  <2>1. PICK x \in Txns, a \in Addresses :
          /\ server[x] = "none" /\ heap[a] = Null
          /\ server' = [server EXCEPT ![x] = "open"]
          /\ heap' = [heap EXCEPT ![a] = x]
          /\ ptr' = [ptr EXCEPT ![x] = a]
          /\ held' = held \cup {x}
    BY <1>3 DEF Begin
  <2>2. UNCHANGED <<pc, op, obj, given, taken>>
    BY <1>3 DEF Begin
  <2>3. OnePlace'
    BY <1>1, <2>1, <2>2 DEF OnePlace, TypeOK
  <2>4. Calls'
    BY <1>1, <2>1, <2>2 DEF Calls, TypeOK
  <2>5. NothingToForget'
    BY <1>1, <2>1, <2>2 DEF NothingToForget, Calls, TypeOK
  <2>6. OpenIsNotLost'
    BY <1>1, <2>1, <2>2 DEF OpenIsNotLost, TypeOK
  <2>7. QED
    BY <2>3, <2>4, <2>5, <2>6 DEF Inv
<1>4. ASSUME NEW t \in Threads, NEW o \in Ops, NEW x \in Txns, Call(t, o, x)
      PROVE  Inv'
  <2>1. /\ pc[t] = "idle" /\ x \in held /\ pc' = [pc EXCEPT ![t] = "look"]
        /\ op' = [op EXCEPT ![t] = o] /\ obj' = [obj EXCEPT ![t] = x]
        /\ given' = [given EXCEPT ![t] = ptr[x]]
        /\ UNCHANGED <<heap, ptr, held, server, taken>>
    BY <1>4 DEF Call
  <2>2. OnePlace'
    BY <1>1, <2>1 DEF OnePlace, TypeOK
  <2>3. Calls'
    BY <1>1, <2>1 DEF Calls, TypeOK
  <2>4. NothingToForget'
    BY <1>1, <2>1 DEF NothingToForget, TypeOK
  <2>5. OpenIsNotLost'
    BY <1>1, <2>1 DEF OpenIsNotLost, TypeOK
  <2>6. QED
    BY <2>2, <2>3, <2>4, <2>5 DEF Inv
<1>5. ASSUME NEW t \in Threads, Look(t)
      PROVE  Inv'
  <2>1. /\ pc[t] = "look" /\ given[t] # Null
        /\ pc' = [pc EXCEPT ![t] = IF op[t] \in Completing THEN "take" ELSE "send"]
        /\ UNCHANGED <<heap, ptr, held, server, op, obj, given, taken>>
    BY <1>5 DEF Look, Unusable, Goto
  <2>2. OnePlace'
    BY <1>1, <2>1 DEF OnePlace, TypeOK
  <2>3. Calls'
    BY <1>1, <2>1 DEF Calls, TypeOK
  <2>4. NothingToForget'
    BY <1>1, <2>1 DEF NothingToForget, TypeOK
  <2>5. OpenIsNotLost'
    BY <1>1, <2>1 DEF OpenIsNotLost, TypeOK
  <2>6. QED
    BY <2>2, <2>3, <2>4, <2>5 DEF Inv
<1>6. ASSUME NEW t \in Threads, LookFails(t)
      PROVE  Inv'
  <2>1. /\ pc[t] = "look" /\ (given[t] = Null \/ heap[given[t]] = Null)
        /\ UNCHANGED <<heap, ptr, held, server, taken>>
        /\ \/ op[t] \in Completing /\ Goto(t, "zero")
           \/ op[t] \notin Completing /\ Return(t)
    BY <1>6 DEF LookFails, Unusable
  <2>2. OnePlace'
    BY <1>1, <2>1 DEF OnePlace, TypeOK, Goto, Return
  <2>3. Calls'
    BY <1>1, <2>1 DEF Calls, TypeOK, Goto, Return
  <2>4. NothingToForget'
    BY <1>1, <2>1 DEF NothingToForget, Calls, TypeOK, Goto, Return
  <2>5. OpenIsNotLost'
    BY <1>1, <2>1 DEF OpenIsNotLost, TypeOK, Goto, Return
  <2>6. QED
    BY <2>2, <2>3, <2>4, <2>5 DEF Inv
<1>7. ASSUME NEW t \in Threads, Take(t)
      PROVE  Inv'
  <2> DEFINE y == heap[given[t]]
  <2>1. /\ pc[t] = "take" /\ op[t] \in Completing /\ given[t] \in Addresses /\ y \in Txns
        /\ taken' = [taken EXCEPT ![t] = y] /\ heap' = [heap EXCEPT ![given[t]] = Null]
        /\ pc' = [pc EXCEPT ![t] = "send"]
        /\ UNCHANGED <<ptr, held, server, op, obj, given>>
    BY <1>1, <1>7 DEF Take, Goto, Calls, TypeOK
  <2> HIDE DEF y
  <2>2. server[y] = "open" /\ \A a \in Addresses : heap[a] = y => a = given[t]
    BY <1>1, <2>1 DEF OnePlace, y
  <2>3. OnePlace'
    <3>1. /\ \A a \in Addresses : heap'[a] = IF a = given[t] THEN Null ELSE heap[a]
          /\ \A u \in Threads : /\ taken'[u] = IF u = t THEN y ELSE taken[u]
                                /\ pc'[u] = IF u = t THEN "send" ELSE pc[u]
      BY <2>1 DEF TypeOK
    <3>2. \A u \in Threads : taken[u] # y
      BY <1>1, <2>1 DEF OnePlace, y
    <3>3. \A a \in Addresses : heap'[a] # y
      BY <2>1, <2>2, <3>1
    <3>4. QED
      BY <1>1, <2>1, <2>2, <3>1, <3>2, <3>3 DEF OnePlace
  <2>4. Calls'
    BY <1>1, <2>1 DEF Calls, TypeOK
  <2>5. NothingToForget'
    BY <1>1, <2>1 DEF NothingToForget, Calls, TypeOK
  <2>6. ASSUME NEW x \in Txns, server'[x] = "open"
        PROVE  \/ ptr'[x] # Null /\ heap'[ptr'[x]] = x
               \/ \E u \in Threads : pc'[u] = "send" /\ taken'[u] = x
    <3>1. CASE x = y
      BY <2>1, <3>1 DEF TypeOK
    <3>2. CASE x # y
      <4>1. \A u \in Threads : pc[u] = "send" => pc'[u] = "send" /\ taken'[u] = taken[u]
        BY <2>1 DEF TypeOK
      <4>2. ptr[x] # Null /\ heap[ptr[x]] = x => heap'[ptr[x]] = x
        BY <2>1, <3>2 DEF TypeOK, y
      <4>3. QED
        BY <1>1, <2>1, <2>6, <4>1, <4>2 DEF OpenIsNotLost
    <3>3. QED
      BY <3>1, <3>2
  <2>7. OpenIsNotLost'
    BY <2>6 DEF OpenIsNotLost
  <2>8. QED
    BY <2>3, <2>4, <2>5, <2>7 DEF Inv
<1>8. ASSUME NEW t \in Threads, Complete(t) \/ CompleteFails(t)
      PROVE  Inv'
  <2>1. PICK end \in {"committed", "cancelled", "dropped"} :
          server' = [server EXCEPT ![taken[t]] = end]
    BY <1>8 DEF Complete, CompleteFails
  <2>2. /\ pc[t] = "send" /\ op[t] \in Completing /\ taken[t] \in Txns
        /\ taken' = [taken EXCEPT ![t] = Null] /\ pc' = [pc EXCEPT ![t] = "zero"]
        /\ UNCHANGED <<heap, ptr, held, op, obj, given>>
    BY <1>1, <1>8 DEF Complete, CompleteFails, Goto, Calls
  <2>3. OnePlace'
    BY <1>1, <2>1, <2>2 DEF OnePlace, TypeOK
  <2>4. Calls'
    BY <1>1, <2>1, <2>2 DEF Calls, TypeOK
  <2>5. NothingToForget'
    BY <1>1, <2>2 DEF NothingToForget, TypeOK
  <2>6. OpenIsNotLost'
    BY <1>1, <2>1, <2>2 DEF OpenIsNotLost, TypeOK
  <2>7. QED
    BY <2>3, <2>4, <2>5, <2>6 DEF Inv
<1>9. ASSUME NEW t \in Threads, Moved(t)
      PROVE  Inv'
  <2>1. /\ pc[t] = "zero" /\ obj[t] \in Txns
        /\ ptr' = [ptr EXCEPT ![obj[t]] = Null] /\ Return(t)
        /\ UNCHANGED <<heap, held, server, taken>>
    BY <1>1, <1>9 DEF Moved, Calls
  <2>2. OnePlace'
    BY <1>1, <2>1 DEF OnePlace, TypeOK, Return
  <2>3. Calls'
    BY <1>1, <2>1 DEF Calls, TypeOK, Return
  <2>4. NothingToForget'
    BY <1>1, <2>1 DEF NothingToForget, TypeOK, Return
  <2>5. ptr[obj[t]] # Null => heap[ptr[obj[t]]] # obj[t]
    BY <1>1, <2>1 DEF NothingToForget, Calls
  <2>6. OpenIsNotLost'
    BY <1>1, <2>1, <2>5 DEF OpenIsNotLost, TypeOK, Return
  <2>7. QED
    BY <2>2, <2>3, <2>4, <2>6 DEF Inv
<1>10. ASSUME NEW t \in Threads, Run(t) \/ RunFails(t) \/ Answer(t)
       PROVE  Inv'
  <2>1. /\ pc[t] \in {"send", "answer"} /\ taken[t] = Null
        /\ UNCHANGED <<heap, ptr, held, server, taken>>
        /\ Return(t) \/ (Goto(t, "answer") /\ op[t] = "query" /\ pc[t] = "send")
    BY <1>1, <1>10 DEF Run, RunFails, Answer, OnePlace
  <2>2. OnePlace'
    BY <1>1, <2>1 DEF OnePlace, TypeOK, Goto, Return
  <2>3. Calls'
    BY <1>1, <2>1 DEF Calls, TypeOK, Goto, Return
  <2>4. NothingToForget'
    BY <1>1, <2>1 DEF NothingToForget, TypeOK, Goto, Return
  <2>5. OpenIsNotLost'
    BY <1>1, <2>1 DEF OpenIsNotLost, TypeOK, Goto, Return
  <2>6. QED
    BY <2>2, <2>3, <2>4, <2>5 DEF Inv
<1>11. ASSUME NEW x \in Txns, Drop(x)
       PROVE  Inv'
  <2>1. held' \subseteq held /\ UNCHANGED <<heap, ptr, server, pc, op, obj, given, taken>>
    BY <1>11 DEF Drop
  <2>2. OnePlace' /\ Calls' /\ NothingToForget' /\ OpenIsNotLost'
    BY <1>1, <2>1 DEF OnePlace, Calls, NothingToForget, OpenIsNotLost
  <2>3. QED
    BY <2>2 DEF Inv
<1>12. ASSUME NEW x \in Txns, Finalize(x)
       PROVE  Inv'
  <2> DEFINE a == ptr[x]
             y == heap[a]
  <2>1. /\ a \in Addresses /\ y \in Txns
        /\ server' = [server EXCEPT ![y] = "dropped"]
        /\ heap' = [heap EXCEPT ![a] = Null] /\ ptr' = [ptr EXCEPT ![x] = Null]
        /\ UNCHANGED <<held, pc, op, obj, given, taken>>
    BY <1>12 DEF Finalize, TypeOK
  <2>2. heap[a] = y
    OBVIOUS
  <2> HIDE DEF y
  <2>3. /\ \A b \in Addresses : heap[b] = y => b = a
        /\ \A t \in Threads : taken[t] # y
    BY <1>1, <2>1, <2>2 DEF OnePlace
  <2>4. OnePlace'
    BY <1>1, <2>1, <2>2, <2>3 DEF OnePlace, TypeOK
  <2>5. Calls'
    BY <1>1, <2>1 DEF Calls, TypeOK
  <2>6. NothingToForget'
    BY <1>1, <2>1 DEF NothingToForget, Calls, TypeOK
  <2>7. ASSUME NEW z \in Txns, server'[z] = "open"
        PROVE  \/ ptr'[z] # Null /\ heap'[ptr'[z]] = z
               \/ \E u \in Threads : pc'[u] = "send" /\ taken'[u] = z
    <3>1. z # y /\ server[z] = "open"
      BY <2>1, <2>7 DEF TypeOK
    <3>2. ptr[z] # Null /\ heap[ptr[z]] = z => z # x /\ heap'[ptr[z]] = z
      BY <2>1, <2>2, <3>1 DEF TypeOK
    <3>3. QED
      BY <1>1, <2>1, <3>1, <3>2 DEF OpenIsNotLost, TypeOK
  <2>8. OpenIsNotLost'
    BY <2>7 DEF OpenIsNotLost
  <2>9. QED
    BY <2>4, <2>5, <2>6, <2>8 DEF Inv
<1>13. CASE UndefinedBehaviour
  <2>1. UNCHANGED <<heap, ptr, held, server, pc, op, obj, given, taken>>
    BY <1>13 DEF UndefinedBehaviour
  <2>2. OnePlace' /\ Calls' /\ NothingToForget' /\ OpenIsNotLost'
    BY <1>1, <2>1 DEF OnePlace, Calls, NothingToForget, OpenIsNotLost
  <2>3. QED
    BY <2>2 DEF Inv
<1>14. QED
  BY <1>2, <1>3, <1>4, <1>5, <1>6, <1>7, <1>8, <1>9, <1>10, <1>11, <1>12, <1>13 DEF Next, Step

(* Types and Inv hold in every reachable state.                             *)
LEMMA Invariance == Spec => [](TypeOK /\ Inv)
<1>1. Init => TypeOK /\ Inv
  <2> SUFFICES ASSUME Init
               PROVE  TypeOK /\ Inv
    OBVIOUS
  <2> USE TransactionsAssumption DEF Init
  <2>1. TypeOK
    <3>1. 0 \in 0 .. MaxQueries
      OBVIOUS
    <3>2. /\ heap \in [Addresses -> Txns \cup {Null}]
          /\ ptr \in [Txns -> Addresses \cup {Null}] /\ held \in SUBSET Txns
          /\ server \in [Txns -> Outcomes] /\ ran \in [Txns -> 0 .. MaxQueries]
      BY <3>1 DEF Outcomes
    <3>3. QED
      BY <3>2 DEF TypeOK, Places
  <2>2. OnePlace /\ NothingToForget /\ OpenIsNotLost
    BY DEF OnePlace, NothingToForget, OpenIsNotLost
  <2>3. Calls
    BY DEF Calls
  <2>4. QED
    BY <2>1, <2>2, <2>3 DEF Inv
<1>2. TypeOK /\ Inv /\ [Next]_vars => TypeOK' /\ Inv'
  BY TypeStep, InvStep DEF Inv
<1>3. QED
  BY <1>1, <1>2, PTL DEF Spec

(* Every reachable value of a variable has the type declared for it.        *)
THEOREM Typing == Spec => []TypeOK
BY Invariance, PTL

(* However the threads race, and in particular after the finally of a       *)
(* commit() or cancel() that has failed, an open transaction is still in    *)
(* the box of its Transaction or in the hands of a thread that completes    *)
(* it.                                                                      *)
THEOREM NoneLost == Spec => []OpenIsNotLost
<1>1. Inv => OpenIsNotLost
  BY DEF Inv
<1>2. QED
  BY <1>1, Invariance, PTL

(* However the threads race, no transaction is completed twice and no query *)
(* runs in a completed one.                                                 *)
THEOREM ForGood == Spec => CompletedForGood
<1> DEFINE Kept == \A x \in Txns : server[x] \notin {"none", "open"} =>
                                     server'[x] = server[x] /\ ran'[x] = ran[x]
<1>1. TypeOK /\ Inv /\ [Next]_vars => [Kept]_vars
  <2> SUFFICES ASSUME TypeOK, OnePlace, Calls, Next
               PROVE  Kept
    BY DEF Inv
  <2> USE TransactionsAssumption DEF TypeOK
  <2>1. ASSUME NEW t \in Threads, Begin(t)
        PROVE  Kept
    BY <2>1 DEF Begin
  <2>2. ASSUME NEW t \in Threads, Complete(t) \/ CompleteFails(t)
        PROVE  Kept
    BY <2>2 DEF Complete, CompleteFails, Calls, OnePlace
  <2>3. ASSUME NEW t \in Threads, Run(t)
        PROVE  Kept
    <3>1. given[t] \in Addresses
      BY <2>3 DEF Run, Calls
    <3>2. server[heap[given[t]]] = "open"
      BY <2>3, <3>1 DEF Run, OnePlace
    <3>3. QED
      BY <2>3, <3>2 DEF Run
  <2>4. ASSUME NEW x \in Txns, Finalize(x)
        PROVE  Kept
    <3>1. server[heap[ptr[x]]] = "open"
      BY <2>4 DEF Finalize, OnePlace
    <3>2. QED
      BY <2>4, <3>1 DEF Finalize
  <2>5. ASSUME UNCHANGED <<server, ran>>
        PROVE  Kept
    BY <2>5
  <2>6. QED
    BY <2>1, <2>2, <2>3, <2>4, <2>5
    DEF Next, Step, Call, Look, LookFails, Take, Moved, RunFails, Answer, Drop, UndefinedBehaviour
<1>2. QED
  BY <1>1, Invariance, PTL DEF Spec, CompletedForGood
-----------------------------------------------------------------------------
(* With the lock.                                                           *)

(* A thread in commit() or cancel() has taken the transaction of x, or      *)
(* failed to.                                                               *)
Emptied(x) ==
  \E t \in Threads : obj[t] = x /\ (pc[t] = "zero" \/ (pc[t] = "send" /\ op[t] \in Completing))

(* A thread in a call has its Transaction for itself, and the pointer it    *)
(* has read is still the right one.                                         *)
Locked ==
  /\ \A t, u \in Threads : pc[t] # "idle" /\ pc[u] # "idle" /\ obj[t] = obj[u] => t = u
  /\ \A t \in Threads : pc[t] # "idle" => /\ given[t] = ptr[obj[t]]
                                          /\ op[t] = "query" => obj[t] \in held
  /\ \A t \in Threads : pc[t] = "send" /\ op[t] \in Completing => taken[t] = obj[t]
  /\ \A x \in Txns : ptr[x] # Null /\ ~Emptied(x) => heap[ptr[x]] = x

LockedInv == Locked /\ CompletedIsEmpty /\ ~fault

LEMMA LockedStep ==
  TypeOK /\ TypeOK' /\ Inv /\ LockedInv /\ [Next /\ Discipline]_vars => LockedInv'
<1> SUFFICES ASSUME TypeOK, TypeOK', Inv, LockedInv, [Next /\ Discipline]_vars
             PROVE  LockedInv'
  OBVIOUS
<1> USE TransactionsAssumption DEF Completing
<1>1. OnePlace /\ Calls /\ NothingToForget /\ Locked /\ CompletedIsEmpty /\ ~fault
  BY DEF Inv, LockedInv
<1>2. CASE UNCHANGED vars
  BY <1>1, <1>2 DEF vars, LockedInv, Locked, Emptied, CompletedIsEmpty
<1> SUFFICES ASSUME Next, Discipline
             PROVE  LockedInv'
  BY <1>2
<1>3. ASSUME NEW t \in Threads, Begin(t)
      PROVE  LockedInv'
  <2>1. PICK x \in Txns, a \in Addresses :
          /\ server[x] = "none" /\ heap[a] = Null
          /\ server' = [server EXCEPT ![x] = "open"]
          /\ heap' = [heap EXCEPT ![a] = x]
          /\ ptr' = [ptr EXCEPT ![x] = a]
          /\ held' = held \cup {x}
    BY <1>3 DEF Begin
  <2>2. UNCHANGED <<pc, op, obj, given, taken, fault>>
    BY <1>3 DEF Begin
  <2>3. \A u \in Threads : pc[u] # "idle" => obj[u] # x
    BY <1>1, <2>1 DEF Calls
  <2>4. \A y \in Txns : y # x /\ ptr[y] # Null /\ heap[ptr[y]] = y => heap'[ptr'[y]] = y
    BY <2>1 DEF TypeOK
  <2>5. Locked'
    BY <1>1, <2>1, <2>2, <2>3, <2>4 DEF Locked, Emptied, TypeOK
  <2>6. CompletedIsEmpty'
    BY <1>1, <2>1, <2>2 DEF CompletedIsEmpty, TypeOK
  <2>7. QED
    BY <1>1, <2>2, <2>5, <2>6 DEF LockedInv
<1>4. ASSUME NEW t \in Threads, NEW o \in Ops, NEW x \in Txns, Call(t, o, x)
      PROVE  LockedInv'
  <2>1. /\ pc[t] = "idle" /\ x \in held /\ pc' = [pc EXCEPT ![t] = "look"]
        /\ op' = [op EXCEPT ![t] = o] /\ obj' = [obj EXCEPT ![t] = x]
        /\ given' = [given EXCEPT ![t] = ptr[x]]
        /\ UNCHANGED <<heap, ptr, held, server, taken, fault>>
    BY <1>4 DEF Call
  <2>2. \A u \in Threads : pc[u] # "idle" => obj[u] # x
    BY <2>1 DEF Discipline, Users, TypeOK
  <2>3. Locked'
    BY <1>1, <2>1, <2>2 DEF Locked, Emptied, TypeOK
  <2>4. CompletedIsEmpty'
    BY <1>1, <2>1, <2>2 DEF CompletedIsEmpty, TypeOK
  <2>5. QED
    BY <1>1, <2>1, <2>3, <2>4 DEF LockedInv
<1>5. ASSUME NEW t \in Threads, Look(t)
      PROVE  LockedInv'
  <2>1. /\ pc[t] = "look"
        /\ pc' = [pc EXCEPT ![t] = IF op[t] \in Completing THEN "take" ELSE "send"]
        /\ UNCHANGED <<heap, ptr, held, server, op, obj, given, taken, fault>>
    BY <1>5 DEF Look, Goto
  <2>2. Locked'
    BY <1>1, <2>1 DEF Locked, Emptied, TypeOK
  <2>3. CompletedIsEmpty'
    BY <1>1, <2>1 DEF CompletedIsEmpty, TypeOK
  <2>4. QED
    BY <1>1, <2>1, <2>2, <2>3 DEF LockedInv
<1>6. ASSUME NEW t \in Threads, LookFails(t)
      PROVE  LockedInv'
  <2>1. /\ pc[t] = "look" /\ UNCHANGED <<heap, ptr, held, server, taken, fault>>
        /\ \/ op[t] \in Completing /\ Goto(t, "zero")
           \/ op[t] \notin Completing /\ Return(t)
    BY <1>6 DEF LookFails
  <2>2. Locked'
    BY <1>1, <2>1, SMTT(30) DEF Locked, Emptied, TypeOK, Goto, Return
  <2>3. CompletedIsEmpty'
    BY <1>1, <2>1 DEF CompletedIsEmpty, TypeOK, Goto, Return
  <2>4. QED
    BY <1>1, <2>1, <2>2, <2>3 DEF LockedInv
<1>7. ASSUME NEW t \in Threads, Take(t)
      PROVE  LockedInv'
  <2>1. /\ pc[t] = "take" /\ op[t] \in Completing /\ given[t] \in Addresses
        /\ heap[given[t]] # Null /\ obj[t] \in Txns
        /\ taken' = [taken EXCEPT ![t] = heap[given[t]]]
        /\ heap' = [heap EXCEPT ![given[t]] = Null]
        /\ pc' = [pc EXCEPT ![t] = "send"]
        /\ UNCHANGED <<ptr, held, server, op, obj, given, fault>>
    BY <1>1, <1>7 DEF Take, Goto, Calls
  <2>2. ~Emptied(obj[t])
    BY <1>1, <2>1 DEF Emptied, Locked
  <2>3. ptr[obj[t]] = given[t] /\ heap[given[t]] = obj[t]
    BY <1>1, <2>1, <2>2 DEF Locked
  <2>4. \A x \in Txns : ptr[x] # Null /\ ~Emptied(x) /\ x # obj[t] => ptr[x] # given[t]
    BY <1>1, <2>3 DEF Locked
  <2>5. \A x \in Txns : ~Emptied(x)' => x # obj[t] /\ ~Emptied(x)
    BY <2>1 DEF Emptied, TypeOK
  <2>6. \A x \in Txns : ptr'[x] # Null /\ ~Emptied(x)' => heap'[ptr'[x]] = x
    BY <1>1, <2>1, <2>4, <2>5 DEF Locked, TypeOK
  <2>7. /\ \A u \in Threads : /\ taken'[u] = IF u = t THEN obj[t] ELSE taken[u]
                              /\ pc'[u] = IF u = t THEN "send" ELSE pc[u]
    BY <2>1, <2>3 DEF TypeOK
  <2>8. Locked'
    BY <1>1, <2>1, <2>6, <2>7 DEF Locked
  <2>9. CompletedIsEmpty'
    BY <1>1, <2>1 DEF CompletedIsEmpty, TypeOK
  <2>10. QED
    BY <1>1, <2>1, <2>8, <2>9 DEF LockedInv
<1>8. ASSUME NEW t \in Threads, Complete(t) \/ CompleteFails(t)
      PROVE  LockedInv'
  <2>1. PICK end \in {"committed", "cancelled", "dropped"} :
          server' = [server EXCEPT ![taken[t]] = end]
    BY <1>8 DEF Complete, CompleteFails
  <2>2. /\ pc[t] = "send" /\ op[t] \in Completing /\ taken[t] = obj[t] /\ obj[t] \in Txns
        /\ taken' = [taken EXCEPT ![t] = Null] /\ pc' = [pc EXCEPT ![t] = "zero"]
        /\ UNCHANGED <<heap, ptr, held, op, obj, given, fault>>
    BY <1>1, <1>8 DEF Complete, CompleteFails, Goto, Calls, Locked
  <2>3. Locked'
    BY <1>1, <2>2 DEF Locked, Emptied, TypeOK
  <2>4. CompletedIsEmpty'
    BY <1>1, <2>1, <2>2 DEF CompletedIsEmpty, TypeOK
  <2>5. QED
    BY <1>1, <2>2, <2>3, <2>4 DEF LockedInv
<1>9. ASSUME NEW t \in Threads, Moved(t)
      PROVE  LockedInv'
  <2>1. /\ pc[t] = "zero" /\ obj[t] \in Txns
        /\ ptr' = [ptr EXCEPT ![obj[t]] = Null] /\ Return(t)
        /\ UNCHANGED <<heap, held, server, taken, fault>>
    BY <1>1, <1>9 DEF Moved, Calls
  <2>2. \A x \in Txns : Emptied(x) => x = obj[t] \/ Emptied(x)'
    BY <2>1 DEF Emptied, Return, TypeOK
  <2>3. \A x \in Txns : ptr'[x] # Null /\ ~Emptied(x)' => heap'[ptr'[x]] = x
    BY <1>1, <2>1, <2>2 DEF Locked, TypeOK
  <2>4. Locked'
    BY <1>1, <2>1, <2>3 DEF Locked, TypeOK, Return
  <2>5. CompletedIsEmpty'
    BY <1>1, <2>1 DEF CompletedIsEmpty, TypeOK, Return
  <2>6. QED
    BY <1>1, <2>1, <2>4, <2>5 DEF LockedInv
<1>10. ASSUME NEW t \in Threads, Run(t) \/ RunFails(t) \/ Answer(t)
       PROVE  LockedInv'
  <2>1. /\ pc[t] = "answer" \/ (pc[t] = "send" /\ op[t] = "query")
        /\ UNCHANGED <<heap, ptr, held, server, taken, fault>>
        /\ Return(t) \/ Goto(t, "answer")
    BY <1>10 DEF Run, RunFails, Answer
  <2>2. \A x \in Txns : Emptied(x) => Emptied(x)'
    BY <2>1 DEF Emptied, Goto, Return, TypeOK
  <2>3. Locked'
    BY <1>1, <2>1, <2>2 DEF Locked, TypeOK, Goto, Return
  <2>4. CompletedIsEmpty'
    BY <1>1, <2>1 DEF CompletedIsEmpty, TypeOK, Goto, Return
  <2>5. QED
    BY <1>1, <2>1, <2>3, <2>4 DEF LockedInv
<1>11. ASSUME NEW x \in Txns, Drop(x)
       PROVE  LockedInv'
  <2>1. /\ x \in held /\ held' = held \ {x}
        /\ UNCHANGED <<heap, ptr, server, pc, op, obj, given, taken, fault>>
    BY <1>11 DEF Drop
  <2>2. \A t \in Threads : pc[t] # "idle" /\ op[t] = "query" => obj[t] # x
    BY <2>1 DEF Discipline, Users
  <2>3. Locked' /\ CompletedIsEmpty'
    BY <1>1, <2>1, <2>2 DEF Locked, Emptied, CompletedIsEmpty
  <2>4. QED
    BY <1>1, <2>1, <2>3 DEF LockedInv
<1>12. ASSUME NEW x \in Txns, Finalize(x)
       PROVE  LockedInv'
  <2>1. /\ x \notin held /\ ptr[x] \in Addresses
        /\ server' = [server EXCEPT ![heap[ptr[x]]] = "dropped"]
        /\ heap' = [heap EXCEPT ![ptr[x]] = Null] /\ ptr' = [ptr EXCEPT ![x] = Null]
        /\ UNCHANGED <<held, pc, op, obj, given, taken, fault>>
    BY <1>12 DEF Finalize, Reachable, TypeOK
  <2>2. \A t \in Threads : pc[t] # "idle" => obj[t] # x
    BY <1>1, <1>12 DEF Finalize, Reachable, Locked, Calls, Ops
  <2>3. ~Emptied(x) /\ heap[ptr[x]] = x
    BY <1>1, <2>1, <2>2 DEF Emptied, Locked
  <2>4. \A y \in Txns : Emptied(y)' <=> Emptied(y)
    BY <2>1 DEF Emptied
  <2>5. \A y \in Txns : ptr'[y] # Null /\ ~Emptied(y)' => heap'[ptr'[y]] = y
    BY <1>1, <2>1, <2>3, <2>4 DEF Locked, TypeOK
  <2>6. Locked'
    BY <1>1, <2>1, <2>2, <2>5 DEF Locked, Calls, TypeOK
  <2>7. CompletedIsEmpty'
    BY <1>1, <2>1, <2>3 DEF CompletedIsEmpty, TypeOK
  <2>8. QED
    BY <1>1, <2>1, <2>6, <2>7 DEF LockedInv
<1>13. CASE UndefinedBehaviour
  <2>1. \A t \in Threads : pc[t] \in {"take", "answer"} \/ (pc[t] = "send" /\ op[t] = "query") =>
          heap[given[t]] = obj[t] /\ obj[t] \in Txns
    BY <1>1 DEF Locked, Calls, Emptied
  <2>2. \A x \in Txns \ Reachable : ptr[x] # Null => heap[ptr[x]] = x
    <3> SUFFICES ASSUME NEW x \in Txns \ Reachable, ptr[x] # Null
                 PROVE  heap[ptr[x]] = x
      OBVIOUS
    <3>1. ~Emptied(x)
      BY <1>1 DEF Emptied, Reachable, Calls
    <3>2. QED
      BY <1>1, <3>1 DEF Locked
  <2>3. QED
    BY <1>13, <2>1, <2>2 DEF UndefinedBehaviour
<1>14. QED
  BY <1>3, <1>4, <1>5, <1>6, <1>7, <1>8, <1>9, <1>10, <1>11, <1>12, <1>13 DEF Next, Step

(* Types, Inv and LockedInv hold in every state that an application with    *)
(* the lock reaches.                                                        *)
LEMMA LockedInvariance == DisciplinedSpec => [](TypeOK /\ Inv /\ LockedInv)
<1>1. DisciplinedSpec => Spec
  <2>1. [Next /\ Discipline]_vars => [Next]_vars
    OBVIOUS
  <2>2. QED
    BY <2>1, PTL DEF DisciplinedSpec, Spec
<1>2. Init => LockedInv
  BY DEF Init, LockedInv, Locked, CompletedIsEmpty
<1>3. TypeOK /\ TypeOK' /\ Inv /\ LockedInv /\ [Next /\ Discipline]_vars => LockedInv'
  BY LockedStep
<1>4. QED
  BY <1>1, <1>2, <1>3, Invariance, PTL DEF DisciplinedSpec

(* An application with the lock never reaches a freed box, whatever it      *)
(* calls after commit() or cancel() and whenever the finalizer runs.        *)
THEOREM Safety == DisciplinedSpec => []NoUseAfterFree
<1>1. LockedInv => NoUseAfterFree
  BY DEF LockedInv, NoUseAfterFree
<1>2. QED
  BY <1>1, LockedInvariance, PTL

(* It always works on the transaction it has called.                        *)
THEOREM Targets == DisciplinedSpec => []RightTransaction
<1>1. Inv /\ LockedInv => RightTransaction
  <2> SUFFICES ASSUME Calls, Locked
               PROVE  RightTransaction
    BY DEF Inv, LockedInv
  <2>1. ASSUME NEW t \in Threads, pc[t] = "take" \/ (pc[t] = "send" /\ op[t] = "query")
        PROVE  heap[given[t]] = obj[t]
    <3>1. ~Emptied(obj[t]) /\ given[t] = ptr[obj[t]] /\ obj[t] \in Txns
      BY <2>1 DEF Emptied, Locked, Calls, Completing
    <3>2. given[t] # Null
      BY <2>1, TransactionsAssumption DEF Calls
    <3>3. QED
      BY <3>1, <3>2 DEF Locked
  <2>2. QED
    BY <2>1 DEF RightTransaction, Locked
<1>2. QED
  BY <1>1, LockedInvariance, PTL

(* And a Transaction that is completed has no pointer left to use.          *)
THEOREM UsedUp == DisciplinedSpec => []CompletedIsEmpty
<1>1. LockedInv => CompletedIsEmpty
  BY DEF LockedInv
<1>2. QED
  BY <1>1, LockedInvariance, PTL
-----------------------------------------------------------------------------
(* A thread in no call has no method and no Transaction.                    *)
Resting == \A t \in Threads : pc[t] = "idle" => op[t] = "none" /\ obj[t] = Null

LEMMA RestingStep == TypeOK /\ Resting /\ [Next]_vars => Resting'
<1> SUFFICES ASSUME TypeOK, Resting, [Next]_vars
             PROVE  Resting'
  OBVIOUS
<1> USE DEF TypeOK, Resting, Goto, Return
<1>1. CASE UNCHANGED <<pc, op, obj>>
  BY <1>1
<1>2. ASSUME NEW t \in Threads, NEW o \in Ops, NEW x \in Txns, Call(t, o, x)
      PROVE  Resting'
  BY <1>2 DEF Call
<1>3. ASSUME NEW t \in Threads, \/ Look(t) \/ LookFails(t) \/ Take(t) \/ Complete(t) \/ CompleteFails(t)
                                \/ Moved(t) \/ Run(t) \/ RunFails(t) \/ Answer(t)
      PROVE  Resting'
  <2>1. Return(t) \/ \E there \in Places \ {"idle"} : Goto(t, there)
    BY <1>3 DEF Look, LookFails, Take, Complete, CompleteFails, Moved, Run, RunFails, Answer, Places
  <2>2. QED
    BY <2>1
<1>4. QED
  BY <1>1, <1>2, <1>3 DEF Next, Step, vars, Begin, Drop, Finalize, UndefinedBehaviour

(* A query is sent to, and a lookup that fails was made on, what the call   *)
(* is on.                                                                   *)
LEMMA QueryTarget ==
  ASSUME TypeOK, Inv, LockedInv, NEW t \in Threads, pc[t] = "send", op[t] = "query"
  PROVE  given[t] \in Addresses /\ heap[given[t]] = obj[t] /\ server[obj[t]] = "open" /\ obj[t] \in Txns
<1> USE TransactionsAssumption DEF Completing
<1>1. OnePlace /\ Calls /\ Locked
  BY DEF Inv, LockedInv
<1>2. given[t] \in Addresses /\ obj[t] \in Txns /\ given[t] = ptr[obj[t]]
  BY <1>1 DEF Calls, Locked
<1>3. ~Emptied(obj[t])
  BY <1>1 DEF Emptied, Locked
<1>4. heap[given[t]] = obj[t]
  BY <1>1, <1>2, <1>3 DEF Locked
<1>5. QED
  BY <1>1, <1>2, <1>4 DEF OnePlace

LEMMA UnusableIsOver ==
  ASSUME TypeOK, Inv, LockedInv, NEW t \in Threads, pc[t] = "look", Unusable(given[t])
  PROVE  server[obj[t]] # "open"
<1> USE TransactionsAssumption DEF Completing
<1>1. OnePlace /\ Calls /\ OpenIsNotLost /\ Locked
  BY DEF Inv, LockedInv
<1>2. obj[t] \in Txns /\ given[t] = ptr[obj[t]]
  BY <1>1 DEF Calls, Locked
<1>3. ptr[obj[t]] = Null \/ heap[ptr[obj[t]]] = Null
  BY <1>2 DEF Unusable
<1>4. ~(ptr[obj[t]] # Null /\ heap[ptr[obj[t]]] = obj[t])
  BY <1>2, <1>3
<1>5. ASSUME NEW u \in Threads, pc[u] = "send", taken[u] = obj[t]
      PROVE  FALSE
  <2>1. op[u] \in Completing
    BY <1>1, <1>2, <1>5 DEF OnePlace
  <2>2. obj[u] = obj[t]
    BY <1>1, <1>5, <2>1 DEF Locked
  <2>3. QED
    BY <1>1, <1>5, <2>2 DEF Locked
<1>6. QED
  BY <1>1, <1>2, <1>4, <1>5 DEF OpenIsNotLost

(* What the finalizer drops is open, and no call is on it.                  *)
LEMMA FinalizesOpen ==
  ASSUME TypeOK, Inv, LockedInv, Resting, NEW x \in Txns, Finalize(x)
  PROVE  /\ x \notin held /\ server[x] = "open" /\ heap[ptr[x]] = x
         /\ \A t \in Threads : obj[t] # x
<1> USE TransactionsAssumption DEF Completing
<1>1. OnePlace /\ Calls /\ Locked
  BY DEF Inv, LockedInv
<1>2. x \notin held /\ ptr[x] \in Addresses /\ heap[ptr[x]] # Null
  BY DEF Finalize, Reachable, TypeOK
<1>3. \A t \in Threads : pc[t] # "idle" => obj[t] # x
  BY <1>1 DEF Finalize, Reachable, Locked, Calls, Ops
<1>4. \A t \in Threads : obj[t] # x
  BY <1>3 DEF Resting
<1>5. heap[ptr[x]] = x
  BY <1>1, <1>2, <1>4 DEF Emptied, Locked
<1>6. QED
  BY <1>1, <1>2, <1>4, <1>5 DEF OnePlace

(* Every step is one of the view or leaves it alone.                        *)
LEMMA ViewStep ==
  TypeOK /\ Inv /\ LockedInv /\ Resting /\ [Next]_vars => [TheView!ViewNext]_(TheView!view)
<1> SUFFICES ASSUME TypeOK, Inv, LockedInv, Resting, [Next]_vars
             PROVE  [TheView!ViewNext]_(TheView!view)
  OBVIOUS
<1> DEFINE acted == {t \in Threads : pc[t] \in {"answer", "zero"}}
<1> USE TransactionsAssumption DEF Completing
<1>1. OnePlace /\ Calls /\ Locked
  BY DEF Inv, LockedInv
<1>2. ASSUME UNCHANGED <<held, server, ran, op, obj>>, acted' = acted
      PROVE  UNCHANGED TheView!view
  BY <1>2 DEF TheView!view, TheView!calls
<1>3. ASSUME NEW t \in Threads, NEW there \in Places, Goto(t, there),
             pc[t] \in {"answer", "zero"} <=> there \in {"answer", "zero"}
      PROVE  acted' = acted
  <2>1. pc' = [pc EXCEPT ![t] = there]
    BY <1>3 DEF Goto
  <2>2. \A u \in Threads : pc'[u] \in {"answer", "zero"} <=> pc[u] \in {"answer", "zero"}
    BY <1>3, <2>1 DEF TypeOK
  <2>3. QED
    BY <2>2
<1>4. ASSUME NEW t \in Threads, NEW there \in {"answer", "zero"}, Goto(t, there)
      PROVE  acted' = acted \cup {t} /\ UNCHANGED <<op, obj>>
  BY <1>4 DEF Goto, TypeOK
<1>5. ASSUME NEW t \in Threads, Return(t), UNCHANGED <<held, server, ran>>,
             t \in acted \/ op[t] = "query"
      PROVE  TheView!Leave(t)
  <2>1. acted' = acted \ {t}
    BY <1>5 DEF Return, TypeOK
  <2>2. QED
    BY <1>5, <2>1 DEF Return, TheView!Leave
<1>6. ASSUME NEW t \in Threads, Begin(t)
      PROVE  TheView!ViewNext
  <2>1. PICK x \in Txns : /\ server[x] = "none"
                          /\ server' = [server EXCEPT ![x] = "open"]
                          /\ held' = held \cup {x}
    BY <1>6 DEF Begin
  <2>2. TheView!New(x)
    BY <1>6, <2>1 DEF Begin, TheView!New, TheView!calls
  <2>3. QED
    BY <2>2 DEF TheView!ViewNext
<1>7. ASSUME NEW t \in Threads, NEW o \in Ops, NEW x \in Txns, Call(t, o, x)
      PROVE  TheView!ViewNext
  <2>1. acted' = acted
    BY <1>7 DEF Call, TypeOK
  <2>2. op[t] = "none"
    BY <1>7 DEF Call, Resting
  <2>3. TheView!Invoke(t, x)
    BY <1>7, <2>1, <2>2 DEF Call, Ops, TheView!Invoke
  <2>4. QED
    BY <2>3 DEF TheView!ViewNext
<1>8. ASSUME NEW t \in Threads, Look(t)
      PROVE  UNCHANGED TheView!view
  <2>1. /\ pc[t] = "look" /\ UNCHANGED <<held, server, ran, op, obj>>
        /\ Goto(t, "take") \/ Goto(t, "send")
    BY <1>8 DEF Look, Goto
  <2>2. acted' = acted
    BY <1>3, <2>1 DEF Places
  <2>3. QED
    BY <1>2, <2>1, <2>2
<1>9. ASSUME NEW t \in Threads, LookFails(t)
      PROVE  TheView!ViewNext
  <2>1. /\ pc[t] = "look" /\ Unusable(given[t]) /\ op[t] \in Ops
        /\ UNCHANGED <<held, server, ran>>
    BY <1>1, <1>9 DEF LookFails, Calls
  <2>2. CASE op[t] \in Completing
    <3>1. Goto(t, "zero") /\ t \notin acted
      BY <1>9, <2>1, <2>2 DEF LookFails
    <3>2. server[obj[t]] # "open"
      BY <2>1, UnusableIsOver
    <3>3. TheView!TooLate(t)
      BY <1>4, <2>1, <2>2, <3>1, <3>2 DEF TheView!TooLate
    <3>4. QED
      BY <3>3 DEF TheView!ViewNext
  <2>3. CASE op[t] \notin Completing
    <3>1. Return(t) /\ op[t] = "query"
      BY <1>9, <2>1, <2>3 DEF LookFails, Ops
    <3>2. TheView!Leave(t)
      BY <1>5, <2>1, <3>1
    <3>3. QED
      BY <3>2 DEF TheView!ViewNext
  <2>4. QED
    BY <2>2, <2>3
<1>10. ASSUME NEW t \in Threads, Take(t)
       PROVE  UNCHANGED TheView!view
  <2>1. pc[t] = "take" /\ UNCHANGED <<held, server, ran, op, obj>> /\ Goto(t, "send")
    BY <1>10 DEF Take, Goto
  <2>2. acted' = acted
    BY <1>3, <2>1 DEF Places
  <2>3. QED
    BY <1>2, <2>1, <2>2
<1>11. ASSUME NEW t \in Threads, Complete(t) \/ CompleteFails(t)
       PROVE  TheView!ViewNext
  <2>1. /\ pc[t] = "send" /\ op[t] \in Completing /\ Goto(t, "zero") /\ UNCHANGED <<held, ran>>
        /\ \E end \in TheView!Ends[op[t]] : server' = [server EXCEPT ![taken[t]] = end]
    BY <1>11 DEF Complete, CompleteFails, TheView!Ends
  <2>2. taken[t] = obj[t] /\ obj[t] \in Txns /\ server[obj[t]] = "open"
    BY <1>1, <2>1 DEF Locked, OnePlace, Calls
  <2>3. TheView!End(t)
    BY <1>4, <2>1, <2>2 DEF TheView!End
  <2>4. QED
    BY <2>3 DEF TheView!ViewNext
<1>12. ASSUME NEW t \in Threads, Moved(t) \/ RunFails(t) \/ Answer(t)
       PROVE  TheView!ViewNext
  <2>1. Return(t) /\ UNCHANGED <<held, server, ran>> /\ (t \in acted \/ op[t] = "query")
    BY <1>12 DEF Moved, RunFails, Answer
  <2>2. QED
    BY <1>5, <2>1 DEF TheView!ViewNext
<1>13. ASSUME NEW t \in Threads, Run(t)
       PROVE  TheView!ViewNext
  <2>1. /\ pc[t] = "send" /\ op[t] = "query" /\ Goto(t, "answer") /\ UNCHANGED <<held, server>>
        /\ ran' = [ran EXCEPT ![heap[given[t]]] = @ + 1]
    BY <1>13 DEF Run
  <2>2. heap[given[t]] = obj[t] /\ server[obj[t]] = "open"
    BY <2>1, QueryTarget
  <2>3. TheView!Query(t)
    BY <1>4, <2>1, <2>2 DEF TheView!Query
  <2>4. QED
    BY <2>3 DEF TheView!ViewNext
<1>14. ASSUME NEW x \in Txns, Drop(x)
       PROVE  TheView!ViewNext
  <2>1. acted' = acted
    BY <1>14 DEF Drop
  <2>2. TheView!Forget(x)
    BY <1>14, <2>1 DEF Drop, TheView!Forget, TheView!calls
  <2>3. QED
    BY <2>2 DEF TheView!ViewNext
<1>15. ASSUME NEW x \in Txns, Finalize(x)
       PROVE  TheView!ViewNext
  <2>1. /\ x \notin held /\ server[x] = "open" /\ heap[ptr[x]] = x
        /\ \A t \in Threads : obj[t] # x
    BY <1>15, FinalizesOpen
  <2>2. acted' = acted
    BY <1>15 DEF Finalize
  <2>3. TheView!Abandon(x)
    BY <1>15, <2>1, <2>2 DEF Finalize, TheView!Abandon, TheView!calls
  <2>4. QED
    BY <2>3 DEF TheView!ViewNext
<1>16. CASE UndefinedBehaviour \/ UNCHANGED vars
  <2>1. UNCHANGED <<held, server, ran, op, obj, pc>>
    BY <1>16 DEF UndefinedBehaviour, vars
  <2>2. acted' = acted
    BY <2>1
  <2>3. QED
    BY <1>2, <2>1, <2>2
<1>17. QED
  BY <1>6, <1>7, <1>8, <1>9, <1>10, <1>11, <1>12, <1>13, <1>14, <1>15, <1>16 DEF Next, Step

(* With the lock the calls on a Transaction are atomic.                     *)
THEOREM Atomicity == DisciplinedSpec => LifeCycle
<1>1. Init => TheView!ViewInit
  BY DEF Init, TheView!ViewInit
<1>2. Init => Resting
  BY DEF Init, Resting
<1>3. TypeOK /\ Resting /\ [Next /\ Discipline]_vars => Resting'
  BY RestingStep
<1>4. TypeOK /\ Inv /\ LockedInv /\ Resting /\ [Next /\ Discipline]_vars
        => [TheView!ViewNext]_(TheView!view)
  BY ViewStep
<1>5. QED
  BY <1>1, <1>2, <1>3, <1>4, LockedInvariance, PTL DEF DisciplinedSpec, LifeCycle, TheView!ViewSpec
=============================================================================
