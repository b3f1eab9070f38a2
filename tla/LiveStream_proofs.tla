------------------------- MODULE LiveStream_proofs -------------------------
(* Theorems about LiveStream, for any set of threads and any number of     *)
(* notifications.                                                          *)
EXTENDS LiveStream, SequenceLemmas, TLAPS

(* The inductive invariant of Spec, in four parts: what has been set up in *)
(* each phase of selectLive; who holds which lock; how far the teardown    *)
(* has come for a thread to stand where it stands; what the queues hold.   *)
SetUp ==
  /\ forwarder = "none" <=> box = "none"
  /\ forwarder = "none" => handle = 0 /\ phase \in {"unsubscribed", "subscribed", "failed"}
  /\ phase \in {"unsubscribed", "subscribed"} => forwarder = "none"
  /\ phase = "spawned" => handle = 0 /\ box = "allocated"
  /\ \A t \in Threads : pc[t] # "idle" => phase = "open"

Locks ==
  \A t \in Threads :
    /\ recvOwner = t <=> pc[t] \in {"lockRx", "recv", "convert", "takeRx", "unlockRecv"}
    /\ rxOwner = t <=> pc[t] \in {"recv", "convert"}
    /\ joinOwner = t <=> pc[t] = "join"

Teardown ==
  /\ forwarder = "running" => rx = "some" /\ box = "allocated"
  /\ box = "freed" => rx = "none"
  /\ phase = "open" /\ handle = 0 => box = "freed"
  /\ forwarder = "running" /\ joinHandle = "none" => \E t \in Threads : pc[t] = "join"
  /\ \A t \in Threads :
       /\ pc[t] \in {"lockRecvLast", "takeRx", "unlockRecv", "checkBox", "freeBox"}
            => forwarder = "exited"
       /\ pc[t] \in {"unlockRecv", "checkBox", "freeBox"} => rx = "none"
       /\ pc[t] = "zeroHandle" => box = "freed"
       /\ pc[t] \in {"recv", "convert"} => rx = "some" /\ box = "allocated"

Flow ==
  /\ forwarder = "exited" => wire = <<>>
  /\ \/ hand = <<>> /\ \A t \in Threads : pc[t] # "convert"
     \/ Len(hand) = 1 /\ \E t \in Threads : pc[t] = "convert"

Inv == SetUp /\ Locks /\ Teardown /\ Flow

(* Every reachable value of a variable has the type declared for it.       *)
THEOREM Typing == Spec => []TypeOK
<1> USE LiveStreamAssumption DEF Address, Option, Items, NextPoints, ClosePoints
<1>1. Init => TypeOK
  BY DEF Init, TypeOK
<1>2. TypeOK /\ [Next]_vars => TypeOK'
  <2> SUFFICES ASSUME TypeOK, [Next]_vars
               PROVE  TypeOK'
    OBVIOUS
  <2> USE DEF TypeOK, queues, native, Goto, Through
  <2>1. CASE SelectLive
    <3>1. CASE Subscribe BY <3>1 DEF Subscribe
    <3>2. CASE StreamFails BY <3>2 DEF StreamFails
    <3>3. CASE SpawnForwarder BY <3>3 DEF SpawnForwarder
    <3>4. CASE ConstructLiveStream BY <3>4 DEF ConstructLiveStream
    <3>5. QED BY <2>1, <3>1, <3>2, <3>3, <3>4 DEF SelectLive
  <2>2. CASE Server
    <3>1. CASE Notify
      <4>1. sent' \in 0 .. MaxNotifications /\ sent + 1 \in Items
        BY <3>1 DEF Notify
      <4>2. wire' \in Seq(Items)
        BY <3>1, <4>1, AppendProperties DEF Notify
      <4>3. QED
        BY <3>1, <4>1, <4>2 DEF Notify
    <3>2. CASE EndSource BY <3>2 DEF EndSource
    <3>3. CASE Kill BY <3>3 DEF Kill
    <3>4. QED BY <2>2, <3>1, <3>2, <3>3 DEF Server
  <2>3. CASE Forwarder
    <3>1. CASE Forward
      <4>1. wire' \in Seq(Items) /\ chan' \in Seq(Items)
        BY <3>1, HeadTailProperties, AppendProperties DEF Forward
      <4>2. QED
        BY <3>1, <4>1 DEF Forward
    <3>2. CASE Exit BY <3>2 DEF Exit
    <3>3. QED BY <2>3, <3>1, <3>2 DEF Forwarder, StopOnShutdown, StopOnEnd
  <2>4. ASSUME NEW t \in Threads, NextStep(t)
        PROVE  TypeOK'
    <3>1. CASE ReadHandle(t)
      <4>1. PICK to \in {"getInstance", "idle"} : pc' = [pc EXCEPT ![t] = to]
        BY <3>1 DEF ReadHandle
      <4>2. QED
        BY <3>1, <4>1 DEF ReadHandle
    <3>2. CASE GetInstance(t)
      <4>1. PICK to \in {"lockRecv", "idle"} : pc' = [pc EXCEPT ![t] = to]
        BY <3>2 DEF GetInstance
      <4>2. QED
        BY <3>2, <4>1 DEF GetInstance
    <3>3. CASE LockRecv(t) BY <3>3 DEF LockRecv
    <3>4. CASE LockRx(t)
      <4>1. PICK to \in {"recv", "idle"} : pc' = [pc EXCEPT ![t] = to]
        BY <3>4 DEF LockRx
      <4>2. rxOwner' \in Threads \cup {NoThread} /\ recvOwner' \in Threads \cup {NoThread}
        BY <3>4 DEF LockRx
      <4>3. QED
        BY <3>4, <4>1, <4>2 DEF LockRx
    <3>5. CASE Recv(t) BY <3>5 DEF Recv
    <3>6. CASE RecvClosed(t) BY <3>6 DEF RecvClosed
    <3>7. CASE Convert(t) BY <3>7 DEF Convert
    <3>8. QED BY <2>4, <3>1, <3>2, <3>3, <3>4, <3>5, <3>6, <3>7 DEF NextStep
  <2>5. ASSUME NEW t \in Threads, CloseStep(t)
        PROVE  TypeOK'
    <3>1. CASE ReadHandleForRelease(t)
      <4>1. PICK to \in {"getChannel", "zeroHandle"} : pc' = [pc EXCEPT ![t] = to]
        BY <3>1 DEF ReadHandleForRelease
      <4>2. QED
        BY <3>1, <4>1 DEF ReadHandleForRelease
    <3>2. CASE GetChannel(t)
      <4>1. PICK to \in {"dropShutdown", "zeroHandle"} : pc' = [pc EXCEPT ![t] = to]
        BY <3>2 DEF GetChannel
      <4>2. QED
        BY <3>2, <4>1 DEF GetChannel
    <3>3. CASE DropShutdown(t) BY <3>3 DEF DropShutdown
    <3>4. CASE LockJoin(t)
      <4>1. PICK to \in {"join", "lockRecvLast"} : pc' = [pc EXCEPT ![t] = to]
        BY <3>4 DEF LockJoin
      <4>2. joinOwner' \in Threads \cup {NoThread} /\ joinHandle' = "none"
        BY <3>4 DEF LockJoin
      <4>3. QED
        BY <3>4, <4>1, <4>2 DEF LockJoin
    <3>5. CASE Join(t) BY <3>5 DEF Join
    <3>6. CASE LockRecvLast(t) BY <3>6 DEF LockRecvLast
    <3>7. CASE TakeRx(t) BY <3>7 DEF TakeRx
    <3>8. CASE UnlockRecv(t) BY <3>8 DEF UnlockRecv
    <3>9. CASE CheckBox(t)
      <4>1. PICK to \in {"freeBox", "zeroHandle"} : pc' = [pc EXCEPT ![t] = to]
        BY <3>9 DEF CheckBox
      <4>2. QED
        BY <3>9, <4>1 DEF CheckBox
    <3>10. CASE FreeBox(t) BY <3>10 DEF FreeBox
    <3>11. CASE ZeroHandle(t) BY <3>11 DEF ZeroHandle
    <3>12. QED
      BY <2>5, <3>1, <3>2, <3>3, <3>4, <3>5, <3>6, <3>7, <3>8, <3>9, <3>10, <3>11
      DEF CloseStep
  <2>6. ASSUME NEW t \in Threads, CallNext(t)
        PROVE  TypeOK'
    BY <2>6 DEF CallNext
  <2>7. ASSUME NEW t \in Threads, CallClose(t)
        PROVE  TypeOK'
    BY <2>7 DEF CallClose
  <2>8. ASSUME NEW t \in Threads, UseAfterFree(t)
        PROVE  TypeOK'
    BY <2>8 DEF UseAfterFree
  <2>9. CASE UNCHANGED vars
    BY <2>9 DEF vars
  <2>10. QED
    BY <2>1, <2>2, <2>3, <2>4, <2>5, <2>6, <2>7, <2>8, <2>9 DEF Next
<1>3. QED
  BY <1>1, <1>2, PTL DEF Spec

(* Every step of any thread, of the forwarder, of the server or of         *)
(* selectLive preserves the invariant.                                     *)
LEMMA InvStep == TypeOK /\ Inv /\ [Next]_vars => Inv'
<1> SUFFICES ASSUME TypeOK, Inv, [Next]_vars
             PROVE  Inv'
  OBVIOUS
<1> USE LiveStreamAssumption
    DEF TypeOK, Inv, SetUp, Locks, Teardown, Flow, queues, native, Goto, Through,
        Address, Option, NextPoints, ClosePoints
<1>1. CASE SelectLive
  <2>1. CASE Subscribe BY <2>1 DEF Subscribe
  <2>2. CASE StreamFails BY <2>2 DEF StreamFails
  <2>3. CASE SpawnForwarder BY <2>3 DEF SpawnForwarder
  <2>4. CASE ConstructLiveStream BY <2>4 DEF ConstructLiveStream
  <2>5. QED BY <1>1, <2>1, <2>2, <2>3, <2>4 DEF SelectLive
<1>2. CASE Server
  <2>1. CASE Notify BY <2>1 DEF Notify
  <2>2. CASE EndSource BY <2>2 DEF EndSource
  <2>3. CASE Kill BY <2>3 DEF Kill
  <2>4. QED BY <1>2, <2>1, <2>2, <2>3 DEF Server
<1>3. CASE Forwarder
  <2>1. CASE Forward BY <2>1 DEF Forward
  <2>2. CASE StopOnShutdown BY <2>2 DEF StopOnShutdown, Exit
  <2>3. CASE StopOnEnd BY <2>3 DEF StopOnEnd, Exit
  <2>4. QED BY <1>3, <2>1, <2>2, <2>3 DEF Forwarder
<1>4. ASSUME NEW t \in Threads, NextStep(t)
      PROVE  Inv'
  <2>1. CASE ReadHandle(t) BY <2>1 DEF ReadHandle
  <2>2. CASE GetInstance(t) BY <2>2 DEF GetInstance
  <2>3. CASE LockRecv(t) BY <2>3 DEF LockRecv
  <2>4. CASE LockRx(t) BY <2>4 DEF LockRx
  <2>5. CASE Recv(t) BY <2>5 DEF Recv
  <2>6. CASE RecvClosed(t) BY <2>6 DEF RecvClosed
  <2>7. CASE Convert(t) BY <2>7 DEF Convert
  <2>8. QED BY <1>4, <2>1, <2>2, <2>3, <2>4, <2>5, <2>6, <2>7 DEF NextStep
<1>5. ASSUME NEW t \in Threads, CloseStep(t)
      PROVE  Inv'
  <2>1. CASE ReadHandleForRelease(t) BY <2>1 DEF ReadHandleForRelease
  <2>2. CASE GetChannel(t) BY <2>2 DEF GetChannel
  <2>3. CASE DropShutdown(t) BY <2>3 DEF DropShutdown
  <2>4. CASE LockJoin(t) BY <2>4 DEF LockJoin
  <2>5. CASE Join(t) BY <2>5 DEF Join
  <2>6. CASE LockRecvLast(t) BY <2>6 DEF LockRecvLast
  <2>7. CASE TakeRx(t) BY <2>7 DEF TakeRx
  <2>8. CASE UnlockRecv(t) BY <2>8 DEF UnlockRecv
  <2>9. CASE CheckBox(t) BY <2>9 DEF CheckBox
  <2>10. CASE FreeBox(t) BY <2>10 DEF FreeBox
  <2>11. CASE ZeroHandle(t) BY <2>11 DEF ZeroHandle
  <2>12. QED BY <1>5, <2>1, <2>2, <2>3, <2>4, <2>5, <2>6, <2>7, <2>8, <2>9, <2>10, <2>11 DEF CloseStep
<1>6. ASSUME NEW t \in Threads, CallNext(t)
      PROVE  Inv'
  BY <1>6 DEF CallNext
<1>7. ASSUME NEW t \in Threads, CallClose(t)
      PROVE  Inv'
  BY <1>7 DEF CallClose
<1>8. ASSUME NEW t \in Threads, UseAfterFree(t)
      PROVE  Inv'
  BY <1>8 DEF UseAfterFree
<1>9. CASE UNCHANGED vars
  BY <1>9 DEF vars
<1>10. QED
  BY <1>1, <1>2, <1>3, <1>4, <1>5, <1>6, <1>7, <1>8, <1>9 DEF Next

LEMMA Invariance == Spec => [](TypeOK /\ Inv)
<1>1. Init => Inv
  BY LiveStreamAssumption DEF Init, Inv, SetUp, Locks, Teardown, Flow, Address
<1>2. QED
  BY <1>1, InvStep, Typing, PTL DEF Spec

(* A thread inside recv(), or converting what it received, has the box and *)
(* the receiver under it, however many threads call next() and close() and *)
(* in whatever order: the claim under "Locking protocol" in live.rs.       *)
THEOREM RecvProtection == Spec => []RecvIsProtected
<1>1. Inv => RecvIsProtected
  BY DEF Inv, Teardown, RecvIsProtected
<1>2. QED
  BY <1>1, Invariance, PTL

(* The receiver and the box go only after the forwarder has exited: the    *)
(* claim under "Shutdown sequence" in live.rs.                             *)
THEOREM TeardownOrder == Spec => []TeardownFollowsForwarder
<1>1. Inv => TeardownFollowsForwarder
  BY DEF Inv, Teardown, TeardownFollowsForwarder
<1>2. QED
  BY <1>1, Invariance, PTL

(* No thread ever waits for rx while it holds recv_mutex, and the thread   *)
(* that holds the join handle's mutex waits for no lock.                   *)
THEOREM LockOrdering == Spec => []LockOrder
<1>1. TypeOK /\ Inv => LockOrder
  BY LiveStreamAssumption DEF TypeOK, Inv, Locks, LockOrder
<1>2. QED
  BY <1>1, Invariance, PTL

(* A thread that has come to the join has told the forwarder to stop.       *)
Stopping ==
  \A t \in Threads : pc[t] \in {"lockJoin", "join", "lockRecvLast"} => shutdownTx = "none"

LEMMA StoppingStep == TypeOK /\ Inv /\ Stopping /\ [Next]_vars => Stopping'
<1> SUFFICES ASSUME TypeOK, Inv, Stopping, [Next]_vars
             PROVE  Stopping'
  OBVIOUS
<1> USE DEF TypeOK, Stopping, native, Goto, Through, NextPoints, ClosePoints
<1>1. CASE UNCHANGED <<pc, shutdownTx>>
  BY <1>1
<1>2. CASE SpawnForwarder
  <2>1. \A t \in Threads : pc[t] = "idle"
    BY <1>2 DEF SpawnForwarder, Inv, SetUp
  <2>2. QED
    BY <1>2, <2>1 DEF SpawnForwarder
<1>3. ASSUME NEW t \in Threads, CallNext(t) \/ NextStep(t) \/ CallClose(t)
      PROVE  Stopping'
  <2>1. shutdownTx' = shutdownTx /\ \A u \in Threads : pc'[u] = pc[u] \/ pc'[u] \in NextPoints \cup {"idle", "releaseNative"}
    BY <1>3 DEF CallNext, CallClose, NextStep, ReadHandle, GetInstance, LockRecv, LockRx, Recv, RecvClosed, Convert
  <2>2. QED
    BY <2>1
<1>4. ASSUME NEW t \in Threads, DropShutdown(t)
      PROVE  Stopping'
  BY <1>4 DEF DropShutdown
<1>5. ASSUME NEW t \in Threads, LockJoin(t) \/ Join(t)
      PROVE  Stopping'
  BY <1>5 DEF LockJoin, Join
<1>6. ASSUME NEW t \in Threads,
             \/ ReadHandleForRelease(t) \/ GetChannel(t) \/ LockRecvLast(t) \/ TakeRx(t)
             \/ UnlockRecv(t) \/ CheckBox(t) \/ FreeBox(t) \/ ZeroHandle(t)
      PROVE  Stopping'
  <2>1. shutdownTx' = shutdownTx /\ \A u \in Threads : pc'[u] = pc[u] \/ pc'[u] \notin {"lockJoin", "join", "lockRecvLast"}
    BY <1>6 DEF ReadHandleForRelease, GetChannel, LockRecvLast, TakeRx, UnlockRecv, CheckBox, FreeBox, ZeroHandle
  <2>2. QED
    BY <2>1
<1>7. QED
  BY <1>1, <1>2, <1>3, <1>4, <1>5, <1>6
     DEF Next, vars, SelectLive, Subscribe, StreamFails, ConstructLiveStream, Server, Notify, EndSource, Kill,
         Forwarder, Forward, StopOnShutdown, StopOnEnd, Exit, CloseStep, UseAfterFree

(* However many threads call next() and close(), a close() that waits does  *)
(* so for a forwarder that was told to stop, or for a thread that goes on.  *)
THEOREM DeadlockFreedom == Spec => []CloseIsNotStuck
<1>1. Init => Stopping
  BY DEF Init, Stopping
<1>2. TypeOK /\ Inv /\ Stopping => CloseIsNotStuck
  <2> SUFFICES ASSUME TypeOK, Inv, Stopping,
                      NEW t \in Threads, pc[t] \in ClosePoints, Waits(t),
                      ~(forwarder = "running" /\ shutdownTx = "none")
               PROVE  Owner(t) # NoThread /\ pc[Owner(t)] # "idle" /\ ~Waits(Owner(t))
    BY DEF CloseIsNotStuck
  <2> USE LiveStreamAssumption
  <2>1. Locks /\ Teardown /\ forwarder \in {"running", "exited"}
    <3>1. phase = "open"
      BY DEF Inv, SetUp, ClosePoints
    <3>2. forwarder # "none"
      BY <3>1 DEF Inv, SetUp
    <3>3. QED
      BY <3>2 DEF Inv, TypeOK
  <2>2. CASE pc[t] = "lockRecvLast"
    <3>1. forwarder = "exited" /\ Owner(t) = recvOwner
      BY <2>1, <2>2 DEF Teardown, Owner
    <3>2. recvOwner \in Threads
      BY <2>2, <3>1 DEF Waits, TypeOK
    <3>3. pc[recvOwner] \in {"lockRx", "recv", "convert", "takeRx", "unlockRecv"}
      BY <2>1, <3>2 DEF Locks
    <3>4. pc[recvOwner] \in {"lockRx", "takeRx"} => rxOwner = NoThread
      <4>1. ASSUME pc[recvOwner] \in {"lockRx", "takeRx"}, rxOwner \in Threads
            PROVE  FALSE
        BY <2>1, <3>2, <4>1 DEF Locks
      <4>2. QED
        BY <4>1 DEF TypeOK
    <3>5. ~Waits(recvOwner)
      BY <3>1, <3>3, <3>4 DEF Waits, Owner
    <3>6. QED
      BY <3>1, <3>2, <3>3, <3>5
  <2>3. CASE pc[t] = "takeRx"
    <3>1. recvOwner = t /\ Owner(t) = rxOwner /\ rxOwner \in Threads
      BY <2>1, <2>3 DEF Locks, Waits, Owner, TypeOK
    <3>2. pc[rxOwner] \in {"recv", "convert"}
      BY <2>1, <3>1 DEF Locks
    <3>3. recvOwner = rxOwner
      BY <2>1, <3>1, <3>2 DEF Locks
    <3>4. QED
      BY <2>3, <3>1, <3>2, <3>3
  <2>4. CASE pc[t] = "lockJoin"
    <3>1. forwarder = "exited" /\ Owner(t) = joinOwner /\ joinOwner \in Threads
      BY <2>1, <2>4 DEF Stopping, Waits, Owner, TypeOK
    <3>2. pc[joinOwner] = "join"
      BY <2>1, <3>1 DEF Locks
    <3>3. ~Waits(joinOwner)
      BY <3>1, <3>2 DEF Waits, Owner
    <3>4. QED
      BY <3>1, <3>2, <3>3
  <2>5. CASE pc[t] = "join"
    <3>1. forwarder = "exited"
      BY <2>1, <2>5 DEF Stopping
    <3>2. ~Waits(t)
      BY <2>5, <3>1 DEF Waits, Owner
    <3>3. QED
      BY <3>2
  <2>6. CASE pc[t] \notin {"lockRecvLast", "takeRx", "lockJoin", "join"}
    <3>1. ~Waits(t)
      BY <2>6 DEF Waits, Owner, ClosePoints
    <3>2. QED
      BY <3>1
  <2>7. QED
    BY <2>2, <2>3, <2>4, <2>5, <2>6
<1>3. QED
  BY <1>1, <1>2, StoppingStep, Invariance, PTL DEF Spec

(* A stream whose field is zero holds no native resource any more.         *)
THEOREM NothingLeftBehind == Spec => []ClosedMeansReleased
<1>1. TypeOK /\ Inv => ClosedMeansReleased
  BY DEF TypeOK, Inv, SetUp, Teardown, ClosedMeansReleased
<1>2. QED
  BY <1>1, Invariance, PTL
-----------------------------------------------------------------------------
(* What the discipline adds: a thread past the point where it owns         *)
(* recv_mutex for the teardown is alone, the box is freed only by it, and  *)
(* the field is zeroed before anyone else looks at it.                     *)
Alone ==
  /\ \A t, u \in Threads :
       t # u /\ pc[t] \in ClosePoints => pc[u] \in {"idle", "lockRx", "recv", "convert"}
  /\ \A t, u \in Threads :
       t # u /\ pc[t] \in {"takeRx", "unlockRecv", "checkBox", "freeBox", "zeroHandle"}
         => pc[u] = "idle"
  /\ \A t \in Threads :
       /\ pc[t] \in {"nextNative", "releaseNative"} => handle # 0
       /\ box = "freed" => pc[t] \in {"idle", "zeroHandle"}
  /\ box = "freed" /\ handle # 0 => \E t \in Threads : pc[t] = "zeroHandle"
  /\ fault = "none"

LEMMA AloneStep == TypeOK /\ Inv /\ Alone /\ [DisciplinedNext]_vars => Alone'
<1> SUFFICES ASSUME TypeOK, Inv, Alone, [DisciplinedNext]_vars
             PROVE  Alone'
  OBVIOUS
<1> USE LiveStreamAssumption
    DEF TypeOK, Inv, SetUp, Locks, Teardown, Alone, queues, native, Goto, Through,
        Address, NextPoints, ClosePoints
<1>1. CASE SelectLive
  <2>1. CASE Subscribe BY <2>1 DEF Subscribe
  <2>2. CASE StreamFails BY <2>2 DEF StreamFails
  <2>3. CASE SpawnForwarder BY <2>3 DEF SpawnForwarder
  <2>4. CASE ConstructLiveStream BY <2>4 DEF ConstructLiveStream
  <2>5. QED BY <1>1, <2>1, <2>2, <2>3, <2>4 DEF SelectLive
<1>2. CASE Server
  <2>1. CASE Notify BY <2>1 DEF Notify
  <2>2. CASE EndSource BY <2>2 DEF EndSource
  <2>3. CASE Kill BY <2>3 DEF Kill
  <2>4. QED BY <1>2, <2>1, <2>2, <2>3 DEF Server
<1>3. CASE Forwarder
  <2>1. CASE Forward BY <2>1 DEF Forward
  <2>2. CASE StopOnShutdown BY <2>2 DEF StopOnShutdown, Exit
  <2>3. CASE StopOnEnd BY <2>3 DEF StopOnEnd, Exit
  <2>4. QED BY <1>3, <2>1, <2>2, <2>3 DEF Forwarder
<1>4. ASSUME NEW t \in Threads, NextStep(t)
      PROVE  Alone'
  <2>1. CASE ReadHandle(t) BY <2>1 DEF ReadHandle
  <2>2. CASE GetInstance(t) BY <2>2 DEF GetInstance
  <2>3. CASE LockRecv(t) BY <2>3 DEF LockRecv
  <2>4. CASE LockRx(t) BY <2>4 DEF LockRx
  <2>5. CASE Recv(t) BY <2>5 DEF Recv
  <2>6. CASE RecvClosed(t) BY <2>6 DEF RecvClosed
  <2>7. CASE Convert(t) BY <2>7 DEF Convert
  <2>8. QED BY <1>4, <2>1, <2>2, <2>3, <2>4, <2>5, <2>6, <2>7 DEF NextStep
<1>5. ASSUME NEW t \in Threads, CloseStep(t)
      PROVE  Alone'
  <2>1. CASE ReadHandleForRelease(t) BY <2>1 DEF ReadHandleForRelease
  <2>2. CASE GetChannel(t) BY <2>2 DEF GetChannel
  <2>3. CASE DropShutdown(t) BY <2>3 DEF DropShutdown
  <2>4. CASE LockJoin(t) BY <2>4 DEF LockJoin
  <2>5. CASE Join(t) BY <2>5 DEF Join
  <2>6. CASE LockRecvLast(t) BY <2>6 DEF LockRecvLast
  <2>7. CASE TakeRx(t) BY <2>7 DEF TakeRx
  <2>8. CASE UnlockRecv(t) BY <2>8 DEF UnlockRecv
  <2>9. CASE CheckBox(t) BY <2>9 DEF CheckBox
  <2>10. CASE FreeBox(t) BY <2>10 DEF FreeBox
  <2>11. CASE ZeroHandle(t) BY <2>11 DEF ZeroHandle
  <2>12. QED BY <1>5, <2>1, <2>2, <2>3, <2>4, <2>5, <2>6, <2>7, <2>8, <2>9, <2>10, <2>11 DEF CloseStep
<1>6. ASSUME NEW t \in Threads, CallNext(t), Discipline
      PROVE  Alone'
  BY <1>6 DEF CallNext, Discipline
<1>7. ASSUME NEW t \in Threads, CallClose(t), Discipline
      PROVE  Alone'
  BY <1>7 DEF CallClose, Discipline
<1>8. ASSUME NEW t \in Threads, UseAfterFree(t)
      PROVE  Alone'
  BY <1>8 DEF UseAfterFree, Derefs, Lookups
<1>9. CASE UNCHANGED vars
  BY <1>9 DEF vars
<1>10. QED
  BY <1>1, <1>2, <1>3, <1>4, <1>5, <1>6, <1>7, <1>8, <1>9 DEF DisciplinedNext, Next

LEMMA DisciplinedInvariance == DisciplinedSpec => [](TypeOK /\ Inv /\ Alone)
<1>1. Init => Alone
  BY DEF Init, Alone, ClosePoints
<1>2. [DisciplinedNext]_vars => [Next]_vars
  BY DEF DisciplinedNext
<1>3. DisciplinedSpec => Spec
  BY <1>2, PTL DEF DisciplinedSpec, Spec
<1>4. QED
  BY <1>1, <1>3, AloneStep, Invariance, PTL DEF DisciplinedSpec

(* An application that keeps the discipline never reaches freed memory,    *)
(* with any number of threads and in either build.                         *)
THEOREM MemorySafety == DisciplinedSpec => []NoUseAfterFree
<1>1. Alone => NoUseAfterFree
  BY DEF Alone, NoUseAfterFree
<1>2. QED
  BY <1>1, DisciplinedInvariance, PTL

(* Nor does next() then hand a zeroed handle to the native layer.          *)
THEOREM NoStaleHandle == DisciplinedSpec => []ClosedNextReturnsEmpty
<1>1. Alone => ClosedNextReturnsEmpty
  BY DEF Alone, ClosedNextReturnsEmpty
<1>2. QED
  BY <1>1, DisciplinedInvariance, PTL
-----------------------------------------------------------------------------
pending == hand \o chan \o wire
status == IF forwarder = "exited" THEN "ended" ELSE "open"

(* A step that leaves the four abstract values alone stutters.             *)
LEMMA Stutter ==
  ASSUME sent' = sent, pending' = pending, taken' = taken, status' = status
  PROVE  [Queue!QNext]_(Queue!qvars)
BY DEF pending, status, Queue!qvars

(* Every step of the stream is a step of NotificationQueue or stutters.    *)
LEMMA QueueStep == TypeOK /\ Inv /\ [Next]_vars => [Queue!QNext]_(Queue!qvars)
<1> SUFFICES ASSUME TypeOK, Inv, [Next]_vars
             PROVE  [Queue!QNext]_(Queue!qvars)
  OBVIOUS
<1>0. /\ hand \in Seq(Items) /\ chan \in Seq(Items) /\ wire \in Seq(Items)
      /\ taken \in Seq(Items) /\ <<>> \in Seq(Items)
      /\ hand \o chan \in Seq(Items) /\ pending \in Seq(Items)
  BY ConcatProperties, EmptySeq DEF TypeOK, pending
<1>1. CASE Notify
  <2>1. sent + 1 \in Items
    BY <1>1, LiveStreamAssumption DEF Notify, TypeOK, Items
  <2>2. pending' = Append(pending, sent + 1)
    BY <1>0, <1>1, <2>1, AppendConcat DEF Notify, pending
  <2>3. Queue!Send
    BY <1>1, <2>2 DEF Notify, pending, Queue!Send
  <2>4. QED
    BY <2>3 DEF Queue!QNext
<1>2. CASE Forward
  <2>1. forwarder = "running" /\ rx = "some" /\ wire # <<>>
    BY <1>2 DEF Forward, Inv, Teardown
  <2>2. chan' = Append(chan, Head(wire)) /\ wire' = Tail(wire) /\ hand' = hand
    BY <1>2, <2>1 DEF Forward
  <2>3. Head(wire) \in Items /\ Tail(wire) \in Seq(Items)
    BY <1>0, <2>1, HeadTailProperties
  <2>4. hand \o Append(chan, Head(wire)) = Append(hand \o chan, Head(wire))
    BY <1>0, <2>3, AppendConcat
  <2>5. pending' = Append(hand \o chan, Head(wire)) \o Tail(wire)
    BY <2>2, <2>4 DEF pending
  <2>6. pending' = pending
    BY <1>0, <2>1, <2>5, MoveHead DEF pending
  <2>7. QED
    BY <1>2, <2>6, Stutter DEF Forward, status
<1>3. CASE Exit
  <2>1. pending' = hand \o chan
    BY <1>0, <1>3, ConcatEmptySeq DEF Exit, pending
  <2>2. hand \o chan = SubSeq(pending, 1, Len(hand \o chan))
    BY <1>0, PrefixOfConcat DEF pending
  <2>3. Len(hand \o chan) \in 0 .. Len(pending)
    BY <1>0, ConcatProperties, LenProperties DEF pending
  <2>4. Queue!End
    BY <1>3, <2>1, <2>2, <2>3 DEF Exit, pending, Queue!End
  <2>5. QED
    BY <2>4 DEF Queue!QNext
<1>4. ASSUME NEW t \in Threads, Recv(t)
      PROVE  [Queue!QNext]_(Queue!qvars)
  <2>1. hand = <<>>
    BY <1>4, LiveStreamAssumption DEF Recv, Through, Goto, TypeOK, Inv, Locks, Flow
  <2>2. chan # <<>> /\ hand' = <<Head(chan)>> /\ chan' = Tail(chan) /\ wire' = wire
    BY <1>4 DEF Recv
  <2>3. hand' \o chan' = chan
    BY <1>0, <2>2, MoveHead, ConcatEmptySeq, EmptySeq
  <2>4. pending' = pending
    BY <1>0, <2>1, <2>2, <2>3, ConcatEmptySeq DEF pending
  <2>5. QED
    BY <1>4, <2>4, Stutter DEF Recv, status
<1>5. ASSUME NEW t \in Threads, Convert(t)
      PROVE  [Queue!QNext]_(Queue!qvars)
  <2>1. Len(hand) = 1
    BY <1>5 DEF Convert, Through, Goto, Inv, Flow
  <2>2. PICK n \in Items : hand = <<n>>
    BY <1>0, <2>1, Singleton
  <2>3. taken' = Append(taken, n) /\ pending' = chan \o wire
    BY <1>0, <1>5, <2>2, AppendIsConcat, ConcatEmptySeq DEF Convert, pending, queues
  <2>4. pending = <<n>> \o (chan \o wire)
    BY <1>0, <2>2, ConcatAssociative DEF pending
  <2>5. pending # <<>> /\ Head(pending) = n /\ Tail(pending) = chan \o wire
    BY <1>0, <2>2, <2>4, HeadOfConcat, ConcatProperties
  <2>6. Queue!Consume
    BY <1>5, <2>3, <2>5 DEF Convert, pending, queues, Queue!Consume
  <2>7. QED
    BY <2>6 DEF Queue!QNext
<1>6. ASSUME NEW t \in Threads, TakeRx(t)
      PROVE  [Queue!QNext]_(Queue!qvars)
  <2>1. forwarder = "exited" /\ wire = <<>> /\ hand = <<>>
    BY <1>6, LiveStreamAssumption DEF TakeRx, Through, Goto, TypeOK, Inv, Locks, Teardown, Flow
  <2>2. pending' = <<>>
    BY <1>6, <2>1, EmptySeq, ConcatEmptySeq DEF TakeRx, pending
  <2>3. <<>> = SubSeq(pending, 1, 0) /\ 0 \in 0 .. Len(pending)
    BY <1>0, SubSeqEmpty, LenProperties
  <2>4. Queue!End
    BY <1>6, <2>1, <2>2, <2>3 DEF TakeRx, pending, Queue!End
  <2>5. QED
    BY <2>4 DEF Queue!QNext
<1>7. CASE SelectLive \/ EndSource \/ Kill \/ UNCHANGED vars
  <2>1. /\ sent' = sent /\ hand' = hand /\ chan' = chan /\ wire' = wire /\ taken' = taken
        /\ status' = status
    BY <1>7 DEF SelectLive, Subscribe, StreamFails, SpawnForwarder, ConstructLiveStream,
                EndSource, Kill, vars, queues, native, status, Inv, SetUp
  <2>2. QED
    BY <2>1, Stutter DEF pending
<1>8. ASSUME NEW t \in Threads,
             \/ CallNext(t) \/ ReadHandle(t) \/ GetInstance(t) \/ LockRecv(t) \/ LockRx(t)
             \/ RecvClosed(t) \/ CallClose(t) \/ UseAfterFree(t)
             \/ CloseStep(t) /\ ~TakeRx(t)
      PROVE  [Queue!QNext]_(Queue!qvars)
  <2>1. /\ sent' = sent /\ hand' = hand /\ chan' = chan /\ wire' = wire /\ taken' = taken
        /\ forwarder' = forwarder
    BY <1>8 DEF CallNext, ReadHandle, GetInstance, LockRecv, LockRx, RecvClosed, CallClose,
                UseAfterFree, CloseStep, ReadHandleForRelease, GetChannel, DropShutdown, LockJoin,
                Join, LockRecvLast, UnlockRecv, CheckBox, FreeBox, ZeroHandle, queues
  <2>2. QED
    BY <2>1, Stutter DEF pending, status
<1>9. QED
  BY <1>1, <1>2, <1>3, <1>4, <1>5, <1>6, <1>7, <1>8
  DEF Next, Server, Forwarder, StopOnShutdown, StopOnEnd, NextStep, CloseStep

(* LiveStream implements NotificationQueue: whatever the threads do, the   *)
(* application gets each notification once and in the order sent.          *)
THEOREM Refinement == Spec => QueueSpec
<1>1. Init => Queue!QInit
  BY EmptySeq, ConcatEmptySeq DEF Init, Queue!QInit
<1>2. QED
  BY <1>1, QueueStep, Invariance, PTL DEF Spec, QueueSpec, Queue!QSpec

(* The notifications consumed, held and queued are 1, 2, 3, ... in that    *)
(* order: what NotificationQueue_proofs shows of every implementation.     *)
QueueProofs == INSTANCE NotificationQueue_proofs
                 WITH pending <- hand \o chan \o wire,
                      status <- IF forwarder = "exited" THEN "ended" ELSE "open"

THEOREM OrderedDelivery == Spec => []InOrder
<1>1. QueueSpec => []InOrder
  BY QueueProofs!Numbering
  DEF QueueSpec, InOrder, Queue!QSpec, QueueProofs!QSpec, Queue!QInit, QueueProofs!QInit,
      Queue!QNext, QueueProofs!QNext, Queue!qvars, QueueProofs!qvars, Queue!Numbered,
      QueueProofs!Numbered, Queue!Send, QueueProofs!Send, Queue!Consume, QueueProofs!Consume,
      Queue!End, QueueProofs!End
<1>2. QED
  BY <1>1, Refinement
-----------------------------------------------------------------------------
(* Nothing is lost while the forwarder runs, nor when it exits because the *)
(* SDK's stream has ended: only a close() that has dropped the shutdown    *)
(* sender lets it exit with something left, or takes the receiver.         *)
Whole ==
  /\ \A t \in Threads :
       pc[t] \in {"lockJoin", "join", "lockRecvLast", "takeRx"} => shutdownTx = "none"
  /\ forwarder # "exited" \/ shutdownTx = "some"
       => Len(taken) + Len(hand) + Len(chan) + Len(wire) = sent

LEMMA WholeStep == TypeOK /\ Inv /\ Whole /\ [Next]_vars => Whole'
<1> SUFFICES ASSUME TypeOK, Inv, Whole, [Next]_vars
             PROVE  Whole'
  OBVIOUS
<1> USE LiveStreamAssumption DEF TypeOK, Whole, queues, native, Goto, Through, Option
<1>0. /\ Len(taken) \in Nat /\ Len(hand) \in Nat /\ Len(chan) \in Nat /\ Len(wire) \in Nat
      /\ sent \in Nat
  BY LenProperties
<1>1. CASE SelectLive
  <2>1. CASE Subscribe BY <2>1 DEF Subscribe
  <2>2. CASE StreamFails BY <2>2 DEF StreamFails
  <2>3. CASE SpawnForwarder
    BY <2>3 DEF SpawnForwarder, Inv, SetUp
  <2>4. CASE ConstructLiveStream BY <2>4 DEF ConstructLiveStream
  <2>5. QED BY <1>1, <2>1, <2>2, <2>3, <2>4 DEF SelectLive
<1>2. CASE Server
  <2>1. CASE Notify
    <3>1. sent + 1 \in Items
      BY <2>1 DEF Notify, Items
    <3>2. Len(wire') = Len(wire) + 1
      BY <2>1, <3>1, AppendProperties DEF Notify
    <3>3. /\ sent' = sent + 1 /\ taken' = taken /\ hand' = hand /\ chan' = chan
          /\ pc' = pc /\ shutdownTx' = shutdownTx /\ forwarder' = forwarder
      BY <2>1 DEF Notify
    <3>4. QED
      <4> HIDE DEF TypeOK, queues, native, Goto, Through, Option
      <4>1. Len(taken') + Len(hand') + Len(chan') + Len(wire')
               = Len(taken) + Len(hand) + Len(chan) + Len(wire) + 1
        BY <3>2, <3>3, <1>0
      <4>2. QED
        BY <3>3, <4>1
  <2>2. CASE EndSource BY <2>2 DEF EndSource
  <2>3. CASE Kill BY <2>3 DEF Kill
  <2>4. QED BY <1>2, <2>1, <2>2, <2>3 DEF Server
<1>3. CASE Forwarder
  <2>1. CASE Forward
    <3>1. rx = "some"
      BY <2>1 DEF Forward, Inv, Teardown
    <3>2. Head(wire) \in Items /\ Len(wire') = Len(wire) - 1
      BY <2>1, HeadTailProperties DEF Forward
    <3>3. Len(chan') = Len(chan) + 1
      BY <2>1, <3>1, <3>2, AppendProperties DEF Forward
    <3>4. /\ sent' = sent /\ taken' = taken /\ hand' = hand
          /\ pc' = pc /\ shutdownTx' = shutdownTx /\ forwarder' = forwarder
      BY <2>1 DEF Forward
    <3>5. QED
      <4> HIDE DEF TypeOK, queues, native, Goto, Through, Option
      <4>1. Len(taken') + Len(hand') + Len(chan') + Len(wire')
               = Len(taken) + Len(hand) + Len(chan) + Len(wire)
        BY <3>2, <3>3, <3>4, <1>0
      <4>2. QED
        BY <3>4, <4>1
  <2>2. CASE StopOnShutdown BY <2>2 DEF StopOnShutdown, Exit
  <2>3. CASE StopOnEnd BY <2>3 DEF StopOnEnd, Exit
  <2>4. QED BY <1>3, <2>1, <2>2, <2>3 DEF Forwarder
<1>4. ASSUME NEW t \in Threads, NextStep(t)
      PROVE  Whole'
  <2>1. CASE ReadHandle(t) BY <2>1 DEF ReadHandle
  <2>2. CASE GetInstance(t) BY <2>2 DEF GetInstance
  <2>3. CASE LockRecv(t) BY <2>3 DEF LockRecv
  <2>4. CASE LockRx(t) BY <2>4 DEF LockRx
  <2>5. CASE Recv(t)
    <3>1. hand = <<>>
      BY <2>5 DEF Recv, Inv, Locks, Flow
    <3>2. Len(hand) = 0 /\ Len(hand') = 1
      BY <2>5, <3>1, EmptySeq DEF Recv
    <3>3. Len(chan') = Len(chan) - 1
      BY <2>5, HeadTailProperties DEF Recv
    <3>4. /\ sent' = sent /\ taken' = taken /\ wire' = wire
          /\ shutdownTx' = shutdownTx /\ forwarder' = forwarder
          /\ \A u \in Threads : pc'[u] \in {pc[u], "convert"}
      BY <2>5 DEF Recv
    <3>5. QED
      <4> HIDE DEF TypeOK, queues, native, Goto, Through, Option
      <4>1. Len(taken') + Len(hand') + Len(chan') + Len(wire')
               = Len(taken) + Len(hand) + Len(chan) + Len(wire)
        BY <3>2, <3>3, <3>4, <1>0
      <4>2. QED
        BY <3>4, <4>1
  <2>6. CASE RecvClosed(t) BY <2>6 DEF RecvClosed
  <2>7. CASE Convert(t)
    <3>1. Len(taken') = Len(taken) + Len(hand) /\ Len(hand') = 0
      BY <2>7, ConcatProperties, EmptySeq DEF Convert
    <3>2. QED
      BY <2>7, <3>1, <1>0 DEF Convert
  <2>8. QED BY <1>4, <2>1, <2>2, <2>3, <2>4, <2>5, <2>6, <2>7 DEF NextStep
<1>5. ASSUME NEW t \in Threads, CloseStep(t)
      PROVE  Whole'
  <2>1. CASE ReadHandleForRelease(t) BY <2>1 DEF ReadHandleForRelease
  <2>2. CASE GetChannel(t) BY <2>2 DEF GetChannel
  <2>3. CASE DropShutdown(t) BY <2>3 DEF DropShutdown
  <2>4. CASE LockJoin(t) BY <2>4 DEF LockJoin
  <2>5. CASE Join(t) BY <2>5 DEF Join
  <2>6. CASE LockRecvLast(t) BY <2>6 DEF LockRecvLast
  <2>7. CASE TakeRx(t) BY <2>7 DEF TakeRx, Inv, Teardown
  <2>8. CASE UnlockRecv(t) BY <2>8 DEF UnlockRecv
  <2>9. CASE CheckBox(t) BY <2>9 DEF CheckBox
  <2>10. CASE FreeBox(t) BY <2>10 DEF FreeBox
  <2>11. CASE ZeroHandle(t) BY <2>11 DEF ZeroHandle
  <2>12. QED BY <1>5, <2>1, <2>2, <2>3, <2>4, <2>5, <2>6, <2>7, <2>8, <2>9, <2>10, <2>11 DEF CloseStep
<1>6. ASSUME NEW t \in Threads, CallNext(t)
      PROVE  Whole'
  BY <1>6 DEF CallNext
<1>7. ASSUME NEW t \in Threads, CallClose(t)
      PROVE  Whole'
  BY <1>7 DEF CallClose
<1>8. ASSUME NEW t \in Threads, UseAfterFree(t)
      PROVE  Whole'
  BY <1>8 DEF UseAfterFree
<1>9. CASE UNCHANGED vars
  BY <1>9 DEF vars
<1>10. QED
  BY <1>1, <1>2, <1>3, <1>4, <1>5, <1>6, <1>7, <1>8, <1>9 DEF Next

(* A thread leaves recv() without a notification in one way only: it has   *)
(* found the channel empty and the forwarder gone.                         *)
LEMMA LeavesRecvEmpty ==
  ASSUME TypeOK, [Next]_vars, NEW t \in Threads, pc[t] = "recv", pc'[t] = "idle"
  PROVE  RecvClosed(t)
<1> USE DEF TypeOK, queues, native, Goto, Through
<1>1. CASE SelectLive \/ Server \/ Forwarder \/ UNCHANGED vars
  BY <1>1 DEF SelectLive, Subscribe, StreamFails, SpawnForwarder, ConstructLiveStream, Server,
              Notify, EndSource, Kill, Forwarder, Forward, StopOnShutdown, StopOnEnd, Exit, vars
<1>2. ASSUME NEW u \in Threads,
             \/ CallNext(u) \/ ReadHandle(u) \/ GetInstance(u) \/ LockRecv(u) \/ LockRx(u)
             \/ Recv(u) \/ Convert(u) \/ CallClose(u) \/ CloseStep(u) \/ UseAfterFree(u)
      PROVE  FALSE
  BY <1>2 DEF CallNext, ReadHandle, GetInstance, LockRecv, LockRx, Recv, Convert, CallClose,
              UseAfterFree, CloseStep, ReadHandleForRelease, GetChannel, DropShutdown, LockJoin,
              Join, LockRecvLast, TakeRx, UnlockRecv, CheckBox, FreeBox, ZeroHandle
<1>3. ASSUME NEW u \in Threads, RecvClosed(u)
      PROVE  u = t
  BY <1>3 DEF RecvClosed
<1>4. QED
  BY <1>1, <1>2, <1>3 DEF Next, NextStep

(* next() returns empty from recv() without a close() having begun only    *)
(* when the application has got all that the server sent, for any number   *)
(* of threads: the forwarder drains the SDK's stream before it exits, and  *)
(* a reader drains the channel before it sees the end.                     *)
THEOREM DrainedBeforeEmpty == Spec => EmptyMeansDrained
<1>1. Init => Whole
  BY EmptySeq DEF Init, Whole
<1>2. TypeOK /\ Inv /\ Whole /\ [Next]_vars
        => [\A t \in Threads :
              pc[t] = "recv" /\ pc'[t] = "idle" /\ shutdownTx = "some"
                => Len(taken) = sent]_vars
  <2> SUFFICES ASSUME TypeOK, Inv, Whole, [Next]_vars, NEW t \in Threads,
                      pc[t] = "recv", pc'[t] = "idle", shutdownTx = "some"
               PROVE  Len(taken) = sent
    OBVIOUS
  <2>1. chan = <<>> /\ forwarder = "exited"
    BY LeavesRecvEmpty DEF RecvClosed
  <2>2. wire = <<>> /\ hand = <<>>
    BY <2>1, LiveStreamAssumption DEF TypeOK, Inv, Locks, Flow
  <2>3. Len(chan) = 0 /\ Len(wire) = 0 /\ Len(hand) = 0 /\ Len(taken) \in Nat
    BY <2>1, <2>2, EmptySeq, LenProperties DEF TypeOK
  <2>4. QED
    BY <2>3 DEF Whole
<1>3. QED
  BY <1>1, <1>2, WholeStep, Invariance, PTL DEF Spec, EmptyMeansDrained
=============================================================================
