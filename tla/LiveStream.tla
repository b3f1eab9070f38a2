----------------------------- MODULE LiveStream -----------------------------
(***************************************************************************)
(* A live query as a Java application sees it: com.surrealdb.LiveStream,   *)
(* its two native methods (live.rs), the function that opens it            *)
(* (Surreal.selectLive in surreal.rs) with the forwarder thread it spawns, *)
(* and as much of the server and of the SDK's notification stream as they  *)
(* depend on.                                                              *)
(*                                                                         *)
(* Any thread may call next() or close() whenever it is idle.  Each action *)
(* is one step between two points where another thread can interfere: a    *)
(* read or write of the volatile field, a lock acquisition, a channel      *)
(* operation.  The native handle is a heap allocation (the "box"); a step  *)
(* that reaches through it after it was freed is undefined behaviour,      *)
(* which the model records in "fault" and after which it says nothing more.   *)
(***************************************************************************)
EXTENDS Naturals, Sequences

CONSTANTS
  Threads,          \* application threads sharing one LiveStream
  NoThread,         \* owner of a free lock
  Build,            \* "debug" (with debug_assertions handles are looked up) or "release"
  MaxNotifications  \* bound: notifications the server sends

ASSUME LiveStreamAssumption ==
  /\ NoThread \notin Threads
  /\ Build \in {"debug", "release"}
  /\ MaxNotifications \in Nat

VARIABLES
  phase,       \* how far selectLive has come
  source,      \* the server's side of the subscription
  sent,        \* notifications sent so far; they are numbered 1, 2, ...
  wire,        \* sent, not yet taken from the SDK's stream (qstream)
  forwarder,   \* the background thread that reads qstream
  chan,        \* forwarded, not yet received (the async_channel)
  hand,        \* received by the thread inside nextNative, not yet returned
  taken,       \* history: what calls of next() consumed, in order
  shutdownTx,  \* tuple element 2: Option of the shutdown sender
  joinHandle,  \* tuple element 1: Option of the join handle
  rx,          \* tuple element 3: Option of the receiver
  joinOwner,   \* holder of the mutex around joinHandle
  recvOwner,   \* tuple element 0: holder of recv_mutex
  rxOwner,     \* holder of the mutex around rx
  box,         \* the allocation the handle points to
  handle,      \* LiveStream.handle: 0 or the address of the box
  pc,          \* where each thread stands
  fault        \* undefined behaviour has happened

native == <<shutdownTx, joinHandle, rx, joinOwner, recvOwner, rxOwner, box>>
queues == <<source, sent, wire, forwarder, chan>>
vars == <<phase, queues, hand, taken, native, handle, pc, fault>>

Option == {"some", "none"}
Address == 1   \* the one nonzero value a handle of this stream can have

(* Where a thread can stand inside next(), and inside close(). *)
NextPoints == {"nextNative", "getInstance", "lockRecv", "lockRx", "recv", "convert"}
ClosePoints == {"releaseNative", "getChannel", "dropShutdown", "lockJoin", "join",
                "lockRecvLast", "takeRx", "unlockRecv", "checkBox", "freeBox", "zeroHandle"}
(* The points whose next step dereferences the handle without looking it   *)
(* up; "getInstance", "getChannel" and "checkBox" do so when there is no   *)
(* debug lookup in front of them.                                          *)
Lookups == {"getInstance", "getChannel", "checkBox"}
Derefs == {"lockRecv", "lockRx", "recv", "convert", "dropShutdown", "lockJoin", "join",
           "lockRecvLast", "takeRx", "unlockRecv", "freeBox"}

Goto(t, from, to) ==
  /\ pc[t] = from
  /\ pc' = [pc EXCEPT ![t] = to]

(* Goto through the box, which must still be allocated.                    *)
Through(t, from, to) == box = "allocated" /\ Goto(t, from, to)

Init ==
  /\ phase = "unsubscribed" /\ source = "none" /\ sent = 0 /\ wire = <<>>
  /\ forwarder = "none" /\ chan = <<>> /\ hand = <<>> /\ taken = <<>>
  /\ shutdownTx = "none" /\ joinHandle = "none" /\ rx = "none"
  /\ joinOwner = NoThread /\ recvOwner = NoThread /\ rxOwner = NoThread
  /\ box = "none" /\ handle = 0
  /\ pc = [t \in Threads |-> "idle"] /\ fault = "none"
-----------------------------------------------------------------------------
(* Surreal.selectLive *)

(* The LIVE SELECT and take(0): the server registers the query, or any     *)
(* error is thrown to the caller.                                          *)
Subscribe ==
  /\ phase = "unsubscribed"
  /\ \/ phase' = "subscribed" /\ source' = "live"
     \/ phase' = "failed" /\ UNCHANGED source
  /\ UNCHANGED <<sent, wire, forwarder, chan, hand, taken, native, handle, pc, fault>>

(* stream(0) fails: the exception leaves the server's query registered.    *)
StreamFails ==
  /\ phase = "subscribed"
  /\ phase' = "failed"
  /\ UNCHANGED <<queues, hand, taken, native, handle, pc, fault>>

(* Both channels, the forwarder thread and the boxed tuple.                *)
SpawnForwarder ==
  /\ phase = "subscribed"
  /\ phase' = "spawned"
  /\ forwarder' = "running"
  /\ shutdownTx' = "some" /\ joinHandle' = "some" /\ rx' = "some"
  /\ box' = "allocated"
  /\ UNCHANGED <<source, sent, wire, chan, hand, taken, joinOwner, recvOwner, rxOwner,
                 handle, pc, fault>>

(* new_string, find_class, new_object: the LiveStream gets the handle, or  *)
(* an exception is thrown and nothing owns the handle any more.            *)
ConstructLiveStream ==
  /\ phase = "spawned"
  /\ \/ phase' = "open" /\ handle' = Address
     \/ phase' = "failed" /\ UNCHANGED handle
  /\ UNCHANGED <<queues, hand, taken, native, pc, fault>>
-----------------------------------------------------------------------------
(* The server and the SDK's stream: external to this repository.           *)

(* A change to the table reaches the client.                               *)
Notify ==
  /\ source = "live" /\ forwarder # "exited" /\ sent < MaxNotifications
  /\ sent' = sent + 1
  /\ wire' = Append(wire, sent + 1)
  /\ UNCHANGED <<phase, source, forwarder, chan, hand, taken, native, handle, pc, fault>>

(* The connection closes: the SDK ends the stream after what it has queued.*)
EndSource ==
  /\ source \in {"live", "killed"}
  /\ source' = "ended"
  /\ UNCHANGED <<phase, sent, wire, forwarder, chan, hand, taken, native, handle, pc, fault>>

(* Surreal.kill: the server stops notifying.  The SDK discards the result  *)
(* and keeps its stream open.                                              *)
Kill ==
  /\ source = "live" /\ phase = "open"
  /\ source' = "killed"
  /\ UNCHANGED <<phase, sent, wire, forwarder, chan, hand, taken, native, handle, pc, fault>>
-----------------------------------------------------------------------------
(* The forwarder's select! loop.  When both branches are ready it takes    *)
(* either.                                                                 *)

(* Mutant: the newest notification overtakes those that wait.              *)
ForwardInFront ==
  /\ forwarder = "running" /\ wire # <<>>
  /\ wire' = Tail(wire)
  /\ chan' = <<Head(wire)>> \o chan
  /\ UNCHANGED <<phase, source, sent, forwarder, hand, taken, native, handle, pc, fault>>

(* Mutant: the forwarder takes the receiver's mutex to send.               *)
ForwardUnderLock ==
  /\ rxOwner = NoThread
  /\ forwarder = "running" /\ wire # <<>>
  /\ wire' = Tail(wire)
  /\ chan' = Append(chan, Head(wire))
  /\ UNCHANGED <<phase, source, sent, forwarder, hand, taken, native, handle, pc, fault>>

(* qstream.next() yields an item: send it (an unbounded send never waits;  *)
(* with no receiver its error is ignored).                                 *)
Forward ==
  /\ forwarder = "running" /\ wire # <<>>
  /\ wire' = Tail(wire)
  /\ chan' = IF rx = "some" THEN Append(chan, Head(wire)) ELSE chan
  /\ UNCHANGED <<phase, source, sent, forwarder, hand, taken, native, handle, pc, fault>>

(* Leaving the loop drops qstream, with what it still holds, and the last  *)
(* sender of the notification channel.                                     *)
Exit ==
  /\ forwarder' = "exited" /\ wire' = <<>>
  /\ UNCHANGED <<phase, source, sent, chan, hand, taken, native, handle, pc, fault>>

(* Mutant: the shutdown channel is looked at only when an item arrives.    *)
StopOnNextItem == forwarder = "running" /\ shutdownTx = "none" /\ wire # <<>> /\ Exit

StopOnShutdown == forwarder = "running" /\ shutdownTx = "none" /\ Exit

StopOnEnd == forwarder = "running" /\ source = "ended" /\ wire = <<>> /\ Exit
-----------------------------------------------------------------------------
(* LiveStream.next and nextNative *)

(* Mutant: the field is not tested.                                        *)
CallNextUntested(t) ==
  /\ phase = "open"
  /\ Goto(t, "idle", "nextNative")
  /\ UNCHANGED <<phase, queues, hand, taken, native, handle, fault>>

(* The test of the field.  A zero returns empty and changes nothing.       *)
CallNext(t) ==
  /\ phase = "open" /\ handle # 0
  /\ Goto(t, "idle", "nextNative")
  /\ UNCHANGED <<phase, queues, hand, taken, native, handle, fault>>

(* The second read of the field, for the argument.  get_instance(0) throws *)
(* a NullPointerException.                                                 *)
ReadHandle(t) ==
  /\ Goto(t, "nextNative", IF handle = 0 THEN "idle" ELSE "getInstance")
  /\ UNCHANGED <<phase, queues, hand, taken, native, handle, fault>>

(* get_instance: with debug assertions a freed box is not found and an     *)
(* exception is thrown; without them it is not looked for.                 *)
GetInstance(t) ==
  /\ \/ Through(t, "getInstance", "lockRecv")
     \/ Build = "debug" /\ box = "freed" /\ Goto(t, "getInstance", "idle")
  /\ UNCHANGED <<phase, queues, hand, taken, native, handle, fault>>

LockRecv(t) ==
  /\ recvOwner = NoThread
  /\ Through(t, "lockRecv", "lockRx")
  /\ recvOwner' = t
  /\ UNCHANGED <<phase, queues, hand, taken, shutdownTx, joinHandle, rx, joinOwner, rxOwner,
                 box, handle, fault>>

(* Without a receiver the call returns null and drops both guards.         *)
LockRx(t) ==
  /\ rxOwner = NoThread
  /\ Through(t, "lockRx", IF rx = "some" THEN "recv" ELSE "idle")
  /\ rxOwner' = IF rx = "some" THEN t ELSE NoThread
  /\ recvOwner' = IF rx = "some" THEN t ELSE NoThread
  /\ UNCHANGED <<phase, queues, hand, taken, shutdownTx, joinHandle, rx, joinOwner,
                 box, handle, fault>>

(* Mutant: the notification is read and left in the channel.               *)
Peek(t) ==
  /\ chan # <<>>
  /\ Through(t, "recv", "convert")
  /\ hand' = <<Head(chan)>>
  /\ UNCHANGED <<phase, queues, taken, native, handle, fault>>

(* recv() takes the oldest notification...                                 *)
Recv(t) ==
  /\ chan # <<>>
  /\ Through(t, "recv", "convert")
  /\ hand' = <<Head(chan)>>
  /\ chan' = Tail(chan)
  /\ UNCHANGED <<phase, source, sent, wire, forwarder, taken, native, handle, fault>>

(* Mutant: a closed channel is not drained first.                          *)
RecvClosedAtOnce(t) ==
  /\ forwarder = "exited"
  /\ Through(t, "recv", "idle")
  /\ rxOwner' = NoThread /\ recvOwner' = NoThread
  /\ UNCHANGED <<phase, queues, hand, taken, shutdownTx, joinHandle, rx, joinOwner,
                 box, handle, fault>>

(* Mutant: the early return keeps the guard of rx.                         *)
RecvClosedUnderLock(t) ==
  /\ chan = <<>> /\ forwarder = "exited"
  /\ Through(t, "recv", "idle")
  /\ recvOwner' = NoThread
  /\ UNCHANGED <<phase, queues, hand, taken, shutdownTx, joinHandle, rx, joinOwner, rxOwner,
                 box, handle, fault>>

(* ...or finds the channel empty and without senders: null.                *)
RecvClosed(t) ==
  /\ chan = <<>> /\ forwarder = "exited"
  /\ Through(t, "recv", "idle")
  /\ rxOwner' = NoThread /\ recvOwner' = NoThread
  /\ UNCHANGED <<phase, queues, hand, taken, shutdownTx, joinHandle, rx, joinOwner,
                 box, handle, fault>>

(* The item becomes a LiveNotification, or (it was an error, or a JNI call *)
(* failed) an exception; either way it is consumed.  Then both guards are  *)
(* dropped.                                                                *)
Convert(t) ==
  /\ Through(t, "convert", "idle")
  /\ taken' = taken \o hand
  /\ hand' = <<>>
  /\ rxOwner' = NoThread /\ recvOwner' = NoThread
  /\ UNCHANGED <<phase, queues, shutdownTx, joinHandle, rx, joinOwner, box, handle, fault>>
-----------------------------------------------------------------------------
(* LiveStream.close and releaseNative *)

CallClose(t) ==
  /\ phase = "open" /\ handle # 0
  /\ Goto(t, "idle", "releaseNative")
  /\ UNCHANGED <<phase, queues, hand, taken, native, handle, fault>>

(* The second read of the field; releaseNative(0) returns at once.         *)
ReadHandleForRelease(t) ==
  /\ Goto(t, "releaseNative", IF handle = 0 THEN "zeroHandle" ELSE "getChannel")
  /\ UNCHANGED <<phase, queues, hand, taken, native, handle, fault>>

(* get_instance again; here its error makes releaseNative return.          *)
GetChannel(t) ==
  /\ \/ Through(t, "getChannel", "dropShutdown")
     \/ Build = "debug" /\ box = "freed" /\ Goto(t, "getChannel", "zeroHandle")
  /\ UNCHANGED <<phase, queues, hand, taken, native, handle, fault>>

(* Mutant: a clone of the sender survives.                                 *)
KeepShutdown(t) ==
  /\ Through(t, "dropShutdown", "lockJoin")
  /\ UNCHANGED <<phase, queues, hand, taken, native, handle, fault>>

DropShutdown(t) ==
  /\ Through(t, "dropShutdown", "lockJoin")
  /\ shutdownTx' = "none"
  /\ UNCHANGED <<phase, queues, hand, taken, joinHandle, rx, joinOwner, recvOwner, rxOwner,
                 box, handle, fault>>

(* The guard of "if let Some(..) = join_handle_mux.lock().take()" lives as *)
(* long as the branch: the mutex stays locked during the join.             *)
LockJoin(t) ==
  /\ joinOwner = NoThread
  /\ Through(t, "lockJoin", IF joinHandle = "some" THEN "join" ELSE "lockRecvLast")
  /\ joinOwner' = IF joinHandle = "some" THEN t ELSE NoThread
  /\ joinHandle' = "none"
  /\ UNCHANGED <<phase, queues, hand, taken, shutdownTx, rx, recvOwner, rxOwner, box,
                 handle, fault>>

(* Mutant: the thread is detached, not joined.                             *)
Detach(t) ==
  /\ Through(t, "join", "lockRecvLast")
  /\ joinOwner' = NoThread
  /\ UNCHANGED <<phase, queues, hand, taken, shutdownTx, joinHandle, rx, recvOwner, rxOwner,
                 box, handle, fault>>

Join(t) ==
  /\ forwarder = "exited"
  /\ Through(t, "join", "lockRecvLast")
  /\ joinOwner' = NoThread
  /\ UNCHANGED <<phase, queues, hand, taken, shutdownTx, joinHandle, rx, recvOwner, rxOwner,
                 box, handle, fault>>

(* Mutant: try_lock, and no waiting for the thread that has the mutex.     *)
TryLockRecvLast(t) ==
  /\ Through(t, "lockRecvLast", IF recvOwner = NoThread THEN "takeRx" ELSE "checkBox")
  /\ recvOwner' = IF recvOwner = NoThread THEN t ELSE recvOwner
  /\ UNCHANGED <<phase, queues, hand, taken, shutdownTx, joinHandle, rx, joinOwner, rxOwner,
                 box, handle, fault>>

LockRecvLast(t) ==
  /\ recvOwner = NoThread
  /\ Through(t, "lockRecvLast", "takeRx")
  /\ recvOwner' = t
  /\ UNCHANGED <<phase, queues, hand, taken, shutdownTx, joinHandle, rx, joinOwner, rxOwner,
                 box, handle, fault>>

(* rx_mux is locked for this statement only.  The receiver leaves the box; *)
(* what was queued in the channel can no longer be received.               *)
TakeRx(t) ==
  /\ rxOwner = NoThread
  /\ Through(t, "takeRx", "unlockRecv")
  /\ rx' = "none"
  /\ chan' = <<>>
  /\ UNCHANGED <<phase, source, sent, wire, forwarder, hand, taken, shutdownTx, joinHandle,
                 joinOwner, recvOwner, rxOwner, box, handle, fault>>

UnlockRecv(t) ==
  /\ Through(t, "unlockRecv", "checkBox")
  /\ recvOwner' = NoThread
  /\ UNCHANGED <<phase, queues, hand, taken, shutdownTx, joinHandle, rx, joinOwner, rxOwner,
                 box, handle, fault>>

(* Mutant: the lookup fails for a box that is there.                       *)
CheckBoxFails(t) ==
  /\ Goto(t, "checkBox", "zeroHandle")
  /\ UNCHANGED <<phase, queues, hand, taken, native, handle, fault>>

(* take_instance looks the handle up in a debug build, its error ignored...*)
CheckBox(t) ==
  /\ \/ Through(t, "checkBox", "freeBox")
     \/ Build = "debug" /\ box = "freed" /\ Goto(t, "checkBox", "zeroHandle")
  /\ UNCHANGED <<phase, queues, hand, taken, native, handle, fault>>

(* ...and turns it back into a Box, which is dropped.                      *)
FreeBox(t) ==
  /\ Through(t, "freeBox", "zeroHandle")
  /\ box' = "freed"
  /\ UNCHANGED <<phase, queues, hand, taken, shutdownTx, joinHandle, rx, joinOwner,
                 recvOwner, rxOwner, handle, fault>>

(* Mutant: the address is subtracted from the field instead of stored over.*)
SubtractHandle(t) ==
  /\ Goto(t, "zeroHandle", "idle")
  /\ handle' = handle - Address
  /\ UNCHANGED <<phase, queues, hand, taken, native, fault>>

(* Mutant: the field keeps the address of the freed box.                   *)
KeepHandle(t) ==
  /\ Goto(t, "zeroHandle", "idle")
  /\ UNCHANGED <<phase, queues, hand, taken, native, handle, fault>>

ZeroHandle(t) ==
  /\ Goto(t, "zeroHandle", "idle")
  /\ handle' = 0
  /\ UNCHANGED <<phase, queues, hand, taken, native, fault>>
-----------------------------------------------------------------------------
(* A thread reaches through a handle whose box is gone.                    *)
UseAfterFree(t) ==
  /\ box = "freed"
  /\ pc[t] \in Derefs \/ (Build = "release" /\ pc[t] \in Lookups)
  /\ fault' = "useAfterFree"
  /\ UNCHANGED <<phase, queues, hand, taken, native, handle, pc>>

SelectLive == Subscribe \/ StreamFails \/ SpawnForwarder \/ ConstructLiveStream
Server == Notify \/ EndSource \/ Kill
Forwarder == Forward \/ StopOnShutdown \/ StopOnEnd

NextStep(t) ==
  ReadHandle(t) \/ GetInstance(t) \/ LockRecv(t) \/ LockRx(t) \/ Recv(t) \/ RecvClosed(t)
    \/ Convert(t)

CloseStep(t) ==
  ReadHandleForRelease(t) \/ GetChannel(t) \/ DropShutdown(t) \/ LockJoin(t) \/ Join(t)
    \/ LockRecvLast(t) \/ TakeRx(t) \/ UnlockRecv(t) \/ CheckBox(t) \/ FreeBox(t)
    \/ ZeroHandle(t)

Running == fault = "none"

Next ==
  /\ Running
  /\ \/ SelectLive \/ Server \/ Forwarder
     \/ \E t \in Threads :
          CallNext(t) \/ NextStep(t) \/ CallClose(t) \/ CloseStep(t) \/ UseAfterFree(t)

(* Any use of the stream.                                                  *)
Spec == Init /\ [][Next]_vars

(* What the scheduler owes: the forwarder takes every branch that stays    *)
(* ready (select! chooses at random), and a thread inside a native method  *)
(* goes on; parking_lot's mutexes are eventually fair, so a thread that    *)
(* finds a lock free again and again gets it.  Nothing is owed by the      *)
(* server, nor by the application: no thread has to make a call.           *)
Fairness ==
  /\ WF_vars(Running /\ Forward) /\ WF_vars(Running /\ StopOnShutdown)
  /\ WF_vars(Running /\ StopOnEnd)
  /\ \A t \in Threads :
       /\ SF_vars(Running /\ NextStep(t)) /\ SF_vars(Running /\ CloseStep(t))
       /\ WF_vars(Running /\ UseAfterFree(t))

FairSpec == Spec /\ Fairness

(* A discipline the application can keep with a lock of its own: close()   *)
(* begins only when every other thread is outside the stream or already    *)
(* behind recv_mutex, and no call of either kind begins during a close().  *)
Discipline ==
  \A t \in Threads : pc[t] = "idle" =>
    /\ pc'[t] = "nextNative" => \A u \in Threads : pc[u] \notin ClosePoints
    /\ pc'[t] = "releaseNative" =>
         \A u \in Threads \ {t} : pc[u] \in {"idle", "lockRx", "recv", "convert"}

DisciplinedNext == Next /\ Discipline

DisciplinedSpec == Init /\ [][DisciplinedNext]_vars

FairDisciplinedSpec == DisciplinedSpec /\ Fairness
-----------------------------------------------------------------------------
Items == 1 .. MaxNotifications

TypeOK ==
  /\ phase \in {"unsubscribed", "subscribed", "spawned", "open", "failed"}
  /\ source \in {"none", "live", "killed", "ended"}
  /\ sent \in 0 .. MaxNotifications
  /\ wire \in Seq(Items) /\ chan \in Seq(Items) /\ hand \in Seq(Items) /\ taken \in Seq(Items)
  /\ forwarder \in {"none", "running", "exited"}
  /\ shutdownTx \in Option /\ joinHandle \in Option /\ rx \in Option
  /\ joinOwner \in Threads \cup {NoThread}
  /\ recvOwner \in Threads \cup {NoThread}
  /\ rxOwner \in Threads \cup {NoThread}
  /\ box \in {"none", "allocated", "freed"}
  /\ handle \in {0, Address}
  /\ pc \in [Threads -> {"idle"} \cup NextPoints \cup ClosePoints]
  /\ fault \in {"none", "useAfterFree"}

(* A thread inside recv(), or still converting what it received, has the   *)
(* box and the receiver under it, whatever other threads do: this is what  *)
(* live.rs claims for holding both guards across the blocking call.        *)
RecvIsProtected ==
  \A t \in Threads : pc[t] \in {"recv", "convert"} => box = "allocated" /\ rx = "some"

(* The shutdown sequence of live.rs: the locks are taken for good, the     *)
(* receiver leaves and the box is freed only after the forwarder is gone,  *)
(* so that nothing is ever sent to a channel without a receiver.           *)
TeardownFollowsForwarder ==
  /\ forwarder = "running" => rx = "some" /\ box = "allocated"
  /\ box = "freed" => rx = "none"
  /\ \A t \in Threads :
       pc[t] \in {"lockRecvLast", "takeRx", "unlockRecv", "checkBox", "freeBox"}
         => forwarder = "exited"

(* recv_mutex is taken before rx by both methods, so that a thread that    *)
(* has the first never waits for the second, and the thread that holds the *)
(* join handle's mutex waits for the forwarder only.                       *)
LockOrder ==
  \A t \in Threads :
    /\ pc[t] \in {"lockRx", "takeRx"} => rxOwner = NoThread /\ recvOwner = t
    /\ joinOwner = t => pc[t] = "join"

(* Whose lock a thread waits for, and what else it may have to wait for.   *)
Owner(t) ==
  CASE pc[t] \in {"lockRecv", "lockRecvLast"} -> recvOwner
    [] pc[t] \in {"lockRx", "takeRx"} -> rxOwner
    [] pc[t] = "lockJoin" -> joinOwner
    [] OTHER -> NoThread

Waits(t) ==
  \/ Owner(t) # NoThread
  \/ pc[t] = "recv" /\ chan = <<>> /\ forwarder # "exited"
  \/ pc[t] = "join" /\ forwarder # "exited"

(* No close() is in a deadlock, with threads in next() or others in        *)
(* close(): if it waits, then for a forwarder that has been told to stop,  *)
(* or for a thread that is in the stream and does not wait itself.         *)
CloseIsNotStuck ==
  \A t \in Threads :
    pc[t] \in ClosePoints /\ Waits(t) =>
      \/ forwarder = "running" /\ shutdownTx = "none"
      \/ Owner(t) # NoThread /\ pc[Owner(t)] # "idle" /\ ~Waits(Owner(t))

(* A zeroed field means that nothing is left behind: the forwarder has     *)
(* exited, the receiver is gone and the box is freed.                      *)
ClosedMeansReleased ==
  phase = "open" /\ handle = 0 => forwarder = "exited" /\ rx = "none" /\ box = "freed"

(* The whole of it keeps the promise of NotificationQueue: pending are the *)
(* notification a thread holds, the channel and the SDK's queue.           *)
Queue == INSTANCE NotificationQueue
           WITH pending <- hand \o chan \o wire,
                status <- IF forwarder = "exited" THEN "ended" ELSE "open"

QueueSpec == Queue!QSpec

(* Between the server and the results of next() no notification is lost,   *)
(* duplicated or overtaken: until the forwarder exits, what was consumed,  *)
(* what a thread holds and what is queued make up 1, 2, ..., sent; after   *)
(* that, a prefix of it.                                                   *)
InOrder == Queue!Numbered

(* No thread reaches through a handle after its box was freed              *)
(* (LiveQueryTests.concurrentNextAndCloseDoesNotCrash: "No thread should   *)
(* hang or crash (SEGV / use-after-free)").                                *)
NoUseAfterFree == fault = "none"

(* next() on a closed stream returns empty: it does not pass on a handle   *)
(* that was zeroed after its test, which get_instance answers with a       *)
(* NullPointerException.                                                   *)
ClosedNextReturnsEmpty == \A t \in Threads : pc[t] = "nextNative" => handle # 0

(* next() returns empty from recv() without close() having begun only when *)
(* the application has got everything the server sent: the end of the      *)
(* stream never overtakes a notification.                                  *)
EmptyMeansDrained ==
  [][\A t \in Threads :
       pc[t] = "recv" /\ pc'[t] = "idle" /\ shutdownTx = "some" => Len(taken) = sent]_vars

(* close() returns: neither the join nor a lock makes it wait for ever,    *)
(* also while other threads block in next() or close the same stream.      *)
ReturnsFromClose(t) == pc[t] \in ClosePoints ~> pc[t] = "idle" \/ fault # "none"

CloseReturns == \A t \in Threads : ReturnsFromClose(t)

(* Once close() has dropped the shutdown sender, a thread blocked inside   *)
(* next() does not stay there.                                             *)
CloseUnblocksNext ==
  \A t \in Threads :
    pc[t] = "recv" /\ shutdownTx = "none" ~> pc[t] # "recv" \/ fault # "none"

(* A thread that waits in next() gets a notification the server sent.      *)
WaiterIsServed ==
  \A t \in Threads : pc[t] = "recv" /\ wire # <<>> ~> pc[t] # "recv" \/ fault # "none"
=============================================================================
