# Verification of the SurrealDB Java driver

This directory holds TLA+ models of the SurrealDB driver for Java, the TLC
configurations that check them on small instances, and proofs that TLAPS checks
for instances of every size. The driver is a thin Java API (`src/src/main/java`)
over a Rust library (`src/src/main/rust`) that it calls through JNI; the Rust
library in turn calls the SurrealDB SDK and blocks on its futures.

Everything here is translated from the code. What is not in the repository (the
SDK, the server, the garbage collector, the application) is modelled only as far
as the code depends on it; `PROJECT.json` marks those definitions as external.

## 1. The system

| Component | State it keeps | Operations | Hard part |
|---|---|---|---|
| **Live queries** (`live.rs`, `selectLive`/`kill` in `surreal.rs`, `LiveStream.java`) | a boxed tuple of `recv_mutex`, join handle, shutdown sender and receiver; the SDK's stream; a channel; a forwarder thread; the volatile field `handle` | `selectLive`, `next`, `close`, `kill` | `next()` blocks with two locks held while `close()` tears down what it stands on; `select!` chooses at random |
| **Native handles** (`lib.rs`, `macros.rs`, `Native.java`) | every Java object holds the address of a Rust box in `Native.ptr`; debug builds also keep `ALLOCATOR` | `create_instance`, `get_instance(_mut)`, `take_instance`, `release_instance`, the finalizer, `close()` | dangling addresses, address reuse, the finalizer running beside a call |
| **Move protocol** (`valuemut.rs`, `entrymut.rs`, `array.rs`, `id.rs` and their Java classes) | the boxes of the objects moved from | `createArray`, `createObject`, `newEntry`, `fromList` | failure in the middle; an object used twice |
| **Transactions** (`transaction.rs`, `Transaction.java`) | the boxed SDK transaction, the server's | `beginTransaction`, `commit`, `cancel`, `query` | completing consumes the box; races with `query` and with a second completion; failed commits |
| **Session** (`surreal.rs`, `Surreal.java`, `NsDb.java`) | the SDK session, and a copy of its namespace and database in two Java fields | `connect`, `useNs`, `useDb`, `useDefaults`, `signin`, `newSession`, `close` | the copy against the session it mirrors; partial failure; two threads |
| **Record operations** (`surreal.rs`, `Surreal.java`) | none of its own | `create`, `insert`, `select`, `update`, `upsert`, `delete`, `relate` | one statement per content: some succeed, then one fails |
| **Responses and iterators** (`response.rs`, `*iterator.rs` and their Java classes) | the response behind a mutex, taken piece by piece; iterator positions | `take`, `hasNext`, `next` | check-then-act; the end of the rows is an exception |
| Value access | immutable values behind an `Arc` | accessors | none but the handle |
| Value building and conversion | none | POJO and collection conversion | precedence and collision of field names |
| Error mapping (`error.rs`) | none | cause chains, detail lookup | recursion over causes; the JVM failing while an error is reported |
| Credentials, export and import, library loading | none | one call each | I/O |

How they interact: every object of the Java side except `LiveStream` is a
`Native`; an operation reads `ptr` of its receiver and of its arguments in Java,
passes the numbers to a native method, and the native method turns them into
references (`get_instance`) or into values (`take_instance`). Nothing connects
the Java object to the box during the call: the pointer is all there is. The
finalizer thread calls `deleteInstance` on objects the application cannot reach
any more. `LiveStream` holds its handle in a volatile field of its own and is
not finalized. One more thread per live query, the forwarder, moves
notifications from the SDK to the channel. Sessions and transactions are the
only state that lives on the server as well.

What makes each component correct:

* live queries: in-order, exactly-once delivery; the receiver is never removed
  under a reader, and the teardown follows its documented order; `close()`
  returns and wakes readers; a closed stream leaves nothing behind;
* handles and moves: a pointer is either 0 or points to a box that is there, of
  its class, and no other object's; nothing leaks but what no function frees
  and what a call that throws has boxed for its result;
* transactions: one outcome, for good; nothing after it; no open transaction
  that nobody can complete; calls reach the transaction they are made on;
* session: the copied namespace and database are the session's, both of one
  answer; a sign-in that names no place goes where the session is; objects that
  were cloned from each other do not influence each other;
* record operations: what is returned is what was written or was there, in order
  and complete; what is thrown is the first failure and, except for `create()`
  and for updates with `ONLY`, means that nothing has been changed;
* responses and iterators: each result once and in order, whoever asks; an exact
  `hasNext()`; consumers that loop come to the end;
* errors: the kind of an error and of its causes reach the application, also
  when an exception of its own class cannot be built.

`PROJECT.json` lists the hazards of this code line by line, with the property
that watches each.

## 2. The modules

```
abstract      NotificationQueue   TransactionView   SessionView   Cursor
                  ^ refines           ^ refines        ^ refines     ^ refines
models        LiveStream          Transactions      Session       Client  extends  Records  extends  Errors
              NativeHandles                                               and      Results
instances     MC<model>                        with a .cfg per run
proofs        <model>_proofs, ClientAnswers_proofs, NotificationQueue_proofs, SequenceLemmas
```

`Client` composes the operations on records (`Records`, with `Errors` for what
they throw) with what they hand out to be read later (`Results`): the rows a
statement has found become the rows of an iterator, its results those of a
Response.

The models have the same conventions. An action is a step between two points at
which another actor can interfere; `pc`, `call` or `phase` says where a call
stands. In `LiveStream`, `NativeHandles` and `Transactions`, undefined behaviour
(a box used after it was freed) sets `fault`, and then the model stops, since
nothing can be said of what follows: safety properties describe every execution
up to that point, and `~fault` is a property of its own. `Build` is `"debug"`,
where `check_allocation` looks addresses up in `ALLOCATOR`, or `"release"`,
where only zero is recognised. Definitions commented `Mutant:` are plausible
bugs, one for each property; no specification uses them, and `PROJECT.json` says
which definition each would replace and which property then fails.

### LiveStream

| In the model | In the code |
|---|---|
| `phase`; `Subscribe`, `StreamFails`, `SpawnForwarder`, `ConstructLiveStream` | `selectLive`, with each failure that leaves by an exception |
| `source`, `sent`, `wire`; `Notify`, `EndSource` | the server, and the SDK's stream `qstream` |
| `Kill` | `Surreal.kill`: the server sends nothing more |
| `forwarder`, `chan`; `Forward`, `StopOnShutdown`, `StopOnEnd` | the spawned thread's loop: the branches of its `select!`, and the `async_channel` |
| `recvOwner`, `joinHandle`, `shutdownTx`, `rx`, `joinOwner`, `rxOwner`, `box` | the tuple `LiveStreamChannel` with its four mutexes, and its allocation |
| `handle`; `CallNext`, `CallClose` and the two `ReadHandle` actions | the volatile field: tested once, then read again for the argument |
| `GetInstance` .. `Convert` | `nextNative`: look-up, `recv_mutex`, `rx`, `recv()`, the conversion with both guards held, the return |
| `GetChannel` .. `FreeBox`, `ZeroHandle` | `releaseNative` line by line, and `handle = 0` |
| `UseAfterFree` | any of these through a freed box |

Notifications are numbered in the order they are sent. The mutex around the
shutdown sender is held for one statement only and is part of `DropShutdown`.
The fields of a notification, and the reflection that builds the Java object,
are left out; that the conversion can throw is not.

`NotificationQueue` is what an application may rely on: `Send` appends,
`Consume` takes the oldest, `End` may cut off the newest. `LiveStream` refines
it with pending items `hand \o chan \o wire`: the one a thread holds, the
channel, and the SDK's stream, in that order.

### NativeHandles

`heap` maps addresses to what is allocated there, `kind`, `ptr` and `held`
describe the Java objects (class, `Native.ptr`, reachable by the application).
One application thread is inside at most one native method (`call`), which goes
through the pointers it was given (`ptrs`) one at a time (`done`), so that the
finalizer (`Finalize`) and a failure (`BadPointer`) come between any two. Four
classes stand for all: `Surreal` (has `close()`), `Value` (and every other
immutable class with a working finalizer), `EntryMut`, and `ValueMut`, whose
`deleteInstance` has no function in Rust, so that its finalizer ends in an
`UnsatisfiedLinkError` and frees nothing. Calls are of two sorts: moving
(`createArray`, `createObject`, `newEntry`, `fromList`) and looking (`get` for
every accessor, `send` for every operation of `Surreal` with content or
parameters). A looking call works on the box of its receiver (`Lent`) until its
result is there; the result is boxed in Rust, one `Value` after the other
(`BoxResult`, `boxed`), and only when the call returns does Java make an object
around each (`LookReturns`). It may throw at any point before (`LookFails`):
`create()` at a later statement, every list where `new_jlong_array!` makes the
array of its pointers. Making the Java objects touches no box, so it is one step. `Id.fromList` is left out: it moves as `Array.fromList` does, and
its result is never freed.

`rules` remembers whether the application has kept to `Discipline`: it moves
only what it still has, nothing twice in one call, and it keeps a reference to
what a call works on. `Owned` and `NoBadPointer` say what holds as long as it
has. `OnlyTheseLeak` holds for any use: a step puts a box out of everybody's
reach (`Leaked`) only if it is a `ValueMut`'s, or was boxed for the result of a
call that now throws and hands over no object.

### Transactions

Any number of threads `Call` a method on any `Transaction` they can reach; the
pointer is read then (`given`), and looked up, taken, sent and zeroed in steps
of their own. `server` is what has become of each transaction, `ran` counts the
queries run in it. `Complete` and `CompleteFails` are the two things the server
can do with a commit; an answer lost after the server has committed is an
instance of `Complete`, since the application is in no other state than after
the exception of `CompleteFails`. Every way through ends in `Moved`, the
`finally` of both methods. `commit` and `cancel` keep their object reachable
until then; `query` does not (`Reachable`), so the finalizer may come between
its start and its end. The field `ptr` is neither volatile nor guarded by a
lock; the model reads it sequentially consistently, which allows fewer
executions than the Java memory model. Under `Discipline` the lock orders the
accesses of the threads; that the finalizer reads the value last written is
assumed there too.

`Discipline`: one call at a time on each Transaction, and no Transaction is
forgotten during a query on it.

`TransactionView` is what a Transaction promises then: there are no pointers,
boxes or addresses, a call has its effect in one step (`Query`, `End`, or
`TooLate` when there is nothing to do any more) and ends in another (`Leave`),
which for `commit` and `cancel` comes only after the effect; a transaction that
nobody can reach is dropped (`Abandon`). The refinement takes `server`, `ran`,
`held`, `op` and `obj` as they are and calls a thread done (`acted`) when it
stands at `"answer"` or `"zero"`.

### Session

| In the model | In the code |
|---|---|
| `native`, `at`, `authentic` | the SDK session a `Surreal` points to, where it is and whether anybody is signed in |
| `namespace`, `database` | the two plain fields of `Surreal.java` |
| `New`, `NewSession` | the constructor; `newSession()`, which clones the SDK's session and starts with empty fields |
| `Call`, then `Switch`, `SwitchUntold` or `Refuse`, then `SetNs`, `SetDb` | `connect`, `useNs`, `useDb`, `useDefaults`: the native call and the two assignments after it |
| `ReadNs`, `ReadDb`, `SignIn` | `signin` and `signup`: where a `RecordCredential` leaves something open, the fields stand in |
| `Invalidate` | `invalidate` |
| `told`, `strayed` | history: the last answer that arrived; whether the session has moved since without one |

`SwitchUntold` is the request that does its work while the answer, or the `NsDb`
made of it, is lost. Which places a request leads to (`After`) is the server's
choice, within what the tests and the SDK's answers show: `useNs` keeps or loses
the database, a sign-in may move the session anywhere. `close()` concerns the
handle only and is in `NativeHandles`.

`DisciplinedSpec`: of the operations that use the two fields one at a time per
object; all others may overlap. Without it two threads interleave their
assignments, which are neither synchronized nor volatile.

`SessionView` is what `getNamespace()` and `getDatabase()` promise together: the
place of the last answer that arrived, replaced as one value. The refinement
shows the new place while a thread stands between its two assignments.

### Records, Errors, Results and Client

A call is a record of what is sent and how the answer is read:

| In the model | In the code |
|---|---|
| `CreateRecord` .. `Query` | the native methods of `surreal.rs`, by verb, target, contents and reading |
| `Execute`, `Others` | the server runs the statements one after the other, each wholly or not at all; others write in between |
| `CheckQueryResult` | `check_query_result!`: refused as a whole, or the answer lost with some statements run |
| `SendsText`, `Alone` | a target given as a text, which may begin with `ONLY` and then has no list for an answer |
| `TakeOneResult`, `ReadOne`, `ReadOptional`, `ReadFirst`, `ReadAll` | `take_one_result!` and what follows it in each method |
| `NotAList` | `return_unexpected_result!` and the `else` branches like it, where the answer is no list |
| `ReadEach`, `ReadDone` | the loop of `create` over its statements: how many it has passed (`passed`), with the values boxed so far (`boxes`). It has no `else` for an answer that is no list: such a statement is passed over |
| `ReadNothing` | `delete`, which does not take its result |
| `ReadIterator`, `ReadResponse`; `HasNext`, `NextGives`, `NextThrows`, `Take` | the iterators and the `Response`, one call under the lock each |
| `Chains`, `BuildServerException`, `Exception` | `exception()` and `build_server_exception` in `error.rs`: the chain of causes, the exceptions built from the last cause outwards, the flat one when that fails |

`ONLY` is what makes the server answer with a record, or NONE, instead of a
list. A text can say it in `create`, `select`, `update` and `upsert`; ids, ranges
and the targets of INSERT and RELATE are written by the library and cannot, and
a DELETE is not read at all. So an answer that is no list
reaches `NotAList` from `select`, `update` and `upsert` with a text, and
`ReadEach` from `create`. A statement with
`ONLY` that finds no row, or several, fails on the server like any other.

Content stands for what CONTENT, MERGE or PATCH leave in the record; INSERT
stands for INSERT RELATION too. Records named in one text are a set, so that
none is named twice. `run()` reads its answer like the operations that expect
one row and is left out. `update` and `upsert` of several targets are declared
in Java without a function in Rust and cannot be called. The variants with a
`Class` argument convert what these return. An iterator that is not synchronized
belongs to one consumer: sharing it is a data race in `&mut`, which `Spec` does
not do.

`Cursor` promises the rows one by one, each once and in order, to whoever asks;
`Client` refines it with the source `handed \o rest`.

## 3. The runs

| Run | Instance | Question |
|---|---|---|
| `live_safety` | 3 threads, 3 notifications, debug | do the locking protocol, the teardown order and the delivery hold for any use, can a `close()` get into a deadlock, and does the whole implement `NotificationQueue`? |
| `live_disciplined` | 3 threads, 2 notifications, release, `FairDisciplinedSpec` | is a disciplined use free of use-after-free and of stale handles, and are blocked readers served and woken? |
| `live_liveness` | 3 threads, 1 notification, release, `FairSpec` | does every `close()` return, with others closing and reading? |
| `live_race`, `live_stale_handle` | 2 or 3 threads | counterexamples to what comments and tests say, see section 5 |
| `handles` | 3 objects, 4 addresses, 2 arguments, release | no dangling or shared pointers; what leaks |
| `transactions` | 3 threads, 2 transactions, 2 addresses, debug, 1 query each | outcomes and lost transactions under any use |
| `transactions_locked` | 2 threads, 3 transactions, 2 addresses, release | the right transaction and no freed box under the discipline; does it implement `TransactionView`? |
| `transactions_race` | as above, without the discipline and with completing calls only (`CompletingSpec`) | a counterexample, see section 5 |
| `session` | 2 objects, 2 threads, 2 namespaces, 1 database, `DisciplinedSpec` | do the fields follow the session, sign-ins go there, and clones stay apart, with lost answers and refusals? does it implement `SessionView`? |
| `client` | 2 records, 2 contents, up to 2 statements, 2 kinds of error, 2 consumers, 2 takes | is every answer what was done or there, every failure told, every result handed out once? does it implement `Cursor`, and do consumers come to the end? |
| `client_delete` | 2 records, 1 content, 1 kind of error | a counterexample, see section 5 |

Bounds, and why they are enough. Three threads are one closer or committer, one
that races with it at the handle and one that is blocked behind a lock: the code
distinguishes no more roles. Three notifications are one in a thread's hand, one
in the channel and one in the SDK's stream, the three segments of the
refinement. Two addresses for three transactions force addresses to be reused.
Three objects, each of which stands for several in turn, and four addresses are
an instance, content that its finalizer abandons in the heap, and two results;
or two arguments and what they are moved into. (Four objects over three
addresses pass as well, in 2.1 million states instead of 0.4.) Two arguments give a first and a later pointer,
hence a failure in the middle and the same object twice. The other build of each
pair adds no new kind of step: a debug build only refuses some accesses that a
release build makes. Two objects of `Session` are a session and its clone, two threads one that works
and one that meets it; a second namespace lets a stale one be seen, and the
database is there or not. Two records give a range with two ends and a batch with
a middle where it can break; two statements a first that has succeeded when the
second fails; a kind of error with a class of its own and one the client does not
know; two consumers the race between `hasNext()` and `next()`. An error has at
most `MaxCauses = 1` causes, which has every way to fail (with 2 the run passes as
well, but takes four times as long; the theorem is for any number). What the bounds cannot show
is what the proofs are for.
`LiveStream` has one box and does not model that its address is allocated again
for a second stream; in a debug build a stale handle is then not refused
(`Transactions` and `NativeHandles` do model this).

Deadlock is not checked (`CHECK_DEADLOCK FALSE`), because each system may stop:
when nobody calls anything and the stream has ended, when `selectLive` has
failed, when the bounds on objects are used up, and after a fault. `session` and
`client` do check it. That nothing gets stuck earlier is what the liveness
properties say and, for `close()`, the invariant `CloseIsNotStuck`. Symmetry is
used in runs without liveness properties only, where every property is the same
for all members of a permuted set.

### Fairness

`Client` assumes weak fairness of each consumer: one that loops over an iterator
goes on, since every call on it ends. Nothing makes an application call an
operation, the server answer, or others write.

`Fairness` in `LiveStream` assumes

* weak fairness of each branch of the forwarder. The forwarder is a thread of
  its own; `tokio::select!` without `biased` polls its branches in random order,
  so a branch that stays ready is taken eventually;
* strong fairness of the steps of a thread inside `next()` or `close()`.
  `parking_lot`'s mutexes hand over to a waiter after at most a short time
  (eventual fairness), so a thread that waits for a lock which is free again and
  again gets it;
* nothing for the server or the application. Nobody has to send, call `next()`
  or call `close()`.

`SomeCloseReturns` states the property for one thread. The threads are
interchangeable in the specification, so it holds of all; TLC needs a tableau
for one formula instead of three.

## 4. The proofs

TLAPS proves, for any number of threads, objects, addresses, transactions and
notifications and for both builds, from the named assumptions on the constants
only (`LiveStreamAssumption`, `NativeHandlesAssumption`,
`TransactionsAssumption`, `SessionAssumption`, `RecordsAssumption`,
`ErrorsAssumption`, `ResultsAssumption`; that the ids are finitely many is one of them):

| Theorem | Statement |
|---|---|
| `LiveStream_proofs!Typing`, `RecvProtection`, `TeardownOrder`, `LockOrdering`, `NothingLeftBehind` | the invariants of `live_safety` under `Spec` |
| `LiveStream_proofs!DeadlockFreedom` | `CloseIsNotStuck` under `Spec` |
| `LiveStream_proofs!MemorySafety`, `NoStaleHandle` | `NoUseAfterFree`, `ClosedNextReturnsEmpty` under `DisciplinedSpec` |
| `LiveStream_proofs!Refinement` | `Spec => QueueSpec` |
| `LiveStream_proofs!DrainedBeforeEmpty` | the action property `EmptyMeansDrained` under `Spec` |
| `NotificationQueue_proofs!Numbering`, `LiveStream_proofs!OrderedDelivery` | the abstract queue is in order, hence so is `LiveStream` |
| `NativeHandles_proofs!Typing`, `Ownership`, `Safety`, `Leaks` | the type invariant, `Owned`, `NoBadPointer` and the action property `OnlyTheseLeak` |
| `Transactions_proofs!Typing`, `NoneLost`, `ForGood` | `TypeOK`, `OpenIsNotLost` and the action property `CompletedForGood` under `Spec` |
| `Transactions_proofs!Safety`, `Targets`, `UsedUp` | `NoUseAfterFree`, `RightTransaction`, `CompletedIsEmpty` under `DisciplinedSpec` |
| `Transactions_proofs!Atomicity` | `DisciplinedSpec => LifeCycle` |
| `Session_proofs!Typing`, `Independence` | `TypeOK` and the action property `Independent` under `Spec` |
| `Session_proofs!Current`, `RightPlace`, `Refinement` | `FieldsAreCurrent`, `SignsInHere` and `ViewSpec` under `DisciplinedSpec` |
| `Client_proofs!Typing`, `Unchanged`, `FirstFailure` | `TypeOK`, `ThrowsUnchanged`, `FirstFailureThrown` |
| `Client_proofs!OwnerSafe`, `Once`, `Refinement` | `OwnerMeetsNoEnd`, `TakenOnce`, `CursorSpec` |
| `ClientAnswers_proofs!AnswersTrue`, `SelectsTrue`, `KindsTold` | `AnswerIsWhatWasDone`, `SelectsWhatWasThere`, `KindsKept` |
| `ClientAnswers_proofs!Deletes`, `LeftOver` | `DeletesUnlessFailed`: what a `delete()` that returns has done; `NothingLeftOver`: who comes to the end of an iterator, shared or not, leaves no row behind. No run of its own is spent on these two |

The invariants are not inductive as they stand. What is added, and why:

* **LiveStream** `Inv == SetUp /\ Locks /\ Teardown /\ Flow`. `RecvIsProtected`
  says nothing of how a thread got to `recv()`; `Locks` ties the owner of each
  mutex to the points at which its holder stands, `Teardown` records how far a
  closer has come (the sender before the join, the join before the receiver),
  `SetUp` relates box, handle and forwarder to the phase of `selectLive`, and
  `Flow` says that at most one thread holds a notification and that the SDK's
  stream is gone with the forwarder. For the disciplined specification, `Alone`
  adds that during a `close()` all others are outside, or behind `recv_mutex`,
  and that a freed box is followed by the zeroing of the handle before anybody
  reads it.
* **Refinement**: a notification passes from the SDK's stream to the channel to
  a thread's hand without changing the concatenation, so these steps stutter;
  `Convert` consumes; exits and teardown are `End`, which may be repeated. The
  facts about concatenation and prefixes are in `SequenceLemmas`.
* **NativeHandles** `Inv`: `Blank` (an object that does not exist has no
  pointer) always, and while the rules are kept `MoveArgs`, `GetArgs` and
  `SendArgs`: the pointers a call was given are still those of its arguments, so
  that what is emptied so far and what is left are disjoint boxes. `Wrapping` is
  the lemma that a fresh box disturbs no other object. That a box made for a
  result is nobody else's comes from `AnyUse`, below.
* **Transactions** `Inv`: `OnePlace` (a transaction is in one box, or in one
  thread's hands, or completed), `Calls` (what each point of a call implies of
  its variables) and `NothingToForget` (an object about to be zeroed has no open
  transaction left) carry `OpenIsNotLost` and `CompletedForGood` for any use.
  `LockedInv` adds that at most one thread is at work on an object and that its
  pointer is the object's.

* **EmptyMeansDrained** needs that nothing is lost (`Whole`): unless the
  forwarder has exited with the shutdown sender gone, the lengths of what was
  consumed, held and queued add up to what was sent. A reader that leaves
  `recv()` without a notification found the channel empty and the forwarder gone.
* **OnlyTheseLeak** holds for any use, so that its invariant `AnyUse` must do
  without the rules. `Values` says that only the finalizer frees a `Value`: its
  object always points to it, alone, and no object points to one that is boxed
  for a result, which exists only while a call works. `Emptying` says that what
  a moving call has gone through is free, so that zeroing its arguments loses
  nothing. `LossStep` then goes through the steps.
* **Session** `Inv` ties the points of a call to its operation and arguments.
  `DisciplinedInv` adds that at most one thread per object is at work on the
  fields, that between the two assignments the first field is already the
  answer's, and that otherwise the fields are the last answer (`Follows`); a
  session that has not strayed is where that answer said (`Stays`).
* **Client** `CallInv`: each statement the server has run is one that could run
  (`Deeds`), a failed one has changed nothing, one with `ONLY` has one row or,
  for SELECT, none; and the values boxed so far are the rows of the lists among
  the answers passed so far. `ReadInv`: the results still in a
  Response are those nobody has asked for, and the owner of an iterator stands
  before `next()` only when there is a row left. `AnswerInv` adds that every
  statement ran faithfully to the call, by verb, and that what is returned or is
  still to be handed out is all it found. That rows listed in the order of their
  ids are all of them (`ListedAll`) is a fact about cardinalities: an injection
  between finite sets of the same size is a surjection.
* **DeadlockFreedom** adds `Stopping` to `Inv`: a thread that has come to the
  join, or to its mutex, has dropped the shutdown sender. So the forwarder is
  still running and knows that it must stop, or it has exited. In the second
  case nobody waits in `recv()` or at the join any more, the holder of
  `recv_mutex` finds `rx` free or has it, and the holder of the join handle's
  mutex is at the join: each owner can take a step. It is the safety half of
  `SomeCloseReturns`, for any number of threads.
* **Atomicity**: `LockedInv` tells on which transaction each step works, and
  `Resting` adds that an idle thread has no object. `ViewStep` says what each
  step is in `TransactionView`: looking the box up and taking it are invisible,
  and `FinalizesOpen` says of the finalizer that what it drops
  nobody is at work on.
* **NothingLeftOver** is inductive once it says where its consumers stand
  (`Exhausted`: nobody is idle while there are rows, and the call in progress
  is one that hands out an iterator). It is the safety half of `Drained`.
* **KindsKept** is inductive as it stands, because each step sets the whole
  outcome. What it takes is the value of the recursive function that builds the
  exceptions, for a chain of any length. The induction goes from the last cause
  outwards. The library's induction theorems take the formula as an operator,
  which the provers cannot instantiate; `Downwards` takes it as a set of numbers
  instead, and follows from `LeastElement`, that a nonempty set of naturals has a
  least element, which `WellFoundedInduction` gives without an operator.
  `EndsOnce` and `EndsNext` say where the buildable part of a chain ends,
  `ChainBuilt` that the recursion has a value at all, and `ChainTold` what it is.

Only model-checked: the liveness properties (`CloseUnblocksNext`,
`WaiterIsServed`, `SomeCloseReturns`, `Drained`), since liveness under fairness
is out of this prover's reach. For `SomeCloseReturns` and `Drained` the safety
half is proved, as said above.

## 5. Where code and documentation disagree

* `live_race`: `LiveQueryTests` and `LiveStream.java` allow `next()` and
  `close()` from different threads. A thread between reading the handle and
  holding `recv_mutex` is unknown to `releaseNative`, which frees the box under
  it; in a debug build this remains possible after the look-up. Within
  `recv()` the protocol is safe (`RecvIsProtected`, proved).
* `live_stale_handle`: `next()` reads the field twice, so a concurrent `close()`
  can turn the promised empty result into a `NullPointerException`.
* `transactions_race`: the README calls the client thread-safe. `commit()` frees
  the box of its transaction, asks the server, and sets the pointer of its object
  to 0 after the answer. In the counterexample a thread waits for that answer
  when another begins a second transaction, whose box gets the free address, and
  then completes the first once more: it takes the box of the second. No query
  and no finalizer is needed for that. (When the address is still free the
  same call is a use after free, which `NoUseAfterFree` is about.)
* `client_delete`: `Surreal.java` says that `delete()` deletes the records. None
  of its native methods takes the result of the statement, so that a statement
  the server has refused, or that has failed, passes for a deletion.

Except for the last, the properties that fail hold under the disciplines of
section 2, which an application can keep with a lock of its own.

Smaller ones, which no run is spent on:

* `LiveStream.close()` promises that a thread blocked in `next()` returns empty
  (`LiveStream.java:78`); it may return a notification that `select!` took first.
* A comment in `surreal.rs:650` says that `kill` ends the stream and `next()`
  returns empty; it only stops the notifications, as `Surreal.java:297` says
  (`Kill` leaves the stream open).
* The README calls the client thread-safe (`README.md:43`); two threads that
  switch one `Surreal` can leave the namespace of one answer beside the database
  of the other. `Session` assumes the discipline that prevents it.
* `create(target, content)` with a target that names several records writes them
  and then throws, since one row is expected (`ReadEach`): the reason why
  `ThrowsUnchanged` excepts `create()`.
* `create("ONLY person", ...)` writes a record for each content and returns an
  empty list, since the loop over the answers passes over what is no list
  (`surreal.rs:804`), although `Surreal.java:635` says "a list of Value objects
  created based on the target and contents". `AnswerIsWhatWasDone` says so.
* `update("ONLY person:1", ...)` and `upsert` write the record and then throw
  "Unexpected result" (`surreal.rs:1499`, `1557`): the other exception of
  `ThrowsUnchanged`.
* `update` and `upsert` of several targets, and `deleteInstance` of the iterators
  and of `ValueMut`, have no function in Rust.
* `Response.deleteInstance` gives its box back as an `Arc<Mutex<Result<..>>>`
  while `query` made it an `Arc<Mutex<..>>` of what is in that `Result`.
* When a statement of `create()` fails, or the JVM cannot make the array of
  pointers for a list, the values boxed before are freed by nobody: no Java object
  holds their handles yet. `LookFails` does so, and `OnlyTheseLeak` counts it
  among the two ways to lose memory.

## 6. Plan

Done, in order: `LiveStream` with its abstract specification and refinement;
`NativeHandles`; `Transactions` with `TransactionView`; `Session` with `SessionView`; `Records`,
`Errors` and `Results`, composed in `Client`, with `Cursor`.

What could come next:

1. `FieldNames`: precedence and collision of field names when Java objects become
   values and back, as a pure algorithm over bounded inputs.
2. The details of an error: their conversion, and the look-ups in them.

## 7. Not modelled

* Value access: no state besides the handle, which `NativeHandles` has.
* Value building and conversion: reflection over classes and fields, a data
  conversion without state; see the plan for the part that is an algorithm.
* Credentials: immutable data; what a `RecordCredential` leaves open is in
  `Session`.
* The details of errors, their wording and their JSON.
* Export and import: one blocking call of the SDK each.
* Library loading: file system and class loader.

## 8. Running it

```
tlc -workers 2 -config LiveStreamSafety.cfg MCLiveStream.tla
tlc -workers 2 -config Client.cfg MCClient.tla
tlapm LiveStream_proofs.tla
tlapm ClientAnswers_proofs.tla
```

Each `.cfg` begins with a comment that names its instance; `PROJECT.json` lists
the module of each. A run takes a few minutes at most on two cores.
