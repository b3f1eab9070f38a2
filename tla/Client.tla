------------------------------- MODULE Client -------------------------------
(***************************************************************************)
(* An application that calls the operations on records one after the other *)
(* and reads what they hand out, with several consumers, before it makes   *)
(* the next call.                                                          *)
(***************************************************************************)
EXTENDS Records, Results

vars == <<records, reading>>

(* A call returns an iterator over the rows the statement has found when   *)
(* it was run, or a Response with what each statement has found.           *)
Opened(d) == [there |-> TRUE, rows |-> d.rows, failed |-> d.error # None]

Open ==
  \/ /\ ReadIterator
     /\ \/ call.reads = "sync" /\ NewSyncIterator(Found)
        \/ call.reads = "iterator" /\ \E c \in Consumers : NewIterator(c, Found)
  \/ /\ ReadResponse
     /\ NewResponse([n \in DOMAIN ran |-> Opened(ran[n])])

ClientInit == Init /\ ResultsInit

ClientNext ==
  \/ /\ \/ \E c \in Calls : Call(c)
        \/ Execute \/ Others \/ Reading
     /\ UNCHANGED reading
  \/ Open
  \/ Forget /\ Drop
  \/ \E c \in Consumers : Consume(c) /\ UNCHANGED records

(* Consumers go on as long as there is something to read.                  *)
Spec ==
  /\ ClientInit /\ [][ClientNext]_vars
  /\ \A c \in Consumers : WF_vars(Consume(c) /\ UNCHANGED records)
-----------------------------------------------------------------------------
(* Properties                                                              *)

Tables == [Ids -> Contents \cup {None}]
Deeds == [after : Tables, before : Tables, wrote : SUBSET Ids,
          rows : Seq(Row), list : BOOLEAN, error : Kinds \cup {None}]
Answers == [there : BOOLEAN, rows : Seq(Row), failed : BOOLEAN]

OutcomeOK(o) ==
  /\ o.returned \in BOOLEAN /\ o.values \in Seq(Row)
  /\ o.why \in {"", "refused", "server", "unexpected", "java", "argument", "lost"}

RecordsOK ==
  /\ store \in Tables
  /\ phase \in {"idle", "sent", "done"}
  /\ IF phase = "idle" THEN call = None ELSE call \in Calls
  /\ ran \in Seq(Deeds)
  /\ Len(ran) <= IF phase = "idle" THEN 0 ELSE Statements(call)
  /\ passed \in 0 .. Len(ran) /\ boxes \in Seq(Row)
  /\ OutcomeOK(outcome)

ReadingOK ==
  /\ mode \in {"none", "iterator", "sync", "response"}
  /\ owner \in Consumers \cup {Nobody}
  /\ rest \in Seq(Row) /\ handed \in Seq(Row) /\ threw \subseteq Consumers
  /\ at \in [Consumers -> {"idle", "loop", "next", "take"}]
  /\ results \in Seq(Answers)
  /\ answers \in Seq([index : Nat, result : Answers])

(* Every variable has its type; a call is one of those there are, and the  *)
(* server has run no more statements than were sent.                       *)
TypeOK == RecordsOK /\ ReadingOK

Returned(reads) == phase = "done" /\ outcome.returned /\ call.reads \in reads
Thrown(why) == phase = "done" /\ ~outcome.returned /\ outcome.why \in why

(* What create(), insert(), insertRelation(), relate(), update() and       *)
(* upsert() return are the records they have written, all of them, a value *)
(* for each content and in the order of the contents ("one per content");  *)
(* of a range it is the first record, or NONE if nothing was written.  But *)
(* create() returns nothing at all if the text of its target says ONLY,    *)
(* although it has written a record for each content.                      *)
AnswerIsWhatWasDone ==
  LET values == outcome.values IN
  /\ Returned({"one", "each", "all"}) /\ call.verb # "SELECT" /\ ~call.only =>
       /\ Len(values) = Len(call.contents)
       /\ \A n \in DOMAIN values : values[n].content = call.contents[n]
       /\ IF call.reads = "each"
          THEN \A n \in DOMAIN values : ran[n].wrote = {values[n].id}
          ELSE /\ ran[1].wrote = {values[n].id : n \in DOMAIN values}
               /\ \A j, k \in DOMAIN values : values[j].id = values[k].id => j = k
  /\ Returned({"each"}) /\ call.only =>
       /\ values = <<>> /\ Len(ran) = Len(call.contents)
       /\ \A n \in DOMAIN ran : \E i \in Ids :
            ran[n].wrote = {i} /\ ran[n].after[i] = call.contents[n]
  /\ Returned({"first"}) =>
       IF ran[1].wrote = {} THEN values = <<>>
       ELSE /\ Len(values) = 1
            /\ values[1].id \in ran[1].wrote
            /\ \A i \in ran[1].wrote : values[1].id <= i

(* select() delivers the records it names as they were when the statement  *)
(* was run, whatever others do before and after: those that exist, each    *)
(* once, and of a range both ends and what lies between.                   *)
Delivered == IF call.reads \in {"iterator", "sync"} THEN handed \o rest ELSE outcome.values

Wanted(t, i) ==
  \/ t = Table
  \/ i \in t.ids
  \/ t.form = "range" /\ t.from \in {None} \cup 0 .. i /\ (t.to \in {None, i} \/ i < t.to)

SelectsWhatWasThere ==
  Returned({"optional", "all", "iterator", "sync"}) /\ call.verb = "SELECT" =>
    /\ {Delivered[n] : n \in DOMAIN Delivered} =
         {[id |-> i, content |-> ran[1].before[i]] :
            i \in {j \in Ids : Wanted(call.target, j) /\ ran[1].before[j] # None}}
    /\ \A j, k \in DOMAIN Delivered : Delivered[j].id = Delivered[k].id => j = k

(* An operation that reports the server's error or an unexpected result    *)
(* has changed nothing, and may be made again.  There are two exceptions:  *)
(* create(), with several statements, and an update() or upsert() whose    *)
(* target says ONLY, which writes the record and then throws.              *)
WritesOnly == call.only /\ call.verb \in {"UPDATE", "UPSERT"} /\ outcome.why = "unexpected"

ThrowsUnchanged ==
  Thrown({"refused", "server", "unexpected"}) /\ call.reads # "each" =>
    \A n \in DOMAIN ran :
      IF WritesOnly THEN ran[n].wrote # {} ELSE ran[n].wrote = {} /\ ran[n].after = ran[n].before

(* No operation but delete() returns although a statement has failed, and  *)
(* the error that is thrown is the one of the first that has.              *)
FirstFailureThrown ==
  /\ Returned({"one", "optional", "first", "all", "each", "iterator", "sync"}) =>
       \A n \in DOMAIN ran : ran[n].error = None
  /\ Thrown({"server"}) =>
       \E n \in DOMAIN ran :
         /\ ran[n].error # None /\ outcome.error[1].kind = ran[n].error
         /\ \A m \in 1 .. n - 1 : ran[m].error = None

(* What is thrown for an error tells its kind, and those of its causes as  *)
(* far as exceptions can be made of them; it is never lost altogether.     *)
Buildable(chain) ==
  {n \in 1 .. Len(chain) : \A i \in 1 .. n : chain[i].surreal /\ chain[i].jni = "ok"}

Told(chain, thrown) ==
  IF Buildable(chain) = {} THEN thrown = <<Plain("SurrealException")>>
  ELSE /\ Len(thrown) = Cardinality(Buildable(chain))
       /\ \A i \in Buildable(chain) : chain[i].kind \in {thrown[i].kind, thrown[i].raw}

KindsKept ==
  LET e == outcome.error IN
  e # <<>> /\ (\A i \in DOMAIN e : e[i].jni # "pends") => Told(e, outcome.thrown)

(* However consumers share it, an iterator hands out the rows the statement*)
(* has found, one by one, each once and in their order.                    *)
TheCursor == INSTANCE Cursor WITH
  Rows <- Row, source <- handed \o rest

CursorSpec == TheCursor!CursorSpec

(* A consumer that has an iterator for itself is never told of an element  *)
(* that is not there.                                                      *)
OwnerMeetsNoEnd == mode = "iterator" => threw = {} /\ \A c \in Consumers \ {owner} : at[c] = "idle"

(* Of each statement of a query, take() answers once with what it has      *)
(* found, a row list or an error, and NONE ever after.                     *)
TakenOnce ==
  mode = "response" =>
    \A j \in DOMAIN answers :
      LET n == answers[j].index
          again == \E i \in 1 .. j - 1 : answers[i].index = n
      IN  answers[j].result =
            IF n \in DOMAIN ran /\ ~again THEN Opened(ran[n]) ELSE NoResult

(* Consumers that loop get everything there is, and come to the end.       *)
Iterating == mode \in {"iterator", "sync"}
Drained == Iterating ~> Iterating /\ rest = <<>> /\ Finished

(* Once a consumer has come to the end, whether hasNext() told it or next() *)
(* threw, every row the statement has found was handed out: to it, or to   *)
(* those it shares the iterator with.                                      *)
NothingLeftOver ==
  Iterating =>
    \A c \in Consumers : at[c] = "idle" /\ owner \in {c, Nobody} => handed = ran[1].rows

(* A delete() that returns has deleted: its records are gone.              *)
DeleteIsDone ==
  Returned({"nothing"}) => \A i \in Ids : Wanted(call.target, i) => ran[1].after[i] = None

(* As delete() does not look at the statement's own error, this is all that *)
(* holds: if it returns, the statement has been run, and it has failed or  *)
(* it has left of the table just the records that were not to be deleted.  *)
DeletesUnlessFailed ==
  Returned({"nothing"}) =>
    /\ Len(ran) = 1
    /\ \/ ran[1].error # None /\ ran[1].after = ran[1].before
       \/ ran[1].after = [i \in Ids |-> IF Wanted(call.target, i) THEN None ELSE ran[1].before[i]]
=============================================================================
