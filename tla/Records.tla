------------------------------ MODULE Records ------------------------------
(***************************************************************************)
(* The operations on records.  Each sends the text of one or more          *)
(* statements and reads the answer in its own way: the one row it expects, *)
(* a list of rows, one row per content, an iterator over the rows, or not  *)
(* at all.  The server runs the statements one after the other; each has   *)
(* its effect and finds its rows, or fails and changes nothing.  Others    *)
(* change the records between them.  The answer may be lost.               *)
(*                                                                         *)
(* The records of one table are modelled, their ids are numbers.           *)
(***************************************************************************)
EXTENDS Errors, FiniteSets

CONSTANTS
  Ids, Contents, None,
  MaxContents   \* bound: contents of a call

ASSUME RecordsAssumption ==
  /\ Ids \subseteq Nat /\ IsFiniteSet(Ids)
  /\ None \notin Ids /\ None \notin Contents /\ None \notin Kinds
  /\ MaxContents \in Nat

VARIABLES
  store,    \* the records of the table: their contents, None where there is none
  phase,    \* of the call: "idle", "sent", "done"
  call,     \* what it sends and how it reads the answer
  ran,      \* the statements the server has run: what each found and did
  passed,   \* the statements create() has gone through
  boxes,    \* the values it has read so far
  outcome   \* how the call ended

client == <<phase, call, passed, boxes, outcome>>
records == <<store, client, ran>>

Row == [id : Ids, content : Contents]
Present(s) == {i \in Ids : s[i] # None}
-----------------------------------------------------------------------------
(* Targets: a record, several of them in one text, a range of their ids,   *)
(* the table.                                                              *)
Some(S) == [form |-> "records", ids |-> S, from |-> None, to |-> None]
Between(a, b) == [form |-> "range", ids |-> {}, from |-> a, to |-> b]
Table == [form |-> "table", ids |-> {}, from |-> None, to |-> None]

Several == {Some(S) : S \in (SUBSET Ids) \ {{}}}
Ranges == {Between(a, b) : a, b \in Ids \cup {None}}
Targets == Several \cup Ranges \cup {Table}

(* The mutant of RangeValue: the last id is left out.                      *)
RangeValueExclusive(t) ==
  {i \in Ids : (t.from = None \/ t.from <= i) /\ (t.to = None \/ i < t.to)}

(* A range includes its bounds; one that is missing bounds nothing.        *)
RangeValue(t) ==
  {i \in Ids : (t.from = None \/ t.from <= i) /\ (t.to = None \/ i <= t.to)}

Named(t) ==
  CASE t.form = "records" -> t.ids
    [] t.form = "range" -> RangeValue(t)
    [] t.form = "table" -> Ids

(* The calls: verb, target and contents of what is sent, and how the       *)
(* answer is read.  A target that is given as a text may say ONLY, which   *)
(* asks for its one row without a list around it.                          *)
Lists == UNION {[1 .. n -> Contents] : n \in 0 .. MaxContents}
Sends(verbs, targets, contents, reads) ==
  [verb : verbs, target : targets, contents : contents, reads : reads, only : {FALSE}]
SendsText(verbs, targets, contents, reads) ==
  [verb : verbs, target : targets, contents : contents, reads : reads, only : BOOLEAN]
Singles == [1 .. 1 -> Contents]
One == {Some({i}) : i \in Ids}

CreateRecord == Sends({"CREATE"}, One, Singles, {"one"})
CreateTarget == SendsText({"CREATE"}, Several \cup {Table}, Lists, {"each"})
\* INSERT stands for INSERT RELATION too; relations are records like others.
Insert == Sends({"INSERT"}, {Table}, Lists, {"all"})
InsertRelation == Sends({"INSERT"}, {Table}, Singles, {"one"})
Relate == Sends({"RELATE"}, {Table}, Singles, {"one"})
SelectRecord == Sends({"SELECT"}, One, {<<>>}, {"optional"})
SelectRecords == Sends({"SELECT"}, Several, {<<>>}, {"all"})
SelectRange == Sends({"SELECT"}, Ranges, {<<>>}, {"all"})
SelectTargets == SendsText({"SELECT"}, Several \cup {Table}, {<<>>}, {"iterator", "sync"})
UpRecord == Sends({"UPDATE", "UPSERT"}, One, Singles, {"one"})
UpRange == Sends({"UPDATE", "UPSERT"}, Ranges, Singles, {"first"})
UpTarget == SendsText({"UPDATE", "UPSERT"}, Several \cup {Table}, Singles, {"iterator"})
UpTargetSync == SendsText({"UPDATE", "UPSERT"}, Several \cup {Table}, Singles, {"sync"})
DeleteRecord == Sends({"DELETE"}, Several, {<<>>}, {"nothing"})
DeleteRange == Sends({"DELETE"}, Ranges, {<<>>}, {"nothing"})
DeleteTarget == Sends({"DELETE"}, {Table}, {<<>>}, {"nothing"})

(* query() with any script: as many statements of a kind as it has         *)
(* contents.                                                               *)
Query == Sends({"CREATE"}, One \cup {Table}, Lists, {"response"})

Calls ==
  CreateRecord \cup CreateTarget \cup Insert \cup InsertRelation \cup Relate
    \cup SelectRecord \cup SelectRecords \cup SelectRange \cup SelectTargets
    \cup UpRecord \cup UpRange \cup UpTarget \cup UpTargetSync
    \cup DeleteRecord \cup DeleteRange \cup DeleteTarget \cup Query

(* create() sends a statement for each content, all others send one.       *)
Statements(c) == IF c.reads \in {"each", "response"} THEN Len(c.contents) ELSE 1
-----------------------------------------------------------------------------
(* The server                                                              *)

Write(s, S, c) == [i \in Ids |-> IF i \in S THEN c ELSE s[i]]

(* The records S in the order of their ids, as rows.                       *)
Listed(s, S) ==
  {[k \in 1 .. Cardinality(S) |-> [id |-> f[k], content |-> s[f[k]]]] :
     f \in {g \in [1 .. Cardinality(S) -> S] : \A j, k \in 1 .. Cardinality(S) : j < k => g[j] < g[k]}}

(* What statement n of c finds, changes and leaves behind in s if it       *)
(* succeeds.  A record that is made in a table gets an id of the server's  *)
(* choosing or of its own; it must not exist already.                      *)
Did(s, before, wrote, rows) ==
  [after |-> s, before |-> before, wrote |-> wrote, rows |-> rows, list |-> TRUE, error |-> None]

Writes(s, S, c) == {Did(Write(s, S, c), s, S, r) : r \in Listed(Write(s, S, c), S)}

Effects(c, n, s) ==
  LET ids == Named(c.target)
      new == Ids \ Present(s)
  IN  CASE c.verb = "SELECT" -> {Did(s, s, {}, r) : r \in Listed(s, ids \cap Present(s))}
        [] c.verb = "DELETE" -> {Did(Write(s, ids, None), s, ids \cap Present(s), <<>>)}
        [] c.verb = "UPDATE" -> Writes(s, ids \cap Present(s), c.contents[1])
        [] c.verb = "UPSERT" ->
             UNION {Writes(s, S, c.contents[1]) :
                      S \in IF c.target.form = "records" THEN {ids} ELSE SUBSET ids}
        [] c.verb \in {"CREATE", "RELATE"} ->
             UNION {Writes(s, S, c.contents[n]) :
                      S \in IF c.target = Table THEN {{i} : i \in new} ELSE {ids} \cap SUBSET new}
        [] c.verb = "INSERT" ->
             {Did([i \in Ids |-> IF \E k \in DOMAIN f : f[k] = i
                                 THEN c.contents[CHOOSE k \in DOMAIN f : f[k] = i] ELSE s[i]],
                  s, {f[k] : k \in DOMAIN f},
                  [k \in DOMAIN f |-> [id |-> f[k], content |-> c.contents[k]]]) :
                f \in {g \in [DOMAIN c.contents -> new] :
                         \A j, k \in DOMAIN g : g[j] = g[k] => j = k}}

(* With ONLY there must be one row, for SELECT at most one; it, or NONE, is *)
(* the answer, which is no list.                                           *)
Alone(c, d) == Len(d.rows) = 1 \/ (c.verb = "SELECT" /\ d.rows = <<>>)

Succeeds(c, n, s) ==
  IF c.only THEN {[d EXCEPT !.list = FALSE] : d \in {e \in Effects(c, n, s) : Alone(c, e)}}
  ELSE Effects(c, n, s)

Fails(k, s) ==
  [after |-> s, before |-> s, wrote |-> {}, rows |-> <<>>, list |-> TRUE, error |-> k]

(* The next statement is run.  It is refused or fails as a whole, or does  *)
(* all it should.                                                          *)
Execute ==
  /\ phase = "sent" /\ Len(ran) < Statements(call)
  /\ \E d \in Succeeds(call, Len(ran) + 1, store) \cup {Fails(k, store) : k \in Kinds} :
       /\ ran' = Append(ran, d)
       /\ store' = d.after
  /\ UNCHANGED client

(* Another client writes or deletes a record.  When the answer is there    *)
(* nothing reads the records any more.                                     *)
Others ==
  /\ phase = "sent" /\ Len(ran) < Statements(call)
  /\ \E i \in Ids, c \in Contents \cup {None} : store' = [store EXCEPT ![i] = c]
  /\ UNCHANGED <<client, ran>>
-----------------------------------------------------------------------------
(* The client                                                              *)

Pending == [returned |-> FALSE, values |-> <<>>, why |-> "", error |-> <<>>, thrown |-> <<>>]

Init ==
  /\ store \in [Ids -> Contents \cup {None}]
  /\ phase = "idle" /\ call = None
  /\ ran = <<>> /\ passed = 0 /\ boxes = <<>>
  /\ outcome = Pending

Call(c) ==
  /\ phase = "idle"
  /\ phase' = "sent" /\ call' = c
  /\ UNCHANGED <<store, ran, passed, boxes, outcome>>

(* The application has what it wanted.                                     *)
Forget ==
  /\ phase = "done"
  /\ phase' = "idle" /\ call' = None
  /\ ran' = <<>> /\ passed' = 0 /\ boxes' = <<>>
  /\ outcome' = Pending
  /\ UNCHANGED store

Returns(values) ==
  /\ phase' = "done"
  /\ outcome' = [Pending EXCEPT !.returned = TRUE, !.values = values]
  /\ UNCHANGED <<store, call, ran, passed, boxes>>

(* An error of the SDK is thrown: the server's, or that it was not reached *)
(* or did not answer.                                                      *)
ThrowsError(why, k) ==
  /\ phase' = "done"
  /\ \E chain \in Chains(k) :
       outcome' = [Pending EXCEPT !.why = why, !.error = chain, !.thrown = Exception(chain)]
  /\ UNCHANGED <<store, call, ran, passed, boxes>>

Throws(why, class) ==
  /\ phase' = "done"
  /\ outcome' = [Pending EXCEPT !.why = why, !.thrown = <<Plain(class)>>]
  /\ UNCHANGED <<store, call, ran, passed, boxes>>

(* A pointer among the arguments is 0.                                     *)
BadArgument ==
  /\ phase = "sent" /\ ran = <<>>
  /\ Throws("argument", "NullPointerException")

(* check_query_result!: the server refuses the text as a whole, is not     *)
(* reached, or its answer is lost with some statements run.                *)
CheckQueryResult ==
  /\ phase = "sent" /\ passed = 0
  /\ \/ ran = <<>> /\ \E k \in Kinds : ThrowsError("refused", k)
     \/ ThrowsError("lost", "Connection")

Answered(reads) ==
  /\ phase = "sent" /\ call.reads \in reads /\ Len(ran) = Statements(call)

Found == ran[1].rows

(* Mutant: of no rows, the first is null.                                  *)
FirstOrNull(rows) == IF rows = <<>> THEN <<None>> ELSE <<rows[1]>>

FirstOf(rows) == IF rows = <<>> THEN <<>> ELSE <<rows[1]>>

(* take(0) of the one statement finds its error.                           *)
TakeOneResult ==
  /\ Answered({"one", "optional", "first", "all", "iterator", "sync"}) /\ ran[1].error # None
  /\ ThrowsError("server", ran[1].error)

Taken(reads) == Answered(reads) /\ ran[1].error = None

(* The reader of a list of rows finds one.                                 *)
Listing(reads) == Taken(reads) /\ ran[1].list

(* return_unexpected_result! and its like: it does not.                    *)
NotAList ==
  /\ Taken({"one", "optional", "first", "all", "iterator", "sync"}) /\ ~ran[1].list
  /\ Throws("unexpected", "SurrealException")

ReadOne ==
  /\ Listing({"one"})
  /\ IF Len(Found) = 1 THEN Returns(Found) ELSE Throws("unexpected", "SurrealException")

(* An empty Optional for no row.                                           *)
ReadOptional ==
  /\ Listing({"optional"})
  /\ IF Len(Found) <= 1 THEN Returns(Found) ELSE Throws("unexpected", "SurrealException")

(* Mutant: a range is read like a single record.                           *)
ReadFirstOnly ==
  /\ Listing({"first"})
  /\ IF Len(Found) = 1 THEN Returns(Found) ELSE Throws("unexpected", "SurrealException")

(* The first row, or the value NONE: here no value.                        *)
ReadFirst ==
  /\ Listing({"first"})
  /\ Returns(FirstOf(Found))

ReadAll ==
  /\ Listing({"all"})
  /\ Returns(Found)

(* create() goes on behind statement n, whose row it has boxed if the      *)
(* answer was a list.                                                      *)
Passes(n) ==
  /\ passed' = n
  /\ boxes' = IF ran[n].list THEN Append(boxes, ran[n].rows[1]) ELSE boxes
  /\ UNCHANGED <<store, phase, call, ran, outcome>>

(* Mutant: at a statement that failed, what there is so far is returned.   *)
StopAtFailure ==
  LET n == passed + 1 IN
  /\ Answered({"each"}) /\ n <= Len(ran)
  /\ IF Len(ran[n].rows) # 1 THEN Returns(boxes) ELSE Passes(n)

(* Mutant: of several rows the first is taken.                             *)
ReadEachFirst ==
  LET n == passed + 1 IN
  /\ Answered({"each"}) /\ n <= Len(ran)
  /\ \/ ran[n].error # None /\ ThrowsError("server", ran[n].error)
     \/ /\ ran[n].error = None /\ ran[n].list /\ ran[n].rows = <<>>
        /\ Throws("unexpected", "SurrealException")
     \/ /\ ran[n].error = None /\ (ran[n].list => ran[n].rows # <<>>)
        /\ Passes(n)

(* One statement after the other: a list must have one row; an answer that *)
(* is no list is passed over, and nothing is boxed for it.                 *)
ReadEach ==
  LET n == passed + 1 IN
  /\ Answered({"each"}) /\ n <= Len(ran)
  /\ \/ ran[n].error # None /\ ThrowsError("server", ran[n].error)
     \/ /\ ran[n].error = None /\ ran[n].list /\ Len(ran[n].rows) # 1
        /\ Throws("unexpected", "SurrealException")
     \/ /\ ran[n].error = None /\ (ran[n].list => Len(ran[n].rows) = 1)
        /\ Passes(n)

ReadDone ==
  /\ Answered({"each"}) /\ passed = Len(ran)
  /\ Returns(boxes)

(* new_jlong_array! fails: the exception of the JVM stays.                 *)
NoArray ==
  /\ \/ Answered({"each"}) /\ passed = Len(ran)
     \/ Listing({"all"})
  /\ Throws("java", "Error")

(* delete(): nobody takes the result.                                      *)
ReadNothing ==
  /\ Answered({"nothing"})
  /\ Returns(<<>>)

(* An iterator or a Response takes over.                                   *)
ReadIterator ==
  /\ Listing({"iterator", "sync"})
  /\ Returns(<<>>)

ReadResponse ==
  /\ Answered({"response"})
  /\ Returns(<<>>)

Reading ==
  \/ BadArgument \/ CheckQueryResult \/ TakeOneResult \/ NotAList
  \/ ReadOne \/ ReadOptional \/ ReadFirst \/ ReadAll
  \/ ReadEach \/ ReadDone \/ NoArray \/ ReadNothing
=============================================================================
