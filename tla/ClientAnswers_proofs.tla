------------------------ MODULE ClientAnswers_proofs ------------------------
(* Theorems about what the operations of Client answer: the rows of the     *)
(* statements, what these rows say of the records, and the exceptions.      *)
EXTENDS Client_proofs

USE RecordsAssumption, ResultsAssumption
-----------------------------------------------------------------------------

(* How calls are read tells more about them.                                *)
LEMMA MoreShapes ==
  ASSUME NEW c \in Calls
  PROVE  /\ c.verb = "INSERT" => c.target = Table
         /\ c.reads = "each" => c.verb = "CREATE"
         /\ c.reads = "all" => c.verb \in {"SELECT", "INSERT"}
         /\ c.reads = "first" => c.verb \in {"UPDATE", "UPSERT"}
         /\ c.reads = "nothing" => c.verb = "DELETE"
<1>1. CASE c \in CreateRecord \cup CreateTarget
  BY <1>1 DEF CreateRecord, CreateTarget, Sends, SendsText
<1>2. CASE c \in Insert \cup InsertRelation \cup Relate
  BY <1>2 DEF Insert, InsertRelation, Relate, Sends
<1>3. CASE c \in SelectRecord \cup SelectRecords \cup SelectRange \cup SelectTargets
  BY <1>3 DEF SelectRecord, SelectRecords, SelectRange, SelectTargets, Sends, SendsText
<1>4. CASE c \in UpRecord \cup UpRange \cup UpTarget \cup UpTargetSync
  BY <1>4 DEF UpRecord, UpRange, UpTarget, UpTargetSync, Sends, SendsText
<1>5. CASE c \in DeleteRecord \cup DeleteRange \cup DeleteTarget \cup Query
  BY <1>5 DEF DeleteRecord, DeleteRange, DeleteTarget, Query, Sends
<1>6. QED
  BY <1>1, <1>2, <1>3, <1>4, <1>5 DEF Calls

(* What a target names, said as the properties say it.                      *)
LEMMA WantedIsNamed ==
  ASSUME NEW t \in Targets, NEW i \in Ids
  PROVE  Wanted(t, i) <=> i \in Named(t)
<1>1. CASE t \in Several
  <2>1. t.form = "records" /\ t # Table
    BY <1>1 DEF Several, Some, Table
  <2>2. QED
    BY <2>1 DEF Wanted, Named
<1>2. CASE t \in Ranges
  <2>1. PICK a, b \in Ids \cup {None} : t = Between(a, b)
    BY <1>2 DEF Ranges
  <2>2. t.form = "range" /\ t.ids = {} /\ t.from = a /\ t.to = b /\ t # Table
    BY <2>1 DEF Between, Table
  <2>3. a = None \/ a \in Nat
    OBVIOUS
  <2>4. b = None \/ b \in Nat
    OBVIOUS
  <2>5. i \in Nat
    OBVIOUS
  <2>6. a \in {None} \cup 0 .. i <=> a = None \/ a <= i
    BY <2>3, <2>5
  <2>7. b \in {None, i} \/ i < b <=> b = None \/ i <= b
    BY <2>4, <2>5
  <2>8. Named(t) = RangeValue(t)
    BY <2>2 DEF Named
  <2>9. QED
    BY <2>2, <2>6, <2>7, <2>8 DEF Wanted, RangeValue
<1>3. CASE t = Table
  BY <1>3 DEF Wanted, Table, Named
<1>4. QED
  BY <1>1, <1>2, <1>3 DEF Targets

(* The rows of the records S: one for each, in the order of their ids.      *)
RowsOf(r, s, S) ==
  /\ \A n \in DOMAIN r : r[n].id \in S /\ r[n].content = s[r[n].id]
  /\ \A i \in S : \E n \in DOMAIN r : r[n].id = i
  /\ \A j, k \in DOMAIN r : j < k => r[j].id < r[k].id

LEMMA ListedAll ==
  ASSUME NEW s \in Tables, NEW S \in SUBSET Present(s), NEW r \in Listed(s, S)
  PROVE  r \in Seq(Row) /\ RowsOf(r, s, S)
<1> DEFINE n == Cardinality(S)
<1>1. S \subseteq Ids /\ IsFiniteSet(S) /\ n \in Nat
  <2>1. S \in SUBSET Ids
    BY DEF Present
  <2>2. QED
    BY <2>1, FS_Subset, FS_CardinalityType
<1>2. PICK f \in [1 .. n -> S] :
        /\ r = [k \in 1 .. n |-> [id |-> f[k], content |-> s[f[k]]]]
        /\ \A j, k \in 1 .. n : j < k => f[j] < f[k]
  BY DEF Listed
<1>3. IsFiniteSet(1 .. n) /\ Cardinality(1 .. n) = n
  BY <1>1, FS_Interval
<1> HIDE DEF n
<1>4. \A j, k \in 1 .. n : f[j] = f[k] => j = k
  <2> SUFFICES ASSUME NEW j \in 1 .. n, NEW k \in 1 .. n, j # k
               PROVE  f[j] # f[k]
    OBVIOUS
  <2>1. f[j] \in Nat /\ f[k] \in Nat
    BY <1>1, <1>2
  <2>2. CASE j < k
    BY <1>2, <2>1, <2>2
  <2>3. CASE k < j
    BY <1>2, <2>1, <2>3
  <2>4. QED
    BY <1>1, <2>2, <2>3
<1>5. f \in Injection(1 .. n, S)
  BY <1>2, <1>4 DEF Injection, IsInjective
<1>6. f \in Surjection(1 .. n, S)
  <2>1. Cardinality(1 .. n) = Cardinality(S)
    BY <1>3 DEF n
  <2>2. QED
    BY <1>1, <1>5, <2>1, FS_Injection
<1>7. \A i \in S : \E k \in 1 .. n : f[k] = i
  BY <1>6 DEF Surjection
<1>8. r \in Seq(Row)
  BY ListedRows
<1>9. DOMAIN r = 1 .. n /\ \A k \in 1 .. n : r[k].id = f[k] /\ r[k].content = s[f[k]]
  BY <1>2
<1>10. QED
  BY <1>2, <1>7, <1>8, <1>9 DEF RowsOf
-----------------------------------------------------------------------------
(* What the rows of statement n of c say of the records.                    *)
Distinct(rows) == \A j, k \in DOMAIN rows : rows[j].id = rows[k].id => j = k

SelectedRows(c, d) ==
  /\ \A m \in DOMAIN d.rows :
       /\ d.rows[m].id \in Named(c.target) /\ d.before[d.rows[m].id] # None
       /\ d.rows[m].content = d.before[d.rows[m].id]
  /\ \A i \in Named(c.target) : d.before[i] # None => \E m \in DOMAIN d.rows : d.rows[m].id = i
  /\ Distinct(d.rows)

WrittenRows(w, d) ==
  /\ \A m \in DOMAIN d.rows : d.rows[m].id \in d.wrote /\ d.rows[m].content = w
  /\ \A i \in d.wrote : d.after[i] = w /\ \E m \in DOMAIN d.rows : d.rows[m].id = i
  /\ \A j, k \in DOMAIN d.rows : j < k => d.rows[j].id < d.rows[k].id

InsertedRows(w, d) ==
  /\ Len(d.rows) = Len(w)
  /\ \A m \in DOMAIN d.rows : d.rows[m].content = w[m]
  /\ d.wrote = {d.rows[m].id : m \in DOMAIN d.rows}
  /\ Distinct(d.rows)

Emptied(t, d) == d.after = [i \in Ids |-> IF i \in Named(t) THEN None ELSE d.before[i]]

Faithful(c, n, d) ==
  /\ c.verb = "SELECT" => SelectedRows(c, d)
  /\ c.verb \in {"UPDATE", "UPSERT"} => WrittenRows(c.contents[1], d)
  /\ c.verb \in {"CREATE", "RELATE"} => WrittenRows(c.contents[n], d)
  /\ c.verb = "INSERT" => InsertedRows(c.contents, d)
  /\ c.verb = "DELETE" => Emptied(c.target, d)
  /\ c.only => Alone(c, d)

(* A statement that writes the records S answers with them, as they are now. *)
LEMMA WritesFaithful ==
  ASSUME NEW s \in Tables, NEW S \in SUBSET Ids, NEW w \in Contents, NEW d \in Writes(s, S, w)
  PROVE  WrittenRows(w, d)
<1>1. Write(s, S, w) \in Tables /\ S \in SUBSET Present(Write(s, S, w))
  BY Writing
<1>2. PICK r \in Listed(Write(s, S, w), S) : d = Did(Write(s, S, w), s, S, r)
  BY DEF Writes
<1>3. d.rows = r /\ d.wrote = S /\ d.after = Write(s, S, w)
  BY <1>2 DEF Did
<1>4. RowsOf(r, Write(s, S, w), S)
  BY <1>1, ListedAll
<1>5. \A i \in S : Write(s, S, w)[i] = w
  BY DEF Write
<1>6. QED
  BY <1>3, <1>4, <1>5 DEF WrittenRows, RowsOf

(* Each statement that succeeds is faithful; first, whatever it answers.    *)
LEMMA EffectFaithful ==
  ASSUME NEW c \in Calls, NEW n \in 1 .. Statements(c), NEW s \in Tables,
         NEW d \in Effects(c, n, s), c.only => Alone(c, d)
  PROVE  Faithful(c, n, d)
<1> DEFINE ids == Named(c.target)
           new == Ids \ Present(s)
<1>1. ids \subseteq Ids
  BY Shapes, NamedIds
<1>2. CASE c.verb = "SELECT"
  <2>1. PICK r \in Listed(s, ids \cap Present(s)) : d = Did(s, s, {}, r)
    BY <1>2 DEF Effects
  <2>2. d.rows = r /\ d.before = s
    BY <2>1 DEF Did
  <2>3. /\ r \in Seq(Row)
        /\ \A m \in DOMAIN r : r[m].id \in ids \cap Present(s) /\ r[m].content = s[r[m].id]
        /\ \A i \in ids \cap Present(s) : \E m \in DOMAIN r : r[m].id = i
        /\ \A j, k \in DOMAIN r : j < k => r[j].id < r[k].id
    BY ListedAll DEF RowsOf
  <2>4. \A i \in ids : s[i] # None <=> i \in Present(s)
    BY <1>1 DEF Present
  <2>5. Distinct(r)
    <3> SUFFICES ASSUME NEW j \in DOMAIN r, NEW k \in DOMAIN r, r[j].id = r[k].id
                 PROVE  j = k
      BY DEF Distinct
    <3>1. j \in Nat /\ k \in Nat
      BY <2>3
    <3>2. r[j].id \in Nat /\ r[k].id \in Nat
      BY <1>1, <2>3
    <3>3. QED
      BY <2>3, <3>1, <3>2
  <2>6. SelectedRows(c, d)
    BY <2>2, <2>3, <2>4, <2>5 DEF SelectedRows
  <2>7. QED
    BY <1>2, <2>6 DEF Faithful
<1>3. CASE c.verb \in {"UPDATE", "UPSERT"}
  <2>1. c.contents[1] \in Contents
    BY <1>3, StatementsOf
  <2>2. \E S \in SUBSET Ids : d \in Writes(s, S, c.contents[1])
    <3>1. CASE c.verb = "UPDATE"
      <4>1. d \in Writes(s, ids \cap Present(s), c.contents[1])
        BY <3>1 DEF Effects
      <4>2. QED
        BY <1>1, <4>1
    <3>2. CASE c.verb = "UPSERT"
      <4>1. \E S \in IF c.target.form = "records" THEN {ids} ELSE SUBSET ids :
              d \in Writes(s, S, c.contents[1])
        BY <3>2 DEF Effects
      <4>2. QED
        BY <1>1, <4>1
    <3>3. QED
      BY <1>3, <3>1, <3>2
  <2>3. WrittenRows(c.contents[1], d)
    BY <2>1, <2>2, WritesFaithful
  <2>4. QED
    BY <1>3, <2>3 DEF Faithful
<1>4. CASE c.verb \in {"CREATE", "RELATE"}
  <2>1. c.contents[n] \in Contents
    BY <1>4, StatementsOf
  <2>2. \E S \in IF c.target = Table THEN {{i} : i \in new} ELSE {ids} \cap SUBSET new :
          d \in Writes(s, S, c.contents[n])
    BY <1>4 DEF Effects
  <2>3. \E S \in SUBSET Ids : d \in Writes(s, S, c.contents[n])
    BY <2>2
  <2>4. WrittenRows(c.contents[n], d)
    BY <2>1, <2>3, WritesFaithful
  <2>5. QED
    BY <1>4, <2>4 DEF Faithful
<1>5. CASE c.verb = "INSERT"
  <2> DEFINE w == c.contents
  <2>1. PICK f \in [DOMAIN w -> new] :
          /\ d = Did([i \in Ids |-> IF \E k \in DOMAIN f : f[k] = i
                                    THEN w[CHOOSE k \in DOMAIN f : f[k] = i] ELSE s[i]],
                     s, {f[k] : k \in DOMAIN f},
                     [k \in DOMAIN f |-> [id |-> f[k], content |-> w[k]]])
          /\ \A j, k \in DOMAIN f : f[j] = f[k] => j = k
    BY <1>5 DEF Effects
  <2>2. w \in Seq(Contents) /\ Len(w) \in Nat /\ DOMAIN w = 1 .. Len(w)
    BY Shapes
  <2>3. d.rows = [k \in DOMAIN w |-> [id |-> f[k], content |-> w[k]]] /\ d.wrote = {f[k] : k \in DOMAIN w}
    BY <2>1 DEF Did
  <2>4. d.rows \in Seq(Row) /\ DOMAIN d.rows = 1 .. Len(d.rows)
    BY EffectDeeds, LenProperties DEF Deeds
  <2>5. Len(d.rows) = Len(w)
    BY <2>2, <2>3, <2>4
  <2>6. InsertedRows(w, d)
    <3>1. DOMAIN d.rows = DOMAIN w /\ \A m \in DOMAIN w : d.rows[m].id = f[m] /\ d.rows[m].content = w[m]
      BY <2>3
    <3>2. d.wrote = {d.rows[m].id : m \in DOMAIN d.rows}
      BY <2>3, <3>1
    <3>3. \A j, k \in DOMAIN w : f[j] = f[k] => j = k
      BY <2>1
    <3>4. QED
      BY <2>5, <3>1, <3>2, <3>3 DEF InsertedRows, Distinct
  <2>7. QED
    BY <1>5, <2>6 DEF Faithful
<1>6. CASE c.verb = "DELETE"
  <2>1. d = Did(Write(s, ids, None), s, ids \cap Present(s), <<>>)
    BY <1>6 DEF Effects
  <2>2. Emptied(c.target, d)
    BY <2>1 DEF Emptied, Did, Write
  <2>3. QED
    BY <1>6, <2>2 DEF Faithful
<1>7. QED
  BY <1>2, <1>3, <1>4, <1>5, <1>6, Shapes
LEMMA SuccessFaithful ==
  ASSUME NEW c \in Calls, NEW n \in 1 .. Statements(c), NEW s \in Tables,
         NEW d \in Succeeds(c, n, s)
  PROVE  Faithful(c, n, d)
<1>1. CASE c.only
  <2>1. PICK e \in Effects(c, n, s) : Alone(c, e) /\ d = [e EXCEPT !.list = FALSE]
    BY <1>1 DEF Succeeds
  <2>2. Faithful(c, n, e) /\ e \in Deeds
    BY <2>1, EffectFaithful, EffectDeeds
  <2>3. /\ d.before = e.before /\ d.after = e.after /\ d.wrote = e.wrote /\ d.rows = e.rows
    BY <2>1, <2>2 DEF Deeds
  <2>4. QED
    BY <2>2, <2>3 DEF Faithful, SelectedRows, WrittenRows, InsertedRows, Emptied, Alone
<1>2. CASE ~c.only
  <2>1. d \in Effects(c, n, s)
    BY <1>2 DEF Succeeds
  <2>2. QED
    BY <1>2, <2>1, EffectFaithful
<1>3. QED
  BY <1>1, <1>2
-----------------------------------------------------------------------------
(* Every statement that succeeded was faithful; and a call that has         *)
(* returned has read all the rows there are, in the way it reads.           *)
RanFaithfully == \A n \in DOMAIN ran : ran[n].error = None => Faithful(call, n, ran[n])

HasRead ==
  /\ Len(ran) = Statements(call)
  /\ call.reads \in {"one", "optional", "all"} => outcome.values = ran[1].rows
  /\ call.reads = "one" => Len(outcome.values) = 1
  /\ call.reads = "each" => outcome.values = boxes /\ passed = Len(ran)
  /\ call.reads = "first" => outcome.values = FirstOf(ran[1].rows)

Complete ==
  phase = "done" /\ outcome.returned =>
    /\ HasRead
    /\ call.reads \in {"iterator", "sync"} => handed \o rest = ran[1].rows

AnswerInv == ReadInv /\ RanFaithfully /\ Complete

(* Running one more statement.                                              *)
LEMMA ExecuteFaithfully ==
  ASSUME ReadInv, RanFaithfully, Execute
  PROVE  RanFaithfully'
<1>1. RecordsOK /\ ran \in Seq(Deeds) /\ store \in Tables
  BY DEF ReadInv, CallInv, RecordsOK
<1>2. call \in Calls /\ Len(ran) + 1 \in 1 .. Statements(call)
  BY <1>1, ExecuteStep
<1>3. PICK d \in Succeeds(call, Len(ran) + 1, store) \cup {Fails(k, store) : k \in Kinds} :
        ran' = Append(ran, d)
  BY DEF Execute
<1>4. d.error = None => Faithful(call, Len(ran) + 1, d)
  <2>1. CASE d \in Succeeds(call, Len(ran) + 1, store)
    BY <1>1, <1>2, <2>1, SuccessFaithful
  <2>2. CASE \E k \in Kinds : d = Fails(k, store)
    BY <1>1, <2>2, FailureDeeds
  <2>3. QED
    BY <1>3, <2>1, <2>2
<1>5. d \in Deeds
  <2>1. CASE d \in Succeeds(call, Len(ran) + 1, store)
    BY <1>1, <1>2, <2>1, SuccessDeeds
  <2>2. CASE \E k \in Kinds : d = Fails(k, store)
    BY <1>1, <2>2, FailureDeeds
  <2>3. QED
    BY <1>3, <2>1, <2>2
<1>6. /\ Len(ran) \in Nat /\ DOMAIN ran = 1 .. Len(ran) /\ DOMAIN ran' = 1 .. Len(ran) + 1
      /\ \A n \in 1 .. Len(ran) : ran'[n] = ran[n]
      /\ ran'[Len(ran) + 1] = d
  BY <1>1, <1>3, <1>5, AppendProperties, LenProperties
<1>7. call' = call
  BY DEF Execute, client
<1>8. ASSUME NEW n \in DOMAIN ran', ran'[n].error = None
      PROVE  Faithful(call, n, ran'[n])
  <2>1. CASE n \in 1 .. Len(ran)
    BY <1>6, <1>8, <2>1 DEF RanFaithfully
  <2>2. CASE n = Len(ran) + 1
    BY <1>4, <1>6, <1>8, <2>2
  <2>3. QED
    BY <1>6, <2>1, <2>2
<1>9. QED
  BY <1>7, <1>8 DEF RanFaithfully

(* Every step keeps what was run faithful.                                  *)
LEMMA FaithfulNext ==
  ASSUME ReadInv, RanFaithfully, ClientNext
  PROVE  RanFaithfully'
<1>1. RecordsOK /\ BoxesRead
  BY DEF ReadInv, CallInv
<1>2. CASE \E c \in Calls : Call(c)
  <2>1. phase = "idle" /\ ran' = ran
    BY <1>2 DEF Call
  <2>2. ran' = <<>>
    BY <1>1, <2>1, IdleIsEmpty
  <2>3. QED
    BY <2>2 DEF RanFaithfully
<1>3. CASE Execute
  BY <1>3, ExecuteFaithfully
<1>4. CASE UNCHANGED <<call, ran>>
  BY <1>4 DEF RanFaithfully
<1>5. CASE Forget
  <2>1. ran' = <<>>
    BY <1>5 DEF Forget
  <2>2. QED
    BY <2>1 DEF RanFaithfully
<1>6. Others => UNCHANGED <<call, ran>>
  BY DEF Others, client
<1>7. Reading => UNCHANGED <<call, ran>>
  BY <1>1, ReadingStep
<1>8. Open => UNCHANGED <<call, ran>>
  BY <1>1, OpenStep
<1>9. UNCHANGED records => UNCHANGED <<call, ran>>
  BY DEF records, client
<1>10. QED
  BY <1>2, <1>3, <1>4, <1>5, <1>6, <1>7, <1>8, <1>9 DEF ClientNext

(* What a call that returns does with its values.                           *)
LEMMA ReturnsValues ==
  ASSUME NEW v, Returns(v)
  PROVE  outcome'.values = v /\ UNCHANGED <<call, ran, passed, boxes>>
BY DEF Returns, Pending

(* Where reading ends with a return, everything has been read.              *)
LEMMA ReadingHasRead ==
  ASSUME RecordsOK, Reading, outcome'.returned, phase' = "done"
  PROVE  HasRead'
<1>1. phase = "sent" /\ call \in Calls
  <2>1. phase = "sent"
    BY DEF Reading, BadArgument, CheckQueryResult, TakeOneResult, ReadOne, ReadOptional, ReadFirst,
           ReadAll, ReadEach, ReadDone, NoArray, ReadNothing, NotAList, Listing, Taken, Answered
  <2>2. QED
    BY <2>1, CallMade
<1>2. ASSUME NEW reads, Listing(reads)
      PROVE  call.reads \in reads /\ Len(ran) = Statements(call)
  BY <1>2 DEF Listing, Taken, Answered
<1>3. CASE ReadOne
  <2>1. CASE Len(Found) = 1 /\ Returns(Found)
    BY <1>2, <1>3, <2>1, ReturnsValues DEF ReadOne, HasRead, Found
  <2>2. CASE Throws("unexpected", "SurrealException")
    BY <2>2, ThrowsEnds
  <2>3. QED
    BY <1>3, <2>1, <2>2 DEF ReadOne
<1>4. CASE ReadOptional
  <2>1. CASE Returns(Found)
    BY <1>2, <1>4, <2>1, ReturnsValues DEF ReadOptional, HasRead, Found
  <2>2. CASE Throws("unexpected", "SurrealException")
    BY <2>2, ThrowsEnds
  <2>3. QED
    BY <1>4, <2>1, <2>2 DEF ReadOptional
<1>5. CASE ReadFirst
  BY <1>2, <1>5, ReturnsValues DEF ReadFirst, HasRead, Found, FirstOf
<1>6. CASE ReadAll
  BY <1>2, <1>6, ReturnsValues DEF ReadAll, HasRead, Found
<1>7. CASE ReadDone
  BY <1>7, ReturnsValues DEF ReadDone, Answered, HasRead
<1>8. CASE ReadNothing
  BY <1>8, ReturnsValues DEF ReadNothing, Answered, HasRead
<1>9. BadArgument => FALSE
  BY ThrowsEnds DEF BadArgument
<1>10. CheckQueryResult => FALSE
  BY ThrowsErrorEnds DEF CheckQueryResult
<1>11. TakeOneResult => FALSE
  BY ThrowsErrorEnds DEF TakeOneResult
<1>12. NoArray \/ NotAList => FALSE
  BY ThrowsEnds DEF NoArray, NotAList
<1>13. ReadEach => FALSE
  <2>1. ASSUME ReadEach
        PROVE  phase' = phase \/ outcome'.returned = FALSE
    BY <2>1, ThrowsEnds, ThrowsErrorEnds DEF ReadEach, Passes
  <2>2. QED
    BY <1>1, <2>1
<1>14. QED
  BY <1>3, <1>4, <1>5, <1>6, <1>7, <1>8, <1>9, <1>10, <1>11, <1>12, <1>13 DEF Reading

(* An iterator moves rows from what is left to what was handed out.         *)
LEMMA ConsumeSource ==
  ASSUME ReadInv, NEW c \in Consumers, Consume(c)
  PROVE  handed' \o rest' = handed \o rest
<1>1. CASE NextGives(c)
  <2>1. rest # <<>> /\ handed' = Append(handed, Head(rest)) /\ rest' = Tail(rest)
    BY <1>1 DEF NextGives
  <2>2. rest \in Seq(Row) /\ handed \in Seq(Row)
    BY DEF ReadInv, ReadingOK
  <2>3. QED
    BY <2>1, <2>2, MoveHead
<1>2. CASE HasNext(c) \/ NextThrows(c) \/ StopTaking(c) \/ \E n \in 1 .. Len(results) + 1 : Take(c, n)
  BY <1>2 DEF HasNext, NextThrows, StopTaking, Take, iterator
<1>3. QED
  BY <1>1, <1>2 DEF Consume

(* Every step keeps what was read complete.                                 *)
LEMMA CompleteNext ==
  ASSUME ReadInv, Complete, ClientNext
  PROVE  Complete'
<1>1. RecordsOK /\ BoxesRead
  BY DEF ReadInv, CallInv
<1>2. CASE (\E c \in Calls : Call(c)) \/ Execute \/ Others \/ Forget
  <2>1. phase' # "done"
    BY <1>2 DEF Call, Execute, Others, Forget, client
  <2>2. QED
    BY <2>1 DEF Complete
<1>3. CASE Reading
  <2>1. ASSUME phase' = "done", outcome'.returned
        PROVE  HasRead' /\ call'.reads \notin {"iterator", "sync"}
    <3>1. HasRead'
      BY <1>1, <1>3, <2>1, ReadingHasRead
    <3>2. call.reads \notin {"iterator", "sync"}
      <4>1. ASSUME NEW reads, call.reads \in {"iterator", "sync"}
            PROVE  Answered(reads) => reads \cap {"iterator", "sync"} # {}
        BY <4>1 DEF Answered
      <4>2. BadArgument \/ CheckQueryResult \/ TakeOneResult \/ NoArray \/ NotAList =>
              outcome'.returned = FALSE
        BY ThrowsEnds, ThrowsErrorEnds DEF BadArgument, CheckQueryResult, TakeOneResult, NoArray, NotAList
      <4>3. ReadOne \/ ReadOptional \/ ReadFirst \/ ReadAll \/ ReadEach \/ ReadDone \/ ReadNothing
        BY <1>3, <2>1, <4>2 DEF Reading
      <4>4. QED
        BY <4>3 DEF ReadOne, ReadOptional, ReadFirst, ReadAll, ReadEach, ReadDone, ReadNothing,
                    Listing, Taken, Answered
    <3>3. call' = call
      BY <1>1, <1>3, ReadingStep
    <3>4. QED
      BY <3>1, <3>2, <3>3
  <2>2. QED
    BY <2>1 DEF Complete
<1>4. CASE Open
  <2>1. /\ UNCHANGED <<call, ran, passed, boxes>> /\ call \in Calls
        /\ call.reads \in {"iterator", "sync"} => Len(ran) = 1 /\ Found \in Seq(Row)
    BY <1>1, <1>4, OpenStep, CallMade
  <2>2. Len(ran) = Statements(call) /\ call.reads \in {"iterator", "sync", "response"}
    BY <1>4 DEF Open, ReadIterator, ReadResponse, Listing, Taken, Answered
  <2>3. HasRead'
    BY <2>1, <2>2 DEF HasRead
  <2>4. ASSUME call.reads \in {"iterator", "sync"}
        PROVE  handed' \o rest' = ran[1].rows
    <3>1. handed' = <<>> /\ rest' = Found
      BY <1>4, <2>4 DEF Open, ReadResponse, Answered, NewIterator, NewSyncIterator
    <3>2. <<>> \o Found = Found
      BY <2>1, <2>4, ConcatEmptySeq
    <3>3. QED
      BY <3>1, <3>2 DEF Found
  <2>5. QED
    BY <2>1, <2>3, <2>4 DEF Complete
<1>5. CASE \E c \in Consumers : Consume(c) /\ UNCHANGED records
  <2>1. UNCHANGED <<phase, call, ran, passed, boxes, outcome>> /\ handed' \o rest' = handed \o rest
    BY <1>5, ConsumeSource DEF records, client
  <2>2. QED
    BY <2>1 DEF Complete, HasRead
<1>6. QED
  BY <1>2, <1>3, <1>4, <1>5 DEF ClientNext

(* AnswerInv holds in every reachable state.                                *)
LEMMA AnswerInvariant ==
  Spec => []AnswerInv
<1>1. ClientInit => RanFaithfully /\ Complete
  BY DEF ClientInit, Init, RanFaithfully, Complete
<1>2. ReadInv /\ RanFaithfully /\ Complete /\ [ClientNext]_vars => RanFaithfully' /\ Complete'
  <2>1. ASSUME RanFaithfully, Complete, UNCHANGED vars
        PROVE  RanFaithfully' /\ Complete'
    BY <2>1 DEF RanFaithfully, Complete, HasRead, vars, records, client, reading, iterator
  <2>2. QED
    BY <2>1, FaithfulNext, CompleteNext
<1>3. QED
  BY <1>1, <1>2, ReadInvariant, PTL DEF Spec, AnswerInv
-----------------------------------------------------------------------------
(* Only delete() and query() return although a statement has failed.        *)
LEMMA NoFailure ==
  ASSUME AnswerInv, phase = "done", outcome.returned, call \in Calls,
         call.reads # "nothing", call.reads # "response"
  PROVE  \A n \in DOMAIN ran : ran[n].error = None
<1>1. call.reads \in {"one", "optional", "first", "all", "each", "iterator", "sync"}
  BY Shapes
<1>2. QED
  BY <1>1 DEF AnswerInv, ReadInv, CallInv, FirstFailureThrown, Returned

(* The statements of a call that returns have succeeded, faithfully.        *)
LEMMA RanWell ==
  ASSUME AnswerInv, phase = "done", outcome.returned, call.reads # "nothing", call.reads # "response"
  PROVE  /\ call \in Calls /\ HasRead
         /\ Len(ran) = Statements(call) /\ DOMAIN ran = 1 .. Len(ran) /\ ran \in Seq(Deeds)
         /\ \A n \in DOMAIN ran : Faithful(call, n, ran[n])
         /\ call.reads # "each" => Len(ran) = 1 /\ 1 \in DOMAIN ran
<1>1. RecordsOK /\ FirstFailureThrown /\ RanFaithfully /\ HasRead
  BY DEF AnswerInv, ReadInv, CallInv, Complete
<1>2. call \in Calls /\ ran \in Seq(Deeds)
  BY <1>1, CallMade DEF RecordsOK
<1>3. DOMAIN ran = 1 .. Len(ran) /\ Len(ran) = Statements(call)
  BY <1>1, <1>2, LenProperties DEF HasRead
<1>4. \A n \in DOMAIN ran : ran[n].error = None
  BY <1>2, NoFailure
<1>5. call.reads # "each" => Len(ran) = 1
  BY <1>2, <1>3, StatementsOf
<1>6. QED
  BY <1>1, <1>2, <1>3, <1>4, <1>5 DEF RanFaithfully

(* A delete() that returns has emptied its target, if its statement has not *)
(* failed, and nothing else.                                                *)
THEOREM Deletes ==
  Spec => []DeletesUnlessFailed
<1>1. ASSUME AnswerInv
      PROVE  DeletesUnlessFailed
  <2> SUFFICES ASSUME Returned({"nothing"})
               PROVE  /\ Len(ran) = 1
                      /\ \/ ran[1].error # None /\ ran[1].after = ran[1].before
                         \/ ran[1].after = [i \in Ids |-> IF Wanted(call.target, i) THEN None
                                                          ELSE ran[1].before[i]]
    BY DEF DeletesUnlessFailed
  <2>1. phase = "done" /\ outcome.returned /\ call.reads = "nothing"
    BY DEF Returned
  <2>2. RecordsOK /\ RanHonestly /\ RanFaithfully /\ HasRead
    BY <1>1, <2>1 DEF AnswerInv, ReadInv, CallInv, Complete
  <2>3. call \in Calls /\ ran \in Seq(Deeds)
    BY <2>1, <2>2, CallMade DEF RecordsOK
  <2>4. Len(ran) = 1 /\ 1 \in DOMAIN ran
    BY <2>1, <2>2, <2>3, StatementsOf, LenProperties DEF HasRead
  <2>5. CASE ran[1].error # None
    BY <2>2, <2>4, <2>5 DEF RanHonestly, Honest
  <2>6. CASE ran[1].error = None
    <3>1. Faithful(call, 1, ran[1]) /\ call.verb = "DELETE"
      BY <2>1, <2>2, <2>3, <2>4, <2>6, MoreShapes DEF RanFaithfully
    <3>2. ran[1].after = [i \in Ids |-> IF i \in Named(call.target) THEN None ELSE ran[1].before[i]]
      BY <3>1 DEF Faithful, Emptied
    <3>3. call.target \in Targets
      BY <2>3, Shapes
    <3>4. \A i \in Ids : i \in Named(call.target) <=> Wanted(call.target, i)
      BY <3>3, WantedIsNamed
    <3>5. QED
      BY <2>4, <3>2, <3>4
  <2>7. QED
    BY <2>4, <2>5, <2>6
<1>2. QED
  BY <1>1, AnswerInvariant, PTL

(* A consumer of an iterator is idle only when the rows have run out.       *)
Exhausted ==
  Iterating =>
    /\ outcome.returned /\ call.reads \in {"iterator", "sync"}
    /\ \A c \in Consumers :
         /\ at[c] # "take"
         /\ at[c] = "idle" /\ owner \in {c, Nobody} => rest = <<>>

LEMMA OpenExhausted ==
  ASSUME Open
  PROVE  Exhausted'
<1>1. CASE ReadIterator /\ call.reads = "sync" /\ NewSyncIterator(Found)
  <2>1. outcome'.returned /\ call' = call
    BY <1>1 DEF ReadIterator, Returns, Pending
  <2>2. \A c \in Consumers : at'[c] = "loop"
    BY <1>1 DEF NewSyncIterator
  <2>3. QED
    BY <1>1, <2>1, <2>2 DEF Exhausted
<1>2. ASSUME ReadIterator, call.reads = "iterator", NEW c \in Consumers, NewIterator(c, Found)
      PROVE  Exhausted'
  <2>1. outcome'.returned /\ call' = call
    BY <1>2 DEF ReadIterator, Returns, Pending
  <2>2. owner' = c /\ \A d \in Consumers : at'[d] = IF d = c THEN "loop" ELSE "idle"
    BY <1>2 DEF NewIterator, Idle
  <2>3. QED
    BY <1>2, <2>1, <2>2, ResultsAssumption DEF Exhausted
<1>3. CASE ReadResponse
  <2>1. \E rs : NewResponse(rs)
    BY <1>3 DEF Open, ReadIterator, ReadResponse, Listing, Taken, Answered
  <2>2. QED
    BY <2>1 DEF NewResponse, Exhausted, Iterating
<1>4. QED
  BY <1>1, <1>2, <1>3 DEF Open

LEMMA ConsumeExhausted ==
  ASSUME ReadingOK, Exhausted, UNCHANGED records, NEW c \in Consumers, Consume(c)
  PROVE  Exhausted'
<1>1. UNCHANGED <<mode, owner, call, outcome>>
  BY DEF Consume, HasNext, NextGives, NextThrows, Take, StopTaking, records, client
<1> SUFFICES ASSUME Iterating
             PROVE  \A d \in Consumers :
                      /\ at'[d] # "take"
                      /\ at'[d] = "idle" /\ owner \in {d, Nobody} => rest' = <<>>
  BY <1>1 DEF Exhausted, Iterating
<1>2. \A d \in Consumers :
        at[d] # "take" /\ (at[d] = "idle" /\ owner \in {d, Nobody} => rest = <<>>)
  BY DEF Exhausted
<1>3. at \in [Consumers -> {"idle", "loop", "next", "take"}] /\ rest \in Seq(Row)
  BY DEF ReadingOK
<1>4. CASE HasNext(c)
  <2>1. rest' = rest /\ at' = [at EXCEPT ![c] = IF Len(rest) > 0 THEN "next" ELSE "idle"]
    BY <1>4 DEF HasNext, Goes
  <2>2. Len(rest) > 0 \/ rest = <<>>
    BY <1>3, LenProperties, EmptySeq
  <2>3. QED
    BY <1>2, <1>3, <2>1, <2>2
<1>5. CASE NextGives(c)
  <2>1. rest # <<>> /\ at' = [at EXCEPT ![c] = "loop"]
    BY <1>5 DEF NextGives, Goes
  <2>2. QED
    BY <1>2, <1>3, <2>1
<1>6. CASE NextThrows(c)
  BY <1>2, <1>3, <1>6 DEF NextThrows, Goes
<1>7. CASE StopTaking(c)
  BY <1>2, <1>7 DEF StopTaking
<1>8. CASE \E n \in 1 .. Len(results) + 1 : Take(c, n)
  BY <1>2, <1>8 DEF Take, iterator
<1>9. QED
  BY <1>4, <1>5, <1>6, <1>7, <1>8 DEF Consume

(* Whoever comes to the end of an iterator leaves nothing behind.           *)
THEOREM LeftOver ==
  Spec => []NothingLeftOver
<1>1. ClientInit => Exhausted
  BY DEF ClientInit, ResultsInit, Exhausted, Iterating
<1>2. ReadInv /\ Exhausted /\ [ClientNext]_vars => Exhausted'
  <2>1. CASE UNCHANGED vars
    BY <2>1 DEF Exhausted, Iterating, vars, records, client, reading, iterator
  <2>2. ASSUME ReadInv, Exhausted, ClientNext
        PROVE  Exhausted'
    <3>1. CASE ((\E c \in Calls : Call(c)) \/ Execute \/ Others \/ Reading) /\ UNCHANGED reading
      <4>1. phase # "done"
        BY <3>1 DEF Call, Execute, Others, Reading, BadArgument, CheckQueryResult, TakeOneResult, ReadOne,
                    ReadOptional, ReadFirst, ReadAll, ReadEach, ReadDone, NoArray, ReadNothing,
                    NotAList, Listing, Taken, Answered
      <4>2. ~Iterating'
        BY <2>2, <3>1, <4>1 DEF ReadInv, Iterating, reading
      <4>3. QED
        BY <4>2 DEF Exhausted
    <3>2. CASE Open
      BY <3>2, OpenExhausted
    <3>3. CASE Forget /\ Drop
      BY <3>3 DEF Drop, Exhausted, Iterating
    <3>4. CASE \E c \in Consumers : Consume(c) /\ UNCHANGED records
      BY <2>2, <3>4, ConsumeExhausted DEF ReadInv
    <3>5. QED
      BY <2>2, <3>1, <3>2, <3>3, <3>4 DEF ClientNext
  <2>3. QED
    BY <2>1, <2>2
<1>3. AnswerInv /\ Exhausted => NothingLeftOver
  <2> SUFFICES ASSUME AnswerInv, Exhausted, Iterating,
                      NEW c \in Consumers, at[c] = "idle", owner \in {c, Nobody}
               PROVE  handed = ran[1].rows
    BY DEF NothingLeftOver
  <2>1. rest = <<>> /\ outcome.returned /\ call.reads \in {"iterator", "sync"}
    BY DEF Exhausted
  <2>2. phase = "done" /\ handed \in Seq(Row)
    BY DEF AnswerInv, ReadInv, ReadingOK, Iterating
  <2>3. handed \o <<>> = ran[1].rows
    BY <2>1, <2>2 DEF AnswerInv, Complete
  <2>4. QED
    BY <2>2, <2>3, ConcatEmptySeq
<1>4. QED
  BY <1>1, <1>2, <1>3, ReadInvariant, AnswerInvariant, PTL DEF Spec

(* What create(), insert(), relate(), update() and upsert() return is what  *)
(* they have written; create() of a target with ONLY writes and returns     *)
(* nothing.                                                                 *)
THEOREM AnswersTrue ==
  Spec => []AnswerIsWhatWasDone
<1>1. ASSUME AnswerInv
      PROVE  AnswerIsWhatWasDone
  <2> DEFINE values == outcome.values
  <2>1. ASSUME Returned({"one", "each", "all"}), call.verb # "SELECT", ~call.only
        PROVE  /\ Len(values) = Len(call.contents)
               /\ \A n \in DOMAIN values : values[n].content = call.contents[n]
               /\ IF call.reads = "each"
                  THEN \A n \in DOMAIN values : ran[n].wrote = {values[n].id}
                  ELSE /\ ran[1].wrote = {values[n].id : n \in DOMAIN values}
                       /\ \A j, k \in DOMAIN values : values[j].id = values[k].id => j = k
    <3>1. phase = "done" /\ outcome.returned /\ call.reads \in {"one", "each", "all"}
      BY <2>1 DEF Returned
    <3>2. /\ call \in Calls /\ HasRead
          /\ Len(ran) = Statements(call) /\ DOMAIN ran = 1 .. Len(ran) /\ ran \in Seq(Deeds)
          /\ \A n \in DOMAIN ran : Faithful(call, n, ran[n])
          /\ call.reads # "each" => Len(ran) = 1 /\ 1 \in DOMAIN ran
      BY <1>1, <3>1, RanWell
    <3>3. call.contents \in Seq(Contents) /\ Len(call.contents) \in Nat
      BY <3>2, Shapes
    <3>4. CASE call.reads = "one"
      <4>1. Faithful(call, 1, ran[1]) /\ values = ran[1].rows /\ Len(values) = 1
        BY <3>2, <3>4 DEF HasRead
      <4>2. call.contents \in Singles /\ call.verb \in {"CREATE", "INSERT", "RELATE", "UPDATE", "UPSERT"}
        BY <3>2, <3>4, Shapes
      <4>3. Len(call.contents) = 1
        BY <4>2 DEF Singles
      <4>4. DOMAIN values = {1}
        <5>1. ran[1] \in Deeds
          BY <3>2, <3>4, ElementOfSeq
        <5>2. values \in Seq(Row)
          BY <4>1, <5>1 DEF Deeds
        <5>3. QED
          BY <4>1, <5>2
      <4>5. ran[1].wrote = {values[1].id} /\ values[1].content = call.contents[1]
        <5>1. CASE call.verb = "INSERT"
          BY <4>1, <4>4, <5>1 DEF Faithful, InsertedRows
        <5>2. CASE call.verb # "INSERT"
          <6>1. WrittenRows(call.contents[1], ran[1])
            BY <4>1, <4>2, <5>2 DEF Faithful
          <6>2. /\ values[1].id \in ran[1].wrote /\ values[1].content = call.contents[1]
                /\ \A i \in ran[1].wrote : values[1].id = i
            BY <4>1, <4>4, <6>1 DEF WrittenRows
          <6>3. QED
            BY <6>2
        <5>3. QED
          BY <5>1, <5>2
      <4>6. {values[n].id : n \in DOMAIN values} = {values[1].id}
        BY <4>4
      <4> HIDE DEF values
      <4>7. QED
        BY <3>4, <4>1, <4>3, <4>4, <4>5, <4>6
    <3>5. CASE call.reads = "all"
      <4>1. Faithful(call, 1, ran[1]) /\ values = ran[1].rows
        BY <3>2, <3>5 DEF HasRead
      <4>2. call.verb = "INSERT"
        BY <2>1, <3>2, <3>5, MoreShapes
      <4>3. InsertedRows(call.contents, ran[1])
        BY <4>1, <4>2 DEF Faithful
      <4>4. QED
        BY <3>5, <4>1, <4>3 DEF InsertedRows, Distinct
    <3>6. CASE call.reads = "each"
      <4>1. values = boxes /\ passed = Len(ran) /\ boxes \in Seq(Row)
        BY <1>1, <3>2, <3>6 DEF HasRead, AnswerInv, ReadInv, CallInv, RecordsOK
      <4>2. Statements(call) = Len(call.contents) /\ call.verb = "CREATE"
        BY <3>2, <3>6, MoreShapes DEF Statements
      <4>3. \A n \in DOMAIN ran : ran[n].list
        BY <1>1, <2>1, <3>1, <3>2, <3>6, NoFailure DEF AnswerInv, ReadInv, CallInv, RanHonestly, Honest
      <4>4. Len(boxes) = Len(ran) /\ \A n \in DOMAIN ran : ran[n].rows = <<boxes[n]>>
        BY <1>1, <3>2, <4>1, <4>3 DEF AnswerInv, ReadInv, CallInv, BoxesRead
      <4>5. DOMAIN boxes = DOMAIN ran
        BY <3>2, <4>1, <4>4, LenProperties
      <4>6. ASSUME NEW n \in DOMAIN boxes
            PROVE  boxes[n].content = call.contents[n] /\ ran[n].wrote = {boxes[n].id}
        <5>1. n \in DOMAIN ran /\ ran[n].rows = <<boxes[n]>>
          BY <4>4, <4>5
        <5>2. WrittenRows(call.contents[n], ran[n])
          BY <3>2, <4>2, <5>1 DEF Faithful
        <5>3. DOMAIN ran[n].rows = {1} /\ ran[n].rows[1] = boxes[n]
          BY <5>1
        <5>4. /\ boxes[n].id \in ran[n].wrote /\ boxes[n].content = call.contents[n]
              /\ \A i \in ran[n].wrote : boxes[n].id = i
          BY <5>2, <5>3 DEF WrittenRows
        <5>5. QED
          BY <5>4
      <4>7. QED
        BY <3>2, <3>6, <4>1, <4>2, <4>4, <4>6
    <3>7. QED
      BY <3>1, <3>4, <3>5, <3>6
  <2>4. ASSUME Returned({"each"}), call.only
        PROVE  /\ values = <<>> /\ Len(ran) = Len(call.contents)
               /\ \A n \in DOMAIN ran : \E i \in Ids :
                    ran[n].wrote = {i} /\ ran[n].after[i] = call.contents[n]
    <3>1. phase = "done" /\ outcome.returned /\ call.reads = "each"
      BY <2>4 DEF Returned
    <3>2. /\ call \in Calls /\ HasRead
          /\ Len(ran) = Statements(call) /\ DOMAIN ran = 1 .. Len(ran) /\ ran \in Seq(Deeds)
          /\ \A n \in DOMAIN ran : Faithful(call, n, ran[n])
      BY <1>1, <3>1, RanWell
    <3>3. values = boxes /\ passed = Len(ran)
      BY <3>1, <3>2 DEF HasRead
    <3>4. Statements(call) = Len(call.contents) /\ call.verb = "CREATE"
      BY <3>1, <3>2, MoreShapes DEF Statements
    <3>5. \A n \in DOMAIN ran : ~ran[n].list
      BY <1>1, <2>4, <3>1, <3>2, NoFailure DEF AnswerInv, ReadInv, CallInv, RanHonestly, Honest
    <3>6. boxes = <<>>
      BY <1>1, <3>2, <3>3, <3>5 DEF AnswerInv, ReadInv, CallInv, BoxesRead
    <3>7. ASSUME NEW n \in DOMAIN ran
          PROVE  \E i \in Ids : ran[n].wrote = {i} /\ ran[n].after[i] = call.contents[n]
      <4>1. WrittenRows(call.contents[n], ran[n]) /\ Len(ran[n].rows) = 1
        BY <2>4, <3>2, <3>4 DEF Faithful, Alone
      <4>2. ran[n] \in Deeds
        BY <3>2, ElementOfSeq
      <4>3. ran[n].rows \in Seq(Row) /\ ran[n].wrote \subseteq Ids
        BY <4>2 DEF Deeds
      <4>4. DOMAIN ran[n].rows = {1}
        BY <4>1, <4>3
      <4> DEFINE i == ran[n].rows[1].id
      <4>5. i \in ran[n].wrote /\ (\A k \in ran[n].wrote : i = k) /\ ran[n].after[i] = call.contents[n]
        BY <4>1, <4>4 DEF WrittenRows
      <4>6. ran[n].wrote = {i} /\ i \in Ids
        BY <4>3, <4>5
      <4>7. QED
        BY <4>5, <4>6
    <3>8. QED
      BY <3>2, <3>3, <3>4, <3>6, <3>7
  <2>2. ASSUME Returned({"first"})
        PROVE  IF ran[1].wrote = {} THEN outcome.values = <<>>
               ELSE /\ Len(outcome.values) = 1
                    /\ outcome.values[1].id \in ran[1].wrote
                    /\ \A i \in ran[1].wrote : outcome.values[1].id <= i
    <3>1. phase = "done" /\ outcome.returned /\ call.reads = "first"
      BY <2>2 DEF Returned
    <3>2. /\ call \in Calls /\ outcome.values = FirstOf(ran[1].rows) /\ ran \in Seq(Deeds)
          /\ Faithful(call, 1, ran[1]) /\ Len(ran) = 1
      BY <1>1, <3>1, RanWell DEF HasRead
    <3>3. WrittenRows(call.contents[1], ran[1])
      BY <3>1, <3>2, MoreShapes DEF Faithful
    <3>4. ran[1] \in Deeds
      BY <3>2, ElementOfSeq
    <3> DEFINE rows == ran[1].rows
               wrote == ran[1].wrote
    <3>5. rows \in Seq(Row) /\ wrote \subseteq Ids /\ Len(rows) \in Nat /\ DOMAIN rows = 1 .. Len(rows)
      BY <3>4, LenProperties DEF Deeds
    <3> HIDE DEF rows, wrote
    <3>6. /\ \A m \in DOMAIN rows : rows[m].id \in wrote
          /\ \A i \in wrote : \E m \in DOMAIN rows : rows[m].id = i
          /\ \A j, k \in DOMAIN rows : j < k => rows[j].id < rows[k].id
      BY <3>3 DEF WrittenRows, rows, wrote
    <3>7. CASE wrote = {}
      <4>1. Len(rows) = 0
        BY <3>5, <3>6, <3>7
      <4>2. rows = <<>>
        BY <3>5, <4>1, EmptySeq
      <4>3. QED
        BY <3>2, <3>7, <4>2 DEF FirstOf, rows, wrote
    <3>8. CASE wrote # {}
      <4>1. 1 \in DOMAIN rows
        <5>1. \E m : m \in DOMAIN rows
          BY <3>6, <3>8
        <5>2. QED
          BY <3>5, <5>1
      <4>2. rows # <<>>
        BY <3>5, <4>1, EmptySeq
      <4>3. outcome.values = <<rows[1]>>
        BY <3>2, <4>2 DEF FirstOf, rows
      <4>4. ASSUME NEW i \in wrote
            PROVE  rows[1].id <= i
        <5>1. PICK m \in DOMAIN rows : rows[m].id = i
          BY <3>6
        <5>2. m = 1 \/ 1 < m
          BY <3>5
        <5>3. rows[1].id \in Nat /\ i \in Nat
          BY <3>5, <3>6, <4>1
        <5>4. QED
          BY <3>6, <4>1, <5>1, <5>2, <5>3
      <4>5. QED
        BY <3>6, <3>8, <4>1, <4>3, <4>4 DEF wrote
    <3>9. QED
      BY <3>7, <3>8
  <2>3. QED
    BY <2>1, <2>2, <2>4 DEF AnswerIsWhatWasDone
<1>2. QED
  BY <1>1, AnswerInvariant, PTL

(* select() delivers the records it names as they were when its statement   *)
(* was run.                                                                 *)
THEOREM SelectsTrue ==
  Spec => []SelectsWhatWasThere
<1>1. ASSUME AnswerInv
      PROVE  SelectsWhatWasThere
  <2> SUFFICES ASSUME Returned({"optional", "all", "iterator", "sync"}), call.verb = "SELECT"
               PROVE  /\ {Delivered[n] : n \in DOMAIN Delivered} =
                           {[id |-> i, content |-> ran[1].before[i]] :
                              i \in {j \in Ids : Wanted(call.target, j) /\ ran[1].before[j] # None}}
                      /\ \A j, k \in DOMAIN Delivered : Delivered[j].id = Delivered[k].id => j = k
    BY DEF SelectsWhatWasThere
  <2>1. phase = "done" /\ outcome.returned /\ call.reads \in {"optional", "all", "iterator", "sync"}
    BY DEF Returned
  <2>2. /\ call \in Calls /\ HasRead /\ ran \in Seq(Deeds)
        /\ Len(ran) = 1 /\ Faithful(call, 1, ran[1])
    BY <1>1, <2>1, RanWell
  <2>3. Delivered = ran[1].rows
    BY <1>1, <2>1, <2>2 DEF Delivered, HasRead, AnswerInv, Complete
  <2>4. ran[1] \in Deeds
    BY <2>2, ElementOfSeq
  <2>5. ran[1].rows \in Seq(Row)
    BY <2>4 DEF Deeds
  <2>6. SelectedRows(call, ran[1])
    BY <2>2 DEF Faithful
  <2> DEFINE rows == ran[1].rows
             before == ran[1].before
  <2>7. \A n \in DOMAIN rows : rows[n] = [id |-> rows[n].id, content |-> rows[n].content] /\ rows[n].id \in Ids
    <3>1. \A n \in DOMAIN rows : rows[n] \in Row
      BY <2>5
    <3>2. QED
      BY <3>1 DEF Row
  <2>8. call.target \in Targets /\ Named(call.target) \subseteq Ids
    BY <2>2, Shapes, NamedIds
  <2>9. \A i \in Ids : Wanted(call.target, i) <=> i \in Named(call.target)
    BY <2>8, WantedIsNamed
  <2> HIDE DEF rows, before
  <2>10. /\ \A m \in DOMAIN rows :
               /\ rows[m].id \in Named(call.target) /\ before[rows[m].id] # None
               /\ rows[m].content = before[rows[m].id]
         /\ \A i \in Named(call.target) : before[i] # None => \E m \in DOMAIN rows : rows[m].id = i
         /\ \A j, k \in DOMAIN rows : rows[j].id = rows[k].id => j = k
    BY <2>6 DEF SelectedRows, Distinct, rows, before
  <2>11. ASSUME NEW n \in DOMAIN rows
         PROVE  rows[n] \in {[id |-> i, content |-> before[i]] :
                               i \in {j \in Ids : Wanted(call.target, j) /\ before[j] # None}}
    <3> DEFINE i == rows[n].id
    <3>1. i \in Ids /\ Wanted(call.target, i) /\ before[i] # None
      BY <2>7, <2>9, <2>10
    <3>2. rows[n] = [id |-> i, content |-> before[i]]
      BY <2>7, <2>10
    <3> HIDE DEF i
    <3>3. QED
      BY <3>1, <3>2
  <2>12. ASSUME NEW i \in Ids, Wanted(call.target, i), before[i] # None
         PROVE  \E n \in DOMAIN rows : rows[n] = [id |-> i, content |-> before[i]]
    <3>1. PICK n \in DOMAIN rows : rows[n].id = i
      BY <2>9, <2>10, <2>12
    <3>2. rows[n].content = before[i]
      BY <2>10, <3>1
    <3>3. QED
      BY <2>7, <3>1, <3>2
  <2>13. {rows[n] : n \in DOMAIN rows} =
           {[id |-> i, content |-> before[i]] :
              i \in {j \in Ids : Wanted(call.target, j) /\ before[j] # None}}
    <3> DEFINE recordOf(i) == [id |-> i, content |-> before[i]]
               there == {j \in Ids : Wanted(call.target, j) /\ before[j] # None}
               all == {recordOf(i) : i \in there}
    <3>1. \A n \in DOMAIN rows : rows[n] \in all
      BY <2>11
    <3>2. \A i \in there : \E n \in DOMAIN rows : rows[n] = recordOf(i)
      BY <2>12
    <3>3. \A x \in all : \E n \in DOMAIN rows : x = rows[n]
      <4> HIDE DEF recordOf, there
      <4>1. QED
        BY <3>2
    <3> HIDE DEF all
    <3>4. {rows[n] : n \in DOMAIN rows} = all
      BY <3>1, <3>3
    <3>5. QED
      BY <3>4 DEF all, recordOf, there
  <2>14. QED
    BY <2>3, <2>10, <2>13 DEF rows, before
<1>2. QED
  BY <1>1, AnswerInvariant, PTL
-----------------------------------------------------------------------------
(* What buildServerException makes of a chain: the recursion is down the    *)
(* chain, and goes on as long as links can be built.  Broken(i, m): no      *)
(* exception for link m is attached to the ones from link i on.             *)
Broken(chain, i, m) == chain[m].jni # "ok" \/ (m > i /\ ~chain[m].surreal)

(* Where the exceptions from link i on end.                                 *)
Ends(chain, i, e) ==
  /\ e \in i .. Len(chain) + 1
  /\ e <= Len(chain) => Broken(chain, i, e)
  /\ \A m \in i .. e - 1 : ~Broken(chain, i, m)

LEMMA EndsOnce ==
  ASSUME NEW chain, Len(chain) \in Nat, NEW i \in 1 .. Len(chain)
  PROVE  /\ \E e \in Nat : Ends(chain, i, e)
         /\ \A d, e \in Nat : Ends(chain, i, d) /\ Ends(chain, i, e) => d = e
<1> DEFINE n == Len(chain)
           T == {m \in i .. n + 1 : m <= n => Broken(chain, i, m)}
<1>1. PICK e \in T : \A m \in T : e <= m
  <2>1. T \in SUBSET Nat /\ n + 1 \in T
    OBVIOUS
  <2>2. QED
    BY <2>1, LeastElement
<1>2. ASSUME NEW m \in i .. e - 1
      PROVE  ~Broken(chain, i, m)
  <2>1. m \in i .. n + 1 /\ ~ e <= m
    BY <1>1
  <2>2. m \notin T
    BY <1>1, <2>1
  <2>3. QED
    BY <2>1, <2>2
<1>3. e \in Nat /\ Ends(chain, i, e)
  BY <1>1, <1>2 DEF Ends
<1>4. ASSUME NEW d \in Nat, NEW f \in Nat, Ends(chain, i, d), Ends(chain, i, f), d < f
      PROVE  FALSE
  BY <1>4 DEF Ends
<1>5. \A d, f \in Nat : Ends(chain, i, d) /\ Ends(chain, i, f) => d = f
  <2>1. ASSUME NEW d \in Nat, NEW f \in Nat, Ends(chain, i, d), Ends(chain, i, f)
        PROVE  d = f
    <3>1. ~ d < f /\ ~ f < d
      BY <2>1, <1>4
    <3>2. QED
      BY <3>1
  <2>2. QED
    BY <2>1
<1>6. QED
  BY <1>3, <1>5

(* The end seen from one link further on.                                   *)
LEMMA EndsNext ==
  ASSUME NEW chain, Len(chain) \in Nat, NEW i \in 1 .. Len(chain), NEW e \in Nat, Ends(chain, i, e)
  PROVE  IF chain[i].jni # "ok" THEN e = i
         ELSE IF i < Len(chain) /\ chain[i + 1].surreal THEN Ends(chain, i + 1, e)
         ELSE e = i + 1
<1> DEFINE n == Len(chain)
<1>1. e \in i .. n + 1
  BY DEF Ends
<1>2. CASE chain[i].jni # "ok"
  <2>1. Broken(chain, i, i)
    BY <1>2 DEF Broken
  <2>2. i \notin i .. e - 1
    BY <2>1 DEF Ends
  <2>3. QED
    BY <1>1, <1>2, <2>2
<1>3. CASE chain[i].jni = "ok"
  <2>1. ~Broken(chain, i, i)
    BY <1>3 DEF Broken
  <2>2. e # i
    BY <2>1 DEF Ends
  <2>3. e \in i + 1 .. n + 1
    BY <1>1, <2>2
  <2>4. CASE i < n /\ chain[i + 1].surreal
    <3>1. \A m \in i + 1 .. n : Broken(chain, i, m) <=> Broken(chain, i + 1, m)
      BY <2>4 DEF Broken
    <3>2. Ends(chain, i + 1, e)
      BY <2>3, <3>1 DEF Ends
    <3>3. QED
      BY <1>3, <2>4, <3>2
  <2>5. CASE ~(i < n /\ chain[i + 1].surreal)
    <3>1. i < n => Broken(chain, i, i + 1)
      BY <2>5 DEF Broken
    <3>2. i < n => i + 1 \notin i .. e - 1
      BY <3>1 DEF Ends
    <3>3. e = i + 1
      BY <2>3, <3>2
    <3>4. QED
      BY <1>3, <2>5, <3>3
  <2>6. QED
    BY <2>4, <2>5
<1>4. QED
  BY <1>2, <1>3

(* One exception for each link from the front to the end.                   *)
LEMMA ChainBuilt ==
  ASSUME NEW chain, Len(chain) \in Nat \ {0}, NEW e \in Nat, Ends(chain, 1, e)
  PROVE  BuildServerException(chain) = [j \in 1 .. e - 1 |-> ServerException(chain[j].kind)]
<1> DEFINE n == Len(chain)
           X(i) == ServerException(chain[i].kind)
           L(i, cause) == IF chain[i].jni = "ok" THEN <<X(i)>> \o cause ELSE <<>>
           E(f) == [i \in 1 .. n |->
                      L(i, IF i < n /\ chain[i + 1].surreal THEN f[i + 1] ELSE <<>>)]
           built == CHOOSE f : f = E(f)
           end == [i \in 1 .. n |-> CHOOSE m \in Nat : Ends(chain, i, m)]
           Run(i, m) == [j \in 1 .. m - i |-> X(i + j - 1)]
           g == [i \in 1 .. n |-> Run(i, end[i])]
<1>1. BuildServerException(chain) = built[1]
  BY DEF BuildServerException
<1>2. \A i \in 1 .. n : end[i] \in Nat /\ Ends(chain, i, end[i])
  BY EndsOnce
<1>3. ASSUME NEW i \in 1 .. n
      PROVE  g[i] = L(i, IF i < n /\ chain[i + 1].surreal THEN g[i + 1] ELSE <<>>)
  <2>1. g[i] = Run(i, end[i])
    OBVIOUS
  <2>2. CASE chain[i].jni # "ok"
    <3>1. end[i] = i
      BY <1>2, <2>2, EndsNext
    <3>2. Run(i, i) = <<>>
      OBVIOUS
    <3>3. QED
      BY <2>1, <2>2, <3>1, <3>2
  <2>3. CASE chain[i].jni = "ok" /\ i < n /\ chain[i + 1].surreal
    <3>1. Ends(chain, i + 1, end[i])
      BY <1>2, <2>3, EndsNext
    <3>2. i + 1 \in 1 .. n
      BY <2>3
    <3>3. end[i + 1] = end[i]
      BY <1>2, <3>1, <3>2, EndsOnce
    <3>4. end[i] \in i + 1 .. n + 1
      BY <3>1 DEF Ends
    <3>5. g[i + 1] = Run(i + 1, end[i])
      BY <3>2, <3>3
    <3>6. Run(i, end[i]) = <<X(i)>> \o Run(i + 1, end[i])
      <4> HIDE DEF X
      <4> DEFINE S == {X(k) : k \in 1 .. n}
                 m == end[i]
                 s == Run(i, m)
                 t == Run(i + 1, m)
      <4>1. m \in Nat /\ i \in Nat /\ m \in i + 1 .. n + 1
        BY <3>4
      <4> HIDE DEF m, end
      <4>2. s \in Seq(S) /\ Len(s) = m - i /\ \A j \in 1 .. m - i : s[j] = X(i + j - 1)
        BY <4>1
      <4>3. t \in Seq(S) /\ Len(t) = m - i - 1 /\ \A j \in 1 .. m - i - 1 : t[j] = X(i + 1 + j - 1)
        BY <4>1
      <4>4. <<X(i)>> \in Seq(S) /\ Len(<<X(i)>>) = 1 /\ <<X(i)>>[1] = X(i)
        OBVIOUS
      <4> HIDE DEF s, t, S
      <4>5. /\ <<X(i)>> \o t \in Seq(S) /\ Len(<<X(i)>> \o t) = m - i
            /\ \A j \in 1 .. m - i : (<<X(i)>> \o t)[j] = IF j <= 1 THEN X(i) ELSE t[j - 1]
        BY <4>1, <4>3, <4>4, ConcatProperties
      <4>6. ASSUME NEW j \in 1 .. m - i
            PROVE  s[j] = (<<X(i)>> \o t)[j]
        <5>1. CASE j = 1
          <6>1. i + j - 1 = i
            BY <5>1
          <6>2. QED
            BY <4>1, <4>2, <4>5, <5>1, <6>1
        <5>2. CASE j > 1
          <6>1. j - 1 \in 1 .. m - i - 1 /\ i + 1 + (j - 1) - 1 = i + j - 1
            BY <4>1, <5>2
          <6>2. t[j - 1] = X(i + j - 1)
            BY <4>3, <6>1
          <6>3. QED
            BY <4>1, <4>2, <4>5, <5>2, <6>2
        <5>3. j = 1 \/ j > 1
          BY <4>1
        <5>4. QED
          BY <5>1, <5>2, <5>3
      <4>7. s = <<X(i)>> \o t
        <5> DEFINE u == <<X(i)>> \o t
        <5>1. u \in Seq(S) /\ Len(u) = Len(s) /\ \A j \in 1 .. Len(s) : s[j] = u[j]
          BY <4>2, <4>5, <4>6
        <5> HIDE DEF u
        <5>2. s \in Seq(S)
          BY <4>2
        <5>3. s = u
          BY <5>1, <5>2, SeqEqual
        <5>4. QED
          BY <5>3 DEF u
      <4>8. QED
        BY <4>7 DEF s, t, m
    <3>7. L(i, g[i + 1]) = <<X(i)>> \o g[i + 1]
      BY <2>3
    <3> HIDE DEF L, g, Run, end
    <3>8. g[i] = L(i, g[i + 1])
      BY <2>1, <3>5, <3>6, <3>7
    <3>9. QED
      BY <2>3, <3>8
  <2>4. CASE chain[i].jni = "ok" /\ ~(i < n /\ chain[i + 1].surreal)
    <3>1. end[i] = i + 1
      BY <1>2, <2>4, EndsNext
    <3>2. Run(i, i + 1) = <<X(i)>>
      OBVIOUS
    <3>3. <<X(i)>> \o <<>> = <<X(i)>>
      <4>1. <<X(i)>> \in Seq({X(i)})
        OBVIOUS
      <4>2. QED
        BY <4>1, ConcatEmptySeq
    <3>4. QED
      BY <2>1, <2>4, <3>1, <3>2, <3>3
  <2>5. QED
    BY <2>2, <2>3, <2>4
<1> HIDE DEF L, end, Run
<1>4. g = E(g)
  BY <1>3
<1>5. built = E(built)
  BY <1>4
<1> HIDE DEF built, g
<1>6. \A i \in 1 .. n :
        built[i] = L(i, IF i < n /\ chain[i + 1].surreal THEN built[i + 1] ELSE <<>>)
  BY <1>5
<1>7. built[1] = g[1]
  <2> DEFINE good == {i \in 1 .. n : built[i] = g[i]}
  <2>1. ASSUME NEW i \in 1 .. n, i < n => i + 1 \in good
        PROVE  built[i] = g[i]
    BY <1>3, <1>6, <2>1
  <2>2. good = 1 .. n
    <3>1. good \in SUBSET (1 .. n) /\ \A i \in 1 .. n : (i < n => i + 1 \in good) => i \in good
      BY <2>1
    <3> HIDE DEF good
    <3>2. QED
      BY <3>1, Downwards
  <2>3. QED
    BY <2>2
<1>8. end[1] = e
  BY <1>2, EndsOnce
<1>9. g[1] = Run(1, e)
  BY <1>8 DEF g
<1>10. Run(1, e) = [j \in 1 .. e - 1 |-> X(j)]
  BY DEF Run, Ends
<1>11. QED
  BY <1>1, <1>7, <1>9, <1>10

(* An exception has the kind as a kind of its own, or as it was sent.       *)
LEMMA KindTold ==
  ASSUME NEW k
  PROVE  k \in {ServerException(k).kind, ServerException(k).raw}
BY DEF ServerException

(* The kinds of all links from the front that can be built are thrown,      *)
(* however long the chain is.                                               *)
LEMMA ChainTold ==
  ASSUME NEW k, NEW chain \in Chains(k), \A i \in DOMAIN chain : chain[i].jni # "pends"
  PROVE  Told(chain, Exception(chain))
<1> DEFINE n == Len(chain)
<1>1. n \in Nat \ {0} /\ DOMAIN chain = 1 .. n /\ chain[1].surreal
  BY ChainShape
<1>2. PICK e \in Nat : Ends(chain, 1, e)
  BY <1>1, EndsOnce
<1>3. e \in 1 .. n + 1
  BY <1>2 DEF Ends
<1> DEFINE thrown == [j \in 1 .. e - 1 |-> ServerException(chain[j].kind)]
<1>4. BuildServerException(chain) = thrown
  BY <1>1, <1>2, ChainBuilt
<1>5. Exception(chain) = IF thrown = <<>> THEN <<Plain("SurrealException")>> ELSE thrown
  <2>1. Walked(chain) \subseteq DOMAIN chain
    BY <1>1 DEF Walked
  <2>2. QED
    BY <1>4, <2>1 DEF Exception
<1>6. Buildable(chain) = 1 .. e - 1
  <2>1. ASSUME NEW m \in 1 .. n
        PROVE  m \in Buildable(chain) <=> m < e
    <3>1. \A i \in 1 .. m : Broken(chain, 1, i) <=> ~(chain[i].surreal /\ chain[i].jni = "ok")
      BY <1>1 DEF Broken
    <3>2. m \in Buildable(chain) <=> \A i \in 1 .. m : ~Broken(chain, 1, i)
      BY <3>1 DEF Buildable
    <3>3. CASE m < e
      BY <1>2, <1>3, <3>2, <3>3 DEF Ends
    <3>4. CASE e <= m
      <4>1. e \in 1 .. m /\ Broken(chain, 1, e)
        BY <1>2, <1>3, <3>4 DEF Ends
      <4>2. QED
        BY <1>3, <3>2, <3>4, <4>1
    <3>5. QED
      BY <1>3, <3>3, <3>4
  <2>2. Buildable(chain) \subseteq 1 .. n
    BY DEF Buildable
  <2>3. ASSUME NEW m
        PROVE  m \in Buildable(chain) <=> m \in 1 .. e - 1
    <3>1. m \in 1 .. e - 1 <=> m \in 1 .. n /\ m < e
      BY <1>1, <1>3
    <3>2. QED
      BY <2>1, <2>2, <3>1
  <2>4. QED
    BY <2>3
<1>7. CASE e = 1
  <2>1. Buildable(chain) = {} /\ thrown = <<>>
    BY <1>6, <1>7
  <2>2. QED
    BY <1>5, <2>1 DEF Told
<1>8. CASE e # 1
  <2>1. Len(thrown) = e - 1 /\ DOMAIN thrown = 1 .. e - 1
    BY <1>3
  <2>2. thrown # <<>>
    BY <1>3, <1>8, <2>1
  <2>3. Cardinality(Buildable(chain)) = e - 1
    BY <1>3, <1>6, FS_Interval
  <2>4. \A i \in 1 .. e - 1 : chain[i].kind \in {thrown[i].kind, thrown[i].raw}
    BY KindTold
  <2>5. QED
    BY <1>3, <1>5, <1>6, <1>8, <2>1, <2>2, <2>3, <2>4 DEF Told
<1>9. QED
  BY <1>7, <1>8

(* An error that ends a call is told; no other step makes an exception of   *)
(* an error.                                                                *)
LEMMA ErrorTold ==
  ASSUME NEW why, NEW k, ThrowsError(why, k)
  PROVE  KindsKept'
<1>1. PICK chain \in Chains(k) :
        outcome' = [Pending EXCEPT !.why = why, !.error = chain, !.thrown = Exception(chain)]
  BY DEF ThrowsError
<1>2. outcome'.error = chain /\ outcome'.thrown = Exception(chain)
  BY <1>1 DEF Pending
<1>3. QED
  BY <1>2, ChainTold DEF KindsKept

(* Where no error is recorded there is nothing to tell.                     *)
LEMMA NothingToTell ==
  ASSUME outcome'.error = <<>>
  PROVE  KindsKept'
BY DEF KindsKept

(* Neither a return nor an exception of the client's own tells an error.    *)
LEMMA ReturnsTold == \A values : Returns(values) => KindsKept'
BY NothingToTell DEF Returns, Pending

LEMMA ThrowsTold == \A why, class : Throws(why, class) => KindsKept'
BY NothingToTell DEF Throws, Pending

(* KindsKept speaks of the outcome only.                                    *)
LEMMA SameOutcome ==
  ASSUME KindsKept, UNCHANGED outcome
  PROVE  KindsKept'
BY DEF KindsKept

(* What is thrown for an error tells its kind, and those of its causes as   *)
(* far as exceptions can be made of them.                                   *)
THEOREM KindsTold ==
  Spec => []KindsKept
<1>1. ClientInit => KindsKept
  <2>1. SUFFICES ASSUME outcome = Pending
                 PROVE  KindsKept
    BY DEF ClientInit, Init
  <2>2. outcome.error = <<>>
    BY <2>1 DEF Pending
  <2>3. QED
    BY <2>2 DEF KindsKept
<1>2. ASSUME KindsKept, [ClientNext]_vars
      PROVE  KindsKept'
  <2>1. CASE UNCHANGED records
    BY <1>2, <2>1, SameOutcome DEF records, client
  <2>2. CASE \/ \E c \in Calls : Call(c)
             \/ Execute \/ Others
    BY <1>2, <2>2, SameOutcome DEF Call, Execute, Others, client
  <2>3. CASE Forget
    BY <2>3, NothingToTell DEF Forget, Pending
  <2>4. CASE Open
    BY <2>4, ReturnsTold DEF Open, ReadIterator, ReadResponse
  <2>5. CASE Reading
    <3>1. CASE BadArgument \/ ReadOne \/ ReadOptional \/ ReadFirst \/ ReadAll
                 \/ ReadDone \/ NoArray \/ NotAList \/ ReadNothing
      BY <3>1, ReturnsTold, ThrowsTold
         DEF BadArgument, ReadOne, ReadOptional, ReadFirst, ReadAll, ReadDone, NoArray, NotAList, ReadNothing
    <3>2. CASE CheckQueryResult \/ TakeOneResult
      BY <3>2, ErrorTold DEF CheckQueryResult, TakeOneResult
    <3>3. CASE ReadEach
      BY <1>2, <3>3, ErrorTold, ThrowsTold, SameOutcome DEF ReadEach, Passes
    <3>4. QED
      BY <2>5, <3>1, <3>2, <3>3 DEF Reading
  <2>6. QED
    BY <1>2, <2>1, <2>2, <2>3, <2>4, <2>5 DEF ClientNext, vars
<1>3. QED
  BY <1>1, <1>2, PTL DEF Spec
=============================================================================
