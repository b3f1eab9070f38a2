--------------------------- MODULE Client_proofs ---------------------------
(* Theorems about Client, for any records, contents, kinds of error and     *)
(* consumers.                                                               *)
EXTENDS Client, FiniteSetTheorems, SequenceLemmas

USE RecordsAssumption, ResultsAssumption
-----------------------------------------------------------------------------
(* The calls and what a statement can do                                    *)

(* What the ways to read an answer tell about the call.                     *)
LEMMA Shapes ==
  ASSUME NEW c \in Calls
  PROVE  /\ c.verb \in {"CREATE", "INSERT", "RELATE", "SELECT", "UPDATE", "UPSERT", "DELETE"}
         /\ c.target \in Targets /\ c.contents \in Seq(Contents)
         /\ c.reads \in {"one", "optional", "first", "all", "each", "nothing",
                         "iterator", "sync", "response"}
         /\ c.verb \in {"RELATE", "UPDATE", "UPSERT"} => c.contents \in Singles
         /\ c.verb = "RELATE" => c.reads = "one"
         /\ c.verb = "CREATE" => c.contents \in Singles \/ c.reads \in {"each", "response"}
         /\ c.reads = "one" => c.contents \in Singles /\ c.verb \notin {"SELECT", "DELETE"}
         /\ c.reads = "one" /\ c.verb \in {"CREATE", "UPDATE", "UPSERT"} => c.target \in One
         /\ c.reads = "one" /\ c.verb \in {"INSERT", "RELATE"} => c.target = Table
         /\ c.reads = "optional" => c.verb = "SELECT"
         /\ c.reads \in {"iterator", "sync"} => c.verb \in {"SELECT", "UPDATE", "UPSERT"}
         /\ c.only \in BOOLEAN
         /\ c.only => c.reads \in {"each", "iterator", "sync"}
<1>1. Singles \subseteq Seq(Contents) /\ Lists \subseteq Seq(Contents) /\ <<>> \in Seq(Contents)
  <2>1. \A n \in Nat : [1 .. n -> Contents] \subseteq Seq(Contents)
    OBVIOUS
  <2>2. Singles \subseteq Seq(Contents)
    BY <2>1 DEF Singles
  <2>3. Lists \subseteq Seq(Contents)
    BY <2>1 DEF Lists
  <2>4. QED
    BY <2>2, <2>3
<1>2. One \subseteq Several /\ Several \subseteq Targets /\ Ranges \subseteq Targets /\ Table \in Targets
  <2>1. \A i \in Ids : {i} \in (SUBSET Ids) \ {{}}
    OBVIOUS
  <2>2. ASSUME NEW t \in One
        PROVE  t \in Several
    <3>1. PICK i \in Ids : t = Some({i})
      BY DEF One
    <3>2. QED
      BY <2>1, <3>1 DEF Several
  <2>3. QED
    BY <2>2 DEF Targets
<1> HIDE DEF Singles, Lists, One, Several, Targets, Ranges, Table
<1>3. CASE c \in CreateRecord \cup CreateTarget
  BY <1>1, <1>2, <1>3 DEF CreateRecord, CreateTarget, Sends, SendsText
<1>4. CASE c \in Insert \cup InsertRelation \cup Relate
  BY <1>1, <1>2, <1>4 DEF Insert, InsertRelation, Relate, Sends
<1>5. CASE c \in SelectRecord \cup SelectRecords \cup SelectRange \cup SelectTargets
  BY <1>1, <1>2, <1>5 DEF SelectRecord, SelectRecords, SelectRange, SelectTargets, Sends, SendsText
<1>6. CASE c \in UpRecord \cup UpRange \cup UpTarget \cup UpTargetSync
  BY <1>1, <1>2, <1>6 DEF UpRecord, UpRange, UpTarget, UpTargetSync, Sends, SendsText
<1>7. CASE c \in DeleteRecord \cup DeleteRange \cup DeleteTarget \cup Query
  BY <1>1, <1>2, <1>7 DEF DeleteRecord, DeleteRange, DeleteTarget, Query, Sends
<1>8. QED
  BY <1>3, <1>4, <1>5, <1>6, <1>7 DEF Calls

(* How many statements there are, and that each has the content it writes.  *)
LEMMA StatementsOf ==
  ASSUME NEW c \in Calls
  PROVE  /\ Statements(c) \in Nat
         /\ c.reads \notin {"each", "response"} => Statements(c) = 1
         /\ c.verb \in {"UPDATE", "UPSERT"} => c.contents[1] \in Contents
         /\ c.verb \in {"CREATE", "RELATE"} =>
              \A n \in 1 .. Statements(c) : c.contents[n] \in Contents
<1>1. c.contents \in Seq(Contents) /\ Len(c.contents) \in Nat
  BY Shapes
<1>2. c.contents \in Singles => c.contents[1] \in Contents
  BY DEF Singles
<1>3. \A n \in 1 .. Len(c.contents) : c.contents[n] \in Contents
  BY <1>1
<1>4. c.reads \notin {"each", "response"} => Statements(c) = 1
  BY DEF Statements
<1>5. c.reads \in {"each", "response"} => Statements(c) = Len(c.contents)
  BY DEF Statements
<1>6. QED
  BY <1>1, <1>2, <1>3, <1>4, <1>5, Shapes

(* Targets name records.                                                    *)
LEMMA NamedIds ==
  ASSUME NEW t \in Targets
  PROVE  Named(t) \subseteq Ids
<1>1. CASE t \in Several
  BY <1>1 DEF Several, Some, Named
<1>2. CASE t \in Ranges
  BY <1>2 DEF Ranges, Between, Named, RangeValue
<1>3. CASE t = Table
  BY <1>3 DEF Table, Named
<1>4. QED
  BY <1>1, <1>2, <1>3 DEF Targets

(* A table that was written is a table, and has the records written.        *)
LEMMA Writing ==
  ASSUME NEW s \in Tables, NEW S \in SUBSET Ids, NEW c \in Contents \cup {None}
  PROVE  /\ Write(s, S, c) \in Tables
         /\ c # None => S \subseteq Present(Write(s, S, c))
         /\ S = {} => Write(s, S, c) = s
BY DEF Tables, Write, Present

(* The rows of records that are there: as many as there are records.        *)
LEMMA ListedRows ==
  ASSUME NEW s \in Tables, NEW S \in SUBSET Present(s)
  PROVE  /\ Cardinality(S) \in Nat
         /\ \A r \in Listed(s, S) : r \in Seq(Row) /\ Len(r) = Cardinality(S)
<1>1. S \subseteq Ids /\ \A i \in S : s[i] \in Contents
  BY DEF Present, Tables
<1>2. Cardinality(S) \in Nat
  BY <1>1, FS_Subset, FS_CardinalityType
<1>3. ASSUME NEW r \in Listed(s, S)
      PROVE  r \in Seq(Row) /\ Len(r) = Cardinality(S)
  <2>1. PICK f \in [1 .. Cardinality(S) -> S] :
          r = [k \in 1 .. Cardinality(S) |-> [id |-> f[k], content |-> s[f[k]]]]
    BY DEF Listed
  <2>2. \A k \in 1 .. Cardinality(S) : [id |-> f[k], content |-> s[f[k]]] \in Row
    BY <1>1 DEF Row
  <2>3. r \in [1 .. Cardinality(S) -> Row]
    BY <2>1, <2>2
  <2>4. QED
    BY <1>2, <2>3
<1>4. QED
  BY <1>2, <1>3

(* What writing the records S does; one of them is one row, none is no     *)
(* change.                                                                  *)
LEMMA WritesDeeds ==
  ASSUME NEW s \in Tables, NEW S \in SUBSET Ids, NEW w \in Contents, NEW d \in Writes(s, S, w)
  PROVE  /\ d \in Deeds /\ d.before = s /\ d.error = None /\ d.list /\ d.wrote = S
         /\ (\E i : S = {i}) => Len(d.rows) = 1
         /\ Len(d.rows) = 1 => d.wrote # {}
         /\ S = {} => d.after = s
<1>1. Write(s, S, w) \in Tables /\ S \subseteq Present(Write(s, S, w)) /\ (S = {} => Write(s, S, w) = s)
  BY Writing
<1>2. PICK r \in Listed(Write(s, S, w), S) : d = Did(Write(s, S, w), s, S, r)
  BY DEF Writes
<1>3. r \in Seq(Row) /\ Len(r) = Cardinality(S)
  BY <1>1, ListedRows
<1>4. /\ (\E i : S = {i}) => Cardinality(S) = 1
      /\ Cardinality(S) = 1 => S # {}
  BY FS_Singleton, FS_EmptySet
<1>5. d \in Deeds
  BY <1>1, <1>2, <1>3 DEF Did, Deeds
<1>6. QED
  BY <1>1, <1>2, <1>3, <1>4, <1>5 DEF Did

(* What a statement that succeeds leaves behind; where one row is expected, *)
(* either there is one or nothing has been changed.                         *)
LEMMA EffectDeeds ==
  ASSUME NEW c \in Calls, NEW n \in 1 .. Statements(c), NEW s \in Tables,
         NEW d \in Effects(c, n, s)
  PROVE  /\ d \in Deeds /\ d.before = s /\ d.error = None /\ d.list
         /\ c.reads = "one" => Len(d.rows) = 1 \/ (d.wrote = {} /\ d.after = s)
         /\ c.verb = "SELECT" => d.wrote = {} /\ d.after = s
         /\ c.verb \in {"UPDATE", "UPSERT"} /\ Len(d.rows) = 1 => d.wrote # {}
<1> DEFINE ids == Named(c.target)
           new == Ids \ Present(s)
<1>1. ids \subseteq Ids
  BY Shapes, NamedIds
<1>2. c.target \in One => (\E i : ids = {i}) /\ c.target.form = "records" /\ c.target # Table
  <2>1. ASSUME NEW t \in One
        PROVE  t.form = "records" /\ \E i : t.ids = {i}
    BY DEF One, Some
  <2>2. \A t : t.form = "records" => Named(t) = t.ids
    BY DEF Named
  <2>3. Table.form # "records"
    BY DEF Table
  <2>4. QED
    BY <2>1, <2>2, <2>3
<1>4. CASE c.verb = "SELECT"
  <2>1. PICK r \in Listed(s, ids \cap Present(s)) : d = Did(s, s, {}, r)
    BY <1>4 DEF Effects
  <2>2. r \in Seq(Row)
    BY ListedRows
  <2>3. c.reads # "one"
    BY <1>4, Shapes
  <2>4. QED
    BY <1>4, <2>1, <2>2, <2>3 DEF Did, Deeds
<1>5. CASE c.verb = "DELETE"
  <2>1. d = Did(Write(s, ids, None), s, ids \cap Present(s), <<>>)
    BY <1>5 DEF Effects
  <2>2. Write(s, ids, None) \in Tables /\ <<>> \in Seq(Row)
    BY <1>1, Writing
  <2>3. c.reads # "one"
    BY <1>5, Shapes
  <2>4. d \in Deeds
    BY <1>1, <2>1, <2>2 DEF Did, Deeds
  <2>5. QED
    BY <1>5, <2>1, <2>3, <2>4 DEF Did
<1>6. CASE c.verb \in {"UPDATE", "UPSERT", "CREATE", "RELATE"}
  <2> SUFFICES \E S \in SUBSET Ids, w \in Contents :
                 /\ d \in Writes(s, S, w)
                 /\ c.reads = "one" => S = {} \/ \E i : S = {i}
    <3>1. PICK S \in SUBSET Ids, w \in Contents :
            /\ d \in Writes(s, S, w)
            /\ c.reads = "one" => S = {} \/ \E i : S = {i}
      OBVIOUS
    <3>2. /\ d \in Deeds /\ d.before = s /\ d.error = None /\ d.list /\ d.wrote = S
          /\ (\E i : S = {i}) => Len(d.rows) = 1
          /\ Len(d.rows) = 1 => d.wrote # {}
          /\ S = {} => d.after = s
      <4>1. d \in Writes(s, S, w)
        BY <3>1
      <4>2. QED
        BY <4>1, WritesDeeds
    <3>3. QED
      BY <1>6, <3>1, <3>2
  <2>1. c.verb \in {"UPDATE", "UPSERT"} => c.contents[1] \in Contents
    BY StatementsOf
  <2>2. c.verb \in {"CREATE", "RELATE"} => c.contents[n] \in Contents
    BY StatementsOf
  <2>3. c.reads = "one" /\ c.verb # "RELATE" => c.target \in One
    BY <1>6, Shapes
  <2>4. CASE c.verb = "UPDATE"
    <3>1. d \in Writes(s, ids \cap Present(s), c.contents[1])
      BY <2>4 DEF Effects
    <3>2. QED
      BY <1>1, <1>2, <2>1, <2>3, <2>4, <3>1
  <2>5. CASE c.verb = "UPSERT"
    <3>1. \E S \in IF c.target.form = "records" THEN {ids} ELSE SUBSET ids :
            d \in Writes(s, S, c.contents[1])
      BY <2>5 DEF Effects
    <3>2. QED
      BY <1>1, <1>2, <2>1, <2>3, <2>5, <3>1
  <2>6. CASE c.verb \in {"CREATE", "RELATE"}
    <3>1. \E S \in IF c.target = Table THEN {{i} : i \in new} ELSE {ids} \cap SUBSET new :
            d \in Writes(s, S, c.contents[n])
      BY <2>6 DEF Effects
    <3>2. c.reads = "one" /\ c.verb = "RELATE" => c.target = Table
      BY Shapes
    <3>3. PICK S \in IF c.target = Table THEN {{i} : i \in new} ELSE {ids} \cap SUBSET new :
            d \in Writes(s, S, c.contents[n])
      BY <3>1
    <3>4. S \in SUBSET Ids
      BY <3>3
    <3>5. c.target = Table => \E i : S = {i}
      BY <3>3
    <3>6. c.target \in One => \E i : S = {i}
      BY <1>2, <3>3
    <3>7. QED
      BY <2>2, <2>3, <2>6, <3>2, <3>3, <3>4, <3>5, <3>6
  <2>7. QED
    BY <1>6, <2>4, <2>5, <2>6
<1>9. CASE c.verb = "INSERT"
  <2> DEFINE w == c.contents
  <2>1. PICK f \in [DOMAIN w -> new] :
          d = Did([i \in Ids |-> IF \E k \in DOMAIN f : f[k] = i
                                 THEN w[CHOOSE k \in DOMAIN f : f[k] = i] ELSE s[i]],
                  s, {f[k] : k \in DOMAIN f},
                  [k \in DOMAIN f |-> [id |-> f[k], content |-> w[k]]])
    BY <1>9 DEF Effects
  <2>2. w \in Seq(Contents) /\ Len(w) \in Nat /\ DOMAIN w = 1 .. Len(w)
    BY Shapes
  <2>3. \A k \in DOMAIN w : w[k] \in Contents
    BY <2>2
  <2>4. d.after \in Tables
    <3>1. \A i \in Ids : (\E k \in DOMAIN f : f[k] = i) =>
            w[CHOOSE k \in DOMAIN f : f[k] = i] \in Contents
      BY <2>3
    <3>2. QED
      BY <2>1, <3>1 DEF Did, Tables
  <2>5. d.rows \in [1 .. Len(w) -> Row]
    BY <2>1, <2>2, <2>3 DEF Did, Row
  <2>6. d.rows \in Seq(Row) /\ Len(d.rows) = Len(w)
    BY <2>2, <2>5
  <2>7. d.wrote \subseteq Ids
    BY <2>1 DEF Did
  <2>8. d \in Deeds /\ d.before = s /\ d.error = None /\ d.list
    BY <2>1, <2>4, <2>6, <2>7 DEF Did, Deeds
  <2>9. c.reads = "one" => Len(w) = 1
    BY Shapes DEF Singles
  <2>10. QED
    BY <1>9, <2>6, <2>8, <2>9
<1>10. QED
  BY <1>4, <1>5, <1>6, <1>9, Shapes

(* The same of its answer, which is a list but where ONLY is said; a record *)
(* was written if the one row of an UPDATE or UPSERT is answered.           *)
LEMMA SuccessDeeds ==
  ASSUME NEW c \in Calls, NEW n \in 1 .. Statements(c), NEW s \in Tables,
         NEW d \in Succeeds(c, n, s)
  PROVE  /\ d \in Deeds /\ d.before = s /\ d.error = None /\ (d.list <=> ~c.only)
         /\ c.reads = "one" => Len(d.rows) = 1 \/ (d.wrote = {} /\ d.after = s)
         /\ c.verb = "SELECT" => d.wrote = {} /\ d.after = s
         /\ c.only => Alone(c, d)
         /\ c.only /\ c.verb \in {"UPDATE", "UPSERT"} => d.wrote # {}
<1>1. c.only \in BOOLEAN
  BY Shapes
<1>2. CASE c.only
  <2>1. PICK e \in Effects(c, n, s) : Alone(c, e) /\ d = [e EXCEPT !.list = FALSE]
    BY <1>2 DEF Succeeds
  <2>2. /\ e \in Deeds /\ e.before = s /\ e.error = None
        /\ c.reads = "one" => Len(e.rows) = 1 \/ (e.wrote = {} /\ e.after = s)
        /\ c.verb = "SELECT" => e.wrote = {} /\ e.after = s
        /\ c.verb \in {"UPDATE", "UPSERT"} /\ Len(e.rows) = 1 => e.wrote # {}
    BY EffectDeeds
  <2>3. /\ d \in Deeds /\ ~d.list
        /\ d.before = e.before /\ d.after = e.after /\ d.wrote = e.wrote
        /\ d.rows = e.rows /\ d.error = e.error
    BY <2>1, <2>2 DEF Deeds
  <2>4. Alone(c, d) /\ (c.verb \in {"UPDATE", "UPSERT"} => Len(e.rows) = 1)
    BY <2>1, <2>3 DEF Alone
  <2>5. QED
    BY <1>2, <2>2, <2>3, <2>4
<1>3. CASE ~c.only
  <2>1. d \in Effects(c, n, s)
    BY <1>3 DEF Succeeds
  <2>2. QED
    BY <1>3, <2>1, EffectDeeds
<1>4. QED
  BY <1>1, <1>2, <1>3

(* What a statement that fails leaves behind.                               *)
LEMMA FailureDeeds ==
  ASSUME NEW s \in Tables, NEW k \in Kinds
  PROVE  /\ Fails(k, s) \in Deeds /\ Fails(k, s).before = s /\ Fails(k, s).after = s
         /\ Fails(k, s).wrote = {} /\ Fails(k, s).error = k
BY DEF Fails, Deeds
-----------------------------------------------------------------------------
(* What a statement has done, as far as the reader of the answer relies on  *)
(* it: one that failed changed nothing, and neither did one from which a    *)
(* single row was expected that has another number of them; its answer is a *)
(* list unless ONLY was said.                                               *)
Honest(c, d) ==
  /\ d.error # None => d.wrote = {} /\ d.after = d.before
  /\ c.reads = "one" /\ d.error = None => Len(d.rows) = 1 \/ (d.wrote = {} /\ d.after = d.before)
  /\ c.verb = "SELECT" => d.wrote = {} /\ d.after = d.before
  /\ d.error = None => (d.list <=> ~c.only)
  /\ d.error = None /\ c.only /\ c.verb \in {"UPDATE", "UPSERT"} => d.wrote # {}

RanHonestly == \A n \in DOMAIN ran : Honest(call, ran[n])

(* The statements create() has gone through have not failed; the values it  *)
(* has read are their single rows, none if their answers are no lists.      *)
BoxesRead ==
  /\ \A m \in 1 .. passed : ran[m].error = None
  /\ (\A m \in 1 .. passed : ran[m].list) =>
       Len(boxes) = passed /\ \A m \in 1 .. passed : ran[m].rows = <<boxes[m]>>
  /\ (\A m \in 1 .. passed : ~ran[m].list) => boxes = <<>>

(* While it runs there is a call, with its statements.                      *)
LEMMA CallMade ==
  ASSUME RecordsOK, phase # "idle"
  PROVE  call \in Calls /\ Len(ran) <= Statements(call)
BY DEF RecordsOK

(* Each statement that is run is run as one of those sent.                  *)
LEMMA ExecuteStep ==
  ASSUME RecordsOK, Execute
  PROVE  /\ call \in Calls /\ Len(ran) + 1 \in 1 .. Statements(call)
         /\ \E d \in Deeds : Honest(call, d) /\ ran' = Append(ran, d) /\ store' \in Tables
<1>1. phase = "sent" /\ Len(ran) < Statements(call) /\ call \in Calls /\ Len(ran) \in Nat
  <2>1. phase = "sent" /\ Len(ran) < Statements(call)
    BY DEF Execute
  <2>2. call \in Calls
    BY <2>1, CallMade
  <2>3. ran \in Seq(Deeds)
    BY DEF RecordsOK
  <2>4. QED
    BY <2>1, <2>2, <2>3, LenProperties
<1>2. Statements(call) \in Nat /\ Len(ran) + 1 \in 1 .. Statements(call)
  BY <1>1, StatementsOf
<1>3. PICK d \in Succeeds(call, Len(ran) + 1, store) \cup {Fails(k, store) : k \in Kinds} :
        ran' = Append(ran, d) /\ store' = d.after
  BY DEF Execute
<1>4. store \in Tables
  BY DEF RecordsOK
<1>5. d \in Deeds /\ Honest(call, d)
  <2>1. CASE d \in Succeeds(call, Len(ran) + 1, store)
    BY <1>1, <1>2, <1>4, <2>1, SuccessDeeds DEF Honest
  <2>2. CASE \E k \in Kinds : d = Fails(k, store)
    BY <1>4, <2>2, FailureDeeds DEF Honest
  <2>3. QED
    BY <1>3, <2>1, <2>2
<1>6. d.after \in Tables
  BY <1>5 DEF Deeds
<1>7. QED
  BY <1>1, <1>2, <1>3, <1>5, <1>6
-----------------------------------------------------------------------------
(* How a call may end. *)
EndsWell(o) ==
  /\ o.returned /\ o.why = "" /\ o.values \in Seq(Row)
  /\ call.reads = "each" => passed = Len(ran)
  /\ call.reads \notin {"each", "nothing", "response"} => Len(ran) = 1 /\ ran[1].error = None

EndsEarly(o) ==
  /\ o.returned = FALSE /\ o.values = <<>>
  /\ \/ o.why \in {"argument", "lost", "java"}
     \/ o.why = "refused" /\ ran = <<>>
     \/ /\ o.why = "server"
        /\ call.reads # "each" => Len(ran) = 1
        /\ \E n \in 1 .. Len(ran) :
             /\ ran[n].error # None /\ o.error[1].kind = ran[n].error
             /\ n = 1 \/ n = passed + 1
     \/ /\ o.why = "unexpected"
        /\ call.reads # "each" =>
             /\ Len(ran) = 1 /\ ran[1].error = None
             /\ ran[1].list => /\ call.reads \in {"one", "optional"}
                               /\ call.reads = "one" => Len(ran[1].rows) # 1

(* A call that returns what it has read ends well.                          *)
LEMMA ReturnsEnds ==
  ASSUME NEW v \in Seq(Row), Returns(v),
         call.reads = "each" => passed = Len(ran),
         call.reads \notin {"each", "nothing", "response"} => Len(ran) = 1 /\ ran[1].error = None
  PROVE  /\ UNCHANGED <<store, call, ran, passed, boxes>> /\ phase' = "done"
         /\ EndsWell(outcome')
<1>1. outcome' = [Pending EXCEPT !.returned = TRUE, !.values = v]
  BY DEF Returns
<1>2. outcome'.returned /\ outcome'.why = "" /\ outcome'.values = v
  BY <1>1 DEF Pending
<1>3. QED
  BY <1>2 DEF Returns, EndsWell

(* Every chain begins with an error of the SDK.                             *)
LEMMA ChainShape ==
  ASSUME NEW k, NEW chain \in Chains(k)
  PROVE  /\ Len(chain) \in Nat \ {0} /\ DOMAIN chain = 1 .. Len(chain)
         /\ chain[1].kind = k /\ chain[1].surreal
<1>1. PICK j \in Calling, causes \in IF k \in Kinds THEN Below ELSE {<<>>} :
        chain = <<Link(k, j)>> \o causes
  BY DEF Chains
<1>2. PICK n \in Nat : causes \in [1 .. n -> Causes]
  <2>1. CASE k \in Kinds
    <3>1. causes \in Below
      BY <2>1
    <3>2. PICK n \in 0 .. MaxCauses : causes \in [1 .. n -> Causes]
      BY <3>1 DEF Below
    <3>3. QED
      BY <3>2, ErrorsAssumption
  <2>2. CASE k \notin Kinds
    <3>1. causes \in [1 .. 0 -> Causes]
      BY <2>2
    <3>2. QED
      BY <3>1
  <2>3. QED
    BY <2>1, <2>2
<1> DEFINE S == Causes \cup {Link(k, j)}
<1>3. causes \in Seq(S) /\ Len(causes) = n
  BY <1>2
<1>4. <<Link(k, j)>> \in Seq(S) /\ Len(<<Link(k, j)>>) = 1 /\ <<Link(k, j)>>[1] = Link(k, j)
  OBVIOUS
<1> HIDE DEF S
<1>5. chain \in Seq(S) /\ Len(chain) = n + 1 /\ chain[1] = Link(k, j)
  BY <1>1, <1>2, <1>3, <1>4, ConcatProperties
<1>6. DOMAIN chain = 1 .. Len(chain)
  BY <1>5, LenProperties
<1>7. QED
  BY <1>2, <1>5, <1>6 DEF Link

(* What it does to throw an error of the SDK.                               *)
LEMMA ThrowsErrorEnds ==
  ASSUME NEW why, NEW k, ThrowsError(why, k)
  PROVE  /\ UNCHANGED <<store, call, ran, passed, boxes>> /\ phase' = "done"
         /\ outcome'.returned = FALSE /\ outcome'.values = <<>> /\ outcome'.why = why
         /\ outcome'.error[1].kind = k
<1>1. PICK chain \in Chains(k) :
        outcome' = [Pending EXCEPT !.why = why, !.error = chain, !.thrown = Exception(chain)]
  BY DEF ThrowsError
<1>2. chain[1].kind = k
  BY ChainShape
<1>3. QED
  BY <1>1, <1>2 DEF ThrowsError, Pending

(* What it does to throw any other exception.                               *)
LEMMA ThrowsEnds ==
  ASSUME NEW why, NEW class, Throws(why, class)
  PROVE  /\ UNCHANGED <<store, call, ran, passed, boxes>> /\ phase' = "done"
         /\ outcome'.returned = FALSE /\ outcome'.values = <<>> /\ outcome'.why = why
<1>1. outcome' = [Pending EXCEPT !.why = why, !.thrown = <<Plain(class)>>]
  BY DEF Throws
<1>2. QED
  BY <1>1 DEF Throws, Pending

(* Reading changes neither the records nor what was run.  It goes on to the *)
(* next statement, or the call ends.                                        *)
LEMMA ReadingStep ==
  ASSUME RecordsOK, BoxesRead, Reading
  PROVE  /\ phase = "sent" /\ UNCHANGED <<store, call, ran>>
         /\ \/ /\ UNCHANGED <<phase, outcome>>
               /\ passed + 1 \in 1 .. Len(ran) /\ ran[passed + 1].error = None
               /\ ran[passed + 1].list => Len(ran[passed + 1].rows) = 1
               /\ Passes(passed + 1)
            \/ /\ phase' = "done" /\ UNCHANGED <<passed, boxes>>
               /\ EndsWell(outcome') \/ EndsEarly(outcome')
<1>1. boxes \in Seq(Row) /\ passed \in Nat /\ Len(ran) \in Nat
  BY LenProperties DEF RecordsOK
<1>2. phase = "sent"
  BY DEF Reading, BadArgument, CheckQueryResult, TakeOneResult, ReadOne, ReadOptional, ReadFirst,
         ReadAll, ReadEach, ReadDone, NoArray, ReadNothing, NotAList, Listing, Taken, Answered
<1>3. call \in Calls
  BY <1>2, CallMade
<1>4. ASSUME Answered({"one", "optional", "first", "all", "iterator", "sync"})
      PROVE  Len(ran) = 1 /\ call.reads \notin {"each", "nothing", "response"}
  BY <1>3, <1>4, StatementsOf DEF Answered
<1>5. ASSUME Len(ran) = 1
      PROVE  Found \in Seq(Row)
  <2>1. ran \in Seq(Deeds)
    BY DEF RecordsOK
  <2>2. ran[1] \in Deeds
    BY <1>5, <2>1, ElementOfSeq
  <2>3. QED
    BY <2>2 DEF Found, Deeds
<1>6. CASE BadArgument
  BY <1>2, <1>6, ThrowsEnds DEF BadArgument, EndsEarly
<1>7. CASE CheckQueryResult
  <2>1. CASE ran = <<>> /\ \E k \in Kinds : ThrowsError("refused", k)
    BY <1>2, <2>1, ThrowsErrorEnds DEF EndsEarly
  <2>2. CASE ThrowsError("lost", "Connection")
    BY <1>2, <2>2, ThrowsErrorEnds DEF EndsEarly
  <2>3. QED
    BY <1>7, <2>1, <2>2 DEF CheckQueryResult
<1>8. CASE TakeOneResult
  <2>1. Len(ran) = 1 /\ ran[1].error # None /\ ThrowsError("server", ran[1].error)
    BY <1>4, <1>8 DEF TakeOneResult
  <2>2. 1 \in 1 .. Len(ran)
    BY <2>1
  <2>3. QED
    BY <1>2, <2>1, <2>2, ThrowsErrorEnds DEF EndsEarly
<1>9. ASSUME NEW reads \in SUBSET {"one", "optional", "first", "all", "iterator", "sync"}, Taken(reads)
      PROVE  /\ Len(ran) = 1 /\ ran[1].error = None /\ call.reads \in reads
             /\ call.reads \notin {"each", "nothing", "response"}
  BY <1>4, <1>9 DEF Taken, Answered
<1>10. CASE ReadOne
  <2>1. Len(ran) = 1 /\ ran[1].error = None /\ call.reads = "one"
    BY <1>9, <1>10 DEF ReadOne, Listing
  <2>2. CASE Returns(Found)
    BY <1>2, <1>5, <2>1, <2>2, ReturnsEnds
  <2>3. CASE Len(Found) # 1 /\ Throws("unexpected", "SurrealException")
    BY <1>2, <2>1, <2>3, ThrowsEnds DEF EndsEarly, Found
  <2>4. QED
    BY <1>10, <2>2, <2>3 DEF ReadOne
<1>11. CASE ReadOptional
  <2>1. Len(ran) = 1 /\ ran[1].error = None /\ call.reads = "optional"
    BY <1>9, <1>11 DEF ReadOptional, Listing
  <2>2. CASE Returns(Found)
    BY <1>2, <1>5, <2>1, <2>2, ReturnsEnds
  <2>3. CASE Throws("unexpected", "SurrealException")
    BY <1>2, <2>1, <2>3, ThrowsEnds DEF EndsEarly
  <2>4. QED
    BY <1>11, <2>2, <2>3 DEF ReadOptional
<1>12. CASE ReadFirst
  <2>1. Len(ran) = 1 /\ ran[1].error = None /\ call.reads = "first"
    BY <1>9, <1>12 DEF ReadFirst, Listing
  <2>2. FirstOf(Found) \in Seq(Row)
    <3>1. CASE Found = <<>>
      BY <3>1 DEF FirstOf
    <3>2. CASE Found # <<>>
      <4>1. Found[1] \in Row
        BY <1>5, <2>1, <3>2, HeadTailProperties
      <4>2. QED
        BY <3>2, <4>1 DEF FirstOf
    <3>3. QED
      BY <3>1, <3>2
  <2>3. Returns(FirstOf(Found))
    BY <1>12 DEF ReadFirst
  <2>4. QED
    BY <1>2, <2>1, <2>2, <2>3, ReturnsEnds
<1>13. CASE ReadAll
  <2>1. Len(ran) = 1 /\ ran[1].error = None /\ call.reads = "all" /\ Returns(Found)
    BY <1>9, <1>13 DEF ReadAll, Listing
  <2>2. QED
    BY <1>2, <1>5, <2>1, ReturnsEnds
<1>14. CASE ReadEach
  <2> DEFINE n == passed + 1
  <2>1. call.reads = "each" /\ n \in 1 .. Len(ran)
    BY <1>1, <1>14 DEF ReadEach, Answered
  <2>2. CASE ran[n].error # None /\ ThrowsError("server", ran[n].error)
    BY <1>2, <2>1, <2>2, ThrowsErrorEnds DEF EndsEarly
  <2>3. CASE Throws("unexpected", "SurrealException")
    BY <1>2, <2>1, <2>3, ThrowsEnds DEF EndsEarly
  <2>4. CASE ran[n].error = None /\ (ran[n].list => Len(ran[n].rows) = 1) /\ Passes(n)
    BY <1>2, <2>1, <2>4 DEF Passes
  <2>5. QED
    BY <1>14, <2>2, <2>3, <2>4 DEF ReadEach
<1>15. CASE ReadDone
  <2>1. call.reads = "each" /\ passed = Len(ran) /\ Returns(boxes)
    BY <1>15 DEF ReadDone, Answered
  <2>2. QED
    BY <1>1, <1>2, <2>1, ReturnsEnds
<1>16. CASE NoArray
  BY <1>2, <1>16, ThrowsEnds DEF NoArray, EndsEarly
<1>17. CASE ReadNothing
  <2>1. call.reads = "nothing" /\ Returns(<<>>) /\ <<>> \in Seq(Row)
    BY <1>17 DEF ReadNothing, Answered
  <2>2. QED
    BY <1>2, <2>1, ReturnsEnds
<1>18. CASE NotAList
  <2>1. Len(ran) = 1 /\ ran[1].error = None /\ ~ran[1].list /\ Throws("unexpected", "SurrealException")
    BY <1>9, <1>18 DEF NotAList
  <2>2. QED
    BY <1>2, <2>1, ThrowsEnds DEF EndsEarly
<1>19. QED
  BY <1>6, <1>7, <1>8, <1>10, <1>11, <1>12, <1>13, <1>14, <1>15, <1>16, <1>17, <1>18 DEF Reading
-----------------------------------------------------------------------------
(* What is true of a call from its beginning to its end.                    *)
CallInv == RecordsOK /\ RanHonestly /\ BoxesRead /\ ThrowsUnchanged /\ FirstFailureThrown

(* A call that hands out an iterator or a Response ends well.               *)
LEMMA OpenStep ==
  ASSUME RecordsOK, Open
  PROVE  /\ phase = "sent" /\ phase' = "done" /\ UNCHANGED <<store, call, ran, passed, boxes>>
         /\ EndsWell(outcome')
         /\ call.reads \in {"iterator", "sync"} => Len(ran) = 1 /\ Found \in Seq(Row)
<1>1. <<>> \in Seq(Row)
  OBVIOUS
<1>2. CASE ReadIterator
  <2>1. phase = "sent" /\ call.reads \in {"iterator", "sync"} /\ Len(ran) = Statements(call)
        /\ ran[1].error = None /\ Returns(<<>>)
    BY <1>2 DEF ReadIterator, Listing, Taken, Answered
  <2>2. Len(ran) = 1
    BY <2>1, CallMade, StatementsOf
  <2>3. ran \in Seq(Deeds)
    BY DEF RecordsOK
  <2>4. ran[1] \in Deeds
    BY <2>2, <2>3, ElementOfSeq
  <2>5. Found \in Seq(Row)
    BY <2>4 DEF Found, Deeds
  <2>6. QED
    BY <1>1, <2>1, <2>2, <2>5, ReturnsEnds
<1>3. CASE ReadResponse
  <2>1. phase = "sent" /\ call.reads = "response" /\ Returns(<<>>)
    BY <1>3 DEF ReadResponse, Answered
  <2>2. QED
    BY <1>1, <2>1, ReturnsEnds
<1>4. QED
  BY <1>2, <1>3 DEF Open

(* Before there is a call nothing was run and nothing read.                 *)
LEMMA IdleIsEmpty ==
  ASSUME RecordsOK, BoxesRead, phase = "idle"
  PROVE  ran = <<>> /\ passed = 0 /\ boxes = <<>>
<1>1. ran \in Seq(Deeds) /\ boxes \in Seq(Row) /\ Len(ran) <= 0 /\ passed \in 0 .. Len(ran)
  BY DEF RecordsOK
<1>2. Len(ran) = 0 /\ passed = 0 /\ Len(boxes) = 0
  BY <1>1, LenProperties DEF BoxesRead
<1>3. QED
  BY <1>1, <1>2, EmptySeq

(* However a call ends, its outcome has the right type.                     *)
LEMMA OutcomesOK ==
  /\ OutcomeOK(Pending)
  /\ \A o : EndsWell(o) => OutcomeOK(o)
  /\ \A o : EndsEarly(o) => OutcomeOK(o)
<1>1. <<>> \in Seq(Row)
  OBVIOUS
<1>2. OutcomeOK(Pending)
  BY <1>1 DEF OutcomeOK, Pending
<1>3. ASSUME NEW o, EndsWell(o)
      PROVE  OutcomeOK(o)
  BY <1>3 DEF EndsWell, OutcomeOK
<1>4. ASSUME NEW o, EndsEarly(o)
      PROVE  OutcomeOK(o)
  BY <1>1, <1>4 DEF EndsEarly, OutcomeOK
<1>5. QED
  BY <1>2, <1>3, <1>4

(* CallInv holds initially.                                                 *)
LEMMA CallInvInit ==
  ASSUME Init
  PROVE  CallInv
<1>1. RecordsOK
  <2>1. <<>> \in Seq(Row) /\ <<>> \in Seq(Deeds) /\ Len(<<>>) <= 0
    OBVIOUS
  <2>2. QED
    BY <2>1, OutcomesOK DEF Init, RecordsOK, Tables
<1>2. phase = "idle" /\ ran = <<>> /\ passed = 0 /\ boxes = <<>>
  BY DEF Init
<1>3. DOMAIN ran = {} /\ 1 .. passed = {} /\ Len(boxes) = 0
  BY <1>2
<1>4. RanHonestly /\ BoxesRead
  BY <1>2, <1>3 DEF RanHonestly, BoxesRead
<1>5. ThrowsUnchanged /\ FirstFailureThrown
  BY <1>2 DEF ThrowsUnchanged, FirstFailureThrown, Thrown, Returned
<1>6. QED
  BY <1>1, <1>4, <1>5 DEF CallInv

(* CallInv speaks of the records and the call only.                         *)
LEMMA CallInvStutters ==
  ASSUME CallInv, UNCHANGED records
  PROVE  CallInv'
BY DEF CallInv, RecordsOK, RanHonestly, BoxesRead, ThrowsUnchanged, WritesOnly, FirstFailureThrown,
       Thrown, Returned, records, client

(* A new call keeps CallInv: nothing was run and nothing read yet.          *)
LEMMA CallKeeps ==
  ASSUME CallInv, NEW c \in Calls, Call(c)
  PROVE  CallInv'
<1>1. RecordsOK /\ BoxesRead /\ phase = "idle" /\ phase' = "sent" /\ call' = c
      /\ UNCHANGED <<store, ran, passed, boxes, outcome>>
  BY DEF CallInv, Call
<1>2. ran = <<>> /\ passed = 0 /\ boxes = <<>>
  BY <1>1, IdleIsEmpty
<1>3. Statements(c) \in Nat
  BY StatementsOf
<1>4. RecordsOK'
  BY <1>1, <1>2, <1>3 DEF RecordsOK
<1>5. QED
  BY <1>1, <1>2, <1>4 DEF CallInv, RanHonestly, BoxesRead, ThrowsUnchanged, FirstFailureThrown,
                          Thrown, Returned

(* Running a statement keeps CallInv: the statement is an honest one.       *)
LEMMA ExecuteKeeps ==
  ASSUME CallInv, Execute
  PROVE  CallInv'
<1>1. RecordsOK /\ BoxesRead /\ RanHonestly /\ phase = "sent" /\ UNCHANGED <<phase, call, passed, boxes, outcome>>
  BY DEF CallInv, Execute, client
<1>2. PICK d \in Deeds : Honest(call, d) /\ ran' = Append(ran, d) /\ store' \in Tables
  BY <1>1, ExecuteStep
<1>3. call \in Calls /\ Len(ran) + 1 \in 1 .. Statements(call)
  BY <1>1, ExecuteStep
<1>4. ran \in Seq(Deeds)
  BY <1>1 DEF RecordsOK
<1>5. /\ ran' \in Seq(Deeds) /\ Len(ran') = Len(ran) + 1 /\ Len(ran) \in Nat
      /\ \A n \in 1 .. Len(ran) : ran'[n] = ran[n]
      /\ ran'[Len(ran) + 1] = d /\ DOMAIN ran' = 1 .. Len(ran) + 1 /\ DOMAIN ran = 1 .. Len(ran)
  BY <1>2, <1>4, AppendProperties, LenProperties
<1>6. RecordsOK'
  BY <1>1, <1>2, <1>3, <1>5 DEF RecordsOK
<1>7. RanHonestly'
  BY <1>1, <1>2, <1>5 DEF RanHonestly, Honest
<1>8. BoxesRead'
  <2>1. \A m \in 1 .. passed : ran'[m] = ran[m]
    BY <1>1, <1>5 DEF RecordsOK
  <2>2. QED
    BY <1>1, <2>1 DEF BoxesRead
<1>9. ThrowsUnchanged' /\ FirstFailureThrown'
  BY <1>1 DEF ThrowsUnchanged, FirstFailureThrown, Thrown, Returned
<1>10. QED
  BY <1>6, <1>7, <1>8, <1>9 DEF CallInv

(* What others write is not what CallInv speaks of.                         *)
LEMMA OthersKeep ==
  ASSUME CallInv, Others
  PROVE  CallInv'
<1>1. UNCHANGED <<phase, call, passed, boxes, outcome, ran>> /\ RecordsOK
  BY DEF CallInv, Others, client
<1>2. store' \in Tables
  BY DEF CallInv, RecordsOK, Others, Tables
<1>3. RecordsOK'
  BY <1>1, <1>2 DEF RecordsOK
<1>4. QED
  BY <1>1, <1>3 DEF CallInv, RanHonestly, BoxesRead, ThrowsUnchanged, WritesOnly,
                    FirstFailureThrown, Thrown, Returned

(* A call that is forgotten leaves nothing behind.                          *)
LEMMA ForgetKeeps ==
  ASSUME CallInv, Forget
  PROVE  CallInv'
<1>1. RecordsOK'
  <2>1. <<>> \in Seq(Row) /\ <<>> \in Seq(Deeds) /\ Len(<<>>) <= 0
    OBVIOUS
  <2>2. QED
    BY <2>1, OutcomesOK DEF CallInv, RecordsOK, Forget
<1>2. QED
  BY <1>1 DEF Forget, CallInv, RanHonestly, BoxesRead, ThrowsUnchanged, FirstFailureThrown,
              Thrown, Returned

(* A call that ends keeps what is promised of it.                           *)
LEMMA EndKeeps ==
  ASSUME CallInv, phase = "sent", phase' = "done", UNCHANGED <<store, call, ran, passed, boxes>>,
         EndsWell(outcome') \/ EndsEarly(outcome')
  PROVE  CallInv'
<1>1. RecordsOK /\ RanHonestly /\ BoxesRead
  BY DEF CallInv
<1>2. RecordsOK'
  BY <1>1, OutcomesOK DEF RecordsOK
<1>3. RanHonestly' /\ BoxesRead'
  BY <1>1 DEF RanHonestly, BoxesRead
<1>4. call \in Calls /\ ran \in Seq(Deeds) /\ boxes \in Seq(Row)
  BY <1>1, CallMade DEF RecordsOK
<1>5. Len(ran) \in Nat /\ passed \in 0 .. Len(ran) /\ DOMAIN ran = 1 .. Len(ran)
  BY <1>1, <1>4, LenProperties DEF RecordsOK
<1>6. CASE EndsWell(outcome')
  <2>1. outcome'.returned /\ ~Thrown({"refused", "server", "unexpected"})' /\ ~Thrown({"server"})'
    BY <1>6 DEF EndsWell, Thrown
  <2>2. ASSUME Returned({"one", "optional", "first", "all", "each", "iterator", "sync"})'
        PROVE  \A n \in DOMAIN ran : ran[n].error = None
    <3>1. call.reads \in {"one", "optional", "first", "all", "each", "iterator", "sync"}
      BY <2>2 DEF Returned
    <3>2. CASE call.reads = "each"
      BY <1>1, <1>5, <1>6, <3>2 DEF BoxesRead, EndsWell
    <3>3. CASE call.reads # "each"
      <4>1. call.reads \notin {"each", "nothing", "response"}
        BY <3>1, <3>3
      <4>2. Len(ran) = 1 /\ ran[1].error = None
        BY <1>6, <4>1 DEF EndsWell
      <4>3. \A n \in DOMAIN ran : n = 1
        BY <1>5, <4>2
      <4>4. QED
        BY <4>2, <4>3
    <3>4. QED
      BY <3>2, <3>3
  <2>3. ThrowsUnchanged'
    BY <2>1 DEF ThrowsUnchanged
  <2>4. FirstFailureThrown'
    BY <2>1, <2>2 DEF FirstFailureThrown
  <2>5. QED
    BY <1>2, <1>3, <2>3, <2>4 DEF CallInv
<1>7. CASE EndsEarly(outcome')
  <2>1. outcome'.returned = FALSE
    BY <1>7 DEF EndsEarly
  <2>2. ThrowsUnchanged'
    <3>1. SUFFICES ASSUME Thrown({"refused", "server", "unexpected"})', call.reads # "each",
                          NEW n \in DOMAIN ran
                   PROVE  IF WritesOnly' THEN ran[n].wrote # {}
                          ELSE ran[n].wrote = {} /\ ran[n].after = ran[n].before
      BY DEF ThrowsUnchanged
    <3>2. outcome'.why \in {"refused", "server", "unexpected"}
      BY <3>1 DEF Thrown
    <3>3. Honest(call, ran[n])
      BY <1>1, <3>1 DEF RanHonestly
    <3>4. CASE outcome'.why = "refused"
      BY <1>5, <1>7, <3>1, <3>4 DEF EndsEarly
    <3>5. CASE outcome'.why = "server"
      <4>1. n = 1 /\ ran[1].error # None
        BY <1>5, <1>7, <3>1, <3>5 DEF EndsEarly
      <4>2. QED
        BY <3>3, <3>5, <4>1 DEF Honest, WritesOnly
    <3>6. CASE outcome'.why = "unexpected"
      <4>1. /\ n = 1 /\ ran[1].error = None
            /\ ran[1].list => /\ call.reads \in {"one", "optional"}
                              /\ call.reads = "one" => Len(ran[1].rows) # 1
        BY <1>5, <1>7, <3>1, <3>6 DEF EndsEarly
      <4>2. CASE call.only
        <5>1. call.verb \in {"SELECT", "UPDATE", "UPSERT"}
          BY <1>4, <3>1, <4>2, Shapes
        <5>2. WritesOnly' <=> call.verb \in {"UPDATE", "UPSERT"}
          BY <3>6, <4>2 DEF WritesOnly
        <5>3. QED
          BY <3>3, <4>1, <4>2, <5>1, <5>2 DEF Honest
      <4>3. CASE ~call.only
        <5>1. ~WritesOnly' /\ ran[1].list
          BY <3>3, <4>1, <4>3 DEF Honest, WritesOnly
        <5>2. call.reads = "optional" => call.verb = "SELECT"
          BY <1>4, Shapes
        <5>3. QED
          BY <3>3, <4>1, <5>1, <5>2 DEF Honest
      <4>4. QED
        BY <4>2, <4>3
    <3>7. QED
      BY <3>2, <3>4, <3>5, <3>6
  <2>3. FirstFailureThrown'
    <3>1. ~Returned({"one", "optional", "first", "all", "each", "iterator", "sync"})'
      BY <2>1 DEF Returned
    <3>2. ASSUME Thrown({"server"})'
          PROVE  \E n \in DOMAIN ran :
                   /\ ran[n].error # None /\ outcome'.error[1].kind = ran[n].error
                   /\ \A m \in 1 .. n - 1 : ran[m].error = None
      <4>1. outcome'.why = "server"
        BY <3>2 DEF Thrown
      <4>2. PICK n \in 1 .. Len(ran) :
              /\ ran[n].error # None /\ outcome'.error[1].kind = ran[n].error
              /\ n = 1 \/ n = passed + 1
        BY <1>7, <4>1 DEF EndsEarly
      <4>3. \A m \in 1 .. n - 1 : ran[m].error = None
        BY <1>1, <1>5, <4>2 DEF BoxesRead
      <4>4. QED
        BY <1>5, <4>2, <4>3
    <3>3. QED
      BY <3>1, <3>2 DEF FirstFailureThrown
  <2>4. QED
    BY <1>2, <1>3, <2>2, <2>3 DEF CallInv
<1>8. QED
  BY <1>6, <1>7

(* Reading the answer keeps CallInv.                                        *)
LEMMA ReadingKeeps ==
  ASSUME CallInv, Reading
  PROVE  CallInv'
<1>1. RecordsOK /\ BoxesRead /\ RanHonestly
  BY DEF CallInv
<1>2. phase = "sent" /\ UNCHANGED <<store, call, ran>>
  BY <1>1, ReadingStep
<1>3. CASE phase' = "done" /\ UNCHANGED <<passed, boxes>> /\ (EndsWell(outcome') \/ EndsEarly(outcome'))
  BY <1>2, <1>3, EndKeeps
<1>4. CASE /\ UNCHANGED <<phase, outcome>>
           /\ passed + 1 \in 1 .. Len(ran) /\ ran[passed + 1].error = None
           /\ ran[passed + 1].list => Len(ran[passed + 1].rows) = 1
           /\ Passes(passed + 1)
  <2> DEFINE n == passed + 1
             row == ran[n].rows[1]
  <2>1. boxes \in Seq(Row) /\ ran \in Seq(Deeds) /\ passed \in 0 .. Len(ran)
    BY <1>1 DEF RecordsOK
  <2>2. Len(ran) \in Nat /\ passed \in Nat /\ n \in 1 .. Len(ran)
    BY <1>4, <2>1, LenProperties
  <2>3. ran[n] \in Deeds
    BY <2>1, <2>2, ElementOfSeq
  <2>4. ran[n].rows \in Seq(Row) /\ ran[n].list \in BOOLEAN
    BY <2>3 DEF Deeds
  <2>5. ran[n].list => row \in Row /\ ran[n].rows = <<row>>
    <3>1. ASSUME ran[n].list
          PROVE  row \in Row
      BY <1>4, <2>4, <3>1, ElementOfSeq
    <3>2. QED
      BY <1>4, <2>4, <3>1
  <2>6. passed' = n /\ boxes' = IF ran[n].list THEN Append(boxes, row) ELSE boxes
    BY <1>4 DEF Passes
  <2> HIDE DEF row
  <2>7. ran[n].list =>
          /\ boxes' \in Seq(Row) /\ Len(boxes') = Len(boxes) + 1 /\ boxes'[Len(boxes) + 1] = row
          /\ \A m \in 1 .. Len(boxes) : boxes'[m] = boxes[m]
    BY <2>1, <2>5, <2>6, AppendProperties
  <2>8. RecordsOK'
    BY <1>1, <1>2, <1>4, <2>1, <2>2, <2>6, <2>7 DEF RecordsOK
  <2>9. BoxesRead'
    <3>1. \A m \in 1 .. n : m = n \/ m \in 1 .. passed
      BY <2>2
    <3>2. \A m \in 1 .. n : ran[m].error = None
      BY <1>1, <1>4, <3>1 DEF BoxesRead
    <3>3. ASSUME \A m \in 1 .. n : ran[m].list
          PROVE  Len(boxes') = n /\ \A m \in 1 .. n : ran[m].rows = <<boxes'[m]>>
      <4>1. Len(boxes) = passed /\ \A m \in 1 .. passed : ran[m].rows = <<boxes[m]>>
        BY <1>1, <2>2, <3>3 DEF BoxesRead
      <4>2. ran[n].list
        BY <2>2, <3>3
      <4>3. QED
        BY <2>2, <2>5, <2>7, <3>1, <4>1, <4>2
    <3>4. ASSUME \A m \in 1 .. n : ~ran[m].list
          PROVE  boxes' = <<>>
      <4>1. boxes = <<>>
        BY <1>1, <2>2, <3>4 DEF BoxesRead
      <4>2. ~ran[n].list
        BY <2>2, <3>4
      <4>3. QED
        BY <2>6, <4>1, <4>2
    <3>5. QED
      BY <1>2, <2>6, <3>2, <3>3, <3>4 DEF BoxesRead
  <2>10. ThrowsUnchanged' /\ FirstFailureThrown'
    <3>1. CallInv /\ phase' # "done"
      BY <1>2, <1>4
    <3>2. QED
      BY <3>1 DEF ThrowsUnchanged, FirstFailureThrown, Thrown, Returned
  <2>11. RanHonestly'
    BY <1>1, <1>2 DEF RanHonestly
  <2>12. QED
    BY <2>8, <2>9, <2>10, <2>11 DEF CallInv
<1>5. QED
  BY <1>1, <1>3, <1>4, ReadingStep

(* Every step keeps CallInv.                                                *)
LEMMA CallInvNext ==
  ASSUME CallInv, ClientNext
  PROVE  CallInv'
<1>1. CASE \E c \in Calls : Call(c)
  BY <1>1, CallKeeps
<1>2. CASE Execute
  BY <1>2, ExecuteKeeps
<1>3. CASE Others
  BY <1>3, OthersKeep
<1>4. CASE Reading
  BY <1>4, ReadingKeeps
<1>5. CASE Open
  <2>1. phase = "sent" /\ phase' = "done" /\ UNCHANGED <<store, call, ran, passed, boxes>> /\ EndsWell(outcome')
    BY <1>5, OpenStep DEF CallInv
  <2>2. QED
    BY <2>1, EndKeeps
<1>6. CASE Forget
  BY <1>6, ForgetKeeps
<1>7. CASE UNCHANGED records
  BY <1>7, CallInvStutters
<1>8. QED
  BY <1>1, <1>2, <1>3, <1>4, <1>5, <1>6, <1>7 DEF ClientNext

(* CallInv holds in every reachable state.                                  *)
LEMMA CallInvariant ==
  Spec => []CallInv
<1>1. ClientInit => CallInv
  BY CallInvInit DEF ClientInit
<1>2. CallInv /\ [ClientNext]_vars => CallInv'
  <2>1. CallInv /\ UNCHANGED vars => CallInv'
    BY CallInvStutters DEF vars
  <2>2. QED
    BY <2>1, CallInvNext
<1>3. QED
  BY <1>1, <1>2, PTL DEF Spec

(* An operation that reports the server's error or an unexpected result has *)
(* changed nothing.                                                         *)
THEOREM Unchanged ==
  Spec => []ThrowsUnchanged
<1>1. CallInv => ThrowsUnchanged
  BY DEF CallInv
<1>2. QED
  BY <1>1, CallInvariant, PTL

(* No operation but delete() returns although a statement has failed, and   *)
(* what is thrown is the first failure.                                     *)
THEOREM FirstFailure ==
  Spec => []FirstFailureThrown
<1>1. CallInv => FirstFailureThrown
  BY DEF CallInv
<1>2. QED
  BY <1>1, CallInvariant, PTL
-----------------------------------------------------------------------------
(* What is true while results are read.  An answer is read only when the    *)
(* server has run everything; the owner of an iterator has made sure of the *)
(* element it asks for; what is left in a Response is what nobody took.     *)
Asked(n) == \E j \in DOMAIN answers : answers[j].index = n

Left ==
  /\ Len(results) = Len(ran)
  /\ \A n \in DOMAIN ran : results[n] = IF Asked(n) THEN NoResult ELSE Opened(ran[n])

ReadInv ==
  /\ CallInv /\ ReadingOK
  /\ mode # "none" => phase = "done"
  /\ OwnerMeetsNoEnd
  /\ mode = "iterator" => \A c \in Consumers : at[c] = "next" => rest # <<>>
  /\ mode = "response" => Left
  /\ TakenOnce

(* What is in a Response has its type.                                      *)
LEMMA AnswersOK ==
  /\ NoResult \in Answers
  /\ \A d \in Deeds : Opened(d) \in Answers
BY DEF NoResult, Opened, Answers, Deeds

(* Consumers may all be idle.                                               *)
LEMMA IdleOK == Idle \in [Consumers -> {"idle", "loop", "next", "take"}]
BY DEF Idle

(* ReadInv holds initially.                                                 *)
LEMMA ReadInvInit ==
  ASSUME ClientInit
  PROVE  ReadInv
<1>1. CallInv
  BY CallInvInit DEF ClientInit
<1>2. /\ mode = "none" /\ owner = Nobody /\ rest = <<>> /\ handed = <<>> /\ at = Idle
      /\ threw = {} /\ results = <<>> /\ answers = <<>>
  BY DEF ClientInit, ResultsInit
<1>3. ReadingOK
  BY <1>2, IdleOK DEF ReadingOK
<1>4. QED
  BY <1>1, <1>2, <1>3 DEF ReadInv, OwnerMeetsNoEnd, TakenOnce

(* Steps of the call leave what is read alone: nothing is read then.        *)
LEMMA CallingKeeps ==
  ASSUME ReadInv, CallInv', UNCHANGED reading,
         phase # "done" \/ UNCHANGED records
  PROVE  ReadInv'
<1>1. UNCHANGED <<mode, owner, rest, handed, at, threw, results, answers>>
  BY DEF reading, iterator, response
<1>2. ReadingOK'
  BY <1>1 DEF ReadInv, ReadingOK
<1>3. OwnerMeetsNoEnd'
  BY <1>1 DEF ReadInv, OwnerMeetsNoEnd
<1>4. CASE mode = "none"
  BY <1>1, <1>2, <1>3, <1>4 DEF ReadInv, TakenOnce
<1>5. CASE mode # "none"
  <2>1. UNCHANGED <<phase, ran>>
    BY <1>5 DEF ReadInv, records, client
  <2>2. (mode = "response" => Left)' /\ TakenOnce'
    BY <1>1, <2>1 DEF ReadInv, Left, Asked, TakenOnce
  <2>3. QED
    BY <1>1, <1>2, <1>3, <2>1, <2>2 DEF ReadInv
<1>6. QED
  BY <1>4, <1>5

(* What is handed out is what ReadInv says, before anyone has read of it.   *)
LEMMA OpenKeeps ==
  ASSUME ReadInv, CallInv', Open
  PROVE  ReadInv'
<1>1. /\ RecordsOK /\ phase' = "done" /\ UNCHANGED ran
      /\ call.reads \in {"iterator", "sync"} => Found \in Seq(Row)
  BY OpenStep DEF ReadInv, CallInv
<1>2. ran \in Seq(Deeds) /\ Len(ran) \in Nat /\ DOMAIN ran = 1 .. Len(ran)
  BY <1>1, LenProperties DEF RecordsOK
<1>3. \A n \in DOMAIN ran : ran[n] \in Deeds
  BY <1>2, ElementOfSeq
<1>4. <<>> \in Seq(Row) /\ <<>> \in Seq(Answers) /\ <<>> \in Seq([index : Nat, result : Answers])
  OBVIOUS
<1>5. CASE call.reads = "sync" /\ NewSyncIterator(Found)
  <2>1. /\ mode' = "sync" /\ owner' = Nobody /\ rest' = Found /\ handed' = <<>> /\ threw' = {}
        /\ at' = [c \in Consumers |-> "loop"] /\ results' = <<>> /\ answers' = <<>>
    BY <1>5 DEF NewSyncIterator
  <2>2. ReadingOK'
    BY <1>1, <1>4, <1>5, <2>1 DEF ReadingOK
  <2>3. QED
    BY <1>1, <2>1, <2>2 DEF ReadInv, OwnerMeetsNoEnd, TakenOnce
<1>6. CASE call.reads = "iterator" /\ \E c \in Consumers : NewIterator(c, Found)
  <2>1. PICK c \in Consumers :
          /\ mode' = "iterator" /\ owner' = c /\ rest' = Found /\ handed' = <<>> /\ threw' = {}
          /\ at' = [Idle EXCEPT ![c] = "loop"] /\ results' = <<>> /\ answers' = <<>>
    BY <1>6 DEF NewIterator
  <2>2. \A x \in Consumers : at'[x] = IF x = c THEN "loop" ELSE "idle"
    BY <2>1 DEF Idle
  <2>3. at' \in [Consumers -> {"idle", "loop", "next", "take"}]
    BY <2>1, IdleOK
  <2>4. ReadingOK'
    BY <1>1, <1>4, <1>6, <2>1, <2>3 DEF ReadingOK
  <2>5. OwnerMeetsNoEnd'
    BY <2>1, <2>2 DEF OwnerMeetsNoEnd
  <2>6. QED
    BY <1>1, <2>1, <2>2, <2>4, <2>5 DEF ReadInv, TakenOnce
<1>7. CASE NewResponse([n \in DOMAIN ran |-> Opened(ran[n])])
  <2>1. /\ mode' = "response" /\ owner' = Nobody /\ rest' = <<>> /\ handed' = <<>> /\ threw' = {}
        /\ at' = [c \in Consumers |-> "take"] /\ answers' = <<>>
        /\ results' = [n \in DOMAIN ran |-> Opened(ran[n])]
    BY <1>7 DEF NewResponse
  <2>2. results' \in [1 .. Len(ran) -> Answers]
    BY <1>2, <1>3, <2>1, AnswersOK
  <2>3. results' \in Seq(Answers) /\ Len(results') = Len(ran)
    BY <1>2, <2>2
  <2>4. ReadingOK'
    BY <1>4, <2>1, <2>3 DEF ReadingOK
  <2>5. DOMAIN answers' = {}
    BY <2>1
  <2>6. Left'
    BY <1>1, <2>1, <2>3, <2>5 DEF Left, Asked
  <2>7. TakenOnce'
    BY <2>5 DEF TakenOnce
  <2>8. QED
    BY <1>1, <2>1, <2>4, <2>6, <2>7 DEF ReadInv, OwnerMeetsNoEnd
<1>8. QED
  BY <1>5, <1>6, <1>7 DEF Open

(* What has been read is forgotten.                                         *)
LEMMA DropKeeps ==
  ASSUME ReadInv, CallInv', Drop
  PROVE  ReadInv'
<1>1. /\ mode' = "none" /\ owner' = Nobody /\ rest' = <<>> /\ handed' = <<>> /\ at' = Idle
      /\ threw' = {} /\ results' = <<>> /\ answers' = <<>>
  BY DEF Drop
<1>2. ReadingOK'
  BY <1>1, IdleOK DEF ReadingOK
<1>3. QED
  BY <1>1, <1>2 DEF ReadInv, OwnerMeetsNoEnd, TakenOnce

(* A consumer's step.                                                       *)
LEMMA ConsumeKeeps ==
  ASSUME ReadInv, NEW c \in Consumers, Consume(c), UNCHANGED records
  PROVE  ReadInv'
<1>1. CallInv' /\ UNCHANGED <<phase, ran>>
  BY CallInvStutters DEF ReadInv, records, client
<1>2. ReadingOK /\ OwnerMeetsNoEnd
  BY DEF ReadInv
<1>3. at \in [Consumers -> {"idle", "loop", "next", "take"}] /\ rest \in Seq(Row)
      /\ handed \in Seq(Row) /\ threw \subseteq Consumers
  BY <1>2 DEF ReadingOK
<1>4. ASSUME NEW l \in {"idle", "loop", "next", "take"}, Goes(c, l)
      PROVE  /\ at' \in [Consumers -> {"idle", "loop", "next", "take"}]
             /\ \A x \in Consumers : at'[x] = IF x = c THEN l ELSE at[x]
  BY <1>3, <1>4 DEF Goes
<1>5. ASSUME UNCHANGED <<mode, response>>
      PROVE  (mode = "response" => Left)' /\ TakenOnce'
  BY <1>1, <1>5 DEF ReadInv, Left, Asked, TakenOnce, response
<1>6. CASE HasNext(c)
  <2>1. at[c] = "loop" /\ UNCHANGED <<mode, owner, rest, handed, threw, response>>
        /\ Goes(c, IF Len(rest) > 0 THEN "next" ELSE "idle")
    BY <1>6 DEF HasNext
  <2>2. /\ at' \in [Consumers -> {"idle", "loop", "next", "take"}]
        /\ \A x \in Consumers : x # c => at'[x] = at[x]
        /\ at'[c] = "next" => Len(rest) > 0
    BY <1>4, <2>1
  <2>3. ReadingOK'
    BY <1>2, <2>1, <2>2 DEF ReadingOK, response
  <2>4. mode = "iterator" => c = owner
    BY <1>2, <2>1 DEF OwnerMeetsNoEnd
  <2>5. OwnerMeetsNoEnd'
    BY <1>2, <2>1, <2>2, <2>4 DEF OwnerMeetsNoEnd
  <2>6. Len(rest) > 0 => rest # <<>>
    OBVIOUS
  <2>7. QED
    BY <1>1, <1>5, <2>1, <2>2, <2>3, <2>5, <2>6 DEF ReadInv
<1>7. CASE NextGives(c)
  <2>1. /\ at[c] = "next" /\ rest # <<>> /\ UNCHANGED <<mode, owner, threw, response>>
        /\ handed' = Append(handed, Head(rest)) /\ rest' = Tail(rest) /\ Goes(c, "loop")
    BY <1>7 DEF NextGives
  <2>2. /\ at' \in [Consumers -> {"idle", "loop", "next", "take"}]
        /\ \A x \in Consumers : at'[x] = IF x = c THEN "loop" ELSE at[x]
    BY <1>4, <2>1
  <2>3. rest' \in Seq(Row) /\ handed' \in Seq(Row)
    BY <1>3, <2>1, HeadTailProperties, AppendProperties
  <2>4. ReadingOK'
    BY <1>2, <2>1, <2>2, <2>3 DEF ReadingOK, response
  <2>5. mode = "iterator" => c = owner
    BY <1>2, <2>1 DEF OwnerMeetsNoEnd
  <2>6. OwnerMeetsNoEnd' /\ (mode = "iterator" => \A x \in Consumers : at'[x] # "next")
    BY <1>2, <2>1, <2>2, <2>5 DEF OwnerMeetsNoEnd
  <2>7. QED
    BY <1>1, <1>5, <2>1, <2>4, <2>6 DEF ReadInv
<1>8. CASE NextThrows(c)
  <2>1. /\ at[c] = "next" /\ rest = <<>> /\ UNCHANGED <<mode, owner, rest, handed, response>>
        /\ threw' = threw \cup {c} /\ Goes(c, "idle")
    BY <1>8 DEF NextThrows
  <2>2. mode # "iterator"
    BY <2>1 DEF ReadInv
  <2>3. at' \in [Consumers -> {"idle", "loop", "next", "take"}] /\ threw' \subseteq Consumers
    BY <1>3, <1>4, <2>1
  <2>4. ReadingOK'
    BY <1>2, <2>1, <2>3 DEF ReadingOK, response
  <2>5. QED
    BY <1>1, <1>5, <2>1, <2>2, <2>4 DEF ReadInv, OwnerMeetsNoEnd
<1>9. CASE StopTaking(c)
  <2>1. at[c] = "take" /\ UNCHANGED <<mode, owner, rest, handed, threw, response>> /\ Goes(c, "idle")
    BY <1>9 DEF StopTaking
  <2>2. /\ at' \in [Consumers -> {"idle", "loop", "next", "take"}]
        /\ \A x \in Consumers : at'[x] = IF x = c THEN "idle" ELSE at[x]
    BY <1>4, <2>1
  <2>3. ReadingOK'
    BY <1>2, <2>1, <2>2 DEF ReadingOK, response
  <2>4. OwnerMeetsNoEnd'
    BY <1>2, <2>1, <2>2 DEF OwnerMeetsNoEnd
  <2>5. QED
    BY <1>1, <1>5, <2>1, <2>2, <2>3, <2>4 DEF ReadInv
<1>10. ASSUME NEW n \in 1 .. Len(results) + 1, Take(c, n)
       PROVE  ReadInv'
  <2> DEFINE given == IF n \in DOMAIN results THEN results[n] ELSE NoResult
             a == [index |-> n, result |-> given]
  <2>1. /\ answers' = Append(answers, a)
        /\ results' = [k \in DOMAIN results |-> IF k = n THEN NoResult ELSE results[k]]
        /\ UNCHANGED <<mode, owner, rest, handed, at, threw>>
    BY <1>10 DEF Take, iterator
  <2>2. results \in Seq(Answers) /\ answers \in Seq([index : Nat, result : Answers])
        /\ Len(results) \in Nat /\ DOMAIN results = 1 .. Len(results) /\ n \in Nat
        /\ Len(answers) \in Nat /\ DOMAIN answers = 1 .. Len(answers)
    BY <1>2, LenProperties DEF ReadingOK
  <2>3. given \in Answers
    BY <2>2, ElementOfSeq, AnswersOK
  <2>4. results' \in Seq(Answers) /\ Len(results') = Len(results)
    <3>1. \A k \in DOMAIN results : results[k] \in Answers
      BY <2>2, ElementOfSeq
    <3>2. results' \in [1 .. Len(results) -> Answers]
      BY <2>1, <2>2, <3>1, AnswersOK
    <3>3. QED
      BY <2>2, <3>2
  <2> HIDE DEF given
  <2>5. a \in [index : Nat, result : Answers]
    BY <2>2, <2>3
  <2>6. /\ answers' \in Seq([index : Nat, result : Answers]) /\ Len(answers') = Len(answers) + 1
        /\ DOMAIN answers' = 1 .. Len(answers) + 1 /\ answers'[Len(answers) + 1] = a
        /\ \A j \in 1 .. Len(answers) : answers'[j] = answers[j]
    BY <2>1, <2>2, <2>5, AppendProperties, LenProperties
  <2>7. ReadingOK'
    BY <1>2, <2>1, <2>4, <2>6 DEF ReadingOK
  <2>8. OwnerMeetsNoEnd'
    BY <1>2, <2>1 DEF OwnerMeetsNoEnd
  <2>9. \A k : Asked(k)' <=> (k = n \/ Asked(k))
    <3>1. ASSUME NEW k, Asked(k)'
          PROVE  k = n \/ Asked(k)
      BY <2>2, <2>6, <3>1, SMTT(30) DEF Asked
    <3>2. ASSUME NEW k, Asked(k)
          PROVE  Asked(k)'
      BY <2>2, <2>6, <3>2 DEF Asked
    <3>3. Asked(n)'
      <4>1. Len(answers) + 1 \in DOMAIN answers' /\ answers'[Len(answers) + 1].index = n
        BY <2>2, <2>6
      <4>2. QED
        BY <4>1 DEF Asked
    <3>4. QED
      BY <3>1, <3>2, <3>3
  <2>10. CASE mode = "response"
    <3>1. Left /\ TakenOnce
      BY <2>10 DEF ReadInv
    <3>2. ran \in Seq(Deeds) /\ DOMAIN ran = DOMAIN results
      <4>1. ran \in Seq(Deeds)
        BY DEF ReadInv, CallInv, RecordsOK
      <4>2. QED
        BY <2>2, <3>1, <4>1, LenProperties DEF Left
    <3>3. Left'
      <4>1. Len(results') = Len(ran)
        BY <2>4, <3>1 DEF Left
      <4>2. ASSUME NEW k \in DOMAIN ran
            PROVE  results'[k] = IF Asked(k)' THEN NoResult ELSE Opened(ran[k])
        BY <2>1, <2>9, <3>1, <3>2 DEF Left
      <4>3. QED
        BY <1>1, <4>1, <4>2 DEF Left
    <3>4. given = IF n \in DOMAIN ran /\ ~Asked(n) THEN Opened(ran[n]) ELSE NoResult
      BY <3>1, <3>2 DEF Left, given
    <3>5. ASSUME NEW j \in DOMAIN answers'
          PROVE  LET m == answers'[j].index
                     again == \E i \in 1 .. j - 1 : answers'[i].index = m
                 IN  answers'[j].result =
                       IF m \in DOMAIN ran /\ ~again THEN Opened(ran[m]) ELSE NoResult
      <4>1. CASE j = Len(answers) + 1
        <5>1. answers'[j].index = n /\ answers'[j].result = given
          BY <2>6, <4>1
        <5>2. Asked(n) <=> \E i \in 1 .. j - 1 : answers'[i].index = n
          <6>1. 1 .. j - 1 = DOMAIN answers
            BY <2>2, <4>1
          <6>2. \A i \in DOMAIN answers : answers'[i] = answers[i]
            BY <2>2, <2>6
          <6>3. QED
            BY <6>1, <6>2 DEF Asked
        <5>3. QED
          BY <3>4, <5>1, <5>2
      <4>2. CASE j \in 1 .. Len(answers)
        <5>1. \A i \in 1 .. j : answers'[i] = answers[i]
          BY <2>2, <2>6, <4>2
        <5>2. j \in 1 .. j /\ \A i \in 1 .. j - 1 : i \in 1 .. j
          BY <4>2
        <5>3. QED
          BY <2>2, <2>10, <3>1, <4>2, <5>1, <5>2 DEF TakenOnce
      <4>3. QED
        BY <2>2, <2>6, <4>1, <4>2
    <3>6. TakenOnce'
      BY <1>1, <3>5 DEF TakenOnce
    <3>7. QED
      BY <1>1, <2>1, <2>7, <2>8, <3>3, <3>6 DEF ReadInv
  <2>11. CASE mode # "response"
    BY <1>1, <2>1, <2>7, <2>8, <2>11 DEF ReadInv, TakenOnce
  <2>12. QED
    BY <2>10, <2>11
<1>11. QED
  BY <1>6, <1>7, <1>8, <1>9, <1>10 DEF Consume

(* Every step keeps ReadInv.                                                *)
LEMMA ReadInvNext ==
  ASSUME ReadInv, ClientNext
  PROVE  ReadInv'
<1>1. CallInv'
  BY CallInvNext DEF ReadInv
<1>2. CASE (\E c \in Calls : Call(c)) /\ UNCHANGED reading
  BY <1>1, <1>2, CallingKeeps DEF Call
<1>3. CASE Execute /\ UNCHANGED reading
  BY <1>1, <1>3, CallingKeeps DEF Execute
<1>4. CASE Others /\ UNCHANGED reading
  BY <1>1, <1>4, CallingKeeps DEF Others
<1>5. CASE Reading /\ UNCHANGED reading
  <2>1. phase = "sent"
    BY <1>5, ReadingStep DEF ReadInv, CallInv
  <2>2. QED
    BY <1>1, <1>5, <2>1, CallingKeeps
<1>6. CASE Open
  BY <1>1, <1>6, OpenKeeps
<1>7. CASE Forget /\ Drop
  BY <1>1, <1>7, DropKeeps
<1>8. CASE \E c \in Consumers : Consume(c) /\ UNCHANGED records
  BY <1>8, ConsumeKeeps
<1>9. QED
  BY <1>2, <1>3, <1>4, <1>5, <1>6, <1>7, <1>8 DEF ClientNext

(* ReadInv holds in every reachable state.                                  *)
LEMMA ReadInvariant ==
  Spec => []ReadInv
<1>1. ClientInit => ReadInv
  BY ReadInvInit
<1>2. ReadInv /\ [ClientNext]_vars => ReadInv'
  <2>1. ASSUME ReadInv, UNCHANGED vars
        PROVE  ReadInv'
    <3>1. UNCHANGED records /\ UNCHANGED reading
      BY <2>1 DEF vars
    <3>2. CallInv'
      BY <2>1, <3>1, CallInvStutters DEF ReadInv
    <3>3. QED
      BY <2>1, <3>1, <3>2, CallingKeeps
  <2>2. QED
    BY <2>1, ReadInvNext
<1>3. QED
  BY <1>1, <1>2, PTL DEF Spec

(* Every variable has its type, and the server runs no more statements than *)
(* were sent.                                                               *)
THEOREM Typing ==
  Spec => []TypeOK
<1>1. ReadInv => TypeOK
  BY DEF ReadInv, CallInv, TypeOK
<1>2. QED
  BY <1>1, ReadInvariant, PTL

(* A consumer that has an iterator for itself never meets its end in next().*)
THEOREM OwnerSafe ==
  Spec => []OwnerMeetsNoEnd
<1>1. ReadInv => OwnerMeetsNoEnd
  BY DEF ReadInv
<1>2. QED
  BY <1>1, ReadInvariant, PTL

(* Of each statement of a query take() answers once with what it has found, *)
(* and with NONE ever after.                                                *)
THEOREM Once ==
  Spec => []TakenOnce
<1>1. ReadInv => TakenOnce
  BY DEF ReadInv
<1>2. QED
  BY <1>1, ReadInvariant, PTL
-----------------------------------------------------------------------------
(* The rows a step leaves alone.                                            *)
LEMMA SameRows ==
  ASSUME UNCHANGED <<rest, handed>>
  PROVE  UNCHANGED TheCursor!cursor
BY DEF TheCursor!cursor

(* A new iterator, or none any more, is a new cursor.                       *)
LEMMA OpensCursor ==
  ASSUME rest' \in Seq(Row), handed' = <<>>
  PROVE  TheCursor!Open
<1>1. <<>> \in Seq(Row) /\ handed' \o rest' \in Seq(Row)
  BY ConcatProperties
<1>2. QED
  BY <1>1 DEF TheCursor!Open

(* Every step is one of the cursor's, or leaves it alone.                   *)
LEMMA CursorStep ==
  ASSUME ReadInv, ClientNext
  PROVE  TheCursor!Open \/ TheCursor!Hand \/ UNCHANGED TheCursor!cursor
<1>1. rest \in Seq(Row) /\ handed \in Seq(Row)
  BY DEF ReadInv, ReadingOK
<1>2. CASE UNCHANGED reading
  BY <1>2, SameRows DEF reading, iterator
<1>3. CASE Open
  <2>1. ReadInv'
    BY ReadInvNext
  <2>2. rest' \in Seq(Row)
    BY <2>1 DEF ReadInv, ReadingOK
  <2>3. handed' = <<>>
    BY <1>3 DEF Open, NewIterator, NewSyncIterator, NewResponse
  <2>4. QED
    BY <2>2, <2>3, OpensCursor
<1>4. CASE Drop
  <2>1. rest' \in Seq(Row) /\ handed' = <<>>
    BY <1>4 DEF Drop
  <2>2. QED
    BY <2>1, OpensCursor
<1>5. ASSUME NEW c \in Consumers, Consume(c)
      PROVE  TheCursor!Hand \/ UNCHANGED TheCursor!cursor
  <2>1. CASE NextGives(c)
    <3>1. rest # <<>> /\ handed' = Append(handed, Head(rest)) /\ rest' = Tail(rest)
      BY <2>1 DEF NextGives
    <3>2. handed' \o rest' = handed \o rest
      BY <1>1, <3>1, MoveHead
    <3>3. Len(rest) \in Nat \ {0} /\ Len(handed) \in Nat /\ Head(rest) = rest[1]
      BY <1>1, <3>1, LenProperties, EmptySeq, HeadTailProperties
    <3>4. /\ Len(handed \o rest) = Len(handed) + Len(rest)
          /\ (handed \o rest)[Len(handed) + 1] = rest[1]
      BY <1>1, <3>3, ConcatProperties
    <3>5. Len(handed) < Len(handed \o rest)
      BY <3>3, <3>4
    <3>6. QED
      BY <3>1, <3>2, <3>3, <3>4, <3>5 DEF TheCursor!Hand
  <2>2. CASE HasNext(c) \/ NextThrows(c) \/ StopTaking(c)
    BY <2>2, SameRows DEF HasNext, NextThrows, StopTaking
  <2>3. CASE \E n \in 1 .. Len(results) + 1 : Take(c, n)
    BY <2>3, SameRows DEF Take, iterator
  <2>4. QED
    BY <1>5, <2>1, <2>2, <2>3 DEF Consume
<1>6. QED
  BY <1>2, <1>3, <1>4, <1>5 DEF ClientNext

(* However consumers share it, an iterator hands out the rows the statement *)
(* has found one by one, each once and in their order.                      *)
THEOREM Refinement == Spec => CursorSpec
<1>1. ClientInit => TheCursor!CursorInit
  <2>1. <<>> \in Seq(Row) /\ <<>> \o <<>> = <<>>
    BY ConcatEmptySeq
  <2>2. QED
    BY <2>1 DEF ClientInit, ResultsInit, TheCursor!CursorInit
<1>2. ReadInv /\ [ClientNext]_vars => [TheCursor!Open \/ TheCursor!Hand]_TheCursor!cursor
  <2>1. UNCHANGED vars => UNCHANGED TheCursor!cursor
    BY SameRows DEF vars, reading, iterator
  <2>2. QED
    BY <2>1, CursorStep
<1>3. QED
  BY <1>1, <1>2, ReadInvariant, PTL DEF Spec, CursorSpec, TheCursor!CursorSpec
=============================================================================
