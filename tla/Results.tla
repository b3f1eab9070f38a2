------------------------------ MODULE Results ------------------------------
(***************************************************************************)
(* What a call hands out to be read later: an iterator over the rows of a  *)
(* statement, to be used by one consumer or, synchronized, by several, or  *)
(* the Response of a query, whose results are taken one by one.  Each call *)
(* on a synchronized iterator or on a Response holds its lock from its     *)
(* beginning to its end.                                                   *)
(***************************************************************************)
EXTENDS Naturals, Sequences

CONSTANTS
  Consumers, Nobody,
  MaxTakes   \* bound: takes from a Response

ASSUME ResultsAssumption == Nobody \notin Consumers /\ MaxTakes \in Nat

VARIABLES
  mode,    \* what is read: "none", "iterator", "sync" or "response"
  rest,    \* what the iterator has not given yet
  handed,  \* history: the rows it gave, one after the other
  at,      \* where each consumer stands
  owner,   \* the consumer of an iterator that is not synchronized
  threw,   \* history: the consumers that met the end in next()
  results, \* results of the statements that are still in the Response
  answers  \* history: what take() answered

iterator == <<rest, handed, at, threw>>
response == <<results, answers>>
reading == <<mode, owner, iterator, response>>

Idle == [c \in Consumers |-> "idle"]

ResultsInit ==
  /\ mode = "none" /\ owner = Nobody
  /\ rest = <<>> /\ handed = <<>> /\ at = Idle /\ threw = {}
  /\ results = <<>> /\ answers = <<>>

(* Nobody reads any more.                                                  *)
Finished == at = Idle

(* update(), upsert() and select() with a text for a target, and           *)
(* iterator(): consumer c gets the iterator.                               *)
NewIterator(c, rows) ==
  /\ mode' = "iterator" /\ owner' = c
  /\ rest' = rows /\ handed' = <<>> /\ threw' = {}
  /\ at' = [Idle EXCEPT ![c] = "loop"]
  /\ results' = <<>> /\ answers' = <<>>

(* Their synchronized variants: all consumers share the iterator.          *)
NewSyncIterator(rows) ==
  /\ mode' = "sync" /\ owner' = Nobody
  /\ rest' = rows /\ handed' = <<>> /\ threw' = {}
  /\ at' = [c \in Consumers |-> "loop"]
  /\ results' = <<>> /\ answers' = <<>>

(* query(): the results of its statements, none taken.                     *)
NewResponse(rs) ==
  /\ mode' = "response" /\ owner' = Nobody
  /\ rest' = <<>> /\ handed' = <<>> /\ threw' = {}
  /\ at' = [c \in Consumers |-> "take"]
  /\ results' = rs /\ answers' = <<>>

(* What was handed out has been read and is forgotten.                     *)
Drop ==
  /\ Finished
  /\ mode' = "none" /\ owner' = Nobody
  /\ rest' = <<>> /\ handed' = <<>> /\ threw' = {}
  /\ at' = Idle
  /\ results' = <<>> /\ answers' = <<>>

Goes(c, l) == at' = [at EXCEPT ![c] = l]
-----------------------------------------------------------------------------
(* while (hasNext()) ... next() ...                                        *)

(* Mutant: hasNext() takes the last row for the end.                       *)
HasNextEarly(c) ==
  /\ at[c] = "loop"
  /\ Goes(c, IF Len(rest) > 1 THEN "next" ELSE "idle")
  /\ UNCHANGED <<mode, owner, rest, handed, threw, response>>

(* Mutant: hasNext() counts from zero.                                     *)
HasNextAlways(c) ==
  /\ at[c] = "loop"
  /\ Goes(c, IF Len(rest) >= 0 THEN "next" ELSE "idle")
  /\ UNCHANGED <<mode, owner, rest, handed, threw, response>>

HasNext(c) ==
  /\ at[c] = "loop"
  /\ Goes(c, IF Len(rest) > 0 THEN "next" ELSE "idle")
  /\ UNCHANGED <<mode, owner, rest, handed, threw, response>>

(* Mutant: next() looks, and removes later.                                *)
NextPeeks(c) ==
  /\ at[c] = "next" /\ rest # <<>>
  /\ handed' = Append(handed, Head(rest))
  /\ \E n \in {0, 1} : rest' = SubSeq(rest, 1 + n, Len(rest))
  /\ Goes(c, "loop")
  /\ UNCHANGED <<mode, owner, threw, response>>

(* The first of the rest is given and gone, also if it cannot be converted *)
(* to the class the application wants.                                     *)
NextGives(c) ==
  /\ at[c] = "next" /\ rest # <<>>
  /\ handed' = Append(handed, Head(rest))
  /\ rest' = Tail(rest)
  /\ Goes(c, "loop")
  /\ UNCHANGED <<mode, owner, threw, response>>

(* Another consumer was faster: a NoSuchElementException, or from an       *)
(* iterator that is not synchronized a NullPointerException.               *)
NextThrows(c) ==
  /\ at[c] = "next" /\ rest = <<>>
  /\ threw' = threw \cup {c}
  /\ Goes(c, "idle")
  /\ UNCHANGED <<mode, owner, rest, handed, response>>
-----------------------------------------------------------------------------
(* take(n)                                                                 *)

NoResult == [there |-> FALSE, rows |-> <<>>, failed |-> FALSE]

(* Mutant: the result stays in the Response.                               *)
TakeCopy(c, n) ==
  /\ at[c] = "take" /\ Len(answers) < MaxTakes
  /\ answers' = Append(answers,
       [index |-> n, result |-> IF n \in DOMAIN results THEN results[n] ELSE NoResult])
  /\ UNCHANGED <<mode, owner, iterator, results>>

(* The result of statement n leaves the Response, also if it is an error,  *)
(* which is thrown.  What is not there is answered with NONE.              *)
Take(c, n) ==
  /\ at[c] = "take" /\ Len(answers) < MaxTakes
  /\ answers' = Append(answers,
       [index |-> n, result |-> IF n \in DOMAIN results THEN results[n] ELSE NoResult])
  /\ results' = [k \in DOMAIN results |-> IF k = n THEN NoResult ELSE results[k]]
  /\ UNCHANGED <<mode, owner, iterator>>

StopTaking(c) ==
  /\ at[c] = "take"
  /\ Goes(c, "idle")
  /\ UNCHANGED <<mode, owner, rest, handed, threw, response>>

Consume(c) ==
  \/ HasNext(c) \/ NextGives(c) \/ NextThrows(c)
  \/ \E n \in 1 .. Len(results) + 1 : Take(c, n)
  \/ StopTaking(c)
=============================================================================
