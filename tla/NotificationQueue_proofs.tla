---------------------- MODULE NotificationQueue_proofs ----------------------
(* The numbering of the notifications is an invariant of the abstract      *)
(* queue.                                                                  *)
EXTENDS NotificationQueue, SequenceLemmas, TLAPS

QTypeOK ==
  /\ sent \in Nat
  /\ pending \in Seq(Nat) /\ taken \in Seq(Nat)
  /\ status \in {"open", "ended"}

(* Every reachable value of a variable has its type.                       *)
THEOREM QTyping == QSpec => []QTypeOK
<1>1. QInit => QTypeOK
  BY EmptySeq DEF QInit, QTypeOK
<1>2. QTypeOK /\ [QNext]_qvars => QTypeOK'
  <2> SUFFICES ASSUME QTypeOK, [QNext]_qvars
               PROVE  QTypeOK'
    OBVIOUS
  <2>1. CASE Send
    BY <2>1, AppendProperties DEF Send, QTypeOK
  <2>2. CASE Consume
    <3>1. Head(pending) \in Nat /\ Tail(pending) \in Seq(Nat)
      BY <2>2, HeadTailProperties DEF Consume, QTypeOK
    <3>2. Append(taken, Head(pending)) \in Seq(Nat)
      BY <3>1, AppendProperties DEF QTypeOK
    <3>3. QED
      BY <2>2, <3>1, <3>2 DEF Consume, QTypeOK
  <2>3. CASE End
    <3>1. PICK n \in 0 .. Len(pending) : pending' = SubSeq(pending, 1, n)
      BY <2>3 DEF End
    <3>2. \A i \in 1 .. n : pending[i] \in Nat
      BY <3>1, ElementOfSeq, LenProperties DEF QTypeOK
    <3>3. pending' \in Seq(Nat)
      BY <3>1, <3>2, SubSeqProperties, LenProperties DEF QTypeOK
    <3>4. QED
      BY <2>3, <3>3 DEF End, QTypeOK
  <2>4. CASE UNCHANGED qvars
    BY <2>4 DEF qvars, QTypeOK
  <2>5. QED
    BY <2>1, <2>2, <2>3, <2>4 DEF QNext
<1>3. QED
  BY <1>1, <1>2, PTL DEF QSpec

(* What has come out and what can still come out are 1, 2, 3, ..., up to   *)
(* sent while the stream is open.                                          *)
THEOREM Numbering == QSpec => []Numbered
<1>1. QInit => Numbered
  BY DEF QInit, Numbered
<1>2. QTypeOK /\ Numbered /\ [QNext]_qvars => Numbered'
  <2> SUFFICES ASSUME QTypeOK, Numbered, [QNext]_qvars
               PROVE  Numbered'
    OBVIOUS
  <2> DEFINE all == taken \o pending
  <2>0. all \in Seq(Nat) /\ Len(all) \in Nat
    BY ConcatProperties, LenProperties DEF QTypeOK
  <2>1. CASE Send
    <3>1. Len(all) = sent /\ \A i \in 1 .. Len(all) : all[i] = i
      BY <2>1 DEF Numbered, Send
    <3>2. all' = Append(all, sent + 1)
      BY <2>1, AppendConcat DEF Send, QTypeOK
    <3> HIDE DEF all
    <3>3. /\ Len(all') = sent + 1
          /\ \A i \in 1 .. sent : all'[i] = i
          /\ all'[sent + 1] = sent + 1
      BY <2>0, <3>1, <3>2, AppendProperties DEF QTypeOK
    <3>4. Len(all') = sent' /\ \A i \in 1 .. Len(all') : all'[i] = i
      BY <2>1, <3>3 DEF Send, QTypeOK
    <3>5. sent' \in Nat
      BY <2>1 DEF Send, QTypeOK
    <3>6. QED
      BY <3>4, <3>5 DEF Numbered, all
  <2>2. CASE Consume
    <3>1. all' = all
      BY <2>2, MoveHead DEF Consume, QTypeOK
    <3>2. QED
      BY <2>2, <3>1 DEF Consume, Numbered
  <2>3. CASE End
    <3>1. PICK n \in 0 .. Len(pending) : pending' = SubSeq(pending, 1, n)
      BY <2>3 DEF End
    <3>2. all' = taken \o SubSeq(pending, 1, n)
      BY <2>3, <3>1 DEF End
    <3> DEFINE cut == taken \o SubSeq(pending, 1, n)
    <3>3. /\ Len(cut) = Len(taken) + n
          /\ Len(cut) <= Len(all)
          /\ \A i \in 1 .. Len(cut) : cut[i] = all[i]
      BY CutConcat DEF QTypeOK
    <3>4. Len(all) <= sent /\ \A i \in 1 .. Len(all) : all[i] = i
      BY DEF Numbered
    <3>5. Len(all') <= sent /\ \A i \in 1 .. Len(all') : all'[i] = i
      <4>1. Len(taken) \in Nat /\ n \in Nat
        BY LenProperties DEF QTypeOK
      <4> HIDE DEF all, cut
      <4>2. Len(cut) <= sent /\ \A i \in 1 .. Len(cut) : cut[i] = i
        <5>1. Len(cut) \in Nat /\ Len(cut) <= Len(all)
          BY <3>3, <4>1
        <5>2. ASSUME NEW i \in 1 .. Len(cut)
              PROVE  cut[i] = i
          <6>1. i \in 1 .. Len(all)
            BY <2>0, <5>1
          <6>2. QED
            BY <3>3, <3>4, <6>1
        <5>3. QED
          BY <2>0, <3>4, <5>1, <5>2 DEF QTypeOK
      <4>3. all' = cut
        BY <3>2 DEF all, cut
      <4>4. QED
        BY <4>2, <4>3
    <3>6. QED
      BY <2>3, <3>5 DEF End, Numbered
  <2>4. CASE UNCHANGED qvars
    BY <2>4 DEF qvars, Numbered
  <2>5. QED
    BY <2>1, <2>2, <2>3, <2>4 DEF QNext
<1>3. QED
  BY <1>1, <1>2, QTyping, PTL DEF QSpec
=============================================================================
