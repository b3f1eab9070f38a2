------------------------- MODULE NotificationQueue -------------------------
(***************************************************************************)
(* What a live query promises to the application that reads it, whatever   *)
(* threads, channels and locks stand between the server and next(): the    *)
(* notifications come out once each and in the order they were sent, and   *)
(* only the end of the stream may take back what was not consumed yet, the *)
(* newest first.                                                           *)
(***************************************************************************)
EXTENDS Naturals, Sequences

VARIABLES
  sent,      \* notifications sent; the n-th is the number n
  pending,   \* sent, neither consumed nor discarded
  taken,     \* consumed
  status     \* "open", or "ended": nothing is sent any more

qvars == <<sent, pending, taken, status>>

QInit == sent = 0 /\ pending = <<>> /\ taken = <<>> /\ status = "open"

(* The server sends the next notification.                                 *)
Send ==
  /\ status = "open"
  /\ sent' = sent + 1
  /\ pending' = Append(pending, sent + 1)
  /\ UNCHANGED <<taken, status>>

(* A call of next() consumes the oldest one.                               *)
Consume ==
  /\ pending # <<>>
  /\ taken' = Append(taken, Head(pending))
  /\ pending' = Tail(pending)
  /\ UNCHANGED <<sent, status>>

(* The stream ends, by close() or by the server, or is torn down further:  *)
(* the first n pending notifications can still be consumed.                *)
End ==
  /\ status' = "ended"
  /\ \E n \in 0 .. Len(pending) : pending' = SubSeq(pending, 1, n)
  /\ UNCHANGED <<sent, taken>>

QNext == Send \/ Consume \/ End

QSpec == QInit /\ [][QNext]_qvars

(* What has come out and what can still come out are the notifications     *)
(* 1, 2, 3, ... in that order; as long as the stream has not ended, all of *)
(* them.                                                                   *)
Numbered ==
  LET all == taken \o pending
  IN  /\ Len(all) <= sent
      /\ \A i \in 1 .. Len(all) : all[i] = i
      /\ status = "open" => Len(all) = sent
=============================================================================
