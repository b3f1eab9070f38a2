------------------------------- MODULE Cursor -------------------------------
(***************************************************************************)
(* What an iterator over the result of a statement promises: whoever asks, *)
(* the rows the statement has found are handed out one by one, each once   *)
(* and in their order.                                                     *)
(***************************************************************************)
EXTENDS Naturals, Sequences

CONSTANT Rows

VARIABLES
  source,  \* the rows the statement has found
  handed   \* those handed out

cursor == <<source, handed>>

CursorInit == source = <<>> /\ handed = <<>>

Open ==
  /\ source' \in Seq(Rows)
  /\ handed' = <<>>

Hand ==
  /\ Len(handed) < Len(source)
  /\ handed' = Append(handed, source[Len(handed) + 1])
  /\ UNCHANGED source

CursorSpec == CursorInit /\ [][Open \/ Hand]_cursor
=============================================================================
