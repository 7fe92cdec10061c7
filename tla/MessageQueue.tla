------------------------------ MODULE MessageQueue ------------------------------
(***************************************************************************)
(* What size-prefixed messages over a byte stream amount to: what is       *)
(* received is what was sent, whole and in order, unless the reader once   *)
(* takes something else for a message, after which nothing is said.        *)
(***************************************************************************)
EXTENDS Naturals, Sequences

VARIABLES sent, got, garbled

vars == <<sent, got, garbled>>

Init == sent = <<>> /\ got = <<>> /\ garbled = FALSE

Send ==
  /\ Len(sent') = Len(sent) + 1
  /\ ~garbled
  /\ SubSeq(sent', 1, Len(sent)) = sent
  /\ UNCHANGED <<got, garbled>>

Receive ==
  /\ ~garbled
  /\ Len(got) < Len(sent)
  /\ got' = Append(got, sent[Len(got) + 1])
  /\ UNCHANGED <<sent, garbled>>

\* A text nobody sent is received in the place of one.
Garble ==
  /\ ~garbled
  /\ Len(got) < Len(sent) /\ Len(got') = Len(got) + 1
  /\ SubSeq(got', 1, Len(got)) = got
  /\ garbled' = TRUE
  /\ UNCHANGED sent

Next == Send \/ Receive \/ Garble

Spec == Init /\ [][Next]_vars
=============================================================================
