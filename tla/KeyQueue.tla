------------------------------ MODULE KeyQueue ------------------------------
(***************************************************************************)
(* What a keyboard buffer promises: keys leave it in the order in which    *)
(* they were pressed, none twice and none lost between its ends.  Keys     *)
(* that find it full are refused.                                          *)
(***************************************************************************)
EXTENDS Naturals, Sequences, SequencesExt

CONSTANTS
  Keys,
  N,     \* keys it can hold
  Take   \* keys that can leave it in one step

VARIABLE q

Init == q = <<>>

Press == IsPrefix(q, q') /\ Len(q') <= N /\ q' \in Seq(Keys)
Leave == \E n \in Take : n <= Len(q) /\ q' = SubSeq(q, n + 1, Len(q))
Flush == q' = <<>>

Next == Press \/ Leave \/ Flush

Spec == Init /\ [][Next]_q
=============================================================================
