----------------------------- MODULE SerialFifo -----------------------------
(***************************************************************************)
(* What a serial port promises to the software that reads it: one queue of *)
(* bytes per port.  Bytes arrive at the back in the order the host sends   *)
(* them, leave one at a time from the front, and are thrown away only by a *)
(* channel reset, which empties the chip's own FIFO of at most N bytes, or *)
(* by a reset of the machine, which forgets everything.                    *)
(***************************************************************************)
EXTENDS Integers, SequencesExt

CONSTANTS Ports, Bytes, N
VARIABLE q

Rest(s, n) == SubSeq(s, n + 1, Len(s))

Init == q = [p \in Ports |-> <<>>]

\* Bytes arrive; a read takes the front byte, present or just arriving.
Read(p) ==
  /\ \E n \in {0, 1} : IsPrefix(Rest(q[p], n), q'[p])
  /\ \A r \in Ports \ {p} : q'[r] = q[r]

\* The 60 Hz update asks the hosts of all ports.
Arrive == \A p \in Ports : IsPrefix(q[p], q'[p])

\* A channel reset of some ports.
Discard ==
  \A p \in Ports : \E n \in 0..N : n <= Len(q[p]) /\ q'[p] = Rest(q[p], n)

Forget == \A p \in Ports : q'[p] = <<>>

Next ==
  /\ q' \in [Ports -> Seq(Bytes)]
  /\ Arrive \/ Discard \/ Forget \/ \E p \in Ports : Read(p)

Spec == Init /\ [][Next]_q
=============================================================================
