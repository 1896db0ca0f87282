------------------------------- MODULE MCDoc -------------------------------
(***************************************************************************)
(* Finite instances of module Doc: a chip of one pair, as a whole, and the *)
(* queue of interrupts by itself in a chip of several oscillators, the     *)
(* ring.  A behaviour is about the one or the other.                       *)
(***************************************************************************)
EXTENDS Doc

CONSTANT Oscillators  \* those of the ring

ASSUME MCDocAssumption == Oscillators \in Nat \ {0} /\ Oscillators % 2 = 0

VARIABLES ring, focus

Ring == INSTANCE Doc WITH OSCS <- Oscillators, doc <- ring

\* Interrupts come and go in every order.
Asks == \E o \in Ring!Osc : ring.has_irq_pending[o] = 0 /\ ring' = Ring!add_sound_irq(ring, o)
Withdraws == \E o \in Ring!Osc : ring' = Ring!remove_sound_irq(ring, o, FALSE)

FocusInit ==
  doc = Off /\ ring = [Ring!Off EXCEPT !.g_doc_num_osc_en = Oscillators] /\ focus \in {"pair", "ring"}

FocusNext ==
  /\ UNCHANGED focus
  /\ \/ focus = "pair" /\ Next /\ UNCHANGED ring
     \/ focus = "ring" /\ (Asks \/ Withdraws \/ Ring!E0Read) /\ UNCHANGED doc

FocusSpec == FocusInit /\ [][FocusNext]_<<doc, ring, focus>>

\* The ranks in has_irq_pending, register e0 and the interrupt line implement
\* the queue of DocQueue.
RingQueuesUp == Ring!InterruptsQueueUp
=============================================================================
