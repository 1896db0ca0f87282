------------------------------ MODULE DocQueue ------------------------------
(***************************************************************************)
(* What the interrupt logic of the sound chip promises: oscillators queue  *)
(* up for attention in the order in which they ask for it, register e0     *)
(* shows the head of the queue, and the processor is interrupted exactly   *)
(* while the queue is not empty.                                           *)
(***************************************************************************)
EXTENDS Naturals, Sequences

CONSTANTS Osc, NoOsc

VARIABLES queue, e0, irq

Waiting(q) == {q[i] : i \in DOMAIN q}
Head0(q) == IF q = <<>> THEN NoOsc ELSE q[1]

Init == queue = <<>> /\ e0 = NoOsc /\ irq = FALSE

\* a waits ahead of b in q.
Before(q, a, b) == \E i, j \in DOMAIN q : i < j /\ q[i] = a /\ q[j] = b

\* Some of those that wait are served or silenced, then others queue up: nobody
\* waits twice, and only those that were ahead of one that stays still are.
Shift ==
  /\ Waiting(queue') \subseteq Osc
  /\ \A i, j \in DOMAIN queue' : queue'[i] = queue'[j] => i = j
  /\ \A i, j \in DOMAIN queue' :
       i < j /\ queue'[j] \in Waiting(queue) => Before(queue, queue'[i], queue'[j])

Shows == e0' = Head0(queue') /\ irq' = (queue' # <<>>)

Next == Shift /\ Shows

Spec == Init /\ [][Next]_<<queue, e0, irq>>
=============================================================================
