----------------------------- MODULE SccSafety -----------------------------
(***************************************************************************)
(* What the serial chip of module Scc promises.                            *)
(***************************************************************************)
EXTENDS Scc

(* The state variables have the types of struct Scc and of the event list. *)
TypeOK ==
  /\ scc \in [Port -> PortState]
  /\ mie \in BOOLEAN
  /\ g_irq_pending \in SUBSET (Port \X Source)
  /\ events \in [Port \X Kind -> Nat]

(***************************************************************************)
(* Each property of a port is stated of an arbitrary chip state s, so that *)
(* the proofs can speak of the states in the middle of a routine.          *)
(***************************************************************************)
EventsMatchAt(s, p) ==
  \A k \in Kind : s.ev[<<p, k>>] = IF k \in s.scc[p].event_pending THEN 1 ELSE 0

RxWakesAt(s, p) == ~CanReceive(s.scc[p])

TxWakesAt(s, p) == s.scc[p].tx_buf_empty \/ "tx" \in s.scc[p].event_pending

BrTicksAt(s, p) ==
  s.scc[p].br_en /\ s.scc[p].zc_int_en => "br" \in s.scc[p].event_pending

RxIntHasDataAt(s, p) == "rx" \in s.scc[p].wantint => s.scc[p].rx_queue # <<>>

Rr3At(s, p) == s.scc[p].irq_pending = s.scc[p].wantint

PendingOf(s, p) == {src \in Source : <<p, src>> \in s.irq}

IrqLineAt(s, p) ==
  IF s.mie
  THEN /\ PendingOf(s, p) \subseteq s.scc[p].wantint
       /\ s.scc[p].wantint # {} => PendingOf(s, p) # {}
  ELSE PendingOf(s, p) = {}

(* Every br/tx/rx_event_pending flag has exactly one entry in the event
   list and every entry a flag, through channel resets, machine resets and
   events that come due after their cause is gone: a flag without an entry
   would silence the port for good, two entries would double its speed and
   eat the event list's 64 slots. *)
EventsMatch == \A p \in Port : EventsMatchAt(Now, p)

(* A byte in the receive ring, a receiver that is on and a FIFO with room
   always have an rx event under way: no read, error reset, channel reset
   or re-enabling of the receiver loses the wake-up. *)
RxNeverStuck == \A p \in Port : RxWakesAt(Now, p)

(* A transmitter that reports itself full always has a tx event under way
   that will report it empty. *)
TxNeverStuck == \A p \in Port : TxWakesAt(Now, p)

(* While zero-count interrupts are enabled and the baud generator runs, its
   next tick is in the event list. *)
BrKeepsTicking == \A p \in Port : BrTicksAt(Now, p)

(* No wake-up of the receiver, the transmitter or the baud generator is lost. *)
NeverStuck == RxNeverStuck /\ TxNeverStuck /\ BrKeepsTicking

(* A receive interrupt is never requested for an empty FIFO, whichever of
   the two consumers (data read, error reset) took the last byte. *)
RxIntHasData == \A p \in Port : RxIntHasDataAt(Now, p)

(* The pending bits software polls in RR3 are what the port wants, master
   enable on or off. *)
Rr3ReflectsWants == \A p \in Port : Rr3At(Now, p)

(* The line to the CPU: with the master enable on, a port asserts it exactly
   when it wants something, through bits it wants; with the enable off,
   neither port does.  add_irq's early return and the shared enable in port
   0's WR9 make this a question about both ports. *)
IrqLine == \A p \in Port : IrqLineAt(Now, p)

SccInv ==
  /\ TypeOK /\ EventsMatch /\ RxNeverStuck /\ TxNeverStuck /\ BrKeepsTicking
  /\ RxIntHasData /\ Rr3ReflectsWants /\ IrqLine

(***************************************************************************)
(* The receive path as the queue of module SerialFifo: FIFO then ring.     *)
(***************************************************************************)
Waiting(s, p) == s.scc[p].rx_queue \o s.scc[p].in_buf

Fifo == INSTANCE SerialFifo
  WITH Ports <- Port, Bytes <- Byte, N <- RxFifoSize,
       q <- [p \in Port |-> Waiting(Now, p)]

(* Bytes reach the software in the order they came in, none twice and none
   lost on the way from the ring to the FIFO. *)
BytesInOrder == Fifo!Spec

(***************************************************************************)
(* LocalTalk.                                                              *)
(***************************************************************************)
(* The receive side never holds bytes of two packets: a packet enters only
   after the last byte of the previous one was read or discarded. *)
OneFrameAtATime ==
  \A p \in Port : scc[p].state = 3 =>
    \E f \in Frame : \E n \in 0..Len(f) :
      scc[p].rx_queue \o scc[p].in_buf = SubSeq(f, n + 1, Len(f))

(* End of frame is flagged only when at most the last byte is unread. *)
EofMarksLastByte ==
  \A p \in Port : scc[p].sdlc_eof => BytesLeft(scc[p]) <= 1

(* Two LocalTalk packets never mix, and the end of one is told in time. *)
PacketsKeepApart == OneFrameAtATime /\ EofMarksLastByte

(***************************************************************************)
(* Liveness, under the fairness of the event list alone.                   *)
(***************************************************************************)
(* A byte in the ring reaches an empty FIFO, unless the receiver is switched
   off or the chip reset. *)
ByteReachesFifo ==
  \A p \in Port :
    (scc[p].rx_en /\ scc[p].in_buf # <<>> /\ scc[p].rx_queue = <<>>)
      ~> (scc[p].rx_queue # <<>> \/ scc[p].in_buf = <<>> \/ ~scc[p].rx_en)

(* A full transmitter becomes free however often the CPU writes to it. *)
TransmitterFrees ==
  \A p \in Port : ~scc[p].tx_buf_empty ~> scc[p].tx_buf_empty
=============================================================================
