------------------------------ MODULE SccProof ------------------------------
(***************************************************************************)
(* The invariants of SccSafety hold of every instance of the serial chip.  *)
(*                                                                         *)
(* The conjunction SccInv is inductive.  A routine of the chip breaks and  *)
(* restores it on the way, so the lemmas follow the call tree of scc.c     *)
(* from the leaves up: each says which parts a routine needs at port p,    *)
(* which it establishes there, and (KeepsOther) that it leaves the other   *)
(* port alone.  The second part is about the packets of a LocalTalk port   *)
(* and the third about the line of the modem behind a port; each goes the  *)
(* same way, with an invariant of its own (Apart, Whole).                  *)
(***************************************************************************)
EXTENDS MCSerial, NatFacts, SequenceTheorems, TLAPS

(* The parts that do not mention the interrupt machinery. *)
Core(s, p) == EventsMatchAt(s, p) /\ TxWakesAt(s, p) /\ BrTicksAt(s, p)

Line(s, p) == Rr3At(s, p) /\ IrqLineAt(s, p)

Full(s, p) == Core(s, p) /\ Line(s, p) /\ RxWakesAt(s, p) /\ RxIntHasDataAt(s, p)

ChipInv(s) == s \in Chip /\ \A q \in Port : Full(s, q)

(* From s to t nothing changes at the other port; its bits of the interrupt
   word may only be cleared, and only with the master enable off. *)
KeepsOther(s, t, p) ==
  /\ t \in Chip
  /\ t.mie = s.mie
  /\ \A q \in Port \ {p} :
       /\ t.scc[q] = s.scc[q]
       /\ s.mie => PendingOf(t, q) = PendingOf(s, q)
       /\ PendingOf(t, q) \subseteq PendingOf(s, q)
       /\ \A k \in Kind : t.ev[<<q, k>>] = s.ev[<<q, k>>]

(* c and d agree on what Core and RxWakesAt look at. *)
SameIO(c, d) ==
  /\ c.event_pending = d.event_pending
  /\ c.tx_buf_empty = d.tx_buf_empty
  /\ c.br_en = d.br_en /\ c.zc_int_en = d.zc_int_en /\ c.rx_en = d.rx_en
  /\ c.in_buf = d.in_buf /\ c.rx_queue = d.rx_queue

(* b is a with its first n bytes taken away and some added at the back. *)
ReadsOn(a, b, n) ==
  /\ Len(b) >= Len(a) - n
  /\ \A i \in 1..Len(a) - n : b[i] = a[i + n]

(* From s to t nothing changes at the other port, and bytes only come in. *)
Feeds(s, t, p) == KeepsOther(s, t, p) /\ ReadsOn(Waiting(s, p), Waiting(t, p), 0)

(* Or the first byte is read. *)
Moves(s, t, p) ==
  KeepsOther(s, t, p) /\ \E n \in {0, 1} : ReadsOn(Waiting(s, p), Waiting(t, p), n)

(* A reset throws away what is in the FIFO. *)
Emptied(s, t, p) ==
  t.scc[p].rx_queue = <<>> /\ t.scc[p].in_buf = s.scc[p].in_buf

LEMMA ChipTypes ==
  ASSUME NEW s \in Chip, NEW p \in Port
  PROVE  /\ s.scc \in [Port -> PortState] /\ s.mie \in BOOLEAN
         /\ s.irq \in SUBSET (Port \X Source) /\ s.ev \in [Port \X Kind -> Nat]
         /\ s = [scc |-> s.scc, mie |-> s.mie, irq |-> s.irq, ev |-> s.ev]
         /\ s.scc[p] \in PortState
BY DEF Chip

LEMMA Sizes ==
  /\ SCC_INBUF_SIZE \in Nat /\ SCC_INBUF_SIZE > 1
  /\ SCC_OUTBUF_SIZE \in Nat /\ SCC_OUTBUF_SIZE > 1
BY SccAssumption DEF SccAssumption

LEMMA KeepsTrans ==
  ASSUME NEW s, NEW t, NEW u, NEW p, KeepsOther(s, t, p), KeepsOther(t, u, p)
  PROVE  KeepsOther(s, u, p)
BY DEF KeepsOther

(* The bytes of a port. *)
LEMMA WaitingType ==
  ASSUME NEW s \in Chip, NEW p \in Port
  PROVE  /\ s.scc[p].rx_queue \in Seq(Byte) /\ s.scc[p].in_buf \in Seq(Byte)
         /\ Len(s.scc[p].rx_queue) <= RxFifoSize
         /\ Waiting(s, p) \in Seq(Byte)
<1>1. s.scc[p].rx_queue \in Seq(Byte) /\ s.scc[p].in_buf \in Seq(Byte)
  BY ChipTypes DEF PortState, RxFifo
<1>2. Len(s.scc[p].rx_queue) <= RxFifoSize
  BY ChipTypes DEF PortState, RxFifo
<1> QED BY <1>1, <1>2 DEF Waiting

LEMMA ReadsRefl ==
  ASSUME NEW a \in Seq(Byte)
  PROVE  ReadsOn(a, a, 0)
BY DEF ReadsOn

LEMMA ReadsTrans ==
  ASSUME NEW a \in Seq(Byte), NEW b \in Seq(Byte), NEW c \in Seq(Byte),
         NEW m \in {0, 1}, NEW n \in {0, 1}, m = 0 \/ n = 0,
         ReadsOn(a, b, m), ReadsOn(b, c, n)
  PROVE  ReadsOn(a, c, m + n)
<1>1. /\ Len(a) \in Nat /\ Len(b) \in Nat /\ Len(c) \in Nat
      /\ Len(b) >= Len(a) - m /\ Len(c) >= Len(b) - n
      /\ \A i \in 1..Len(a) - m : b[i] = a[i + m]
      /\ \A i \in 1..Len(b) - n : c[i] = b[i + n]
  BY DEF ReadsOn
<1>2. ASSUME NEW i \in 1..Len(a) - (m + n) PROVE c[i] = a[i + (m + n)]
  <2>1. CASE m = 0
    <3>1. i \in 1..Len(b) - n /\ i + n \in 1..Len(a) - m
      BY <1>1, <2>1
    <3>2. c[i] = b[i + n] /\ b[i + n] = a[i + n + m]
      BY <1>1, <3>1
    <3> QED BY <3>2, <2>1
  <2>2. CASE n = 0
    <3>1. i \in 1..Len(b) - n /\ i \in 1..Len(a) - m
      BY <1>1, <2>2
    <3>2. c[i] = b[i + n] /\ b[i] = a[i + m]
      BY <1>1, <3>1
    <3> QED BY <3>2, <2>2
  <2> QED BY <2>1, <2>2
<1> QED BY <1>1, <1>2 DEF ReadsOn

LEMMA SamePipe ==
  ASSUME NEW s \in Chip, NEW p \in Port, NEW t, KeepsOther(s, t, p),
         t.scc[p].rx_queue = s.scc[p].rx_queue, t.scc[p].in_buf = s.scc[p].in_buf
  PROVE  Feeds(s, t, p)
<1>1. Waiting(t, p) = Waiting(s, p)
  BY DEF Waiting
<1> QED BY <1>1, WaitingType, ReadsRefl DEF Feeds

(* A byte that moves from the ring to the FIFO stays where it is in the queue;
   one that comes in is the last; the one that is read was the first. *)
LEMMA PassOn ==
  ASSUME NEW a \in Seq(Byte), NEW b \in Seq(Byte), b # <<>>
  PROVE  ReadsOn(a \o b, Append(a, Head(b)) \o Tail(b), 0)
BY DEF ReadsOn

LEMMA ComeIn ==
  ASSUME NEW a \in Seq(Byte), NEW b \in Seq(Byte), NEW c \in Seq(Byte)
  PROVE  ReadsOn(a \o b, a \o (b \o c), 0)
BY DEF ReadsOn

LEMMA ComeInOne ==
  ASSUME NEW a \in Seq(Byte), NEW b \in Seq(Byte), NEW x \in Byte
  PROVE  ReadsOn(a \o b, a \o Append(b, x), 0)
BY DEF ReadsOn

LEMMA TakeOut ==
  ASSUME NEW a \in Seq(Byte), NEW b \in Seq(Byte), a # <<>>
  PROVE  ReadsOn(a \o b, Tail(a) \o b, 1)
BY DEF ReadsOn

LEMMA FeedsRefl ==
  ASSUME NEW s \in Chip, NEW p \in Port
  PROVE  Feeds(s, s, p)
BY SamePipe DEF KeepsOther

LEMMA MovesTrans ==
  ASSUME NEW s \in Chip, NEW t, NEW u, NEW p \in Port,
         \/ Feeds(s, t, p) /\ Moves(t, u, p)
         \/ Moves(s, t, p) /\ Feeds(t, u, p)
  PROVE  Moves(s, u, p)
<1>1. KeepsOther(s, t, p) /\ KeepsOther(t, u, p)
  BY DEF Feeds, Moves
<1>2. KeepsOther(s, u, p)
  BY <1>1, KeepsTrans
<1>3. PICK m \in {0, 1}, n \in {0, 1} :
        /\ m = 0 \/ n = 0
        /\ ReadsOn(Waiting(s, p), Waiting(t, p), m) /\ ReadsOn(Waiting(t, p), Waiting(u, p), n)
  BY DEF Feeds, Moves
<1>4. t \in Chip /\ u \in Chip
  BY <1>1 DEF KeepsOther
<1>5. ReadsOn(Waiting(s, p), Waiting(u, p), m + n) /\ m + n \in {0, 1}
  BY <1>3, <1>4, WaitingType, ReadsTrans
<1> QED BY <1>2, <1>5 DEF Moves

LEMMA FeedsTrans ==
  ASSUME NEW s \in Chip, NEW t, NEW u, NEW p \in Port, Feeds(s, t, p), Feeds(t, u, p)
  PROVE  Feeds(s, u, p)
<1>1. KeepsOther(s, t, p) /\ KeepsOther(t, u, p)
  BY DEF Feeds
<1>2. KeepsOther(s, u, p) /\ t \in Chip /\ u \in Chip
  BY <1>1, KeepsTrans DEF KeepsOther
<1>3. ReadsOn(Waiting(s, p), Waiting(u, p), 0 + 0)
  BY <1>2, WaitingType, ReadsTrans DEF Feeds
<1> QED BY <1>2, <1>3 DEF Feeds

LEMMA FeedsMoves ==
  ASSUME NEW s, NEW t, NEW p, Feeds(s, t, p)
  PROVE  Moves(s, t, p) /\ KeepsOther(s, t, p) /\ t \in Chip
BY DEF Feeds, Moves, KeepsOther

(* What holds at the other port still holds. *)
LEMMA OtherPortKeeps ==
  ASSUME NEW s, NEW t, NEW p \in Port, KeepsOther(s, t, p), NEW q \in Port \ {p}
  PROVE  /\ IrqLineAt(s, q) => IrqLineAt(t, q)
         /\ Full(s, q) => Full(t, q)
<1>1. IrqLineAt(s, q) => IrqLineAt(t, q)
  BY DEF KeepsOther, IrqLineAt
<1> QED BY <1>1 DEF KeepsOther, Full, Core, Line, EventsMatchAt, TxWakesAt, BrTicksAt,
                    RxWakesAt, RxIntHasDataAt, Rr3At

LEMMA KeepsFull ==
  ASSUME NEW s, NEW t, NEW p \in Port, ChipInv(s), KeepsOther(s, t, p), Full(t, p)
  PROVE  ChipInv(t)
BY OtherPortKeeps DEF ChipInv, KeepsOther

(* Editing the record of one port. *)
SetPort(s, p, c) == [s EXCEPT !.scc = [s.scc EXCEPT ![p] = c]]

LEMMA Edit ==
  ASSUME NEW s \in Chip, NEW p \in Port, NEW c \in PortState,
         NEW t, t = SetPort(s, p, c)
  PROVE  /\ KeepsOther(s, t, p) /\ t.scc[p] = c /\ t.irq = s.irq /\ t.ev = s.ev
         /\ PendingOf(t, p) = PendingOf(s, p)
<1>1. /\ t \in Chip /\ t.mie = s.mie /\ t.irq = s.irq /\ t.ev = s.ev
      /\ t.scc = [s.scc EXCEPT ![p] = c]
  BY ChipTypes DEF Chip, SetPort
<1>2. t.scc[p] = c /\ \A q \in Port \ {p} : t.scc[q] = s.scc[q]
  BY <1>1, ChipTypes
<1>3. \A q : PendingOf(t, q) = PendingOf(s, q)
  BY <1>1 DEF PendingOf
<1>4. KeepsOther(s, t, p)
  BY <1>1, <1>2, <1>3 DEF KeepsOther
<1> QED BY <1>1, <1>2, <1>3, <1>4

(***************************************************************************)
(* scc_evaluate_ints puts the line of its port in order, whatever it was.  *)
(***************************************************************************)
LEMMA EvaluateInts ==
  ASSUME NEW s \in Chip, NEW p \in Port
  PROVE  LET t == scc_evaluate_ints(s, p)
         IN /\ KeepsOther(s, t, p)
            /\ t.ev = s.ev
            /\ t.scc[p] = [s.scc[p] EXCEPT !.irq_pending = s.scc[p].wantint]
            /\ Line(t, p)
            /\ \A q \in Port : ~s.mie => PendingOf(t, q) = {}
<1> DEFINE want == s.scc[p].wantint
           d == [s.scc[p] EXCEPT !.irq_pending = want]
           c == [s.scc EXCEPT ![p] = d]
           t == scc_evaluate_ints(s, p)
<1>0. /\ s.scc \in [Port -> PortState] /\ s.mie \in BOOLEAN
      /\ s.irq \in SUBSET (Port \X Source) /\ s.ev \in [Port \X Kind -> Nat]
      /\ s.scc[p] \in PortState /\ want \in SUBSET Source
  BY DEF Chip, PortState
<1>1. d \in PortState /\ d.irq_pending = want /\ d.wantint = want
  BY <1>0 DEF PortState
<1>2. c \in [Port -> PortState] /\ c[p] = d /\ \A q \in Port \ {p} : c[q] = s.scc[q]
  BY <1>0, <1>1
<1>3. CASE s.mie
  <2> DEFINE i == remove_irq(add_irq(s.irq, {p} \X want), {p} \X (Source \ want))
  <2>1. t = [s EXCEPT !.scc = c, !.irq = i]
    BY <1>3, <1>0 DEF scc_evaluate_ints, Chip
  <2>2. i \in SUBSET (Port \X Source)
    BY <1>0 DEF add_irq, remove_irq
  <2>3. t \in Chip /\ t.mie = s.mie /\ t.ev = s.ev /\ t.scc = c /\ t.irq = i
    BY <2>1, <2>2, <1>0, <1>2 DEF Chip
  <2> HIDE DEF t
  <2>5. /\ \A src \in Source \ want : <<p, src>> \notin i
        /\ want # {} => \E src \in want : <<p, src>> \in i
    <3>1. CASE s.irq \cap ({p} \X want) = {}
      BY <3>1, <1>0 DEF add_irq, remove_irq
    <3>2. CASE s.irq \cap ({p} \X want) # {}
      BY <3>2, <1>0 DEF add_irq, remove_irq
    <3> QED BY <3>1, <3>2
  <2>6. IrqLineAt(t, p)
    <3> HIDE DEF i, want, d, c
    <3>1. PendingOf(t, p) \subseteq want
      BY <2>3, <2>5 DEF PendingOf
    <3>2. want # {} => PendingOf(t, p) # {}
      BY <2>3, <2>5, <1>0 DEF PendingOf
    <3> QED BY <3>1, <3>2, <2>3, <1>1, <1>2, <1>3 DEF IrqLineAt
  <2>7. ASSUME NEW q \in Port \ {p} PROVE PendingOf(t, q) = PendingOf(s, q)
    <3>1. \A src \in Source : <<q, src>> \in i <=> <<q, src>> \in s.irq
      BY <1>0 DEF add_irq, remove_irq
    <3> QED BY <3>1, <2>3 DEF PendingOf
  <2> HIDE DEF i, c, d
  <2> QED BY <2>3, <2>6, <2>7, <1>1, <1>2, <1>3 DEF t, d, KeepsOther, Line, Rr3At
<1>4. CASE ~s.mie
  <2>0. remove_irq(s.irq, Port \X Source) = {}
    BY <1>0 DEF remove_irq
  <2>1. t = [s EXCEPT !.scc = c, !.irq = {}]
    BY <1>4, <1>0, <2>0 DEF scc_evaluate_ints, Chip
  <2>2. t \in Chip /\ t.mie = s.mie /\ t.ev = s.ev /\ t.scc = c /\ t.irq = {}
    BY <2>1, <1>0, <1>2 DEF Chip
  <2>3. \A q : PendingOf(t, q) = {}
    BY <2>2 DEF PendingOf
  <2> HIDE DEF t, c, d
  <2> QED BY <2>2, <2>3, <1>1, <1>2, <1>4 DEF t, d, KeepsOther, Line, Rr3At, IrqLineAt
<1> QED BY <1>3, <1>4, <1>0

(***************************************************************************)
(* The routines that change what a port wants and re-evaluate.             *)
(***************************************************************************)
(* What these routines have in common. *)
IntRoutine(s, t, p) ==
  /\ KeepsOther(s, t, p) /\ t.ev = s.ev
  /\ SameIO(t.scc[p], s.scc[p])
  /\ Line(t, p)

LEMMA Evaluate ==
  ASSUME NEW s \in Chip, NEW p \in Port, NEW t, t = scc_evaluate_ints(s, p)
  PROVE  IntRoutine(s, t, p) /\ t.scc[p].wantint = s.scc[p].wantint
<1>1. /\ KeepsOther(s, t, p) /\ t.ev = s.ev /\ Line(t, p)
      /\ t.scc[p] = [s.scc[p] EXCEPT !.irq_pending = s.scc[p].wantint]
  BY EvaluateInts
<1>2. SameIO(t.scc[p], s.scc[p]) /\ t.scc[p].wantint = s.scc[p].wantint
  BY <1>1, ChipTypes DEF SameIO, PortState
<1> QED BY <1>1, <1>2 DEF IntRoutine

LEMMA EvaluateAfter ==
  ASSUME NEW s \in Chip, NEW p \in Port, NEW c \in PortState, SameIO(c, s.scc[p]),
         NEW u, u = SetPort(s, p, c),
         NEW t, t = scc_evaluate_ints(u, p)
  PROVE  IntRoutine(s, t, p) /\ t.scc[p].wantint = c.wantint
<1>1. KeepsOther(s, u, p) /\ u.scc[p] = c /\ u.ev = s.ev
  BY Edit
<1>2. u \in Chip
  BY <1>1 DEF KeepsOther
<1>3. IntRoutine(u, t, p) /\ t.scc[p].wantint = u.scc[p].wantint
  BY <1>2, Evaluate
<1>4. KeepsOther(s, t, p)
  BY <1>1, <1>3, KeepsTrans DEF IntRoutine
<1> QED BY <1>1, <1>3, <1>4 DEF IntRoutine, SameIO

LEMMA SetWant ==
  ASSUME NEW s \in Chip, NEW p \in Port, NEW w \in SUBSET Source,
         NEW t, t = scc_evaluate_ints([s EXCEPT !.scc[p].wantint = w], p)
  PROVE  IntRoutine(s, t, p) /\ t.scc[p].wantint = w
<1> DEFINE c == [s.scc[p] EXCEPT !.wantint = w]
           u == SetPort(s, p, c)
<1>1. c \in PortState /\ SameIO(c, s.scc[p]) /\ c.wantint = w
  <2>1. s.scc[p] \in PortState
    BY ChipTypes
  <2> QED BY <2>1 DEF PortState, SameIO
<1>2. u = [s EXCEPT !.scc[p].wantint = w]
  BY ChipTypes DEF SetPort
<1>3. t = scc_evaluate_ints(u, p)
  BY <1>2
<1> HIDE DEF c
<1> QED BY <1>1, <1>3, EvaluateAfter

LEMMA SetWantFirst ==
  ASSUME NEW s \in Chip, NEW p \in Port, NEW w \in SUBSET Source, NEW f \in BOOLEAN,
         NEW t, t = scc_evaluate_ints([s EXCEPT !.scc[p].wantint = w,
                                                !.scc[p].did_int_rx_first = f], p)
  PROVE  IntRoutine(s, t, p) /\ t.scc[p].wantint = w
<1> DEFINE c == [s.scc[p] EXCEPT !.wantint = w, !.did_int_rx_first = f]
           u == SetPort(s, p, c)
<1>1. c \in PortState /\ SameIO(c, s.scc[p]) /\ c.wantint = w
  <2>1. s.scc[p] \in PortState
    BY ChipTypes
  <2> QED BY <2>1 DEF PortState, SameIO
<1>2. u = [s EXCEPT !.scc[p].wantint = w, !.scc[p].did_int_rx_first = f]
  BY ChipTypes DEF SetPort
<1>3. t = scc_evaluate_ints(u, p)
  BY <1>2
<1> HIDE DEF c
<1> QED BY <1>1, <1>3, EvaluateAfter

LEMMA WantType ==
  ASSUME NEW s \in Chip, NEW p \in Port
  PROVE  s.scc[p].wantint \in SUBSET Source /\ s.scc[p].did_int_rx_first \in BOOLEAN
BY DEF Chip, PortState

LEMMA ClearIntOk ==
  ASSUME NEW s \in Chip, NEW p \in Port, NEW src, NEW t, t = ClearInt(s, p, src)
  PROVE  IntRoutine(s, t, p) /\ t.scc[p].wantint = s.scc[p].wantint \ {src}
<1> DEFINE w == s.scc[p].wantint \ {src}
<1>1. w \in SUBSET Source
  BY WantType
<1>2. t = scc_evaluate_ints([s EXCEPT !.scc[p].wantint = w], p)
  BY DEF ClearInt
<1> HIDE DEF w
<1>3. IntRoutine(s, t, p) /\ t.scc[p].wantint = w
  BY <1>1, <1>2, SetWant
<1> QED BY <1>3 DEF w

LEMMA SetZerocntOk ==
  ASSUME NEW s \in Chip, NEW p \in Port, NEW t, t = scc_set_zerocnt_int(s, p)
  PROVE  /\ IntRoutine(s, t, p)
         /\ t.scc[p].wantint \subseteq s.scc[p].wantint \cup {"zerocnt"}
<1> DEFINE w == s.scc[p].wantint \cup {"zerocnt"}
<1>1. w \in SUBSET Source
  BY WantType DEF Source
<1>2. CASE s.scc[p].zc_int_en
  <2>1. t = scc_evaluate_ints([s EXCEPT !.scc[p].wantint = w], p)
    BY <1>2 DEF scc_set_zerocnt_int
  <2> HIDE DEF w
  <2>2. IntRoutine(s, t, p) /\ t.scc[p].wantint = w
    BY <1>1, <2>1, SetWant
  <2> QED BY <2>2 DEF w
<1>3. CASE ~s.scc[p].zc_int_en
  BY <1>3, Evaluate DEF scc_set_zerocnt_int
<1> QED BY <1>2, <1>3

LEMMA HandleTxOk ==
  ASSUME NEW s \in Chip, NEW p \in Port, NEW t, t = scc_handle_tx_event(s, p)
  PROVE  /\ IntRoutine(s, t, p)
         /\ t.scc[p].wantint \subseteq s.scc[p].wantint \cup {"tx"}
<1> DEFINE w == s.scc[p].wantint \cup {"tx"}
<1>1. w \in SUBSET Source
  BY WantType DEF Source
<1>2. CASE s.scc[p].tx_int_en
  <2>1. t = scc_evaluate_ints([s EXCEPT !.scc[p].wantint = w], p)
    BY <1>2 DEF scc_handle_tx_event
  <2> HIDE DEF w
  <2>2. IntRoutine(s, t, p) /\ t.scc[p].wantint = w
    BY <1>1, <2>1, SetWant
  <2> QED BY <2>2 DEF w
<1>3. CASE ~s.scc[p].tx_int_en
  BY <1>3, Evaluate DEF scc_handle_tx_event
<1> QED BY <1>2, <1>3

LEMMA MaybeRxIntOk ==
  ASSUME NEW s \in Chip, NEW p \in Port, NEW t, t = scc_maybe_rx_int(s, p)
  PROVE  IntRoutine(s, t, p) /\ RxIntHasDataAt(t, p)
<1> DEFINE c == s.scc[p]
           first == c.rx_int_mode = 1 /\ ~c.did_int_rx_first
                    /\ (c.state # 3 \/ Len(c.rx_queue) = 2)
           w == c.wantint \cup {"rx"}
           f == c.did_int_rx_first \/ first
<1>0. c.rx_queue \in Seq(Byte)
  BY ChipTypes DEF PortState, RxFifo
<1>1. CASE Len(c.rx_queue) = 0
  <2>1. t = ClearInt(s, p, "rx")
    BY <1>1 DEF scc_maybe_rx_int, scc_clr_rx_int
  <2> QED BY <2>1, ClearIntOk DEF RxIntHasDataAt
<1>2. CASE Len(c.rx_queue) # 0 /\ (first \/ c.rx_int_mode = 2)
  <2>1. t = scc_evaluate_ints([s EXCEPT !.scc[p].wantint = w,
                                        !.scc[p].did_int_rx_first = f], p)
    BY <1>2 DEF scc_maybe_rx_int
  <2>2. w \in SUBSET Source /\ f \in BOOLEAN
    BY WantType DEF Source
  <2>3. IntRoutine(s, t, p)
    <3> HIDE DEF w, f
    <3> QED BY <2>1, <2>2, SetWantFirst
  <2> QED BY <2>3, <1>2, <1>0 DEF IntRoutine, SameIO, RxIntHasDataAt
<1>3. CASE Len(c.rx_queue) # 0 /\ ~(first \/ c.rx_int_mode = 2)
  <2>1. t = scc_evaluate_ints(s, p)
    BY <1>3 DEF scc_maybe_rx_int
  <2>2. IntRoutine(s, t, p)
    BY <2>1, Evaluate
  <2> QED BY <2>2, <1>3, <1>0 DEF IntRoutine, SameIO, RxIntHasDataAt
<1> QED BY <1>1, <1>2, <1>3

(* Such a routine keeps Core and the wake-up of the receiver. *)
LEMMA IntRoutineKeeps ==
  ASSUME NEW s \in Chip, NEW p \in Port, NEW t, IntRoutine(s, t, p)
  PROVE  /\ Feeds(s, t, p) /\ t \in Chip /\ Line(t, p)
         /\ Core(s, p) => Core(t, p)
         /\ RxWakesAt(s, p) => RxWakesAt(t, p)
<1>1. Feeds(s, t, p)
  BY SamePipe DEF IntRoutine, SameIO
<1> QED BY <1>1 DEF IntRoutine, KeepsOther, SameIO, Core, EventsMatchAt, TxWakesAt,
                    BrTicksAt, RxWakesAt, CanReceive

(***************************************************************************)
(* The event list.                                                         *)
(***************************************************************************)
LEMMA AddEventOk ==
  ASSUME NEW s \in Chip, NEW p \in Port, NEW k \in Kind,
         k \notin s.scc[p].event_pending, EventsMatchAt(s, p),
         NEW t, t = add_event_scc(s, p, k)
  PROVE  /\ Feeds(s, t, p) /\ EventsMatchAt(t, p)
         /\ t.scc[p] = [s.scc[p] EXCEPT !.event_pending = @ \cup {k}]
         /\ Line(s, p) => Line(t, p)
<1> DEFINE c == [s.scc[p] EXCEPT !.event_pending = @ \cup {k}]
           a == [s.scc EXCEPT ![p] = c]
           e == [s.ev EXCEPT ![<<p, k>>] = @ + 1]
<1>0. s.scc[p] \in PortState
  BY ChipTypes
<1>1. /\ c \in PortState /\ c.event_pending = s.scc[p].event_pending \cup {k}
      /\ c.irq_pending = s.scc[p].irq_pending /\ c.wantint = s.scc[p].wantint
      /\ c.rx_queue = s.scc[p].rx_queue /\ c.in_buf = s.scc[p].in_buf
  BY <1>0 DEF PortState
<1>2. t = [s EXCEPT !.scc = a, !.ev = e]
  BY ChipTypes DEF add_event_scc
<1>3. e \in [Port \X Kind -> Nat]
  BY ChipTypes
<1>4. a \in [Port -> PortState] /\ a[p] = c /\ \A q \in Port \ {p} : a[q] = s.scc[q]
  BY <1>1, ChipTypes
<1> HIDE DEF c
<1>5. /\ t \in Chip /\ t.scc = a /\ t.ev = e /\ t.mie = s.mie /\ t.irq = s.irq
  BY <1>2, <1>3, <1>4, ChipTypes DEF Chip
<1>6. \A q \in Port \ {p} : \A j \in Kind : e[<<q, j>>] = s.ev[<<q, j>>]
  BY ChipTypes
<1>7. \A j \in Kind : e[<<p, j>>] = IF j = k THEN s.ev[<<p, j>>] + 1 ELSE s.ev[<<p, j>>]
  BY ChipTypes
<1> HIDE DEF a, e
<1>8. EventsMatchAt(t, p)
  BY <1>5, <1>4, <1>1, <1>7 DEF EventsMatchAt
<1>9. \A q : PendingOf(t, q) = PendingOf(s, q)
  BY <1>5 DEF PendingOf
<1>10. Feeds(s, t, p)
  <2>1. KeepsOther(s, t, p)
    BY <1>5, <1>4, <1>6, <1>9 DEF KeepsOther
  <2> QED BY <2>1, <1>1, <1>4, <1>5, SamePipe
<1>11. Line(s, p) => Line(t, p)
  BY <1>5, <1>4, <1>1, <1>9 DEF Line, Rr3At, IrqLineAt
<1> QED BY <1>8, <1>10, <1>11, <1>5, <1>4 DEF c

LEMMA PopEventOk ==
  ASSUME NEW s \in Chip, NEW p \in Port, NEW k \in Kind,
         s.ev[<<p, k>>] > 0, EventsMatchAt(s, p),
         NEW t, t = pop_event_scc(s, p, k)
  PROVE  /\ Feeds(s, t, p) /\ EventsMatchAt(t, p)
         /\ t.scc[p] = [s.scc[p] EXCEPT !.event_pending = @ \ {k}]
         /\ Line(s, p) => Line(t, p)
<1> DEFINE c == [s.scc[p] EXCEPT !.event_pending = @ \ {k}]
           a == [s.scc EXCEPT ![p] = c]
           e == [s.ev EXCEPT ![<<p, k>>] = @ - 1]
<1>0. s.scc[p] \in PortState
  BY ChipTypes
<1>1. /\ c \in PortState /\ c.event_pending = s.scc[p].event_pending \ {k}
      /\ c.irq_pending = s.scc[p].irq_pending /\ c.wantint = s.scc[p].wantint
      /\ c.rx_queue = s.scc[p].rx_queue /\ c.in_buf = s.scc[p].in_buf
  BY <1>0 DEF PortState
<1>2. t = [s EXCEPT !.scc = a, !.ev = e]
  BY ChipTypes DEF pop_event_scc
<1>3. e \in [Port \X Kind -> Nat]
  BY ChipTypes
<1>4. a \in [Port -> PortState] /\ a[p] = c /\ \A q \in Port \ {p} : a[q] = s.scc[q]
  BY <1>1, ChipTypes
<1> HIDE DEF c
<1>5. /\ t \in Chip /\ t.scc = a /\ t.ev = e /\ t.mie = s.mie /\ t.irq = s.irq
  BY <1>2, <1>3, <1>4, ChipTypes DEF Chip
<1>6. \A q \in Port \ {p} : \A j \in Kind : e[<<q, j>>] = s.ev[<<q, j>>]
  BY ChipTypes
<1>7. \A j \in Kind : e[<<p, j>>] = IF j = k THEN s.ev[<<p, j>>] - 1 ELSE s.ev[<<p, j>>]
  BY ChipTypes
<1> HIDE DEF a, e
<1>8. EventsMatchAt(t, p)
  BY <1>5, <1>4, <1>1, <1>7 DEF EventsMatchAt
<1>9. \A q : PendingOf(t, q) = PendingOf(s, q)
  BY <1>5 DEF PendingOf
<1>10. Feeds(s, t, p)
  <2>1. KeepsOther(s, t, p)
    BY <1>5, <1>4, <1>6, <1>9 DEF KeepsOther
  <2> QED BY <2>1, <1>1, <1>4, <1>5, SamePipe
<1>11. Line(s, p) => Line(t, p)
  BY <1>5, <1>4, <1>1, <1>9 DEF Line, Rr3At, IrqLineAt
<1> QED BY <1>8, <1>10, <1>11, <1>5, <1>4 DEF c

(* Why a receiver that has bytes waits: not for want of a byte. *)
Blocked(s, p) ==
  \/ "rx" \in s.scc[p].event_pending
  \/ ~s.scc[p].rx_en
  \/ ~(Len(s.scc[p].rx_queue) < RxFifoSize)

LEMMA MaybeRxEventOk ==
  ASSUME NEW s \in Chip, NEW p \in Port, Core(s, p), Line(s, p),
         NEW t, t = scc_maybe_rx_event(s, p)
  PROVE  /\ Feeds(s, t, p) /\ Core(t, p) /\ Line(t, p) /\ RxWakesAt(t, p)
         /\ RxIntHasDataAt(s, p) => RxIntHasDataAt(t, p)
         /\ s.scc[p].in_buf # <<>> => Blocked(t, p)
<1>1. CASE ~CanReceive(s.scc[p])
  <2>1. t = s
    BY <1>1 DEF scc_maybe_rx_event
  <2>2. Feeds(s, s, p)
    BY FeedsRefl
  <2> QED BY <1>1, <2>1, <2>2 DEF RxWakesAt, CanReceive, Blocked
<1>2. CASE CanReceive(s.scc[p])
  <2> DEFINE c == [s.scc[p] EXCEPT !.rx_queue = Append(@, Head(s.scc[p].in_buf)),
                                   !.in_buf = Tail(@)]
             u == SetPort(s, p, c)
             v == scc_maybe_rx_int(u, p)
  <2>0. s.scc[p] \in PortState
    BY ChipTypes
  <2>1. /\ Append(s.scc[p].rx_queue, Head(s.scc[p].in_buf)) \in RxFifo
        /\ Tail(s.scc[p].in_buf) \in Seq(Byte)
    <3>1. s.scc[p].in_buf # <<>> /\ Len(s.scc[p].rx_queue) < RxFifoSize
      BY <1>2 DEF CanReceive
    <3> QED BY <3>1, WaitingType DEF RxFifo, RxFifoSize
  <2>2. /\ c \in PortState /\ c.event_pending = s.scc[p].event_pending
        /\ c.tx_buf_empty = s.scc[p].tx_buf_empty /\ c.br_en = s.scc[p].br_en
        /\ c.zc_int_en = s.scc[p].zc_int_en
        /\ c.rx_queue = Append(s.scc[p].rx_queue, Head(s.scc[p].in_buf))
        /\ c.in_buf = Tail(s.scc[p].in_buf)
    BY <2>0, <2>1 DEF PortState
  <2>3. u = [s EXCEPT !.scc[p].rx_queue = Append(@, Head(s.scc[p].in_buf)),
                      !.scc[p].in_buf = Tail(@)]
    BY ChipTypes DEF SetPort
  <2>4. t = add_event_scc(v, p, "rx")
    BY <1>2, <2>3 DEF scc_maybe_rx_event
  <2> HIDE DEF c
  <2>5. Feeds(s, u, p) /\ u.scc[p] = c /\ u.ev = s.ev
    <3>1. KeepsOther(s, u, p) /\ u.scc[p] = c /\ u.ev = s.ev
      BY <2>2, Edit
    <3>2. s.scc[p].in_buf # <<>>
      BY <1>2 DEF CanReceive
    <3>3. ReadsOn(Waiting(s, p), Waiting(u, p), 0)
      BY <3>1, <3>2, <2>2, WaitingType, PassOn DEF Waiting
    <3> QED BY <3>1, <3>3 DEF Feeds
  <2> HIDE DEF u
  <2>6. u \in Chip /\ Core(u, p) /\ "rx" \notin u.scc[p].event_pending
    BY <2>5, <2>2, <1>2
       DEF Feeds, KeepsOther, Core, EventsMatchAt, TxWakesAt, BrTicksAt, CanReceive
  <2>7. IntRoutine(u, v, p) /\ RxIntHasDataAt(v, p)
    BY <2>6, MaybeRxIntOk
  <2> HIDE DEF v
  <2>8. /\ Feeds(u, v, p) /\ v \in Chip /\ Line(v, p) /\ Core(v, p)
        /\ "rx" \notin v.scc[p].event_pending
    BY <2>6, <2>7, IntRoutineKeeps DEF IntRoutine, SameIO
  <2>9. /\ Feeds(v, t, p) /\ EventsMatchAt(t, p) /\ Line(t, p)
        /\ t.scc[p] = [v.scc[p] EXCEPT !.event_pending = @ \cup {"rx"}]
    BY <2>4, <2>8, AddEventOk DEF Core, Kind
  <2>10. v.scc[p] \in PortState
    BY <2>8, ChipTypes
  <2>11. Core(t, p) /\ Blocked(t, p) /\ RxWakesAt(t, p) /\ RxIntHasDataAt(t, p)
    BY <2>7, <2>8, <2>9, <2>10 DEF PortState, Core, TxWakesAt, BrTicksAt, Blocked,
       RxWakesAt, CanReceive, RxIntHasDataAt
  <2>12. Feeds(s, t, p)
    BY <2>5, <2>8, <2>9, FeedsTrans
  <2> QED BY <2>9, <2>11, <2>12
<1> QED BY <1>1, <1>2

(* An edit that nothing above looks at. *)
LEMMA QuietEdit ==
  ASSUME NEW s \in Chip, NEW p \in Port, NEW c \in PortState, SameIO(c, s.scc[p]),
         c.wantint = s.scc[p].wantint, c.irq_pending = s.scc[p].irq_pending,
         NEW t, t = SetPort(s, p, c)
  PROVE  /\ Feeds(s, t, p) /\ t \in Chip /\ t.scc[p] = c
         /\ Core(s, p) => Core(t, p)
         /\ Line(s, p) => Line(t, p)
         /\ RxWakesAt(s, p) => RxWakesAt(t, p)
         /\ RxIntHasDataAt(s, p) => RxIntHasDataAt(t, p)
         /\ Full(s, p) => Full(t, p)
<1>1. /\ Feeds(s, t, p) /\ t.scc[p] = c /\ t.irq = s.irq /\ t.ev = s.ev
      /\ PendingOf(t, p) = PendingOf(s, p)
  <2>1. /\ KeepsOther(s, t, p) /\ t.scc[p] = c /\ t.irq = s.irq /\ t.ev = s.ev
        /\ PendingOf(t, p) = PendingOf(s, p)
    BY Edit
  <2> QED BY <2>1, SamePipe DEF SameIO
<1>2. t \in Chip /\ t.mie = s.mie
  BY <1>1 DEF Feeds, KeepsOther
<1>3. Line(s, p) => Line(t, p)
  BY <1>1, <1>2 DEF Line, Rr3At, IrqLineAt
<1>4. Core(s, p) => Core(t, p)
  BY <1>1 DEF SameIO, Core, EventsMatchAt, TxWakesAt, BrTicksAt
<1>5. /\ RxWakesAt(s, p) => RxWakesAt(t, p)
      /\ RxIntHasDataAt(s, p) => RxIntHasDataAt(t, p)
  BY <1>1 DEF SameIO, RxWakesAt, CanReceive, RxIntHasDataAt
<1> QED BY <1>1, <1>2, <1>3, <1>4, <1>5 DEF Full

(***************************************************************************)
(* Receiving.                                                              *)
(***************************************************************************)
LEMMA PopFifoOk ==
  ASSUME NEW s \in Chip, NEW p \in Port, Core(s, p), Line(s, p),
         s.scc[p].rx_queue # <<>>, NEW t, t = PopFifo(s, p)
  PROVE  Moves(s, t, p) /\ Full(t, p)
<1> DEFINE c == [s.scc[p] EXCEPT !.rx_queue = Tail(@)]
           u == SetPort(s, p, c)
           v == scc_maybe_rx_event(u, p)
<1>0. s.scc[p] \in PortState
  BY ChipTypes
<1>1. Tail(s.scc[p].rx_queue) \in RxFifo
  BY WaitingType DEF RxFifo, RxFifoSize
<1>2. /\ c \in PortState /\ c.event_pending = s.scc[p].event_pending
      /\ c.tx_buf_empty = s.scc[p].tx_buf_empty /\ c.br_en = s.scc[p].br_en
      /\ c.zc_int_en = s.scc[p].zc_int_en
      /\ c.wantint = s.scc[p].wantint /\ c.irq_pending = s.scc[p].irq_pending
      /\ c.rx_queue = Tail(s.scc[p].rx_queue) /\ c.in_buf = s.scc[p].in_buf
  BY <1>0, <1>1 DEF PortState
<1>3. u = [s EXCEPT !.scc[p].rx_queue = Tail(@)]
  BY ChipTypes DEF SetPort
<1>4. t = scc_maybe_rx_int(v, p)
  BY <1>3 DEF PopFifo
<1> HIDE DEF c
<1>5. /\ KeepsOther(s, u, p) /\ u.scc[p] = c /\ u.ev = s.ev
      /\ PendingOf(u, p) = PendingOf(s, p)
  BY <1>2, Edit
<1>51. Moves(s, u, p)
  <2>1. ReadsOn(Waiting(s, p), Waiting(u, p), 1)
    BY <1>2, <1>5, WaitingType, TakeOut DEF Waiting
  <2> QED BY <1>5, <2>1 DEF Moves
<1> HIDE DEF u
<1>6. u \in Chip /\ u.mie = s.mie /\ Core(u, p) /\ Line(u, p)
  BY <1>5, <1>2 DEF Feeds, KeepsOther, Core, EventsMatchAt, TxWakesAt, BrTicksAt, Line,
                    Rr3At, IrqLineAt
<1>7. Feeds(u, v, p) /\ Core(v, p) /\ RxWakesAt(v, p)
  BY <1>6, MaybeRxEventOk
<1> HIDE DEF v
<1>8. v \in Chip
  BY <1>7, FeedsMoves
<1>9. IntRoutine(v, t, p) /\ RxIntHasDataAt(t, p)
  BY <1>4, <1>8, MaybeRxIntOk
<1>10. Feeds(v, t, p) /\ Line(t, p) /\ Core(t, p) /\ RxWakesAt(t, p)
  BY <1>7, <1>8, <1>9, IntRoutineKeeps
<1>11. Moves(s, t, p)
  <2>1. Moves(s, v, p)
    BY <1>51, <1>7, MovesTrans
  <2> QED BY <2>1, <1>10, MovesTrans
<1> QED BY <1>9, <1>10, <1>11 DEF Full

LEMMA AddToReadbufOk ==
  ASSUME NEW s \in Chip, NEW p \in Port, Core(s, p), Line(s, p), NEW b \in Byte,
         NEW t, t = scc_add_to_readbuf(s, p, b)
  PROVE  /\ Feeds(s, t, p) /\ Core(t, p) /\ Line(t, p) /\ RxWakesAt(t, p)
         /\ RxIntHasDataAt(s, p) => RxIntHasDataAt(t, p)
         /\ Blocked(t, p)
<1>0. s.scc[p] \in PortState
  BY ChipTypes
<1>1. s.scc[p].in_buf \in Seq(Byte)
  BY <1>0 DEF PortState
<1>2. CASE ~(InRoom(s, p) > 0)
  <2>1. t = scc_maybe_rx_event(s, p)
    BY <1>2 DEF scc_add_to_readbuf
  <2>2. s.scc[p].in_buf # <<>>
    <3> DEFINE q == s.scc[p].in_buf
    <3>1. q \in Seq(Byte) /\ ~(SCC_INBUF_SIZE - 1 - Len(q) > 0)
      BY <1>2, <1>1 DEF InRoom
    <3> HIDE DEF q
    <3>2. Len(q) # 0
      BY <3>1, Sizes
    <3>3. q # <<>>
      BY <3>2
    <3> QED BY <3>3 DEF q
  <2> QED BY <2>1, <2>2, MaybeRxEventOk
<1>3. CASE InRoom(s, p) > 0
  <2> DEFINE c == [s.scc[p] EXCEPT !.in_buf = Append(@, b)]
             u == SetPort(s, p, c)
  <2>1. Append(s.scc[p].in_buf, b) \in Seq(Byte) /\ Append(s.scc[p].in_buf, b) # <<>>
    BY <1>1
  <2>2. /\ c \in PortState /\ c.event_pending = s.scc[p].event_pending
        /\ c.tx_buf_empty = s.scc[p].tx_buf_empty /\ c.br_en = s.scc[p].br_en
        /\ c.zc_int_en = s.scc[p].zc_int_en /\ c.rx_queue = s.scc[p].rx_queue
        /\ c.wantint = s.scc[p].wantint /\ c.irq_pending = s.scc[p].irq_pending
        /\ c.in_buf = Append(s.scc[p].in_buf, b) /\ c.in_buf # <<>>
    BY <1>0, <2>1 DEF PortState
  <2>3. u = [s EXCEPT !.scc[p].in_buf = Append(@, b)]
    BY ChipTypes DEF SetPort
  <2>4. t = scc_maybe_rx_event(u, p)
    BY <1>3, <2>3 DEF scc_add_to_readbuf
  <2> HIDE DEF c
  <2>5. /\ Feeds(s, u, p) /\ u.scc[p] = c /\ u.ev = s.ev
        /\ PendingOf(u, p) = PendingOf(s, p)
    <3>1. /\ KeepsOther(s, u, p) /\ u.scc[p] = c /\ u.ev = s.ev
          /\ PendingOf(u, p) = PendingOf(s, p)
      BY <2>2, Edit
    <3>2. ReadsOn(Waiting(s, p), Waiting(u, p), 0)
      BY <3>1, <2>2, WaitingType, ComeInOne DEF Waiting
    <3> QED BY <3>1, <3>2 DEF Feeds
  <2> HIDE DEF u
  <2>6. /\ u \in Chip /\ u.mie = s.mie /\ Core(u, p) /\ Line(u, p)
        /\ RxIntHasDataAt(s, p) => RxIntHasDataAt(u, p)
    BY <2>5, <2>2 DEF Feeds, KeepsOther, Core, EventsMatchAt, TxWakesAt, BrTicksAt, Line,
                      Rr3At, IrqLineAt, RxIntHasDataAt
  <2>7. /\ Feeds(u, t, p) /\ Core(t, p) /\ Line(t, p) /\ RxWakesAt(t, p)
        /\ RxIntHasDataAt(u, p) => RxIntHasDataAt(t, p)
        /\ Blocked(t, p)
    BY <2>4, <2>5, <2>2, <2>6, MaybeRxEventOk
  <2>8. Feeds(s, t, p)
    BY <2>5, <2>7, FeedsTrans
  <2> QED BY <2>6, <2>7, <2>8
<1> QED BY <1>2, <1>3

LEMMA AddBytesOk ==
  ASSUME NEW s \in Chip, NEW p \in Port, Core(s, p), Line(s, p), NEW bs \in Seq(Byte),
         NEW t, t = AddBytes(s, p, bs)
  PROVE  /\ Feeds(s, t, p) /\ Core(t, p) /\ Line(t, p)
         /\ RxWakesAt(s, p) => RxWakesAt(t, p)
         /\ RxIntHasDataAt(s, p) => RxIntHasDataAt(t, p)
<1>1. CASE bs = <<>>
  <2>1. t = s
    BY <1>1 DEF AddBytes
  <2> QED BY <2>1, FeedsRefl
<1>2. CASE bs # <<>>
  <2> DEFINE u == scc_add_to_readbuf(s, p, Head(bs))
             n == Least(InRoom(u, p), Len(bs) - 1)
             rest == SubSeq(bs, 2, n + 1)
             c == [u.scc[p] EXCEPT !.in_buf = @ \o rest]
  <2>1. Head(bs) \in Byte
    BY <1>2
  <2>2. t = [u EXCEPT !.scc[p].in_buf = @ \o rest]
    BY <1>2 DEF AddBytes
  <2>3. /\ Feeds(s, u, p) /\ Core(u, p) /\ Line(u, p)
        /\ RxIntHasDataAt(s, p) => RxIntHasDataAt(u, p)
        /\ Blocked(u, p)
    BY <2>1, AddToReadbufOk
  <2> HIDE DEF u
  <2>4. u \in Chip /\ u.scc[p] \in PortState /\ u.scc[p].in_buf \in Seq(Byte)
    <3>1. u \in Chip
      BY <2>3 DEF Feeds, KeepsOther
    <3>2. u.scc[p] \in PortState
      BY <3>1, ChipTypes
    <3> QED BY <3>1, <3>2 DEF PortState
  <2>5. n \in Int /\ n + 1 <= Len(bs)
    <3>1. InRoom(u, p) \in Int /\ Len(bs) - 1 \in Int
      BY <2>4, Sizes DEF InRoom
    <3> QED BY <3>1 DEF Least
  <2>6. rest \in Seq(Byte)
    <3> HIDE DEF n
    <3>1. CASE n < 1
      BY <3>1, <2>5
    <3>2. CASE n >= 1
      <4>1. 2 \in 1..Len(bs) + 1 /\ n + 1 \in (2 - 1)..Len(bs)
        BY <3>2, <2>5
      <4> QED BY <4>1, SubSeqProperties
    <3> QED BY <3>1, <3>2, <2>5
  <2> HIDE DEF rest
  <2>7. /\ c \in PortState /\ c.event_pending = u.scc[p].event_pending
        /\ c.tx_buf_empty = u.scc[p].tx_buf_empty /\ c.br_en = u.scc[p].br_en
        /\ c.zc_int_en = u.scc[p].zc_int_en /\ c.rx_queue = u.scc[p].rx_queue
        /\ c.rx_en = u.scc[p].rx_en /\ c.in_buf = u.scc[p].in_buf \o rest
        /\ c.wantint = u.scc[p].wantint /\ c.irq_pending = u.scc[p].irq_pending
    <3>1. u.scc[p].in_buf \o rest \in Seq(Byte)
      BY <2>4, <2>6
    <3> QED BY <3>1, <2>4 DEF PortState
  <2>8. t = SetPort(u, p, c)
    BY <2>2, <2>4, ChipTypes DEF SetPort
  <2> HIDE DEF c
  <2>9. /\ Feeds(u, t, p) /\ t.scc[p] = c /\ t.ev = u.ev
        /\ PendingOf(t, p) = PendingOf(u, p)
    <3>1. /\ KeepsOther(u, t, p) /\ t.scc[p] = c /\ t.ev = u.ev
          /\ PendingOf(t, p) = PendingOf(u, p)
      BY <2>4, <2>7, <2>8, Edit
    <3>2. ReadsOn(Waiting(u, p), Waiting(t, p), 0)
      BY <3>1, <2>4, <2>6, <2>7, WaitingType, ComeIn DEF Waiting
    <3> QED BY <3>1, <3>2 DEF Feeds
  <2>10. /\ t \in Chip /\ t.mie = u.mie /\ Core(t, p) /\ Line(t, p) /\ RxWakesAt(t, p)
         /\ RxIntHasDataAt(u, p) => RxIntHasDataAt(t, p)
    BY <2>3, <2>7, <2>9 DEF Feeds, KeepsOther, Core, EventsMatchAt, TxWakesAt, BrTicksAt, Line,
       Rr3At, IrqLineAt, RxIntHasDataAt, RxWakesAt, CanReceive, Blocked
  <2>11. Feeds(s, t, p)
    BY <2>3, <2>9, FeedsTrans
  <2> QED BY <2>3, <2>10, <2>11
<1> QED BY <1>1, <1>2

(* What the host may deliver, and what AddBytes does to a port in order. *)
LEMMA BurstTypes ==
  ASSUME NEW n \in Nat, NEW bs \in Bursts(n)
  PROVE  bs \in Seq(Byte)
<1>1. PICK k \in 0..n : bs \in [1..k -> Byte]
  BY DEF Bursts
<1> QED BY <1>1

LEMMA InputTypes ==
  ASSUME NEW s, NEW p, NEW bs
  PROVE  /\ bs \in HostInput(s, p) => bs \in Seq(Byte)
         /\ bs \in Echo(s, p) => bs \in Seq(Byte)
<1>1. MaxBurst \in Nat /\ Frame \subseteq Seq(Byte)
  BY SccAssumption DEF SccAssumption
<1>2. bs \in Bursts(MaxBurst) => bs \in Seq(Byte)
  BY <1>1, BurstTypes
<1>3. bs \in {<<>>} => bs \in Seq(Byte)
  OBVIOUS
<1>4. bs \in HostInput(s, p) => bs \in Bursts(MaxBurst) \cup Frame \cup {<<>>}
  BY DEF HostInput
<1>5. bs \in Echo(s, p) => bs \in Bursts(MaxBurst) \cup {<<>>}
  BY DEF Echo
<1> QED BY <1>1, <1>2, <1>3, <1>4, <1>5

LEMMA AddBytesFull ==
  ASSUME NEW s \in Chip, NEW p \in Port, Full(s, p), NEW bs \in Seq(Byte),
         NEW t, t = AddBytes(s, p, bs)
  PROVE  Feeds(s, t, p) /\ t \in Chip /\ Full(t, p)
BY AddBytesOk DEF Full, Feeds, KeepsOther

(***************************************************************************)
(* Transmitting.                                                           *)
(***************************************************************************)
LEMMA MaybeTxEventOk ==
  ASSUME NEW s \in Chip, NEW p \in Port, Full(s, p),
         NEW t, t = scc_maybe_tx_event(s, p)
  PROVE  Feeds(s, t, p) /\ t \in Chip /\ Full(t, p)
<1>0. s.scc[p] \in PortState
  BY ChipTypes
<1>1. CASE "tx" \in s.scc[p].event_pending
  <2> DEFINE c == [s.scc[p] EXCEPT !.tx_buf_empty = FALSE]
  <2>1. /\ c \in PortState /\ c.event_pending = s.scc[p].event_pending
        /\ c.br_en = s.scc[p].br_en /\ c.rx_en = s.scc[p].rx_en
        /\ c.zc_int_en = s.scc[p].zc_int_en
        /\ c.rx_queue = s.scc[p].rx_queue /\ c.in_buf = s.scc[p].in_buf
        /\ c.wantint = s.scc[p].wantint /\ c.irq_pending = s.scc[p].irq_pending
    BY <1>0 DEF PortState
  <2>2. t = SetPort(s, p, c)
    BY <1>1, ChipTypes DEF scc_maybe_tx_event, SetPort
  <2> HIDE DEF c
  <2>3. /\ Feeds(s, t, p) /\ t.scc[p] = c /\ t.ev = s.ev
        /\ PendingOf(t, p) = PendingOf(s, p)
    <3>1. /\ KeepsOther(s, t, p) /\ t.scc[p] = c /\ t.ev = s.ev
          /\ PendingOf(t, p) = PendingOf(s, p)
      BY <2>1, <2>2, Edit
    <3> QED BY <3>1, <2>1, SamePipe
  <2> QED BY <2>1, <2>3, <1>1 DEF Feeds, KeepsOther, Full, Core, EventsMatchAt, TxWakesAt,
       BrTicksAt, Line, Rr3At, IrqLineAt, RxIntHasDataAt, RxWakesAt, CanReceive
<1>2. CASE "tx" \notin s.scc[p].event_pending
  <2> DEFINE u == scc_evaluate_ints(s, p)
  <2>1. t = add_event_scc(u, p, "tx")
    BY <1>2 DEF scc_maybe_tx_event
  <2>2. IntRoutine(s, u, p) /\ u.scc[p].wantint = s.scc[p].wantint
    BY Evaluate
  <2> HIDE DEF u
  <2>3. Feeds(s, u, p) /\ u \in Chip /\ Line(u, p) /\ Core(u, p) /\ RxWakesAt(u, p)
    BY <2>2, IntRoutineKeeps DEF Full
  <2>4. "tx" \notin u.scc[p].event_pending /\ RxIntHasDataAt(u, p)
    BY <2>2, <1>2 DEF IntRoutine, SameIO, Full, RxIntHasDataAt
  <2>5. /\ Feeds(u, t, p) /\ EventsMatchAt(t, p) /\ Line(t, p)
        /\ t.scc[p] = [u.scc[p] EXCEPT !.event_pending = @ \cup {"tx"}]
    BY <2>1, <2>3, <2>4, AddEventOk DEF Core, Kind
  <2>6. u.scc[p] \in PortState
    BY <2>3, ChipTypes
  <2>7. /\ Core(t, p) /\ RxWakesAt(t, p) /\ RxIntHasDataAt(t, p)
    BY <2>3, <2>4, <2>5, <2>6 DEF PortState, Core, TxWakesAt, BrTicksAt,
       RxWakesAt, CanReceive, RxIntHasDataAt
  <2>8. Feeds(s, t, p)
    BY <2>3, <2>5, FeedsTrans
  <2> QED BY <2>5, <2>7, <2>8 DEF Full, Feeds, KeepsOther
<1> QED BY <1>1, <1>2

(* A quiet edit of the fields that only say where bytes go. *)
LEMMA PortInitOk ==
  ASSUME NEW s \in Chip, NEW p \in Port, Full(s, p), NEW t, t = scc_port_init(s, p)
  PROVE  Feeds(s, t, p) /\ t \in Chip /\ Full(t, p)
<1> DEFINE c == [s.scc[p] EXCEPT !.state = SerialType[p]]
<1>0. s.scc[p] \in PortState /\ SerialType[p] \in 0..4
  BY ChipTypes, SccAssumption DEF SccAssumption
<1>1. /\ c \in PortState /\ SameIO(c, s.scc[p])
      /\ c.wantint = s.scc[p].wantint /\ c.irq_pending = s.scc[p].irq_pending
  BY <1>0 DEF PortState, SameIO
<1>2. t = SetPort(s, p, c)
  BY ChipTypes DEF scc_port_init, SetPort
<1> HIDE DEF c
<1> QED BY <1>1, <1>2, QuietEdit

LEMMA OutPointer ==
  ASSUME NEW s \in Chip, NEW p \in Port, NEW k \in Int
  PROVE  /\ (s.scc[p].out_wrptr + k) % SCC_OUTBUF_SIZE \in 0..SCC_OUTBUF_SIZE - 1
         /\ (s.scc[p].out_rdptr + k) % SCC_OUTBUF_SIZE \in 0..SCC_OUTBUF_SIZE - 1
<1>1. s.scc[p].out_wrptr \in Int /\ s.scc[p].out_rdptr \in Int
  BY ChipTypes DEF PortState
<1> QED BY <1>1, Sizes

LEMMA AddToWritebufOk ==
  ASSUME NEW s \in Chip, NEW p \in Port, Full(s, p),
         NEW t, t = scc_add_to_writebuf(s, p)
  PROVE  Feeds(s, t, p) /\ t \in Chip /\ Full(t, p)
<1> DEFINE next == (s.scc[p].out_wrptr + 1) % SCC_OUTBUF_SIZE
           c == [s.scc[p] EXCEPT !.out_wrptr = next]
<1>0. s.scc[p] \in PortState
  BY ChipTypes
<1>1. next \in 0..SCC_OUTBUF_SIZE - 1
  BY OutPointer
<1>2. t = s \/ t = SetPort(s, p, c)
  BY ChipTypes DEF scc_add_to_writebuf, SetPort
<1> HIDE DEF next
<1>3. /\ c \in PortState /\ SameIO(c, s.scc[p])
      /\ c.wantint = s.scc[p].wantint /\ c.irq_pending = s.scc[p].irq_pending
  BY <1>0, <1>1 DEF PortState, SameIO
<1> HIDE DEF c
<1> QED BY <1>2, <1>3, QuietEdit, FeedsRefl

LEMMA TransmitOk ==
  ASSUME NEW s \in Chip, NEW p \in Port, Full(s, p), NEW fast,
         NEW t, t = scc_transmit(s, p, fast)
  PROVE  Feeds(s, t, p) /\ t \in Chip /\ Full(t, p)
<1> DEFINE u == IF s.scc[p].state = 0 THEN scc_port_init(s, p) ELSE s
<1>1. Feeds(s, u, p) /\ u \in Chip /\ Full(u, p)
  BY PortInitOk, FeedsRefl
<1>2. t = u \/ t = scc_add_to_writebuf(u, p)
  BY DEF scc_transmit
<1> HIDE DEF u
<1>3. Feeds(u, t, p) /\ t \in Chip /\ Full(t, p)
  BY <1>1, <1>2, AddToWritebufOk, FeedsRefl
<1> QED BY <1>1, <1>3, FeedsTrans

LEMMA TryToEmptyOk ==
  ASSUME NEW s \in Chip, NEW p \in Port, Full(s, p), NEW k \in Int,
         NEW bs \in Seq(Byte), NEW t, t = scc_try_to_empty_writebuf(s, p, k, bs)
  PROVE  Feeds(s, t, p) /\ t \in Chip /\ Full(t, p)
<1> DEFINE r == (s.scc[p].out_rdptr + k) % SCC_OUTBUF_SIZE
           c == [s.scc[p] EXCEPT !.write_called_this_vbl = TRUE]
           d == [s.scc[p] EXCEPT !.write_called_this_vbl = TRUE, !.out_rdptr = r]
           u == SetPort(s, p, c)
           v == SetPort(s, p, d)
<1>0. s.scc[p] \in PortState
  BY ChipTypes
<1>1. r \in 0..SCC_OUTBUF_SIZE - 1
  BY OutPointer
<1>2. t = s \/ t = u \/ t = AddBytes(v, p, bs)
  <2>1. u = [s EXCEPT !.scc[p].write_called_this_vbl = TRUE]
    BY ChipTypes DEF SetPort
  <2>2. v = [u EXCEPT !.scc[p].out_rdptr = (@ + k) % SCC_OUTBUF_SIZE]
    BY ChipTypes, <1>0 DEF SetPort, PortState
  <2> HIDE DEF v, u
  <2> QED BY <2>1, <2>2 DEF scc_try_to_empty_writebuf
<1> HIDE DEF r
<1>3. /\ c \in PortState /\ SameIO(c, s.scc[p])
      /\ c.wantint = s.scc[p].wantint /\ c.irq_pending = s.scc[p].irq_pending
  BY <1>0 DEF PortState, SameIO
<1>4. /\ d \in PortState /\ SameIO(d, s.scc[p])
      /\ d.wantint = s.scc[p].wantint /\ d.irq_pending = s.scc[p].irq_pending
  BY <1>0, <1>1 DEF PortState, SameIO
<1> HIDE DEF c, d, u, v
<1>5. Feeds(s, u, p) /\ u \in Chip /\ Full(u, p)
  BY <1>3, QuietEdit DEF u
<1>6. Feeds(s, v, p) /\ v \in Chip /\ Full(v, p)
  BY <1>4, QuietEdit DEF v
<1>7. CASE t = AddBytes(v, p, bs)
  <2>1. Feeds(v, t, p) /\ t \in Chip /\ Full(t, p)
    BY <1>6, <1>7, AddBytesFull
  <2> QED BY <2>1, <1>6, FeedsTrans
<1> QED BY <1>2, <1>5, <1>7, FeedsRefl

LEMMA WriteDataOk ==
  ASSUME NEW s \in Chip, NEW p \in Port, Full(s, p), NEW b \in Byte, NEW fast,
         NEW k \in Int, NEW bs \in Seq(Byte), NEW t, t = scc_write_data(s, p, b, fast, k, bs)
  PROVE  Feeds(s, t, p) /\ t \in Chip /\ Full(t, p)
<1> DEFINE u == PutByte(s, p, b, fast)
           v == IF u.scc[p].state # 3 THEN scc_try_to_empty_writebuf(u, p, k, bs) ELSE u
<1>1. t = scc_maybe_tx_event(v, p)
  BY DEF scc_write_data
<1>2. Feeds(s, u, p) /\ u \in Chip /\ Full(u, p)
  <2>1. CASE s.scc[p].loop
    <3>1. u = scc_add_to_readbuf(s, p, b)
      BY <2>1 DEF PutByte
    <3> QED BY <3>1, AddToReadbufOk DEF Full, Feeds, KeepsOther
  <2>2. CASE ~s.scc[p].loop
    <3>1. u = scc_transmit(s, p, fast)
      BY <2>2 DEF PutByte
    <3> HIDE DEF u
    <3> QED BY <3>1, TransmitOk
  <2> QED BY <2>1, <2>2
<1> HIDE DEF u
<1>3. Feeds(u, v, p) /\ v \in Chip /\ Full(v, p)
  BY <1>2, TryToEmptyOk, FeedsRefl
<1> HIDE DEF v
<1>4. Feeds(v, t, p) /\ t \in Chip /\ Full(t, p)
  BY <1>1, <1>3, MaybeTxEventOk
<1> QED BY <1>2, <1>3, <1>4, FeedsTrans

LEMMA ReadDataOk ==
  ASSUME NEW s \in Chip, NEW p \in Port, Full(s, p), NEW bs \in Seq(Byte),
         NEW t, t = scc_read_data(s, p, bs)
  PROVE  Moves(s, t, p) /\ t \in Chip /\ Full(t, p)
<1> DEFINE u == AddBytes(s, p, bs)
           v == PopFifo(u, p)
           c == [v.scc[p] EXCEPT !.sdlc_eof = TRUE]
<1>1. Feeds(s, u, p) /\ u \in Chip /\ Full(u, p)
  BY AddBytesFull
<1>2. \/ t = u
      \/ /\ u.scc[p].rx_queue # <<>>
         /\ t = v \/ t = [v EXCEPT !.scc[p].sdlc_eof = TRUE]
  BY DEF scc_read_data, scc_try_fill_readbuf
<1> HIDE DEF u
<1>3. CASE u.scc[p].rx_queue # <<>> /\ (t = v \/ t = [v EXCEPT !.scc[p].sdlc_eof = TRUE])
  <2>1. Moves(u, v, p) /\ Full(v, p)
    BY <1>1, <1>3, PopFifoOk DEF Full
  <2> HIDE DEF v
  <2>2. v \in Chip /\ v.scc[p] \in PortState
    BY <2>1, ChipTypes DEF Moves, KeepsOther
  <2>3. t = v \/ t = SetPort(v, p, c)
    BY <1>3, <2>2, ChipTypes DEF SetPort
  <2>4. /\ c \in PortState /\ SameIO(c, v.scc[p])
        /\ c.wantint = v.scc[p].wantint /\ c.irq_pending = v.scc[p].irq_pending
    BY <2>2 DEF PortState, SameIO
  <2> HIDE DEF c
  <2>5. Feeds(v, t, p) /\ t \in Chip /\ Full(t, p)
    BY <2>1, <2>2, <2>3, <2>4, QuietEdit, FeedsRefl
  <2>6. Moves(s, v, p)
    BY <1>1, <2>1, MovesTrans
  <2> QED BY <2>5, <2>6, MovesTrans
<1> QED BY <1>1, <1>2, <1>3, FeedsMoves

(***************************************************************************)
(* Commands of WR0.                                                        *)
(***************************************************************************)
LEMMA ClearIntFull ==
  ASSUME NEW s \in Chip, NEW p \in Port, Full(s, p), NEW src, NEW t,
         t = ClearInt(s, p, src)
  PROVE  Feeds(s, t, p) /\ t \in Chip /\ Full(t, p)
<1>1. IntRoutine(s, t, p) /\ t.scc[p].wantint = s.scc[p].wantint \ {src}
  BY ClearIntOk
<1>2. Feeds(s, t, p) /\ t \in Chip /\ Line(t, p) /\ Core(t, p) /\ RxWakesAt(t, p)
  BY <1>1, IntRoutineKeeps DEF Full
<1>3. RxIntHasDataAt(t, p)
  BY <1>1 DEF Full, RxIntHasDataAt, IntRoutine, SameIO
<1> QED BY <1>2, <1>3 DEF Full

LEMMA ResetHighestOk ==
  ASSUME NEW s \in Chip, NEW p \in Port, Full(s, p), NEW t, t = reset_highest_pri_int(s, p)
  PROVE  Feeds(s, t, p) /\ t \in Chip /\ Full(t, p)
<1> DEFINE w == s.scc[p].wantint \ HighestPending(s, p)
<1>0. w \in SUBSET Source
  BY WantType
<1>1. t = s \/ t = scc_evaluate_ints([s EXCEPT !.scc[p].wantint = w], p)
  BY DEF reset_highest_pri_int
<1>2. w \subseteq s.scc[p].wantint
  OBVIOUS
<1> HIDE DEF w
<1>3. CASE t = scc_evaluate_ints([s EXCEPT !.scc[p].wantint = w], p)
  <2>1. IntRoutine(s, t, p) /\ t.scc[p].wantint = w
    BY <1>0, <1>3, SetWant
  <2>2. Feeds(s, t, p) /\ t \in Chip /\ Line(t, p) /\ Core(t, p) /\ RxWakesAt(t, p)
    BY <2>1, IntRoutineKeeps DEF Full
  <2>3. RxIntHasDataAt(t, p)
    BY <2>1, <1>2 DEF Full, RxIntHasDataAt, IntRoutine, SameIO
  <2> QED BY <2>2, <2>3 DEF Full
<1> QED BY <1>1, <1>3, FeedsRefl

LEMMA ResetRr1Ok ==
  ASSUME NEW s \in Chip, NEW p \in Port, Full(s, p), NEW t, t = reset_rr1_bits(s, p)
  PROVE  Moves(s, t, p) /\ t \in Chip /\ Full(t, p)
<1> DEFINE u == IF s.scc[p].sdlc_eof /\ s.scc[p].rx_queue # <<>> THEN PopFifo(s, p) ELSE s
           c == [u.scc[p] EXCEPT !.sdlc_eof = FALSE]
<1>1. t = [u EXCEPT !.scc[p].sdlc_eof = FALSE]
  BY DEF reset_rr1_bits
<1>2. Moves(s, u, p) /\ Full(u, p)
  <2>1. Feeds(s, s, p)
    BY FeedsRefl
  <2> QED BY <2>1, PopFifoOk, FeedsMoves DEF Full
<1> HIDE DEF u
<1>3. u \in Chip /\ u.scc[p] \in PortState
  BY <1>2, ChipTypes DEF Moves, KeepsOther
<1>4. t = SetPort(u, p, c)
  BY <1>1, <1>3, ChipTypes DEF SetPort
<1>5. /\ c \in PortState /\ SameIO(c, u.scc[p])
      /\ c.wantint = u.scc[p].wantint /\ c.irq_pending = u.scc[p].irq_pending
  BY <1>3 DEF PortState, SameIO
<1> HIDE DEF c
<1>6. Feeds(u, t, p) /\ t \in Chip /\ Full(t, p)
  BY <1>2, <1>3, <1>4, <1>5, QuietEdit
<1> QED BY <1>2, <1>6, MovesTrans

LEMMA RearmOk ==
  ASSUME NEW s \in Chip, NEW p \in Port, Full(s, p),
         NEW t, t = [s EXCEPT !.scc[p].did_int_rx_first = FALSE]
  PROVE  Feeds(s, t, p) /\ t \in Chip /\ Full(t, p)
<1> DEFINE c == [s.scc[p] EXCEPT !.did_int_rx_first = FALSE]
<1>0. s.scc[p] \in PortState
  BY ChipTypes
<1>1. t = SetPort(s, p, c)
  BY ChipTypes DEF SetPort
<1>2. /\ c \in PortState /\ SameIO(c, s.scc[p])
      /\ c.wantint = s.scc[p].wantint /\ c.irq_pending = s.scc[p].irq_pending
  BY <1>0 DEF PortState, SameIO
<1> HIDE DEF c
<1> QED BY <1>1, <1>2, QuietEdit

LEMMA CommandOk ==
  ASSUME NEW s \in Chip, NEW p \in Port, Full(s, p), NEW cmd \in 0..7,
         NEW t, t = Command(s, p, cmd)
  PROVE  Moves(s, t, p) /\ t \in Chip /\ Full(t, p)
<1>1. CASE cmd = 2
  BY <1>1, ClearIntFull, FeedsMoves DEF Command, scc_clr_zerocnt_int
<1>2. CASE cmd = 4
  BY <1>2, RearmOk, FeedsMoves DEF Command
<1>3. CASE cmd = 5
  BY <1>3, ClearIntFull, FeedsMoves DEF Command, scc_clr_tx_int
<1>4. CASE cmd = 6
  BY <1>4, ResetRr1Ok DEF Command
<1>5. CASE cmd = 7
  BY <1>5, ResetHighestOk, FeedsMoves DEF Command
<1>6. CASE cmd \in {0, 1, 3}
  BY <1>6, FeedsRefl, FeedsMoves DEF Command
<1> QED BY <1>1, <1>2, <1>3, <1>4, <1>5, <1>6

(***************************************************************************)
(* Registers.                                                              *)
(***************************************************************************)
(* The fields none of the invariants looks at. *)
LEMMA PointToOk ==
  ASSUME NEW s \in Chip, NEW p \in Port, Full(s, p), NEW r \in 0..15,
         NEW t, t = PointTo(s, p, r)
  PROVE  Feeds(s, t, p) /\ t \in Chip /\ Full(t, p)
<1> DEFINE m == IF r = 0 THEN 0 ELSE 1
           c == [s.scc[p] EXCEPT !.reg_ptr = r, !.mode = m]
<1>0. s.scc[p] \in PortState /\ m \in {0, 1}
  BY ChipTypes
<1>1. t = SetPort(s, p, c)
  BY ChipTypes DEF SetPort, PointTo
<1> HIDE DEF m
<1>2. /\ c \in PortState /\ SameIO(c, s.scc[p])
      /\ c.wantint = s.scc[p].wantint /\ c.irq_pending = s.scc[p].irq_pending
  BY <1>0 DEF PortState, SameIO
<1> HIDE DEF c
<1> QED BY <1>1, <1>2, QuietEdit

LEMMA SetWr1 ==
  ASSUME NEW s \in Chip, NEW p \in Port, Full(s, p),
         NEW te \in BOOLEAN, NEW rm \in 0..3,
         NEW t, t = [s EXCEPT !.scc[p].tx_int_en = te, !.scc[p].rx_int_mode = rm]
  PROVE  Feeds(s, t, p) /\ t \in Chip /\ Full(t, p)
<1> DEFINE c == [s.scc[p] EXCEPT !.tx_int_en = te, !.rx_int_mode = rm]
<1>0. s.scc[p] \in PortState
  BY ChipTypes
<1>1. t = SetPort(s, p, c)
  BY ChipTypes DEF SetPort
<1>2. /\ c \in PortState /\ SameIO(c, s.scc[p])
      /\ c.wantint = s.scc[p].wantint /\ c.irq_pending = s.scc[p].irq_pending
  BY <1>0 DEF PortState, SameIO
<1> HIDE DEF c
<1> QED BY <1>1, <1>2, QuietEdit

LEMMA SetState ==
  ASSUME NEW s \in Chip, NEW p \in Port, Full(s, p),
         NEW n \in 0..4,
         NEW t, t = [s EXCEPT !.scc[p].state = n]
  PROVE  Feeds(s, t, p) /\ t \in Chip /\ Full(t, p)
<1> DEFINE c == [s.scc[p] EXCEPT !.state = n]
<1>0. s.scc[p] \in PortState
  BY ChipTypes
<1>1. t = SetPort(s, p, c)
  BY ChipTypes DEF SetPort
<1>2. /\ c \in PortState /\ SameIO(c, s.scc[p])
      /\ c.wantint = s.scc[p].wantint /\ c.irq_pending = s.scc[p].irq_pending
  BY <1>0 DEF PortState, SameIO
<1> HIDE DEF c
<1> QED BY <1>1, <1>2, QuietEdit

LEMMA SetTxEn ==
  ASSUME NEW s \in Chip, NEW p \in Port, Full(s, p),
         NEW on \in BOOLEAN,
         NEW t, t = [s EXCEPT !.scc[p].tx_en = on]
  PROVE  Feeds(s, t, p) /\ t \in Chip /\ Full(t, p)
<1> DEFINE c == [s.scc[p] EXCEPT !.tx_en = on]
<1>0. s.scc[p] \in PortState
  BY ChipTypes
<1>1. t = SetPort(s, p, c)
  BY ChipTypes DEF SetPort
<1>2. /\ c \in PortState /\ SameIO(c, s.scc[p])
      /\ c.wantint = s.scc[p].wantint /\ c.irq_pending = s.scc[p].irq_pending
  BY <1>0 DEF PortState, SameIO
<1> HIDE DEF c
<1> QED BY <1>1, <1>2, QuietEdit

LEMMA SetFresh ==
  ASSUME NEW s \in Chip, NEW p \in Port, Full(s, p),
         NEW t, t = [s EXCEPT !.scc[p].write_called_this_vbl = FALSE]
  PROVE  Feeds(s, t, p) /\ t \in Chip /\ Full(t, p)
<1> DEFINE c == [s.scc[p] EXCEPT !.write_called_this_vbl = FALSE]
<1>0. s.scc[p] \in PortState
  BY ChipTypes
<1>1. t = SetPort(s, p, c)
  BY ChipTypes DEF SetPort
<1>2. /\ c \in PortState /\ SameIO(c, s.scc[p])
      /\ c.wantint = s.scc[p].wantint /\ c.irq_pending = s.scc[p].irq_pending
  BY <1>0 DEF PortState, SameIO
<1> HIDE DEF c
<1> QED BY <1>1, <1>2, QuietEdit

LEMMA SetOutEmpty ==
  ASSUME NEW s \in Chip, NEW p \in Port, Full(s, p),
         NEW t, t = [s EXCEPT !.scc[p].out_rdptr = 0, !.scc[p].out_wrptr = 0]
  PROVE  Feeds(s, t, p) /\ t \in Chip /\ Full(t, p)
<1> DEFINE c == [s.scc[p] EXCEPT !.out_rdptr = 0, !.out_wrptr = 0]
<1>0. s.scc[p] \in PortState /\ 0 \in 0..SCC_OUTBUF_SIZE - 1
  BY ChipTypes, Sizes
<1>1. t = SetPort(s, p, c)
  BY ChipTypes DEF SetPort
<1>2. /\ c \in PortState /\ SameIO(c, s.scc[p])
      /\ c.wantint = s.scc[p].wantint /\ c.irq_pending = s.scc[p].irq_pending
  BY <1>0 DEF PortState, SameIO
<1> HIDE DEF c
<1> QED BY <1>1, <1>2, QuietEdit

LEMMA MaybeBrEventOk ==
  ASSUME NEW s \in Chip, NEW p \in Port, EventsMatchAt(s, p), TxWakesAt(s, p),
         Line(s, p), RxWakesAt(s, p), RxIntHasDataAt(s, p),
         NEW t, t = scc_maybe_br_event(s, p)
  PROVE  Feeds(s, t, p) /\ t \in Chip /\ Full(t, p)
<1>0. s.scc[p] \in PortState
  BY ChipTypes
<1>1. CASE s.scc[p].br_en /\ s.scc[p].zc_int_en /\ "br" \notin s.scc[p].event_pending
  <2>1. t = add_event_scc(s, p, "br")
    BY <1>1 DEF scc_maybe_br_event
  <2>2. /\ Feeds(s, t, p) /\ EventsMatchAt(t, p) /\ Line(t, p)
        /\ t.scc[p] = [s.scc[p] EXCEPT !.event_pending = @ \cup {"br"}]
    BY <2>1, <1>1, AddEventOk DEF Kind
  <2>3. Core(t, p) /\ RxWakesAt(t, p) /\ RxIntHasDataAt(t, p)
    BY <2>2, <1>0 DEF PortState, Core, TxWakesAt, BrTicksAt, RxWakesAt, CanReceive,
       RxIntHasDataAt
  <2> QED BY <2>2, <2>3 DEF Full, Feeds, KeepsOther
<1>2. CASE ~(s.scc[p].br_en /\ s.scc[p].zc_int_en /\ "br" \notin s.scc[p].event_pending)
  <2>1. t = s
    BY <1>2 DEF scc_maybe_br_event
  <2> QED BY <1>2, <2>1, FeedsRefl DEF Full, Core, BrTicksAt
<1> QED BY <1>1, <1>2

(* Switching the baud generator or its interrupt, then restarting its event. *)
LEMMA BrSwitch ==
  ASSUME NEW s \in Chip, NEW p \in Port, Full(s, p), NEW c \in PortState,
         c.event_pending = s.scc[p].event_pending,
         c.tx_buf_empty = s.scc[p].tx_buf_empty, c.rx_en = s.scc[p].rx_en,
         c.in_buf = s.scc[p].in_buf, c.rx_queue = s.scc[p].rx_queue,
         c.wantint = s.scc[p].wantint, c.irq_pending = s.scc[p].irq_pending,
         NEW u, u = SetPort(s, p, c), NEW t, t = scc_maybe_br_event(u, p)
  PROVE  Feeds(s, t, p) /\ t \in Chip /\ Full(t, p)
<1>1. /\ Feeds(s, u, p) /\ u.scc[p] = c /\ u.ev = s.ev
      /\ PendingOf(u, p) = PendingOf(s, p)
  <2>1. /\ KeepsOther(s, u, p) /\ u.scc[p] = c /\ u.ev = s.ev
        /\ PendingOf(u, p) = PendingOf(s, p)
    BY Edit
  <2> QED BY <2>1, SamePipe
<1>2. u \in Chip /\ u.mie = s.mie
  BY <1>1 DEF Feeds, KeepsOther
<1>3. /\ EventsMatchAt(u, p) /\ TxWakesAt(u, p) /\ Line(u, p)
      /\ RxWakesAt(u, p) /\ RxIntHasDataAt(u, p)
  BY <1>1, <1>2 DEF Full, Core, Line, EventsMatchAt, TxWakesAt, Rr3At, IrqLineAt,
       RxWakesAt, CanReceive, RxIntHasDataAt
<1>4. Feeds(u, t, p) /\ t \in Chip /\ Full(t, p)
  BY <1>2, <1>3, MaybeBrEventOk
<1> QED BY <1>1, <1>4, FeedsTrans

LEMMA Wr14Ok ==
  ASSUME NEW s \in Chip, NEW p \in Port, Full(s, p), NEW v \in Wr14Value,
         NEW t, t = wr14(s, p, v)
  PROVE  Feeds(s, t, p) /\ t \in Chip /\ Full(t, p)
<1> DEFINE c == [s.scc[p] EXCEPT !.br_en = v.br_en, !.loop = v.loop]
           u == SetPort(s, p, c)
<1>0. s.scc[p] \in PortState /\ v.br_en \in BOOLEAN /\ v.loop \in BOOLEAN
  BY ChipTypes DEF Wr14Value
<1>1. u = [s EXCEPT !.scc[p].br_en = v.br_en, !.scc[p].loop = v.loop]
  BY ChipTypes DEF SetPort
<1>2. t = scc_maybe_br_event(u, p)
  BY <1>1 DEF wr14
<1>3. /\ c \in PortState /\ c.event_pending = s.scc[p].event_pending
      /\ c.tx_buf_empty = s.scc[p].tx_buf_empty /\ c.rx_en = s.scc[p].rx_en
      /\ c.in_buf = s.scc[p].in_buf /\ c.rx_queue = s.scc[p].rx_queue
      /\ c.wantint = s.scc[p].wantint /\ c.irq_pending = s.scc[p].irq_pending
  BY <1>0 DEF PortState
<1> HIDE DEF c
<1> QED BY <1>2, <1>3, BrSwitch

LEMMA EvaluateFull ==
  ASSUME NEW s \in Chip, NEW p \in Port, Full(s, p), NEW t, t = scc_evaluate_ints(s, p)
  PROVE  Feeds(s, t, p) /\ t \in Chip /\ Full(t, p)
<1>1. IntRoutine(s, t, p) /\ t.scc[p].wantint = s.scc[p].wantint
  BY Evaluate
<1>2. Feeds(s, t, p) /\ t \in Chip /\ Line(t, p) /\ Core(t, p) /\ RxWakesAt(t, p)
  BY <1>1, IntRoutineKeeps DEF Full
<1> QED BY <1>1, <1>2 DEF Full, RxIntHasDataAt, IntRoutine, SameIO

LEMMA Wr15Ok ==
  ASSUME NEW s \in Chip, NEW p \in Port, Full(s, p), NEW on \in BOOLEAN,
         NEW t, t = wr15(s, p, on)
  PROVE  Feeds(s, t, p) /\ t \in Chip /\ Full(t, p)
<1> DEFINE c == [s.scc[p] EXCEPT !.zc_int_en = on]
           u == SetPort(s, p, c)
           v == scc_maybe_br_event(u, p)
<1>0. s.scc[p] \in PortState
  BY ChipTypes
<1>1. u = [s EXCEPT !.scc[p].zc_int_en = on]
  BY ChipTypes DEF SetPort
<1>2. t = scc_evaluate_ints(v, p)
  BY <1>1 DEF wr15
<1>3. /\ c \in PortState /\ c.event_pending = s.scc[p].event_pending
      /\ c.tx_buf_empty = s.scc[p].tx_buf_empty /\ c.rx_en = s.scc[p].rx_en
      /\ c.in_buf = s.scc[p].in_buf /\ c.rx_queue = s.scc[p].rx_queue
      /\ c.wantint = s.scc[p].wantint /\ c.irq_pending = s.scc[p].irq_pending
  BY <1>0 DEF PortState
<1> HIDE DEF c
<1>4. Feeds(s, v, p) /\ v \in Chip /\ Full(v, p)
  BY <1>3, BrSwitch
<1> HIDE DEF v
<1>5. Feeds(v, t, p) /\ t \in Chip /\ Full(t, p)
  BY <1>2, <1>4, EvaluateFull
<1> QED BY <1>4, <1>5, FeedsTrans

LEMMA Wr3Ok ==
  ASSUME NEW s \in Chip, NEW p \in Port, Full(s, p), NEW on \in BOOLEAN,
         NEW bs \in Seq(Byte), NEW t, t = wr3(s, p, on, bs)
  PROVE  Feeds(s, t, p) /\ t \in Chip /\ Full(t, p)
<1> DEFINE c == [s.scc[p] EXCEPT !.rx_en = on]
           u == SetPort(s, p, c)
           v == AddBytes(u, p, bs)
<1>0. s.scc[p] \in PortState
  BY ChipTypes
<1>1. u = [s EXCEPT !.scc[p].rx_en = on]
  BY ChipTypes DEF SetPort
<1>2. t = IF on /\ ~s.scc[p].rx_en THEN scc_maybe_rx_event(v, p) ELSE u
  BY <1>1 DEF wr3, scc_try_fill_readbuf
<1>3. /\ c \in PortState /\ c.event_pending = s.scc[p].event_pending /\ c.rx_en = on
      /\ c.tx_buf_empty = s.scc[p].tx_buf_empty /\ c.br_en = s.scc[p].br_en
      /\ c.zc_int_en = s.scc[p].zc_int_en
      /\ c.in_buf = s.scc[p].in_buf /\ c.rx_queue = s.scc[p].rx_queue
      /\ c.wantint = s.scc[p].wantint /\ c.irq_pending = s.scc[p].irq_pending
  BY <1>0 DEF PortState
<1> HIDE DEF c
<1>4. /\ Feeds(s, u, p) /\ u.scc[p] = c /\ u.ev = s.ev
      /\ PendingOf(u, p) = PendingOf(s, p)
  <2>1. /\ KeepsOther(s, u, p) /\ u.scc[p] = c /\ u.ev = s.ev
        /\ PendingOf(u, p) = PendingOf(s, p)
    BY <1>3, Edit
  <2> QED BY <2>1, <1>3, SamePipe
<1> HIDE DEF u
<1>5. /\ u \in Chip /\ u.mie = s.mie /\ Core(u, p) /\ Line(u, p) /\ RxIntHasDataAt(u, p)
      /\ ~(on /\ ~s.scc[p].rx_en) => RxWakesAt(u, p)
  <2>1. u \in Chip /\ u.mie = s.mie
    BY <1>4 DEF Feeds, KeepsOther
  <2>2. Core(u, p)
    BY <1>3, <1>4 DEF Full, Core, EventsMatchAt, TxWakesAt, BrTicksAt
  <2>3. Line(u, p) /\ RxIntHasDataAt(u, p)
    BY <1>3, <1>4, <2>1 DEF Full, Line, Rr3At, IrqLineAt, RxIntHasDataAt
  <2>4. s.scc[p].rx_en \in BOOLEAN
    BY <1>0 DEF PortState
  <2>5. ~(on /\ ~s.scc[p].rx_en) => RxWakesAt(u, p)
    BY <1>3, <1>4, <2>4 DEF Full, RxWakesAt, CanReceive
  <2> QED BY <2>1, <2>2, <2>3, <2>5
<1>6. CASE ~(on /\ ~s.scc[p].rx_en)
  BY <1>2, <1>4, <1>5, <1>6 DEF Full
<1>7. CASE on /\ ~s.scc[p].rx_en
  <2>1. Feeds(u, v, p) /\ Core(v, p) /\ Line(v, p) /\ RxIntHasDataAt(v, p)
    BY <1>5, AddBytesOk
  <2> HIDE DEF v
  <2>2. v \in Chip
    BY <2>1 DEF Feeds, KeepsOther
  <2>3. /\ Feeds(v, t, p) /\ Core(t, p) /\ Line(t, p) /\ RxWakesAt(t, p)
        /\ RxIntHasDataAt(t, p)
    BY <1>2, <1>7, <2>1, <2>2, MaybeRxEventOk
  <2> QED BY <1>4, <2>1, <2>3, FeedsTrans DEF Full, Feeds, KeepsOther
<1> QED BY <1>6, <1>7

LEMMA Wr5Ok ==
  ASSUME NEW s \in Chip, NEW p \in Port, Full(s, p), NEW on \in BOOLEAN,
         NEW t, t = wr5(s, p, on)
  PROVE  Feeds(s, t, p) /\ t \in Chip /\ Full(t, p)
<1> DEFINE u == IF g_appletalk_bridging /\ s.scc[p].state = 3 /\ s.scc[p].tx_en /\ ~on
                THEN scc_llap_empty_writebuf(s, p) ELSE s
<1>1. t = [u EXCEPT !.scc[p].tx_en = on]
  BY DEF wr5
<1>2. u = s \/ u = [s EXCEPT !.scc[p].out_rdptr = 0, !.scc[p].out_wrptr = 0]
  BY DEF scc_llap_empty_writebuf
<1> HIDE DEF u
<1>3. Feeds(s, u, p) /\ u \in Chip /\ Full(u, p)
  BY <1>2, SetOutEmpty, FeedsRefl
<1>4. Feeds(u, t, p) /\ t \in Chip /\ Full(t, p)
  BY <1>1, <1>3, SetTxEn
<1> QED BY <1>3, <1>4, FeedsTrans

(***************************************************************************)
(* Resets.                                                                 *)
(***************************************************************************)
LEMMA EmptyFifo == <<>> \in RxFifo
BY DEF RxFifo, RxFifoSize

LEMMA ResetPortOk ==
  ASSUME NEW s \in Chip, NEW p \in Port, EventsMatchAt(s, p), NEW t, t = scc_reset_port(s, p)
  PROVE  KeepsOther(s, t, p) /\ t \in Chip /\ Full(t, p) /\ Emptied(s, t, p)
<1> DEFINE c == [s.scc[p] EXCEPT
             !.zc_int_en = FALSE, !.loop = FALSE, !.tx_en = FALSE, !.rx_en = FALSE,
             !.tx_buf_empty = TRUE, !.wantint = {}, !.rx_queue = <<>>, !.sdlc_eof = FALSE]
           u == SetPort(s, p, c)
           v == scc_evaluate_ints(u, p)
           w == ClearInt(v, p, "tx")
<1>0. s.scc[p] \in PortState
  BY ChipTypes
<1>1. t = scc_clr_rx_int(scc_clr_tx_int(scc_evaluate_ints(
             [s EXCEPT !.scc[p] = c], p), p), p)
  BY DEF scc_reset_port
<1> HIDE DEF c
<1>2. t = ClearInt(w, p, "rx")
  <2>1. u = [s EXCEPT !.scc[p] = c]
    BY ChipTypes DEF SetPort
  <2> QED BY <1>1, <2>1 DEF scc_clr_tx_int, scc_clr_rx_int
<1>3. /\ c \in PortState /\ c.event_pending = s.scc[p].event_pending
      /\ ~c.zc_int_en /\ ~c.rx_en /\ c.tx_buf_empty /\ c.wantint = {}
      /\ c.rx_queue = <<>> /\ c.in_buf = s.scc[p].in_buf
  <2>1. <<>> \in RxFifo /\ {} \in SUBSET Source
    BY EmptyFifo
  <2>2. c \in PortState
    BY <1>0, <2>1, Zenon DEF PortState, c
  <2>3. /\ c.event_pending = s.scc[p].event_pending
        /\ ~c.zc_int_en /\ ~c.rx_en /\ c.tx_buf_empty /\ c.wantint = {}
        /\ c.rx_queue = <<>> /\ c.in_buf = s.scc[p].in_buf
    BY <1>0 DEF PortState, c
  <2> QED BY <2>2, <2>3
<1>4. KeepsOther(s, u, p) /\ u.scc[p] = c /\ u.ev = s.ev
  BY <1>3, Edit
<1> HIDE DEF u
<1>5. u \in Chip /\ Core(u, p) /\ RxWakesAt(u, p)
  BY <1>3, <1>4 DEF KeepsOther, Core, EventsMatchAt, TxWakesAt, BrTicksAt, RxWakesAt, CanReceive
<1>6. IntRoutine(u, v, p) /\ v.scc[p].wantint = {}
  BY <1>3, <1>4, <1>5, Evaluate
<1> HIDE DEF v
<1>7. KeepsOther(u, v, p) /\ v \in Chip /\ Full(v, p)
  <2>1. Feeds(u, v, p) /\ v \in Chip /\ Line(v, p) /\ Core(v, p) /\ RxWakesAt(v, p)
    BY <1>5, <1>6, IntRoutineKeeps
  <2> QED BY <2>1, <1>6, FeedsMoves DEF Full, RxIntHasDataAt
<1>8. KeepsOther(v, w, p) /\ w \in Chip /\ Full(w, p) /\ SameIO(w.scc[p], v.scc[p])
  BY <1>7, ClearIntFull, ClearIntOk, FeedsMoves DEF IntRoutine
<1> HIDE DEF w
<1>9. KeepsOther(w, t, p) /\ t \in Chip /\ Full(t, p) /\ SameIO(t.scc[p], w.scc[p])
  BY <1>2, <1>8, ClearIntFull, ClearIntOk, FeedsMoves DEF IntRoutine
<1>10. KeepsOther(s, v, p)
  BY <1>4, <1>7, KeepsTrans
<1>11. KeepsOther(s, w, p)
  BY <1>8, <1>10, KeepsTrans
<1>12. Emptied(s, t, p)
  BY <1>3, <1>4, <1>6, <1>8, <1>9 DEF IntRoutine, SameIO, Emptied
<1> QED BY <1>9, <1>11, <1>12, KeepsTrans

(* A hard reset turns the master enable off, which clears the line of both
   ports; the rest of the other port is left alone. *)
Silenced(s, t, p) ==
  /\ t \in Chip /\ ~t.mie /\ \A q \in Port : PendingOf(t, q) = {}
  /\ \A q \in Port \ {p} :
       t.scc[q] = s.scc[q] /\ \A k \in Kind : t.ev[<<q, k>>] = s.ev[<<q, k>>]

LEMMA HardResetOk ==
  ASSUME NEW s \in Chip, NEW p \in Port, EventsMatchAt(s, p),
         NEW t, t = scc_hard_reset_port(s, p)
  PROVE  Silenced(s, t, p) /\ Full(t, p) /\ Emptied(s, t, p)
<1> DEFINE u == scc_reset_port(s, p)
           c == [u.scc[p] EXCEPT !.br_en = FALSE, !.tx_int_en = FALSE, !.rx_int_mode = 0]
           v == [SetPort(u, p, c) EXCEPT !.mie = FALSE]
<1>1. KeepsOther(s, u, p) /\ u \in Chip /\ Full(u, p) /\ Emptied(s, u, p)
  BY ResetPortOk
<1>2. t = scc_evaluate_ints([u EXCEPT !.scc[p] = c, !.mie = FALSE], p)
  BY DEF scc_hard_reset_port
<1> HIDE DEF u
<1>3. u.scc[p] \in PortState
  BY <1>1, ChipTypes
<1> HIDE DEF c
<1>4. v = [u EXCEPT !.scc[p] = c, !.mie = FALSE]
  BY <1>1, ChipTypes DEF SetPort
<1>5. t = scc_evaluate_ints(v, p)
  BY <1>2, <1>4
<1>6. /\ c \in PortState /\ c.event_pending = u.scc[p].event_pending /\ ~c.br_en
      /\ c.tx_buf_empty = u.scc[p].tx_buf_empty /\ c.rx_en = u.scc[p].rx_en
      /\ c.in_buf = u.scc[p].in_buf /\ c.rx_queue = u.scc[p].rx_queue
      /\ c.wantint = u.scc[p].wantint
  <2>1. c \in PortState
    <3>1. 0 \in 0..3
      OBVIOUS
    <3> QED BY <1>3, <3>1, Zenon DEF PortState, c
  <2>2. /\ c.event_pending = u.scc[p].event_pending /\ ~c.br_en
        /\ c.tx_buf_empty = u.scc[p].tx_buf_empty /\ c.rx_en = u.scc[p].rx_en
        /\ c.in_buf = u.scc[p].in_buf /\ c.rx_queue = u.scc[p].rx_queue
        /\ c.wantint = u.scc[p].wantint
    BY <1>3 DEF PortState, c
  <2> QED BY <2>1, <2>2
<1>7. /\ SetPort(u, p, c) \in Chip /\ SetPort(u, p, c).scc[p] = c
      /\ SetPort(u, p, c).ev = u.ev
      /\ \A q \in Port \ {p} : SetPort(u, p, c).scc[q] = u.scc[q]
  BY <1>1, <1>6, Edit DEF KeepsOther
<1>8. /\ v \in Chip /\ ~v.mie /\ v.scc[p] = c /\ v.ev = u.ev
      /\ \A q \in Port \ {p} : v.scc[q] = u.scc[q]
  <2> DEFINE w == SetPort(u, p, c)
  <2>1. w \in Chip /\ v = [w EXCEPT !.mie = FALSE]
    BY <1>7
  <2> HIDE DEF w
  <2>2. v \in Chip /\ ~v.mie /\ v.scc = w.scc /\ v.ev = w.ev
    BY <2>1 DEF Chip
  <2> QED BY <2>2, <1>7 DEF w
<1> HIDE DEF v
<1>9. Core(v, p) /\ RxWakesAt(v, p) /\ RxIntHasDataAt(v, p)
  BY <1>1, <1>6, <1>8 DEF Full, Core, EventsMatchAt, TxWakesAt, BrTicksAt, RxWakesAt,
                          CanReceive, RxIntHasDataAt
<1>10. /\ KeepsOther(v, t, p) /\ t.ev = v.ev /\ Line(t, p)
       /\ \A q \in Port : PendingOf(t, q) = {}
  <2>1. v \in Chip
    BY <1>8
  <2> QED BY <1>5, <1>8, <2>1, EvaluateInts
<1>11. IntRoutine(v, t, p) /\ t.scc[p].wantint = v.scc[p].wantint
  BY <1>5, <1>8, Evaluate
<1>12. Core(t, p) /\ RxWakesAt(t, p) /\ RxIntHasDataAt(t, p)
  BY <1>8, <1>9, <1>11, IntRoutineKeeps DEF RxIntHasDataAt, IntRoutine, SameIO
<1>13. Silenced(s, t, p)
  BY <1>1, <1>8, <1>10 DEF KeepsOther, Silenced
<1>14. Emptied(s, t, p)
  BY <1>1, <1>6, <1>8, <1>11 DEF IntRoutine, SameIO, Emptied
<1> QED BY <1>10, <1>12, <1>13, <1>14 DEF Full

LEMMA SilencedKeeps ==
  ASSUME NEW s \in Chip, NEW t, NEW p \in Port, Silenced(s, t, p), Full(t, p),
         \A q \in Port \ {p} : Full(s, q)
  PROVE  ChipInv(t)
BY DEF Silenced, ChipInv, Full, Core, Line, EventsMatchAt, TxWakesAt, BrTicksAt, RxWakesAt,
       RxIntHasDataAt, Rr3At, IrqLineAt

(* What resets do to the queues: nothing, or the FIFO is emptied. *)
Drops(s, t) ==
  \A q \in Port : /\ t.scc[q].in_buf = s.scc[q].in_buf
                  /\ t.scc[q].rx_queue \in {s.scc[q].rx_queue, <<>>}

LEMMA DropsTrans ==
  ASSUME NEW s, NEW t, NEW u, Drops(s, t), Drops(t, u)
  PROVE  Drops(s, u)
BY DEF Drops

LEMMA HardResetInv ==
  ASSUME NEW s, ChipInv(s), NEW p \in Port, NEW t, t = scc_hard_reset_port(s, p)
  PROVE  ChipInv(t) /\ ~t.mie /\ Drops(s, t)
<1>1. s \in Chip /\ (\A q \in Port : Full(s, q)) /\ EventsMatchAt(s, p)
  BY DEF ChipInv, Full, Core
<1>2. Silenced(s, t, p) /\ Full(t, p) /\ Emptied(s, t, p)
  BY <1>1, HardResetOk
<1> QED BY <1>1, <1>2, SilencedKeeps DEF Silenced, Emptied, Drops

LEMMA ResetPortInv ==
  ASSUME NEW s, ChipInv(s), NEW p \in Port, NEW t, t = scc_reset_port(s, p)
  PROVE  ChipInv(t) /\ Drops(s, t)
<1>1. s \in Chip /\ EventsMatchAt(s, p)
  BY DEF ChipInv, Full, Core
<1>2. KeepsOther(s, t, p) /\ Full(t, p) /\ Emptied(s, t, p)
  BY <1>1, ResetPortOk
<1> QED BY <1>2, KeepsFull DEF KeepsOther, Emptied, Drops

(* Port 1's registers are not looked at before port 0 is evaluated, and the
   other way round: after a change of the master enable it takes both. *)
LEMMA Wr9Ok ==
  ASSUME NEW s, ChipInv(s), NEW v \in Wr9Value, NEW t, t = wr9(s, v)
  PROVE  ChipInv(t) /\ Drops(s, t)
<1> DEFINE s0 == IF 0 \in v.reset THEN scc_reset_port(s, 0) ELSE s
           s1 == IF 1 \in v.reset THEN scc_reset_port(s0, 1) ELSE s0
           h0 == scc_hard_reset_port(s1, 0)
           s2 == IF v.reset = Port THEN scc_hard_reset_port(h0, 1) ELSE s1
           m == [s2 EXCEPT !.mie = v.mie]
           e == scc_evaluate_ints(m, 0)
<1>0. 0 \in Port /\ 1 \in Port /\ v.mie \in BOOLEAN
  BY DEF Port, Wr9Value
<1>1. t = scc_evaluate_ints(e, 1)
  BY DEF wr9
<1>2. ChipInv(s0) /\ Drops(s, s0)
  BY <1>0, ResetPortInv DEF Drops
<1> HIDE DEF s0
<1>3. ChipInv(s1) /\ Drops(s0, s1)
  BY <1>0, <1>2, ResetPortInv DEF Drops
<1> HIDE DEF s1
<1>4. ChipInv(s2) /\ Drops(s1, s2)
  <2>1. ChipInv(h0) /\ Drops(s1, h0)
    BY <1>0, <1>3, HardResetInv
  <2> HIDE DEF h0
  <2>2. CASE v.reset = Port
    <3>1. ChipInv(s2) /\ Drops(h0, s2)
      BY <2>1, <2>2, <1>0, HardResetInv
    <3> HIDE DEF s2
    <3> QED BY <3>1, <2>1, DropsTrans
  <2>3. CASE v.reset # Port
    BY <2>3, <1>3 DEF Drops
  <2> QED BY <2>2, <2>3
<1> HIDE DEF s2
<1>5. m \in Chip /\ m.scc = s2.scc /\ m.ev = s2.ev /\ m.mie = v.mie
  BY <1>4, <1>0 DEF ChipInv, Chip
<1> HIDE DEF m
<1>6. \A q \in Port : Core(m, q) /\ RxWakesAt(m, q) /\ RxIntHasDataAt(m, q)
  BY <1>4, <1>5 DEF ChipInv, Full, Core, EventsMatchAt, TxWakesAt, BrTicksAt, RxWakesAt,
                    RxIntHasDataAt
<1>7. IntRoutine(m, e, 0) /\ e.scc[0].wantint = m.scc[0].wantint
  BY <1>0, <1>5, Evaluate
<1> HIDE DEF e
<1>8. KeepsOther(m, e, 0) /\ e \in Chip /\ Full(e, 0)
  BY <1>0, <1>5, <1>6, <1>7, IntRoutineKeeps, FeedsMoves DEF Full, RxIntHasDataAt, IntRoutine, SameIO
<1>9. Core(e, 1) /\ RxWakesAt(e, 1) /\ RxIntHasDataAt(e, 1)
  BY <1>0, <1>6, <1>8 DEF KeepsOther, Core, EventsMatchAt, TxWakesAt, BrTicksAt, RxWakesAt,
                          RxIntHasDataAt
<1>10. IntRoutine(e, t, 1) /\ t.scc[1].wantint = e.scc[1].wantint
  BY <1>0, <1>1, <1>8, Evaluate
<1>11. KeepsOther(e, t, 1) /\ t \in Chip /\ Full(t, 1)
  BY <1>0, <1>8, <1>9, <1>10, IntRoutineKeeps, FeedsMoves DEF Full, RxIntHasDataAt, IntRoutine, SameIO
<1>12. Full(t, 0)
  BY <1>0, <1>8, <1>11, OtherPortKeeps
<1>13. Drops(s2, t)
  BY <1>5, <1>7, <1>8, <1>10, <1>11 DEF IntRoutine, SameIO, KeepsOther, Drops, Port
<1>14. Drops(s, t)
  BY <1>2, <1>3, <1>4, <1>13, DropsTrans
<1> QED BY <1>11, <1>12, <1>14 DEF ChipInv, Port

LEMMA ResetOneOk ==
  ASSUME NEW s, ChipInv(s), NEW p \in Port, NEW t, t = ResetOne(s, p)
  PROVE  /\ ChipInv(t) /\ ~t.mie
         /\ t.scc[p].rx_queue = <<>> /\ t.scc[p].in_buf = <<>>
         /\ \A q \in Port \ {p} : t.scc[q] = s.scc[q]
<1> DEFINE c == [s.scc[p] EXCEPT !.mode = 0, !.reg_ptr = 0, !.in_buf = <<>>,
                  !.out_rdptr = 0, !.out_wrptr = 0, !.wantint = {},
                  !.did_int_rx_first = FALSE, !.irq_pending = {},
                  !.write_called_this_vbl = FALSE]
           u == SetPort(s, p, c)
           v == scc_evaluate_ints(u, p)
<1>0. s \in Chip /\ s.scc[p] \in PortState /\ 0 \in 0..SCC_OUTBUF_SIZE - 1
  BY ChipTypes, Sizes DEF ChipInv
<1>1. t = scc_hard_reset_port(scc_evaluate_ints([s EXCEPT !.scc[p] = c], p), p)
  BY DEF ResetOne
<1> HIDE DEF c
<1>2. t = scc_hard_reset_port(v, p)
  <2>1. u = [s EXCEPT !.scc[p] = c]
    BY <1>0, ChipTypes DEF SetPort
  <2> QED BY <1>1, <2>1
<1>3. /\ c \in PortState /\ c.event_pending = s.scc[p].event_pending
      /\ c.in_buf = <<>>
  <2>1. <<>> \in Seq(Byte) /\ {} \in SUBSET Source /\ 0 \in {0, 1} /\ 0 \in 0..15
    OBVIOUS
  <2>2. c \in PortState
    BY <1>0, <2>1, Zenon DEF PortState, c
  <2>3. c.event_pending = s.scc[p].event_pending /\ c.in_buf = <<>>
    BY <1>0 DEF PortState, c
  <2> QED BY <2>2, <2>3
<1>4. KeepsOther(s, u, p) /\ u.scc[p] = c /\ u.ev = s.ev
  BY <1>0, <1>3, Edit
<1> HIDE DEF u
<1>5. u \in Chip /\ EventsMatchAt(u, p)
  BY <1>3, <1>4 DEF KeepsOther, ChipInv, Full, Core, EventsMatchAt
<1>6. IntRoutine(u, v, p)
  BY <1>5, Evaluate
<1> HIDE DEF v
<1>7. KeepsOther(u, v, p) /\ v \in Chip /\ EventsMatchAt(v, p)
  BY <1>5, <1>6 DEF IntRoutine, KeepsOther, SameIO, EventsMatchAt
<1>8. KeepsOther(s, v, p)
  BY <1>4, <1>7, KeepsTrans
<1>9. \A q \in Port \ {p} : Full(v, q)
  BY <1>8, OtherPortKeeps DEF ChipInv
<1>10. Silenced(v, t, p) /\ Full(t, p) /\ Emptied(v, t, p)
  BY <1>2, <1>7, HardResetOk
<1>11. t.scc[p].rx_queue = <<>> /\ t.scc[p].in_buf = <<>>
  BY <1>3, <1>4, <1>6, <1>10 DEF IntRoutine, SameIO, Emptied
<1>12. \A q \in Port \ {p} : t.scc[q] = s.scc[q]
  BY <1>8, <1>10 DEF KeepsOther, Silenced
<1> QED BY <1>7, <1>9, <1>10, <1>11, <1>12, SilencedKeeps DEF Silenced

(***************************************************************************)
(* The main loop.                                                          *)
(***************************************************************************)
LEMMA BrEventOk ==
  ASSUME NEW s \in Chip, NEW p \in Port, Full(s, p), s.ev[<<p, "br">>] > 0,
         NEW u, u = pop_event_scc(s, p, "br"),
         NEW t, t = scc_maybe_br_event(scc_set_zerocnt_int(u, p), p)
  PROVE  Feeds(s, t, p) /\ t \in Chip /\ Full(t, p)
<1> DEFINE v == scc_set_zerocnt_int(u, p)
<1>0. s.scc[p] \in PortState
  BY ChipTypes
<1>1. /\ Feeds(s, u, p) /\ EventsMatchAt(u, p) /\ Line(u, p)
      /\ u.scc[p] = [s.scc[p] EXCEPT !.event_pending = @ \ {"br"}]
  BY PopEventOk DEF Full, Core, Kind
<1>2. u \in Chip /\ TxWakesAt(u, p) /\ RxWakesAt(u, p) /\ RxIntHasDataAt(u, p)
  BY <1>0, <1>1 DEF Feeds, KeepsOther, PortState, Full, Core, TxWakesAt, RxWakesAt, CanReceive,
                    RxIntHasDataAt
<1>3. IntRoutine(u, v, p) /\ v.scc[p].wantint \subseteq u.scc[p].wantint \cup {"zerocnt"}
  BY <1>2, SetZerocntOk
<1> HIDE DEF v
<1>31. Feeds(u, v, p)
  BY <1>2, <1>3, IntRoutineKeeps
<1>4. /\ Feeds(u, v, p) /\ v \in Chip /\ EventsMatchAt(v, p) /\ TxWakesAt(v, p)
      /\ Line(v, p) /\ RxWakesAt(v, p) /\ RxIntHasDataAt(v, p)
  BY <1>1, <1>2, <1>3, <1>31 DEF IntRoutine, SameIO, KeepsOther, EventsMatchAt, TxWakesAt,
                          RxWakesAt, CanReceive, RxIntHasDataAt
<1>5. Feeds(v, t, p) /\ t \in Chip /\ Full(t, p)
  BY <1>4, MaybeBrEventOk DEF v
<1>6. Feeds(s, v, p)
  BY <1>1, <1>4, FeedsTrans
<1> QED BY <1>5, <1>6, FeedsTrans

LEMMA TxEventOk ==
  ASSUME NEW s \in Chip, NEW p \in Port, Full(s, p), s.ev[<<p, "tx">>] > 0,
         NEW u, u = pop_event_scc(s, p, "tx"),
         NEW t, t = scc_handle_tx_event([u EXCEPT !.scc[p].tx_buf_empty = TRUE], p)
  PROVE  Feeds(s, t, p) /\ t \in Chip /\ Full(t, p)
<1> DEFINE c == [u.scc[p] EXCEPT !.tx_buf_empty = TRUE]
           v == SetPort(u, p, c)
<1>0. s.scc[p] \in PortState
  BY ChipTypes
<1>1. /\ Feeds(s, u, p) /\ EventsMatchAt(u, p) /\ Line(u, p)
      /\ u.scc[p] = [s.scc[p] EXCEPT !.event_pending = @ \ {"tx"}]
  BY PopEventOk DEF Full, Core, Kind
<1>2. u \in Chip /\ BrTicksAt(u, p) /\ RxWakesAt(u, p) /\ RxIntHasDataAt(u, p)
  BY <1>0, <1>1 DEF Feeds, KeepsOther, PortState, Full, Core, BrTicksAt, RxWakesAt, CanReceive,
                    RxIntHasDataAt
<1>3. u.scc[p] \in PortState
  BY <1>2, ChipTypes
<1>4. t = scc_handle_tx_event(v, p)
  BY <1>2, ChipTypes DEF SetPort
<1>5. /\ c \in PortState /\ c.event_pending = u.scc[p].event_pending
      /\ c.tx_buf_empty /\ c.rx_en = u.scc[p].rx_en
      /\ c.br_en = u.scc[p].br_en /\ c.zc_int_en = u.scc[p].zc_int_en
      /\ c.in_buf = u.scc[p].in_buf /\ c.rx_queue = u.scc[p].rx_queue
      /\ c.wantint = u.scc[p].wantint
  BY <1>3 DEF PortState
<1> HIDE DEF c
<1>6. Feeds(u, v, p) /\ v.scc[p] = c /\ v.ev = u.ev
  <2>1. KeepsOther(u, v, p) /\ v.scc[p] = c /\ v.ev = u.ev
    BY <1>2, <1>5, Edit
  <2> QED BY <2>1, <1>2, <1>5, SamePipe
<1> HIDE DEF v
<1>7. v \in Chip /\ Core(v, p) /\ RxWakesAt(v, p) /\ RxIntHasDataAt(v, p)
  BY <1>1, <1>2, <1>5, <1>6 DEF Feeds, KeepsOther, Core, EventsMatchAt, TxWakesAt, BrTicksAt,
                                RxWakesAt, CanReceive, RxIntHasDataAt
<1>8. IntRoutine(v, t, p) /\ t.scc[p].wantint \subseteq v.scc[p].wantint \cup {"tx"}
  BY <1>4, <1>7, HandleTxOk
<1>9. Feeds(v, t, p) /\ t \in Chip /\ Full(t, p)
  BY <1>7, <1>8, IntRoutineKeeps DEF Full, RxIntHasDataAt, IntRoutine, SameIO
<1>10. Feeds(s, v, p)
  BY <1>1, <1>6, FeedsTrans
<1> QED BY <1>9, <1>10, FeedsTrans

LEMMA RxEventOk ==
  ASSUME NEW s \in Chip, NEW p \in Port, Full(s, p), s.ev[<<p, "rx">>] > 0,
         NEW u, u = pop_event_scc(s, p, "rx"), NEW t, t = scc_maybe_rx_event(u, p)
  PROVE  Feeds(s, t, p) /\ t \in Chip /\ Full(t, p)
<1>0. s.scc[p] \in PortState
  BY ChipTypes
<1>1. /\ Feeds(s, u, p) /\ EventsMatchAt(u, p) /\ Line(u, p)
      /\ u.scc[p] = [s.scc[p] EXCEPT !.event_pending = @ \ {"rx"}]
  BY PopEventOk DEF Full, Core, Kind
<1>2. u \in Chip /\ Core(u, p) /\ RxIntHasDataAt(u, p)
  BY <1>0, <1>1 DEF Feeds, KeepsOther, PortState, Full, Core, BrTicksAt, TxWakesAt, RxIntHasDataAt
<1>3. /\ Feeds(u, t, p) /\ Core(t, p) /\ Line(t, p) /\ RxWakesAt(t, p)
      /\ RxIntHasDataAt(t, p)
  BY <1>1, <1>2, MaybeRxEventOk
<1> QED BY <1>1, <1>3, FeedsTrans DEF Full, Feeds, KeepsOther

(* Bytes come in at any port. *)
Grows(s, t) == \A q \in Port : ReadsOn(Waiting(s, q), Waiting(t, q), 0)

LEMMA FeedsGrows ==
  ASSUME NEW s \in Chip, NEW p \in Port, NEW t, Feeds(s, t, p)
  PROVE  Grows(s, t)
<1>1. ASSUME NEW q \in Port \ {p} PROVE Waiting(t, q) = Waiting(s, q)
  BY DEF Feeds, KeepsOther, Waiting
<1>2. \A q \in Port : ReadsOn(Waiting(s, q), Waiting(s, q), 0)
  BY WaitingType, ReadsRefl
<1> QED BY <1>1, <1>2 DEF Grows, Feeds

LEMMA GrowsTrans ==
  ASSUME NEW s \in Chip, NEW t \in Chip, NEW u \in Chip, Grows(s, t), Grows(t, u)
  PROVE  Grows(s, u)
<1> SUFFICES ASSUME NEW q \in Port PROVE ReadsOn(Waiting(s, q), Waiting(u, q), 0)
  BY DEF Grows
<1>1. ReadsOn(Waiting(s, q), Waiting(u, q), 0 + 0)
  BY WaitingType, ReadsTrans DEF Grows
<1> QED BY <1>1

LEMMA FillInv ==
  ASSUME NEW s, ChipInv(s), NEW p \in Port, NEW bs \in Seq(Byte),
         NEW t, t = scc_try_fill_readbuf(s, p, bs)
  PROVE  ChipInv(t) /\ Grows(s, t)
<1>1. Feeds(s, t, p) /\ Full(t, p)
  BY AddBytesFull DEF ChipInv, scc_try_fill_readbuf
<1>2. s \in Chip
  BY DEF ChipInv
<1> QED BY <1>1, <1>2, KeepsFull, FeedsGrows, FeedsMoves

LEMMA FreshInv ==
  ASSUME NEW s, ChipInv(s), NEW p \in Port, NEW t, t = Fresh(s, p)
  PROVE  ChipInv(t) /\ Grows(s, t)
<1>1. Feeds(s, t, p) /\ Full(t, p)
  BY SetFresh DEF ChipInv, Fresh
<1>2. s \in Chip
  BY DEF ChipInv
<1> QED BY <1>1, <1>2, KeepsFull, FeedsGrows, FeedsMoves

LEMMA DrainInv ==
  ASSUME NEW s, ChipInv(s), NEW p \in Port, NEW k \in Int, NEW bs \in Seq(Byte),
         NEW t, t = Drain(s, p, k, bs)
  PROVE  ChipInv(t) /\ Grows(s, t)
<1> DEFINE u == scc_try_to_empty_writebuf(s, p, k, bs)
<1>1. t = s \/ t = Fresh(u, p)
  BY DEF Drain
<1>2. Feeds(s, u, p) /\ Full(u, p) /\ s \in Chip
  BY TryToEmptyOk DEF ChipInv
<1> HIDE DEF u
<1>3. ChipInv(u) /\ Grows(s, u)
  BY <1>2, KeepsFull, FeedsGrows, FeedsMoves
<1>4. CASE t = Fresh(u, p)
  <2>1. ChipInv(t) /\ Grows(u, t)
    BY <1>3, <1>4, FreshInv
  <2> QED BY <2>1, <1>2, <1>3, GrowsTrans DEF ChipInv
<1>5. CASE t = s
  BY <1>2, <1>5, FeedsRefl, FeedsGrows
<1> QED BY <1>1, <1>4, <1>5

(***************************************************************************)
(* The invariant of the specification.                                     *)
(***************************************************************************)
LEMMA InvIsChipInv == SccInv <=> ChipInv(Now)
<1>1. TypeOK <=> Now \in Chip
  BY DEF TypeOK, Now, Chip
<1> QED BY <1>1 DEF SccInv, ChipInv, Full, Core, Line, EventsMatch, RxNeverStuck, TxNeverStuck,
       BrKeepsTicking, RxIntHasData, Rr3ReflectsWants, IrqLine

LEMMA BecomesInv ==
  ASSUME NEW t, ChipInv(t), Becomes(t)
  PROVE  SccInv' /\ Now' = t
<1>1. t \in Chip
  BY DEF ChipInv
<1>2. t = [scc |-> t.scc, mie |-> t.mie, irq |-> t.irq, ev |-> t.ev]
  BY <1>1 DEF Chip
<1>3. Now' = t
  BY <1>2 DEF Becomes, Now
<1>4. SccInv' <=> ChipInv(Now)'
  BY InvIsChipInv, PTL
<1> QED BY <1>3, <1>4

(* The steps of the queue. *)
Queue(s) == [p \in Port |-> Waiting(s, p)]

LEMMA QueueType ==
  ASSUME NEW s \in Chip
  PROVE  Queue(s) \in [Port -> Seq(Byte)] /\ \A p \in Port : Queue(s)[p] = Waiting(s, p)
BY WaitingType DEF Queue

LEMMA ReadsPrefix ==
  ASSUME NEW a \in Seq(Byte), NEW b \in Seq(Byte), NEW n \in {0, 1}, ReadsOn(a, b, n)
  PROVE  Fifo!IsPrefix(Fifo!Rest(a, n), b)
<1> DEFINE c == SubSeq(a, n + 1, Len(a))
<1>1. c \in Seq(Byte) /\ Len(c) = (IF n <= Len(a) THEN Len(a) - n ELSE 0)
      /\ \A i \in 1..Len(c) : c[i] = a[i + n]
  OBVIOUS
<1>2. Len(c) <= Len(b) /\ \A i \in 1..Len(c) : b[i] = c[i]
  BY <1>1 DEF ReadsOn
<1> HIDE DEF c
<1>3. SubSeq(c, 1, Len(c)) = SubSeq(b, 1, Len(c))
  BY <1>1, <1>2
<1> QED BY <1>2, <1>3 DEF Fifo!IsPrefix, Fifo!Rest, c

LEMMA NoneTaken ==
  ASSUME NEW a \in Seq(Byte), NEW b \in Seq(Byte), ReadsOn(a, b, 0)
  PROVE  Fifo!IsPrefix(a, b)
<1>1. Fifo!Rest(a, 0) = a
  BY DEF Fifo!Rest
<1> QED BY <1>1, ReadsPrefix

LEMMA MoveStep ==
  ASSUME NEW t, Now \in Chip, Now' = t, NEW p \in Port, Moves(Now, t, p)
  PROVE  Fifo!Next
<1>1. t \in Chip
  BY DEF Moves, KeepsOther
<1>2. Queue(Now) \in [Port -> Seq(Byte)] /\ Queue(t) \in [Port -> Seq(Byte)]
  BY <1>1, QueueType
<1>3. PICK n \in {0, 1} : ReadsOn(Waiting(Now, p), Waiting(t, p), n)
  BY DEF Moves
<1>4. Fifo!IsPrefix(Fifo!Rest(Queue(Now)[p], n), Queue(t)[p])
  BY <1>1, <1>3, WaitingType, QueueType, ReadsPrefix
<1>5. \A r \in Port \ {p} : Queue(t)[r] = Queue(Now)[r]
  BY DEF Moves, KeepsOther, Waiting, Queue
<1>6. Queue(Now)' = Queue(t)
  BY DEF Queue
<1> QED BY <1>2, <1>4, <1>5, <1>6 DEF Fifo!Next, Fifo!Read, Queue

LEMMA GrowStep ==
  ASSUME NEW t \in Chip, Now \in Chip, Now' = t, Grows(Now, t)
  PROVE  Fifo!Next
<1>1. Queue(t) \in [Port -> Seq(Byte)]
  BY QueueType
<1>2. \A p \in Port : Fifo!IsPrefix(Queue(Now)[p], Queue(t)[p])
  BY WaitingType, QueueType, NoneTaken DEF Grows
<1>3. Queue(Now)' = Queue(t)
  BY DEF Queue
<1> QED BY <1>1, <1>2, <1>3 DEF Fifo!Next, Fifo!Arrive, Queue

LEMMA FrontOff ==
  ASSUME NEW a \in Seq(Byte), NEW b \in Seq(Byte), Len(a) <= RxFifoSize
  PROVE  /\ Len(a) \in 0..RxFifoSize /\ Len(a) <= Len(a \o b)
         /\ SubSeq(a \o b, Len(a) + 1, Len(a \o b)) = <<>> \o b
<1>1. Len(a) \in Nat /\ Len(b) \in Nat /\ Len(a \o b) = Len(a) + Len(b)
  OBVIOUS
<1>2. Len(a) \in 0..RxFifoSize
  <2> DEFINE n == Len(a)
  <2>1. n \in Nat /\ n <= RxFifoSize
    OBVIOUS
  <2> HIDE DEF n
  <2>2. n \in 0..RxFifoSize
    BY <2>1 DEF RxFifoSize
  <2> QED BY <2>2 DEF n
<1>3. Len(a) <= Len(a \o b)
  BY <1>1
<1>4. SubSeq(a \o b, Len(a) + 1, Len(a \o b)) = <<>> \o b
  OBVIOUS
<1> QED BY <1>2, <1>3, <1>4

LEMMA DropStep ==
  ASSUME NEW t \in Chip, Now \in Chip, Now' = t, Drops(Now, t)
  PROVE  Fifo!Next
<1>1. Queue(t) \in [Port -> Seq(Byte)]
  BY QueueType
<1>2. ASSUME NEW p \in Port
      PROVE  \E n \in 0..RxFifoSize :
               n <= Len(Queue(Now)[p]) /\ Queue(t)[p] = Fifo!Rest(Queue(Now)[p], n)
  <2> DEFINE a == Now.scc[p].rx_queue
             b == Now.scc[p].in_buf
             q == a \o b
  <2>1. /\ a \in Seq(Byte) /\ b \in Seq(Byte) /\ Len(a) <= RxFifoSize
        /\ Queue(Now)[p] = q
    BY WaitingType, QueueType DEF Waiting
  <2>2. Queue(t)[p] = q \/ Queue(t)[p] = <<>> \o b
    BY QueueType DEF Drops, Waiting
  <2> HIDE DEF a, b
  <2>3. CASE Queue(t)[p] = q
    <3> HIDE DEF q
    <3>1. q \in Seq(Byte)
      BY <2>1 DEF q
    <3>2. 0 \in 0..RxFifoSize /\ 0 <= Len(q) /\ SubSeq(q, 0 + 1, Len(q)) = q
      BY <3>1 DEF RxFifoSize
    <3> QED BY <3>2, <2>1, <2>3 DEF Fifo!Rest
  <2>4. CASE Queue(t)[p] = <<>> \o b
    <3>1. /\ Len(a) \in 0..RxFifoSize /\ Len(a) <= Len(q)
          /\ SubSeq(q, Len(a) + 1, Len(q)) = <<>> \o b
      BY <2>1, FrontOff
    <3> QED BY <3>1, <2>1, <2>4 DEF Fifo!Rest
  <2> QED BY <2>2, <2>3, <2>4
<1>3. Queue(Now)' = Queue(t)
  BY DEF Queue
<1> QED BY <1>1, <1>2, <1>3 DEF Fifo!Next, Fifo!Discard, Queue

LEMMA ForgetStep ==
  ASSUME NEW t \in Chip, Now' = t,
         \A p \in Port : t.scc[p].rx_queue = <<>> /\ t.scc[p].in_buf = <<>>
  PROVE  Fifo!Next
<1>1. Queue(t) \in [Port -> Seq(Byte)]
  BY QueueType
<1>2. \A p \in Port : Queue(t)[p] = <<>>
  BY DEF Queue, Waiting
<1>3. Queue(Now)' = Queue(t)
  BY DEF Queue
<1> QED BY <1>1, <1>2, <1>3 DEF Fifo!Next, Fifo!Forget, Queue

LEMMA StepInv ==
  ASSUME SccInv, NEW p \in Port, NEW t, Moves(Now, t, p) \/ Feeds(Now, t, p),
         Full(t, p), Becomes(t)
  PROVE  SccInv' /\ Fifo!Next
<1>1. Now \in Chip /\ ChipInv(Now)
  BY InvIsChipInv DEF ChipInv
<1>2. Moves(Now, t, p) /\ KeepsOther(Now, t, p)
  BY FeedsMoves DEF Moves
<1>3. SccInv' /\ Now' = t
  BY <1>1, <1>2, KeepsFull, BecomesInv
<1> QED BY <1>1, <1>2, <1>3, MoveStep

LEMMA NowOk ==
  ASSUME SccInv, NEW p \in Port
  PROVE  /\ ChipInv(Now) /\ Now \in Chip /\ Full(Now, p)
         /\ Now.scc = scc /\ Now.ev = events
BY InvIsChipInv DEF ChipInv, Now

LEMMA BackOk ==
  ASSUME SccInv, NEW p \in Port, NEW t, t = BackToWr0(p)
  PROVE  Feeds(Now, t, p) /\ t \in Chip /\ Full(t, p)
BY NowOk, PointToOk DEF BackToWr0

LEMMA WriteWr0Inv ==
  ASSUME SccInv, NEW p \in Port, WriteWr0(p)
  PROVE  SccInv' /\ Fifo!Next
<1>1. PICK cmd \in Commands, low \in 0..7 :
        Becomes(Command(PointTo(Now, p, IF cmd = 1 THEN low + 8 ELSE low), p, cmd))
  BY DEF WriteWr0
<1> DEFINE ptr == IF cmd = 1 THEN low + 8 ELSE low
           u == PointTo(Now, p, ptr)
           t == Command(u, p, cmd)
<1>2. Becomes(t)
  BY <1>1
<1>3. cmd \in 0..7 /\ ptr \in 0..15
  BY SccAssumption DEF SccAssumption
<1> HIDE DEF ptr, t
<1>4. Feeds(Now, u, p) /\ u \in Chip /\ Full(u, p)
  BY <1>3, NowOk, PointToOk
<1> HIDE DEF u
<1>5. Moves(u, t, p) /\ t \in Chip /\ Full(t, p)
  BY <1>3, <1>4, CommandOk DEF t
<1>6. Moves(Now, t, p)
  BY <1>4, <1>5, NowOk, MovesTrans
<1> QED BY <1>2, <1>5, <1>6, StepInv

LEMMA WriteWr1Inv ==
  ASSUME SccInv, NEW p \in Port, WriteWr1(p)
  PROVE  SccInv' /\ Fifo!Next
<1> DEFINE u == BackToWr0(p)
<1>1. PICK v \in Wr1 : Becomes([u EXCEPT !.scc[p].tx_int_en = v.tx_int_en,
                                         !.scc[p].rx_int_mode = v.rx_int_mode])
  BY DEF WriteWr1
<1> DEFINE t == [u EXCEPT !.scc[p].tx_int_en = v.tx_int_en, !.scc[p].rx_int_mode = v.rx_int_mode]
<1>2. v.tx_int_en \in BOOLEAN /\ v.rx_int_mode \in 0..3
  BY SccAssumption DEF SccAssumption, Wr1Value
<1>3. Feeds(Now, u, p) /\ u \in Chip /\ Full(u, p)
  BY BackOk
<1> HIDE DEF u
<1>4. Feeds(u, t, p) /\ t \in Chip /\ Full(t, p)
  BY <1>2, <1>3, SetWr1
<1> QED BY <1>1, <1>3, <1>4, NowOk, FeedsTrans, StepInv

LEMMA WriteWr3Inv ==
  ASSUME SccInv, NEW p \in Port, WriteWr3(p)
  PROVE  SccInv' /\ Fifo!Next
<1> DEFINE u == BackToWr0(p)
<1>1. PICK on \in BOOLEAN, in \in HostInput(Now, p) : Becomes(wr3(u, p, on, in))
  BY DEF WriteWr3
<1> DEFINE t == wr3(u, p, on, in)
<1>2. Feeds(Now, u, p) /\ u \in Chip /\ Full(u, p)
  BY BackOk
<1>3. in \in Seq(Byte)
  BY InputTypes
<1> HIDE DEF u
<1>4. Feeds(u, t, p) /\ t \in Chip /\ Full(t, p)
  BY <1>2, <1>3, Wr3Ok
<1> QED BY <1>1, <1>2, <1>4, NowOk, FeedsTrans, StepInv

LEMMA WriteWr4Inv ==
  ASSUME SccInv, NEW p \in Port, WriteWr4(p)
  PROVE  SccInv' /\ Fifo!Next
<1> DEFINE u == BackToWr0(p)
           t == [u EXCEPT !.scc[p].state = 3]
<1>1. Becomes(u) \/ Becomes(t)
  BY DEF WriteWr4
<1>2. Feeds(Now, u, p) /\ u \in Chip /\ Full(u, p)
  BY BackOk
<1> HIDE DEF u
<1>3. Feeds(u, t, p) /\ t \in Chip /\ Full(t, p)
  BY <1>2, SetState
<1> QED BY <1>1, <1>2, <1>3, NowOk, FeedsTrans, StepInv

LEMMA WriteWr5Inv ==
  ASSUME SccInv, NEW p \in Port, WriteWr5(p)
  PROVE  SccInv' /\ Fifo!Next
<1> DEFINE u == BackToWr0(p)
<1>1. PICK on \in BOOLEAN : Becomes(wr5(u, p, on))
  BY DEF WriteWr5
<1> DEFINE t == wr5(u, p, on)
<1>2. Feeds(Now, u, p) /\ u \in Chip /\ Full(u, p)
  BY BackOk
<1> HIDE DEF u
<1>3. Feeds(u, t, p) /\ t \in Chip /\ Full(t, p)
  BY <1>2, Wr5Ok
<1> QED BY <1>1, <1>2, <1>3, NowOk, FeedsTrans, StepInv

LEMMA WriteByteInv ==
  ASSUME SccInv, NEW p \in Port, NEW s, Feeds(Now, s, p), s \in Chip, Full(s, p),
         WriteByte(s, p)
  PROVE  SccInv' /\ Fifo!Next
<1>1. PICK b \in OutByte, fast \in FastClock :
        LET u == PutByte(s, p, b, fast)
        IN \E k \in 0..OutUsed(u.scc[p]), echo \in Echo(u, p) :
             Becomes(scc_write_data(s, p, b, fast, k, echo))
  BY DEF WriteByte
<1> DEFINE u == PutByte(s, p, b, fast)
<1>2. PICK k \in 0..OutUsed(u.scc[p]), echo \in Echo(u, p) :
        Becomes(scc_write_data(s, p, b, fast, k, echo))
  BY <1>1
<1> HIDE DEF u
<1>3. b \in Byte /\ k \in Int /\ echo \in Seq(Byte)
  BY InputTypes, SccAssumption DEF SccAssumption
<1> DEFINE t == scc_write_data(s, p, b, fast, k, echo)
<1>4. Feeds(s, t, p) /\ t \in Chip /\ Full(t, p)
  BY <1>3, WriteDataOk
<1> HIDE DEF t
<1> QED BY <1>2, <1>4, NowOk, FeedsTrans, StepInv DEF t

LEMMA WriteDataInv ==
  ASSUME SccInv, NEW p \in Port, WriteData(p)
  PROVE  SccInv' /\ Fifo!Next
BY NowOk, FeedsRefl, WriteByteInv DEF WriteData

LEMMA WriteWr8Inv ==
  ASSUME SccInv, NEW p \in Port, WriteWr8(p)
  PROVE  SccInv' /\ Fifo!Next
BY BackOk, WriteByteInv DEF WriteWr8

LEMMA WriteWr9Inv ==
  ASSUME SccInv, NEW p \in Port, WriteWr9(p)
  PROVE  SccInv' /\ Fifo!Next
<1> DEFINE u == BackToWr0(p)
<1>1. PICK v \in Wr9 : Becomes(wr9(u, v))
  BY DEF WriteWr9
<1>2. v \in Wr9Value
  BY SccAssumption DEF SccAssumption
<1>3. ChipInv(u) /\ Now \in Chip
  BY NowOk, BackOk, KeepsFull, FeedsMoves
<1>4. Drops(Now, u)
  <2> DEFINE c == [Now.scc[p] EXCEPT !.reg_ptr = 0, !.mode = 0]
  <2>1. Now.scc[p] \in PortState
    BY <1>3, ChipTypes
  <2>2. c \in PortState /\ c.rx_queue = Now.scc[p].rx_queue /\ c.in_buf = Now.scc[p].in_buf
    <3>1. 0 \in 0..15 /\ 0 \in {0, 1}
      OBVIOUS
    <3>2. c \in PortState
      BY <2>1, <3>1, Zenon DEF PortState
    <3> QED BY <2>1, <3>2 DEF PortState
  <2>3. u = SetPort(Now, p, c)
    BY <1>3, ChipTypes DEF SetPort, BackToWr0, PointTo
  <2> HIDE DEF u, c
  <2>4. KeepsOther(Now, u, p) /\ u.scc[p] = c
    BY <1>3, <2>2, <2>3, Edit
  <2> QED BY <2>2, <2>4 DEF KeepsOther, Drops
<1> HIDE DEF u
<1> DEFINE t == wr9(u, v)
<1>5. ChipInv(t) /\ Drops(u, t)
  BY <1>2, <1>3, Wr9Ok
<1> HIDE DEF t
<1>6. SccInv' /\ Now' = t
  BY <1>1, <1>5, BecomesInv DEF t
<1>7. Drops(Now, t) /\ t \in Chip
  BY <1>4, <1>5, DropsTrans DEF ChipInv
<1> QED BY <1>3, <1>6, <1>7, DropStep

LEMMA WriteWr14Inv ==
  ASSUME SccInv, NEW p \in Port, WriteWr14(p)
  PROVE  SccInv' /\ Fifo!Next
<1> DEFINE u == BackToWr0(p)
<1>1. PICK v \in Wr14 : Becomes(wr14(u, p, v))
  BY DEF WriteWr14
<1> DEFINE t == wr14(u, p, v)
<1>2. Feeds(Now, u, p) /\ u \in Chip /\ Full(u, p)
  BY BackOk
<1>3. v \in Wr14Value
  BY SccAssumption DEF SccAssumption
<1> HIDE DEF u
<1>4. Feeds(u, t, p) /\ t \in Chip /\ Full(t, p)
  BY <1>2, <1>3, Wr14Ok
<1> QED BY <1>1, <1>2, <1>4, NowOk, FeedsTrans, StepInv

LEMMA WriteWr15Inv ==
  ASSUME SccInv, NEW p \in Port, WriteWr15(p)
  PROVE  SccInv' /\ Fifo!Next
<1> DEFINE u == BackToWr0(p)
<1>1. PICK on \in BOOLEAN : Becomes(wr15(u, p, on))
  BY DEF WriteWr15
<1> DEFINE t == wr15(u, p, on)
<1>2. Feeds(Now, u, p) /\ u \in Chip /\ Full(u, p)
  BY BackOk
<1> HIDE DEF u
<1>3. Feeds(u, t, p) /\ t \in Chip /\ Full(t, p)
  BY <1>2, Wr15Ok
<1> QED BY <1>1, <1>2, <1>3, NowOk, FeedsTrans, StepInv

LEMMA WriteWrOtherInv ==
  ASSUME SccInv, NEW p \in Port, WriteWrOther(p)
  PROVE  SccInv' /\ Fifo!Next
BY BackOk, StepInv DEF WriteWrOther

LEMMA ReadInv ==
  ASSUME SccInv, NEW p \in Port, NEW s, Feeds(Now, s, p), s \in Chip, Full(s, p),
         NEW in \in HostInput(Now, p), Becomes(scc_read_data(s, p, in))
  PROVE  SccInv' /\ Fifo!Next
<1> DEFINE t == scc_read_data(s, p, in)
<1>1. in \in Seq(Byte)
  BY InputTypes
<1>2. Moves(s, t, p) /\ t \in Chip /\ Full(t, p)
  BY <1>1, ReadDataOk
<1>3. Moves(Now, t, p)
  BY <1>2, NowOk, MovesTrans
<1> QED BY <1>2, <1>3, StepInv

LEMMA ReadDataInv ==
  ASSUME SccInv, NEW p \in Port, ReadData(p)
  PROVE  SccInv' /\ Fifo!Next
BY NowOk, FeedsRefl, ReadInv DEF ReadData

LEMMA ReadRegInv ==
  ASSUME SccInv, NEW p \in Port, ReadReg(p)
  PROVE  SccInv' /\ Fifo!Next
BY BackOk, ReadInv, StepInv DEF ReadReg

LEMMA EventInv ==
  ASSUME SccInv, NEW p \in Port, NEW k \in Kind, do_scc_event(p, k)
  PROVE  SccInv' /\ Fifo!Next
<1> DEFINE u == pop_event_scc(Now, p, k)
<1>1. Now \in Chip /\ Full(Now, p) /\ Now.ev[<<p, k>>] > 0
  BY NowOk DEF do_scc_event
<1>2. CASE k = "br"
  <2> DEFINE t == scc_maybe_br_event(scc_set_zerocnt_int(u, p), p)
  <2>1. Becomes(t)
    BY <1>2 DEF do_scc_event
  <2>2. Feeds(Now, t, p) /\ Full(t, p)
    <3> HIDE DEF u
    <3> QED BY <1>1, <1>2, BrEventOk DEF u
  <2> QED BY <2>1, <2>2, StepInv
<1>3. CASE k = "tx"
  <2> DEFINE t == scc_handle_tx_event([u EXCEPT !.scc[p].tx_buf_empty = TRUE], p)
  <2>1. Becomes(t)
    BY <1>3 DEF do_scc_event
  <2>2. Feeds(Now, t, p) /\ Full(t, p)
    <3> HIDE DEF u
    <3> QED BY <1>1, <1>3, TxEventOk DEF u
  <2> QED BY <2>1, <2>2, StepInv
<1>4. CASE k = "rx"
  <2> DEFINE t == scc_maybe_rx_event(u, p)
  <2>1. Becomes(t)
    BY <1>4 DEF do_scc_event
  <2>2. Feeds(Now, t, p) /\ Full(t, p)
    <3> HIDE DEF u
    <3> QED BY <1>1, <1>4, RxEventOk DEF u
  <2> QED BY <2>1, <2>2, StepInv
<1> QED BY <1>2, <1>3, <1>4 DEF Kind

LEMMA UpdateInv ==
  ASSUME SccInv, scc_update
  PROVE  SccInv' /\ Fifo!Next
<1> DEFINE s0 == Fresh(Now, 0)
           s == Fresh(s0, 1)
<1>0. 0 \in Port /\ 1 \in Port
  BY DEF Port
<1>1. PICK in0 \in HostInput(s, 0), in1 \in HostInput(s, 1) :
        LET t == scc_try_fill_readbuf(scc_try_fill_readbuf(s, 0, in0), 1, in1)
        IN \E k0 \in 0..OutUsed(t.scc[0]), k1 \in 0..OutUsed(t.scc[1]),
              e0 \in Echo(t, 0), e1 \in Echo(t, 1) :
             Becomes(Drain(Drain(t, 0, k0, e0), 1, k1, e1))
  BY DEF scc_update
<1> DEFINE f == scc_try_fill_readbuf(s, 0, in0)
           t == scc_try_fill_readbuf(f, 1, in1)
<1>2. PICK k0 \in 0..OutUsed(t.scc[0]), k1 \in 0..OutUsed(t.scc[1]),
           e0 \in Echo(t, 0), e1 \in Echo(t, 1) :
             Becomes(Drain(Drain(t, 0, k0, e0), 1, k1, e1))
  BY <1>1
<1> DEFINE d == Drain(t, 0, k0, e0)
           u == Drain(d, 1, k1, e1)
<1>3. Becomes(u)
  BY <1>2
<1> HIDE DEF u
<1>4. in0 \in Seq(Byte) /\ in1 \in Seq(Byte) /\ e0 \in Seq(Byte) /\ e1 \in Seq(Byte)
  BY InputTypes
<1>5. k0 \in Int /\ k1 \in Int
  OBVIOUS
<1>6. ChipInv(s0) /\ Grows(Now, s0)
  BY <1>0, NowOk, FreshInv
<1> HIDE DEF s0
<1>7. ChipInv(s) /\ Grows(s0, s)
  BY <1>0, <1>6, FreshInv
<1> HIDE DEF s
<1>8. ChipInv(f) /\ Grows(s, f)
  BY <1>0, <1>4, <1>7, FillInv
<1> HIDE DEF f
<1>9. ChipInv(t) /\ Grows(f, t)
  BY <1>0, <1>4, <1>8, FillInv
<1> HIDE DEF t
<1>10. ChipInv(d) /\ Grows(t, d)
  BY <1>0, <1>4, <1>5, <1>9, DrainInv
<1> HIDE DEF d
<1>11. ChipInv(u) /\ Grows(d, u)
  BY <1>0, <1>4, <1>5, <1>10, DrainInv DEF u
<1>12. Now \in Chip /\ s0 \in Chip /\ s \in Chip /\ f \in Chip /\ t \in Chip /\ d \in Chip
  BY <1>0, <1>6, <1>7, <1>8, <1>9, <1>10, NowOk DEF ChipInv
<1> HIDE DEF u
<1>13. u \in Chip
  BY <1>11 DEF ChipInv
<1>14. Grows(Now, f)
  <2>1. Grows(Now, s)
    BY <1>6, <1>7, <1>12, GrowsTrans
  <2> QED BY <2>1, <1>8, <1>12, GrowsTrans
<1>15. Grows(f, u)
  <2>1. Grows(f, d)
    BY <1>9, <1>10, <1>12, GrowsTrans
  <2> QED BY <2>1, <1>11, <1>12, <1>13, GrowsTrans
<1>16. Grows(Now, u)
  BY <1>12, <1>13, <1>14, <1>15, GrowsTrans
<1>17. SccInv' /\ Now' = u
  BY <1>3, <1>11, BecomesInv
<1> QED BY <1>12, <1>13, <1>16, <1>17, GrowStep

LEMMA ResetInv ==
  ASSUME SccInv, do_reset
  PROVE  SccInv' /\ Fifo!Next
<1> DEFINE u == ResetOne(Now, 0)
           v == ResetOne(u, 1)
           t == [v EXCEPT !.irq = {}]
<1>0. 0 \in Port /\ 1 \in Port
  BY DEF Port
<1>1. Becomes(t)
  BY DEF do_reset, scc_reset
<1>2. ChipInv(u) /\ u.scc[0].rx_queue = <<>> /\ u.scc[0].in_buf = <<>>
  BY <1>0, NowOk, ResetOneOk
<1> HIDE DEF u
<1>3. /\ ChipInv(v) /\ ~v.mie /\ v.scc[1].rx_queue = <<>> /\ v.scc[1].in_buf = <<>>
      /\ \A q \in Port \ {1} : v.scc[q] = u.scc[q]
  BY <1>0, <1>2, ResetOneOk
<1> HIDE DEF v
<1>4. v \in Chip
  BY <1>3 DEF ChipInv
<1>5. t \in Chip /\ t.scc = v.scc /\ t.ev = v.ev /\ t.mie = v.mie /\ t.irq = {}
  BY <1>4 DEF Chip
<1>6. ChipInv(t)
  <2> HIDE DEF t
  <2>1. \A q : PendingOf(t, q) = {}
    BY <1>5 DEF PendingOf
  <2> QED BY <1>3, <1>5, <2>1 DEF ChipInv, Full, Core, Line, EventsMatchAt, TxWakesAt, BrTicksAt,
         RxWakesAt, RxIntHasDataAt, Rr3At, IrqLineAt
<1>7. \A p \in Port : t.scc[p].rx_queue = <<>> /\ t.scc[p].in_buf = <<>>
  BY <1>2, <1>3, <1>5 DEF Port
<1> HIDE DEF t
<1>8. SccInv' /\ Now' = t
  BY <1>1, <1>6, BecomesInv
<1> QED BY <1>5, <1>7, <1>8, ForgetStep

LEMMA InitInv == Init => SccInv
<1> SUFFICES ASSUME Init PROVE ChipInv(Now)
  BY InvIsChipInv
<1>1. \A p \in Port : InitPort(p) \in PortState
  <2> TAKE p \in Port
  <2>1. SerialType[p] \in 0..4 /\ 0 \in 0..SCC_OUTBUF_SIZE - 1 /\ <<>> \in RxFifo
    BY Sizes, EmptyFifo, SccAssumption DEF SccAssumption
  <2> QED BY <2>1 DEF InitPort, PortState
<1>2. Now \in Chip /\ Now.mie = FALSE /\ Now.irq = {}
  BY <1>1 DEF Now, Chip, Init
<1>3. /\ \A p \in Port : Now.scc[p] = InitPort(p)
      /\ \A p \in Port, k \in Kind : Now.ev[<<p, k>>] = 0
  BY DEF Now, Init
<1>4. \A p : PendingOf(Now, p) = {}
  BY <1>2 DEF PendingOf
<1>5. ASSUME NEW p \in Port PROVE Full(Now, p)
  <2> DEFINE c == Now.scc[p]
  <2>1. /\ c.event_pending = {} /\ c.wantint = {} /\ c.irq_pending = {}
        /\ c.tx_buf_empty /\ ~c.rx_en /\ ~c.br_en
    <3> DEFINE d == InitPort(p)
    <3>1. /\ d.event_pending = {} /\ d.wantint = {} /\ d.irq_pending = {}
          /\ d.tx_buf_empty = TRUE /\ d.rx_en = FALSE /\ d.br_en = FALSE
      BY DEF InitPort
    <3>2. c = d
      BY <1>3
    <3> HIDE DEF c, d
    <3> QED BY <3>1, <3>2
  <2>2. Core(Now, p) /\ RxWakesAt(Now, p) /\ RxIntHasDataAt(Now, p)
    BY <2>1, <1>3 DEF Core, EventsMatchAt, TxWakesAt, BrTicksAt, RxWakesAt, CanReceive,
                      RxIntHasDataAt
  <2>3. Line(Now, p)
    BY <2>1, <1>2, <1>4 DEF Line, Rr3At, IrqLineAt
  <2> QED BY <2>2, <2>3 DEF Full
<1> QED BY <1>2, <1>5 DEF ChipInv

LEMMA NextInv ==
  SccInv /\ [Next]_vars => SccInv' /\ [Fifo!Next]_(Queue(Now))
<1> SUFFICES ASSUME SccInv, [Next]_vars
             PROVE  SccInv' /\ [Fifo!Next]_(Queue(Now))
  OBVIOUS
<1>0. UsedPorts \subseteq Port
  BY SccAssumption DEF SccAssumption
<1>1. CASE \E p \in UsedPorts : Cpu(p)
  <2>1. PICK p \in Port : Cpu(p)
    BY <1>0, <1>1
  <2> QED BY <2>1, WriteWr0Inv, WriteWr1Inv, WriteWr3Inv, WriteWr4Inv, WriteWr5Inv,
        WriteWr8Inv, WriteWr9Inv, WriteWr14Inv, WriteWr15Inv, WriteWrOtherInv,
        WriteDataInv, ReadDataInv, ReadRegInv DEF Cpu
<1>2. CASE \E p \in Port, k \in Kind : do_scc_event(p, k)
  BY <1>2, EventInv
<1>3. CASE scc_update
  BY <1>3, UpdateInv
<1>4. CASE do_reset
  BY <1>4, ResetInv
<1>5. CASE UNCHANGED vars
  BY <1>5 DEF vars, SccInv, TypeOK, EventsMatch, RxNeverStuck, TxNeverStuck, BrKeepsTicking,
              RxIntHasData, Rr3ReflectsWants, IrqLine, Now, Queue
<1> QED BY <1>1, <1>2, <1>3, <1>4, <1>5 DEF Next

LEMMA InitQueue == Init => Fifo!Init
<1> SUFFICES ASSUME Init PROVE \A p \in Port : Waiting(Now, p) = <<>>
  BY DEF Fifo!Init
<1>1. ASSUME NEW p \in Port PROVE Waiting(Now, p) = <<>>
  <2>1. Now.scc[p] = InitPort(p)
    BY DEF Init, Now
  <2>2. InitPort(p).rx_queue = <<>> /\ InitPort(p).in_buf = <<>>
    BY DEF InitPort
  <2> QED BY <2>1, <2>2 DEF Waiting
<1> QED BY <1>1

(* Every invariant of the chip, together: the inductive invariant. *)
THEOREM SccCorrect == Spec => []SccInv
BY InitInv, NextInv, PTL DEF Spec

(* The state keeps its types. *)
THEOREM SccTypes == Spec => []TypeOK
<1>1. SccInv => TypeOK
  BY DEF SccInv
<1> QED BY <1>1, SccCorrect, PTL

(* One event of each kind per port, flag and list in step. *)
THEOREM SccEvents == Spec => []EventsMatch
<1>1. SccInv => EventsMatch
  BY DEF SccInv
<1> QED BY <1>1, SccCorrect, PTL

(* No wake-up of a receiver, a transmitter or a baud generator is ever lost. *)
THEOREM SccNeverStuck == Spec => []NeverStuck
<1>1. SccInv => NeverStuck
  BY DEF SccInv, NeverStuck
<1> QED BY <1>1, SccCorrect, PTL

(* No receive interrupt without a byte to read. *)
THEOREM SccRxInt == Spec => []RxIntHasData
<1>1. SccInv => RxIntHasData
  BY DEF SccInv
<1> QED BY <1>1, SccCorrect, PTL

(* The interrupt line is asserted exactly when a port wants something, and
   only with the master enable on; RR3 always says what is wanted. *)
THEOREM SccIrqLine == Spec => [](IrqLine /\ Rr3ReflectsWants)
<1>1. SccInv => IrqLine /\ Rr3ReflectsWants
  BY DEF SccInv
<1> QED BY <1>1, SccCorrect, PTL

(* Bytes reach the software in the order they came in, whatever the sizes of
   the rings, the drivers and the software: FIFO and ring of each port
   implement one queue. *)
THEOREM SccInOrder == Spec => BytesInOrder
<1>1. SccInv /\ [Next]_vars => [Fifo!Next]_(Queue(Now))
  BY NextInv
<1> QED BY <1>1, InitQueue, SccCorrect, PTL DEF Spec, BytesInOrder, Fifo!Spec, Queue

(***************************************************************************)
(* LocalTalk.  Nothing here rests on SccInv: of a chip state only the      *)
(* bytes on the receive side, the end of frame and the loop are looked at. *)
(***************************************************************************)
(* The port is a LocalTalk port: no driver of a serial line hands it bytes,
   it is not looped back, and a packet fits in the ring (of 1024 slots). *)
LinkOnly ==
  /\ MaxBurst = 0
  /\ OutByte = {} \/ \A v \in Wr14 : ~v.loop
  /\ Frame # {} /\ \A f \in Frame : Len(f) < SCC_INBUF_SIZE

PipeFields == {"rx_queue", "in_buf", "sdlc_eof", "loop"}

HasPipe(s) ==
  /\ "scc" \in DOMAIN s /\ DOMAIN s.scc = Port
  /\ \A q \in Port : PipeFields \subseteq DOMAIN s.scc[q]

SameBytes(c, d) ==
  /\ PipeFields \subseteq DOMAIN c
  /\ c.rx_queue = d.rx_queue /\ c.in_buf = d.in_buf
  /\ c.sdlc_eof = d.sdlc_eof /\ c.loop = d.loop

(* From s to t no byte moves. *)
Still(s, t) == HasPipe(t) /\ \A q \in Port : SameBytes(t.scc[q], s.scc[q])

(* w is what is left of one packet. *)
Part(w) == \E f \in Frame : \E n \in 0..Len(f) : w = SubSeq(f, n + 1, Len(f))

Fine(c) ==
  /\ c.rx_queue \in Seq(Byte) /\ c.in_buf \in Seq(Byte)
  /\ Part(c.rx_queue \o c.in_buf)
  /\ c.sdlc_eof => BytesLeft(c) <= 1
  /\ c.loop => OutByte = {}

Apart(s) == HasPipe(s) /\ \A q \in Port : Fine(s.scc[q])

(* What the bridge hands to port p: nothing, or a packet when the last one
   is gone. *)
TakesFirst(s, p, in) ==
  \/ in = <<>>
  \/ /\ in \in Frame
     /\ s.scc[p].rx_queue = <<>> /\ s.scc[p].in_buf = <<>> /\ ~s.scc[p].sdlc_eof

LEMMA StillTrans ==
  ASSUME NEW s, NEW t, NEW u, Still(s, t), Still(t, u)
  PROVE  Still(s, u)
BY DEF Still, SameBytes

LEMMA StillApart ==
  ASSUME NEW s, NEW t, Apart(s), Still(s, t)
  PROVE  Apart(t)
BY DEF Still, SameBytes, Apart, Fine, BytesLeft

LEMMA StillTakes ==
  ASSUME NEW s, NEW t, Still(s, t), NEW p \in Port, NEW in, TakesFirst(s, p, in)
  PROVE  TakesFirst(t, p, in)
BY DEF Still, SameBytes, TakesFirst

LEMMA StillEdit ==
  ASSUME NEW s, HasPipe(s), NEW p \in Port, NEW c, SameBytes(c, s.scc[p])
  PROVE  Still(s, SetPort(s, p, c))
BY DEF HasPipe, Still, SameBytes, SetPort

(* Any other change of one port keeps packets apart if that port is fine. *)
LEMMA ApartEdit ==
  ASSUME NEW s, Apart(s), NEW p \in Port, NEW c, PipeFields \subseteq DOMAIN c, Fine(c)
  PROVE  Apart(SetPort(s, p, c))
BY DEF Apart, HasPipe, SetPort

LEMMA StillRest ==
  ASSUME NEW s, HasPipe(s), NEW t, "scc" \in DOMAIN t, t.scc = s.scc
  PROVE  Still(s, t)
BY DEF HasPipe, Still, SameBytes

LEMMA StillHas ==
  ASSUME NEW s, NEW t, Still(s, t)
  PROVE  HasPipe(t)
BY DEF Still

LEMMA StillEval ==
  ASSUME NEW s, HasPipe(s), NEW p \in Port
  PROVE  Still(s, scc_evaluate_ints(s, p))
<1> DEFINE c == [s.scc[p] EXCEPT !.irq_pending = s.scc[p].wantint]
           t == SetPort(s, p, c)
           u == scc_evaluate_ints(s, p)
<1>1. SameBytes(c, s.scc[p])
  BY DEF HasPipe, PipeFields, SameBytes
<1>2. Still(s, t)
  BY <1>1, StillEdit
<1>3. t = [s EXCEPT !.scc[p].irq_pending = s.scc[p].wantint]
  BY DEF SetPort
<1> HIDE DEF t
<1>4. "scc" \in DOMAIN u /\ u.scc = t.scc
  BY <1>2, <1>3 DEF scc_evaluate_ints, Still, HasPipe
<1> HIDE DEF u
<1>5. Still(t, u)
  BY <1>2, <1>4, StillRest DEF Still
<1> QED BY <1>2, <1>5, StillTrans DEF u

LEMMA StillWants ==
  ASSUME NEW s, HasPipe(s), NEW p \in Port, NEW w
  PROVE  /\ Still(s, scc_evaluate_ints([s EXCEPT !.scc[p].wantint = w], p))
         /\ \A f : Still(s, scc_evaluate_ints([s EXCEPT !.scc[p].wantint = w,
                                                        !.scc[p].did_int_rx_first = f], p))
<1>1. Still(s, scc_evaluate_ints([s EXCEPT !.scc[p].wantint = w], p))
  <2> DEFINE c == [s.scc[p] EXCEPT !.wantint = w]
             t == SetPort(s, p, c)
  <2>1. SameBytes(c, s.scc[p])
    BY DEF HasPipe, PipeFields, SameBytes
  <2>2. Still(s, t)
    BY <2>1, StillEdit
  <2>3. t = [s EXCEPT !.scc[p].wantint = w]
    BY DEF SetPort
  <2> HIDE DEF t
  <2> QED BY <2>2, <2>3, StillHas, StillEval, StillTrans
<1>2. ASSUME NEW f
      PROVE  Still(s, scc_evaluate_ints([s EXCEPT !.scc[p].wantint = w,
                                                  !.scc[p].did_int_rx_first = f], p))
  <2> DEFINE c == [s.scc[p] EXCEPT !.wantint = w, !.did_int_rx_first = f]
             t == SetPort(s, p, c)
  <2>1. SameBytes(c, s.scc[p])
    BY DEF HasPipe, PipeFields, SameBytes
  <2>2. Still(s, t)
    BY <2>1, StillEdit
  <2>3. t = [s EXCEPT !.scc[p].wantint = w, !.scc[p].did_int_rx_first = f]
    BY DEF SetPort, HasPipe
  <2> HIDE DEF t
  <2> QED BY <2>2, <2>3, StillHas, StillEval, StillTrans
<1> QED BY <1>1, <1>2

LEMMA StillClear ==
  ASSUME NEW s, HasPipe(s), NEW p \in Port, NEW src
  PROVE  Still(s, ClearInt(s, p, src))
BY StillWants DEF ClearInt

LEMMA StillInts ==
  ASSUME NEW s, HasPipe(s), NEW p \in Port
  PROVE  /\ Still(s, scc_set_zerocnt_int(s, p)) /\ Still(s, scc_handle_tx_event(s, p))
         /\ Still(s, scc_maybe_rx_int(s, p)) /\ Still(s, reset_highest_pri_int(s, p))
<1>1. Still(s, scc_evaluate_ints(s, p)) /\ Still(s, s)
  BY StillEval, StillRest DEF HasPipe
<1>2. Still(s, scc_set_zerocnt_int(s, p)) /\ Still(s, scc_handle_tx_event(s, p))
  BY <1>1, StillWants DEF scc_set_zerocnt_int, scc_handle_tx_event
<1>3. Still(s, scc_maybe_rx_int(s, p))
  BY <1>1, StillWants, StillClear DEF scc_maybe_rx_int, scc_clr_rx_int
<1>4. Still(s, reset_highest_pri_int(s, p))
  BY <1>1, StillWants DEF reset_highest_pri_int
<1> QED BY <1>2, <1>3, <1>4

LEMMA StillEvent ==
  ASSUME NEW s, HasPipe(s), NEW p \in Port, NEW k
  PROVE  Still(s, add_event_scc(s, p, k)) /\ Still(s, pop_event_scc(s, p, k))
<1>1. ASSUME NEW x, NEW t, t = SetPort(s, p, [s.scc[p] EXCEPT !.event_pending = x]),
             NEW e, NEW u, u = [t EXCEPT !.ev = e]
      PROVE  Still(s, u)
  <2>1. SameBytes([s.scc[p] EXCEPT !.event_pending = x], s.scc[p])
    BY DEF HasPipe, PipeFields, SameBytes
  <2>2. Still(s, t)
    BY <1>1, <2>1, StillEdit
  <2>3. "scc" \in DOMAIN u /\ u.scc = t.scc
    BY <1>1, <2>2 DEF Still, HasPipe
  <2> QED BY <2>2, <2>3, StillRest, StillHas, StillTrans
<1> DEFINE x == s.scc[p].event_pending \cup {k}
           y == s.scc[p].event_pending \ {k}
           t == SetPort(s, p, [s.scc[p] EXCEPT !.event_pending = x])
           u == SetPort(s, p, [s.scc[p] EXCEPT !.event_pending = y])
<1>2. /\ add_event_scc(s, p, k) = [t EXCEPT !.ev = [t.ev EXCEPT ![<<p, k>>] = @ + 1]]
      /\ pop_event_scc(s, p, k) = [u EXCEPT !.ev = [u.ev EXCEPT ![<<p, k>>] = @ - 1]]
  BY DEF add_event_scc, pop_event_scc, SetPort
<1> QED BY <1>1, <1>2

(* The registers and flags that have nothing to do with received bytes. *)
LEMMA StillFields ==
  ASSUME NEW s, HasPipe(s), NEW p \in Port, NEW v, NEW w
  PROVE  /\ Still(s, [s EXCEPT !.scc[p].reg_ptr = v, !.scc[p].mode = w])
         /\ Still(s, [s EXCEPT !.scc[p].tx_int_en = v, !.scc[p].rx_int_mode = w])
         /\ Still(s, [s EXCEPT !.scc[p].out_rdptr = v, !.scc[p].out_wrptr = w])
         /\ Still(s, [s EXCEPT !.scc[p].out_rdptr = v])
         /\ Still(s, [s EXCEPT !.scc[p].out_wrptr = v])
         /\ Still(s, [s EXCEPT !.scc[p].state = v]) /\ Still(s, [s EXCEPT !.scc[p].tx_en = v])
         /\ Still(s, [s EXCEPT !.scc[p].rx_en = v]) /\ Still(s, [s EXCEPT !.scc[p].zc_int_en = v])
         /\ Still(s, [s EXCEPT !.scc[p].tx_buf_empty = v])
         /\ Still(s, [s EXCEPT !.scc[p].did_int_rx_first = v])
         /\ Still(s, [s EXCEPT !.scc[p].write_called_this_vbl = v])
<1> DEFINE c == s.scc[p]
<1>1. ASSUME NEW d, SameBytes(d, c), NEW t, t = SetPort(s, p, d) PROVE Still(s, t)
  BY <1>1, StillEdit
<1>2. /\ SameBytes([c EXCEPT !.reg_ptr = v, !.mode = w], c)
      /\ SameBytes([c EXCEPT !.tx_int_en = v, !.rx_int_mode = w], c)
      /\ SameBytes([c EXCEPT !.out_rdptr = v, !.out_wrptr = w], c)
      /\ SameBytes([c EXCEPT !.out_rdptr = v], c) /\ SameBytes([c EXCEPT !.out_wrptr = v], c)
      /\ SameBytes([c EXCEPT !.state = v], c) /\ SameBytes([c EXCEPT !.tx_en = v], c)
      /\ SameBytes([c EXCEPT !.rx_en = v], c) /\ SameBytes([c EXCEPT !.zc_int_en = v], c)
      /\ SameBytes([c EXCEPT !.tx_buf_empty = v], c)
      /\ SameBytes([c EXCEPT !.did_int_rx_first = v], c)
      /\ SameBytes([c EXCEPT !.write_called_this_vbl = v], c)
  BY DEF HasPipe, PipeFields, SameBytes
<1>3. /\ [s EXCEPT !.scc[p].reg_ptr = v, !.scc[p].mode = w]
           = SetPort(s, p, [c EXCEPT !.reg_ptr = v, !.mode = w])
      /\ [s EXCEPT !.scc[p].tx_int_en = v, !.scc[p].rx_int_mode = w]
           = SetPort(s, p, [c EXCEPT !.tx_int_en = v, !.rx_int_mode = w])
      /\ [s EXCEPT !.scc[p].out_rdptr = v, !.scc[p].out_wrptr = w]
           = SetPort(s, p, [c EXCEPT !.out_rdptr = v, !.out_wrptr = w])
  BY DEF SetPort, HasPipe
<1> HIDE DEF c
<1> QED BY <1>1, <1>2, <1>3 DEF SetPort, c

LEMMA StillTimers ==
  ASSUME NEW s, HasPipe(s), NEW p \in Port
  PROVE  Still(s, scc_maybe_br_event(s, p)) /\ Still(s, scc_maybe_tx_event(s, p))
<1>1. Still(s, s)
  BY StillRest DEF HasPipe
<1>2. Still(s, scc_maybe_br_event(s, p))
  BY <1>1, StillEvent DEF scc_maybe_br_event
<1>3. Still(s, add_event_scc(scc_evaluate_ints(s, p), p, "tx"))
  BY StillEval, StillEvent, StillHas, StillTrans
<1> QED BY <1>2, <1>3, StillFields DEF scc_maybe_tx_event

LEMMA StillOutput ==
  ASSUME NEW s, HasPipe(s), NEW p \in Port
  PROVE  /\ \A fast : Still(s, scc_transmit(s, p, fast))
         /\ \A k : Still(s, scc_try_to_empty_writebuf(s, p, k, <<>>))
         /\ Still(s, scc_llap_empty_writebuf(s, p))
<1>1. Still(s, s)
  BY StillRest DEF HasPipe
<1>2. \A x : HasPipe(x) => Still(x, scc_add_to_writebuf(x, p)) /\ Still(x, scc_port_init(x, p))
  BY StillRest, StillFields DEF scc_add_to_writebuf, scc_port_init, HasPipe
<1>3. \A fast : Still(s, scc_transmit(s, p, fast))
  BY <1>1, <1>2, StillHas, StillTrans DEF scc_transmit
<1>4. \A k : Still(s, scc_try_to_empty_writebuf(s, p, k, <<>>))
  <2> TAKE k
  <2> DEFINE t == [s EXCEPT !.scc[p].write_called_this_vbl = TRUE]
  <2>1. Still(s, t) /\ HasPipe(t)
    BY StillFields, StillHas
  <2> HIDE DEF t
  <2>2. Still(t, [t EXCEPT !.scc[p].out_rdptr = (@ + k) % SCC_OUTBUF_SIZE])
    BY <2>1, StillFields
  <2>3. Still(s, [t EXCEPT !.scc[p].out_rdptr = (@ + k) % SCC_OUTBUF_SIZE])
    BY <2>1, <2>2, StillTrans
  <2> QED BY <1>1, <2>1, <2>3 DEF scc_try_to_empty_writebuf, AddBytes, t
<1>5. Still(s, scc_llap_empty_writebuf(s, p))
  BY <1>1, StillFields DEF scc_llap_empty_writebuf
<1> QED BY <1>3, <1>4, <1>5

(* A byte goes from the ring to the FIFO or none does: on the receive side the
   same bytes are left, in the same order. *)
Passes(s, t, p) ==
  /\ HasPipe(t) /\ \A q \in Port \ {p} : SameBytes(t.scc[q], s.scc[q])
  /\ t.scc[p].rx_queue \in Seq(Byte) /\ t.scc[p].in_buf \in Seq(Byte)
  /\ t.scc[p].rx_queue \o t.scc[p].in_buf = s.scc[p].rx_queue \o s.scc[p].in_buf
  /\ Len(t.scc[p].in_buf) <= Len(s.scc[p].in_buf)
  /\ t.scc[p].sdlc_eof = s.scc[p].sdlc_eof /\ t.scc[p].loop = s.scc[p].loop

LEMMA HandOver ==
  ASSUME NEW x \in Seq(Byte), NEW y \in Seq(Byte), y # <<>>
  PROVE  /\ Append(x, Head(y)) \in Seq(Byte) /\ Tail(y) \in Seq(Byte)
         /\ Append(x, Head(y)) \o Tail(y) = x \o y /\ Len(Tail(y)) <= Len(y)
OBVIOUS

LEMMA RxEventPasses ==
  ASSUME NEW s, HasPipe(s), NEW p \in Port,
         s.scc[p].rx_queue \in Seq(Byte), s.scc[p].in_buf \in Seq(Byte)
  PROVE  Passes(s, scc_maybe_rx_event(s, p), p)
<1> DEFINE x == s.scc[p].rx_queue
           y == s.scc[p].in_buf
<1>1. CASE ~CanReceive(s.scc[p])
  <2>1. scc_maybe_rx_event(s, p) = s
    BY <1>1 DEF scc_maybe_rx_event
  <2> QED BY <2>1 DEF Passes, HasPipe, SameBytes
<1>2. CASE CanReceive(s.scc[p])
  <2> DEFINE c == [s.scc[p] EXCEPT !.rx_queue = Append(x, Head(y)), !.in_buf = Tail(y)]
             t == SetPort(s, p, c)
             u == scc_maybe_rx_int(t, p)
             w == add_event_scc(u, p, "rx")
  <2>1. y # <<>>
    BY <1>2 DEF CanReceive
  <2>2. scc_maybe_rx_event(s, p) = w
    BY <1>2 DEF scc_maybe_rx_event, SetPort, HasPipe
  <2>3. /\ HasPipe(t) /\ \A q \in Port \ {p} : SameBytes(t.scc[q], s.scc[q])
        /\ t.scc[p] = c
    BY DEF HasPipe, SameBytes, SetPort
  <2>4. /\ c.rx_queue = Append(x, Head(y)) /\ c.in_buf = Tail(y)
        /\ c.sdlc_eof = s.scc[p].sdlc_eof /\ c.loop = s.scc[p].loop
    BY DEF HasPipe, PipeFields
  <2> HIDE DEF t, c
  <2>5. Still(t, w)
    BY <2>3, StillInts, StillEvent, StillHas, StillTrans
  <2> HIDE DEF u, w
  <2>6. /\ HasPipe(w) /\ \A q \in Port \ {p} : SameBytes(w.scc[q], s.scc[q])
        /\ w.scc[p].rx_queue = Append(x, Head(y)) /\ w.scc[p].in_buf = Tail(y)
        /\ w.scc[p].sdlc_eof = s.scc[p].sdlc_eof /\ w.scc[p].loop = s.scc[p].loop
    BY <2>3, <2>4, <2>5 DEF Still, SameBytes
  <2> QED BY <2>1, <2>2, <2>6, HandOver DEF Passes
<1> QED BY <1>1, <1>2

LEMMA LeftOver ==
  ASSUME NEW c, c.rx_queue \in Seq(Byte), c.in_buf \in Seq(Byte)
  PROVE  BytesLeft(c) = Len(c.rx_queue \o c.in_buf) /\ BytesLeft(c) \in Nat
<1> DEFINE x == c.rx_queue
           y == c.in_buf
<1>1. Len(x \o y) = Len(x) + Len(y) /\ Len(x) \in Nat /\ Len(y) \in Nat
  OBVIOUS
<1>2. BytesLeft(c) = Len(y) + Len(x)
  BY DEF BytesLeft
<1> HIDE DEF x, y
<1>3. BytesLeft(c) = Len(x \o y) /\ BytesLeft(c) \in Nat
  BY <1>1, <1>2
<1> QED BY <1>3 DEF x, y

LEMMA PassesApart ==
  ASSUME NEW s, Apart(s), NEW p \in Port, NEW t, Passes(s, t, p)
  PROVE  Apart(t)
<1> DEFINE c == t.scc[p]
           d == s.scc[p]
<1>1. Fine(d)
  BY DEF Apart
<1>2. /\ c.rx_queue \in Seq(Byte) /\ c.in_buf \in Seq(Byte)
      /\ c.rx_queue \o c.in_buf = d.rx_queue \o d.in_buf
      /\ c.sdlc_eof = d.sdlc_eof /\ c.loop = d.loop
  BY DEF Passes
<1>3. BytesLeft(c) = BytesLeft(d)
  <2>1. BytesLeft(c) = Len(c.rx_queue \o c.in_buf)
    BY <1>2, LeftOver
  <2>2. BytesLeft(d) = Len(d.rx_queue \o d.in_buf)
    BY <1>1, LeftOver DEF Fine
  <2> QED BY <1>2, <2>1, <2>2
<1>4. Fine(c)
  BY <1>1, <1>2, <1>3 DEF Fine
<1>5. \A q \in Port \ {p} : Fine(t.scc[q])
  BY DEF Passes, SameBytes, Apart, Fine, BytesLeft
<1> QED BY <1>4, <1>5 DEF Apart, Passes

LEMMA PartBack ==
  ASSUME NEW x \in Seq(Byte), NEW y \in Seq(Byte), Part(x \o y)
  PROVE  Part(y)
<1>1. PICK f \in Frame : \E n \in 0..Len(f) : x \o y = SubSeq(f, n + 1, Len(f))
  BY DEF Part
<1>2. PICK n \in 0..Len(f) : x \o y = SubSeq(f, n + 1, Len(f))
  BY <1>1
<1>3. f \in Seq(Byte)
  BY SccAssumption DEF SccAssumption
<1>4. Len(x) + Len(y) = Len(f) - n
  <2>1. Len(x \o y) = Len(x) + Len(y) /\ Len(SubSeq(f, n + 1, Len(f))) = Len(f) - n
    BY <1>3
  <2> QED BY <1>2, <2>1
<1> DEFINE m == n + Len(x)
<1>5. m \in 0..Len(f)
  BY <1>3, <1>4
<1>6. y = SubSeq(f, m + 1, Len(f))
  <2> DEFINE z == SubSeq(f, m + 1, Len(f))
             v == SubSeq(f, n + 1, Len(f))
  <2>1. Len(z) = Len(y) /\ z \in Seq(Byte)
    BY <1>3, <1>4, <1>5
  <2>2. ASSUME NEW i \in 1..Len(y) PROVE y[i] = z[i]
    <3>1. y[i] = (x \o y)[Len(x) + i]
      OBVIOUS
    <3>2. v[Len(x) + i] = f[n + (Len(x) + i)]
      BY <1>3, <1>4
    <3>3. z[i] = f[m + i]
      BY <1>3, <1>4, <1>5
    <3>4. n + (Len(x) + i) = m + i
      OBVIOUS
    <3> QED BY <1>2, <3>1, <3>2, <3>3, <3>4
  <2> HIDE DEF z
  <2>3. y = z
    BY <2>1, <2>2
  <2> QED BY <2>3 DEF z
<1> HIDE DEF m
<1> QED BY <1>5, <1>6 DEF Part

LEMMA PartTail ==
  ASSUME NEW x \in Seq(Byte), NEW y \in Seq(Byte), x # <<>>, Part(x \o y)
  PROVE  Part(Tail(x) \o y)
<1> DEFINE h == <<Head(x)>>
           z == Tail(x) \o y
<1>1. h \in Seq(Byte) /\ z \in Seq(Byte) /\ h \o z = x \o y
  OBVIOUS
<1> HIDE DEF h, z
<1>2. Part(z)
  BY <1>1, PartBack
<1> QED BY <1>2 DEF z

LEMMA PartNone ==
  ASSUME LinkOnly
  PROVE  Part(<<>>)
<1>1. PICK f \in Frame : TRUE
  BY DEF LinkOnly
<1>2. f \in Seq(Byte)
  BY SccAssumption DEF SccAssumption
<1>3. Len(f) \in 0..Len(f) /\ SubSeq(f, Len(f) + 1, Len(f)) = <<>>
  BY <1>2
<1> QED BY <1>3 DEF Part

LEMMA JoinThree ==
  ASSUME NEW x \in Seq(Byte), NEW y \in Seq(Byte), NEW z \in Seq(Byte)
  PROVE  x \o (y \o z) = (x \o y) \o z
OBVIOUS

(* The ring takes a whole packet. *)
LEMMA FillApart ==
  ASSUME LinkOnly, NEW s, Apart(s), NEW p \in Port, NEW in, TakesFirst(s, p, in),
         NEW t, t = scc_try_fill_readbuf(s, p, in)
  PROVE  Apart(t) /\ \A q \in Port \ {p} : SameBytes(t.scc[q], s.scc[q])
<1>1. CASE in = <<>>
  <2>1. t = s
    BY <1>1 DEF scc_try_fill_readbuf, AddBytes
  <2> QED BY <2>1 DEF Apart, HasPipe, SameBytes
<1>2. CASE in # <<>>
  <2>1. /\ in \in Frame /\ s.scc[p].rx_queue = <<>> /\ s.scc[p].in_buf = <<>>
        /\ ~s.scc[p].sdlc_eof
    BY <1>2 DEF TakesFirst
  <2>2. in \in Seq(Byte) /\ Len(in) < SCC_INBUF_SIZE /\ SCC_INBUF_SIZE \in Nat
    BY <2>1, SccAssumption DEF SccAssumption, LinkOnly
  <2>3. Head(in) \in Byte /\ Len(in) >= 1 /\ Len(in) \in Nat
    BY <1>2, <2>2
  <2> DEFINE c == [s.scc[p] EXCEPT !.in_buf = <<Head(in)>>]
             u == SetPort(s, p, c)
             v == scc_add_to_readbuf(s, p, Head(in))
             d == v.scc[p]
  <2>4. v = scc_maybe_rx_event(u, p)
    <3>1. InRoom(s, p) = SCC_INBUF_SIZE - 1
      BY <2>1, <2>2 DEF InRoom
    <3>2. InRoom(s, p) > 0
      BY <2>2, <2>3, <3>1
    <3>3. Append(s.scc[p].in_buf, Head(in)) = <<Head(in)>>
      BY <2>1, <2>3
    <3>4. u = [s EXCEPT !.scc[p].in_buf = Append(@, Head(in))]
      BY <3>3 DEF SetPort
    <3> QED BY <3>2, <3>4 DEF scc_add_to_readbuf
  <2>5. /\ HasPipe(u) /\ \A q \in Port \ {p} : SameBytes(u.scc[q], s.scc[q])
        /\ u.scc[p] = c
    BY DEF Apart, HasPipe, SameBytes, SetPort
  <2>6. /\ c.rx_queue = <<>> /\ c.in_buf = <<Head(in)>> /\ c.sdlc_eof = s.scc[p].sdlc_eof
        /\ c.loop = s.scc[p].loop
    BY <2>1 DEF Apart, HasPipe, PipeFields
  <2>7. <<>> \in Seq(Byte) /\ <<Head(in)>> \in Seq(Byte) /\ Len(<<Head(in)>>) = 1
    BY <2>3
  <2> HIDE DEF u, c, v
  <2>8. Passes(u, v, p)
    BY <2>4, <2>5, <2>6, <2>7, RxEventPasses
  <2>9. /\ d.rx_queue \in Seq(Byte) /\ d.in_buf \in Seq(Byte)
        /\ d.rx_queue \o d.in_buf = <<>> \o <<Head(in)>> /\ Len(d.in_buf) <= 1
        /\ d.sdlc_eof = s.scc[p].sdlc_eof /\ d.loop = s.scc[p].loop
    BY <2>5, <2>6, <2>7, <2>8 DEF Passes
  <2> DEFINE rest == SubSeq(in, 2, Len(in))
             e == [d EXCEPT !.in_buf = d.in_buf \o rest]
  <2>10. t = SetPort(v, p, e)
    <3> DEFINE n == Least(InRoom(v, p), Len(in) - 1)
    <3>1. t = [v EXCEPT !.scc[p].in_buf = @ \o SubSeq(in, 2, n + 1)]
      BY <1>2 DEF scc_try_fill_readbuf, AddBytes, v
    <3>2. n = Len(in) - 1
      <4>1. InRoom(v, p) = SCC_INBUF_SIZE - 1 - Len(d.in_buf) /\ Len(d.in_buf) \in Nat
        BY <2>9 DEF InRoom
      <4> HIDE DEF d
      <4> QED BY <2>2, <2>3, <2>9, <4>1 DEF Least
    <3>3. n + 1 = Len(in)
      BY <2>3, <3>2
    <3> HIDE DEF n
    <3> QED BY <3>1, <3>3 DEF SetPort
  <2>11. HasPipe(v) /\ \A q \in Port \ {p} : SameBytes(v.scc[q], u.scc[q])
    BY <2>8 DEF Passes
  <2>12. /\ HasPipe(t) /\ t.scc[p] = e
         /\ \A q \in Port \ {p} : SameBytes(t.scc[q], v.scc[q])
    BY <2>10, <2>11 DEF HasPipe, SetPort, SameBytes, PipeFields
  <2>13. \A q \in Port \ {p} : SameBytes(t.scc[q], s.scc[q])
    BY <2>5, <2>11, <2>12 DEF SameBytes
  <2>14. /\ e.rx_queue = d.rx_queue /\ e.in_buf = d.in_buf \o rest
         /\ e.sdlc_eof = s.scc[p].sdlc_eof /\ e.loop = s.scc[p].loop
    BY <2>9, <2>11 DEF HasPipe, PipeFields
  <2> HIDE DEF d, e
  <2>15. rest \in Seq(Byte) /\ <<Head(in)>> \o rest = in
    BY <2>2, <2>3
  <2> HIDE DEF rest
  <2>16. d.rx_queue \o (d.in_buf \o rest) = in
    <3>1. d.rx_queue \o (d.in_buf \o rest) = (d.rx_queue \o d.in_buf) \o rest
      BY <2>9, <2>15, JoinThree
    <3>2. <<>> \o <<Head(in)>> = <<Head(in)>>
      BY <2>7
    <3> QED BY <2>9, <2>15, <3>1, <3>2
  <2>17. Part(in)
    <3>1. 0 \in 0..Len(in) /\ in = SubSeq(in, 0 + 1, Len(in))
      BY <2>2, <2>3
    <3> QED BY <2>1, <3>1 DEF Part
  <2>18. Fine(e)
    BY <2>1, <2>9, <2>14, <2>15, <2>16, <2>17 DEF Fine, Apart
  <2>19. \A q \in Port \ {p} : Fine(t.scc[q])
    BY <2>13 DEF SameBytes, Apart, Fine, BytesLeft
  <2> QED BY <2>12, <2>13, <2>18, <2>19 DEF Apart
<1> QED BY <1>1, <1>2

(* A byte is read. *)
LEMMA PopApart ==
  ASSUME NEW s, Apart(s), NEW p \in Port, s.scc[p].rx_queue # <<>>
  PROVE  Apart(PopFifo(s, p))
<1> DEFINE x == s.scc[p].rx_queue
           y == s.scc[p].in_buf
           c == [s.scc[p] EXCEPT !.rx_queue = Tail(x)]
           t == SetPort(s, p, c)
           u == scc_maybe_rx_event(t, p)
<1>1. PopFifo(s, p) = scc_maybe_rx_int(u, p)
  BY DEF PopFifo, SetPort
<1>2. /\ c.rx_queue = Tail(x) /\ c.in_buf = y /\ c.sdlc_eof = s.scc[p].sdlc_eof
      /\ c.loop = s.scc[p].loop /\ PipeFields \subseteq DOMAIN c
  BY DEF Apart, HasPipe, PipeFields
<1>3. Fine(s.scc[p])
  BY DEF Apart
<1>4. x \in Seq(Byte) /\ y \in Seq(Byte) /\ Part(x \o y)
  BY <1>3 DEF Fine
<1>5. Tail(x) \in Seq(Byte) /\ Part(Tail(x) \o y)
  BY <1>4, PartTail
<1>6. s.scc[p].sdlc_eof => Len(y) + Len(x) <= 1
  BY <1>3 DEF Fine, BytesLeft
<1>7. Len(Tail(x)) <= Len(x) /\ Len(Tail(x)) \in Nat /\ Len(x) \in Nat /\ Len(y) \in Nat
  <2>1. x # <<>>
    OBVIOUS
  <2> HIDE DEF x, y
  <2> QED BY <1>4, <2>1
<1>8. BytesLeft(c) = Len(y) + Len(Tail(x))
  BY <1>2 DEF BytesLeft
<1> HIDE DEF c
<1>9. Fine(c)
  <2>1. ASSUME c.sdlc_eof PROVE BytesLeft(c) <= 1
    <3>1. Len(y) + Len(x) <= 1
      BY <1>2, <1>6, <2>1
    <3> HIDE DEF x, y
    <3> QED BY <1>7, <1>8, <3>1
  <2>2. c.loop => OutByte = {}
    BY <1>2, <1>3 DEF Fine
  <2> QED BY <1>2, <1>4, <1>5, <2>1, <2>2 DEF Fine
<1>10. Apart(t)
  BY <1>2, <1>9, ApartEdit
<1> HIDE DEF t
<1>11. Passes(t, u, p)
  BY <1>10, RxEventPasses DEF Apart, Fine
<1>12. Apart(u)
  BY <1>10, <1>11, PassesApart
<1> HIDE DEF u
<1> QED BY <1>1, <1>12, StillInts, StillApart DEF Apart

LEMMA ReadApart ==
  ASSUME LinkOnly, NEW s, Apart(s), NEW p \in Port, NEW in, TakesFirst(s, p, in)
  PROVE  Apart(scc_read_data(s, p, in))
<1> DEFINE t == scc_try_fill_readbuf(s, p, in)
           u == PopFifo(t, p)
           c == [u.scc[p] EXCEPT !.sdlc_eof = TRUE]
<1>1. Apart(t)
  BY FillApart
<1>2. scc_read_data(s, p, in) = IF t.scc[p].rx_queue = <<>> THEN t
                                ELSE IF u.scc[p].state = 3 /\ BytesLeft(u.scc[p]) = 1
                                     THEN SetPort(u, p, c) ELSE u
  BY DEF scc_read_data, SetPort
<1> HIDE DEF t
<1>3. t.scc[p].rx_queue # <<>> => Apart(u)
  BY <1>1, PopApart
<1> HIDE DEF u
<1>4. ASSUME Apart(u), BytesLeft(u.scc[p]) = 1 PROVE Apart(SetPort(u, p, c))
  <2>1. /\ c.rx_queue = u.scc[p].rx_queue /\ c.in_buf = u.scc[p].in_buf
        /\ c.loop = u.scc[p].loop /\ PipeFields \subseteq DOMAIN c
    BY <1>4 DEF Apart, HasPipe, PipeFields
  <2>2. Fine(u.scc[p])
    BY <1>4 DEF Apart
  <2>3. BytesLeft(c) <= 1
    <3>1. BytesLeft(c) = BytesLeft(u.scc[p])
      BY <2>1 DEF BytesLeft
    <3> QED BY <1>4, <3>1
  <2> HIDE DEF c
  <2>4. Fine(c)
    BY <2>1, <2>2, <2>3 DEF Fine
  <2> QED BY <1>4, <2>1, <2>4, ApartEdit
<1> QED BY <1>1, <1>2, <1>3, <1>4

(* A reset throws the FIFO away, and the machine's reset the ring before it. *)
LEMMA ResetPortApart ==
  ASSUME NEW s, HasPipe(s), NEW p \in Port, \A q \in Port \ {p} : Fine(s.scc[q]),
         s.scc[p].in_buf \in Seq(Byte), Part(s.scc[p].in_buf)
  PROVE  Apart(scc_reset_port(s, p))
<1> DEFINE c == [s.scc[p] EXCEPT
                   !.zc_int_en = FALSE, !.loop = FALSE, !.tx_en = FALSE, !.rx_en = FALSE,
                   !.tx_buf_empty = TRUE, !.wantint = {}, !.rx_queue = <<>>, !.sdlc_eof = FALSE]
           t == SetPort(s, p, c)
           u == scc_evaluate_ints(t, p)
           v == scc_clr_tx_int(u, p)
<1>1. scc_reset_port(s, p) = scc_clr_rx_int(v, p)
  BY DEF scc_reset_port, SetPort
<1>2. /\ c.rx_queue = <<>> /\ c.in_buf = s.scc[p].in_buf /\ ~c.sdlc_eof /\ ~c.loop
      /\ PipeFields \subseteq DOMAIN c
  BY DEF HasPipe, PipeFields
<1> HIDE DEF c
<1>3. /\ HasPipe(t) /\ t.scc[p] = c /\ \A q \in Port \ {p} : t.scc[q] = s.scc[q]
  BY <1>2 DEF HasPipe, SetPort
<1>4. <<>> \in Seq(Byte) /\ <<>> \o c.in_buf = c.in_buf
  BY <1>2
<1>5. Fine(c)
  BY <1>2, <1>4 DEF Fine
<1>6. Apart(t)
  BY <1>3, <1>5 DEF Apart
<1> HIDE DEF t
<1>7. Still(t, u) /\ HasPipe(u)
  BY <1>3, StillEval, StillHas
<1> HIDE DEF u
<1>8. Still(u, v) /\ HasPipe(v)
  BY <1>7, StillClear, StillHas DEF scc_clr_tx_int
<1> HIDE DEF v
<1>9. Still(v, scc_clr_rx_int(v, p))
  BY <1>8, StillClear DEF scc_clr_rx_int
<1>10. Still(t, scc_clr_rx_int(v, p))
  BY <1>7, <1>8, <1>9, StillTrans
<1> QED BY <1>1, <1>6, <1>10, StillApart

LEMMA HardResetApart ==
  ASSUME NEW s, HasPipe(s), NEW p \in Port, \A q \in Port \ {p} : Fine(s.scc[q]),
         s.scc[p].in_buf \in Seq(Byte), Part(s.scc[p].in_buf)
  PROVE  Apart(scc_hard_reset_port(s, p))
<1> DEFINE t == scc_reset_port(s, p)
           c == [t.scc[p] EXCEPT !.br_en = FALSE, !.tx_int_en = FALSE, !.rx_int_mode = 0]
           u == SetPort(t, p, c)
           v == [u EXCEPT !.mie = FALSE]
<1>1. Apart(t)
  BY ResetPortApart
<1>2. scc_hard_reset_port(s, p) = scc_evaluate_ints(v, p)
  BY DEF scc_hard_reset_port, SetPort
<1> HIDE DEF t
<1>3. SameBytes(c, t.scc[p])
  BY <1>1 DEF Apart, HasPipe, PipeFields, SameBytes
<1>4. Still(t, u) /\ HasPipe(u)
  BY <1>1, <1>3, StillEdit, StillHas DEF Apart
<1> HIDE DEF u
<1>5. Still(u, v) /\ HasPipe(v)
  BY <1>4, StillRest, StillHas DEF HasPipe
<1> HIDE DEF v
<1>6. Still(t, scc_evaluate_ints(v, p))
  BY <1>4, <1>5, StillEval, StillTrans
<1> QED BY <1>1, <1>2, <1>6, StillApart

LEMMA BackIsPart ==
  ASSUME NEW s, Apart(s), NEW p \in Port
  PROVE  /\ s.scc[p].in_buf \in Seq(Byte) /\ Part(s.scc[p].in_buf)
         /\ HasPipe(s) /\ \A q \in Port : Fine(s.scc[q])
BY PartBack DEF Apart, Fine

LEMMA ResetOneApart ==
  ASSUME LinkOnly, NEW s, Apart(s), NEW p \in Port
  PROVE  Apart(ResetOne(s, p))
<1> DEFINE c == [s.scc[p] EXCEPT
                   !.mode = 0, !.reg_ptr = 0, !.in_buf = <<>>, !.out_rdptr = 0, !.out_wrptr = 0,
                   !.wantint = {}, !.did_int_rx_first = FALSE, !.irq_pending = {},
                   !.write_called_this_vbl = FALSE]
           t == SetPort(s, p, c)
           u == scc_evaluate_ints(t, p)
<1>1. ResetOne(s, p) = scc_hard_reset_port(u, p)
  BY DEF ResetOne, SetPort
<1>2. c.in_buf = <<>> /\ PipeFields \subseteq DOMAIN c
  BY DEF Apart, HasPipe, PipeFields
<1> HIDE DEF c
<1>3. /\ HasPipe(t) /\ t.scc[p] = c /\ \A q \in Port \ {p} : t.scc[q] = s.scc[q]
  BY <1>2 DEF Apart, HasPipe, SetPort
<1> HIDE DEF t
<1>4. Still(t, u) /\ HasPipe(u)
  BY <1>3, StillEval, StillHas
<1> HIDE DEF u
<1>5. u.scc[p].in_buf = <<>> /\ \A q \in Port \ {p} : SameBytes(u.scc[q], s.scc[q])
  BY <1>2, <1>3, <1>4 DEF Still, SameBytes
<1>6. \A q \in Port \ {p} : Fine(u.scc[q])
  BY <1>5 DEF SameBytes, Apart, Fine, BytesLeft
<1>7. <<>> \in Seq(Byte)
  OBVIOUS
<1> QED BY <1>1, <1>4, <1>5, <1>6, <1>7, PartNone, HardResetApart

(* The registers. *)
LEMMA ResetRr1Apart ==
  ASSUME NEW s, Apart(s), NEW p \in Port
  PROVE  Apart(reset_rr1_bits(s, p))
<1> DEFINE t == IF s.scc[p].sdlc_eof /\ s.scc[p].rx_queue # <<>> THEN PopFifo(s, p) ELSE s
           c == [t.scc[p] EXCEPT !.sdlc_eof = FALSE]
<1>1. Apart(t)
  BY PopApart
<1>2. reset_rr1_bits(s, p) = SetPort(t, p, c)
  BY DEF reset_rr1_bits, SetPort
<1> HIDE DEF t
<1>3. /\ c.rx_queue = t.scc[p].rx_queue /\ c.in_buf = t.scc[p].in_buf /\ ~c.sdlc_eof
      /\ c.loop = t.scc[p].loop /\ PipeFields \subseteq DOMAIN c
  BY <1>1 DEF Apart, HasPipe, PipeFields
<1> HIDE DEF c
<1>4. Fine(c)
  BY <1>1, <1>3 DEF Apart, Fine
<1> QED BY <1>1, <1>2, <1>3, <1>4, ApartEdit

LEMMA CommandApart ==
  ASSUME NEW s, Apart(s), NEW p \in Port, NEW cmd
  PROVE  Apart(Command(s, p, cmd))
<1>1. HasPipe(s)
  BY DEF Apart
<1>2. /\ Apart(scc_clr_zerocnt_int(s, p)) /\ Apart(scc_clr_tx_int(s, p))
      /\ Apart([s EXCEPT !.scc[p].did_int_rx_first = FALSE])
      /\ Apart(reset_highest_pri_int(s, p))
  BY <1>1, StillClear, StillFields, StillInts, StillApart DEF scc_clr_zerocnt_int, scc_clr_tx_int
<1> QED BY <1>2, ResetRr1Apart DEF Command

LEMMA Wr3Apart ==
  ASSUME LinkOnly, NEW s, Apart(s), NEW p \in Port, NEW on, NEW in, TakesFirst(s, p, in)
  PROVE  Apart(wr3(s, p, on, in))
<1> DEFINE t == [s EXCEPT !.scc[p].rx_en = on]
           u == scc_try_fill_readbuf(t, p, in)
           v == scc_maybe_rx_event(u, p)
<1>1. Still(s, t)
  BY StillFields DEF Apart
<1>2. wr3(s, p, on, in) = IF on /\ ~s.scc[p].rx_en THEN v ELSE t
  BY DEF wr3
<1> HIDE DEF t
<1>3. Apart(t) /\ TakesFirst(t, p, in)
  BY <1>1, StillApart, StillTakes
<1>4. Apart(u)
  BY <1>3, FillApart
<1> HIDE DEF u
<1>5. Passes(u, v, p)
  BY <1>4, RxEventPasses DEF Apart, Fine
<1>6. Apart(v)
  BY <1>4, <1>5, PassesApart
<1> HIDE DEF v
<1> QED BY <1>2, <1>3, <1>6

LEMMA Wr5Apart ==
  ASSUME NEW s, Apart(s), NEW p \in Port, NEW on
  PROVE  Apart(wr5(s, p, on))
<1> DEFINE t == IF g_appletalk_bridging /\ s.scc[p].state = 3 /\ s.scc[p].tx_en /\ ~on
                THEN scc_llap_empty_writebuf(s, p) ELSE s
<1>1. Apart(t)
  BY StillOutput, StillApart DEF Apart
<1>2. wr5(s, p, on) = [t EXCEPT !.scc[p].tx_en = on]
  BY DEF wr5
<1> HIDE DEF t
<1>3. Still(t, [t EXCEPT !.scc[p].tx_en = on])
  BY <1>1, StillFields DEF Apart
<1> QED BY <1>1, <1>2, <1>3, StillApart

LEMMA Wr9Apart ==
  ASSUME NEW s, Apart(s), NEW v
  PROVE  Apart(wr9(s, v))
<1> DEFINE s0 == IF 0 \in v.reset THEN scc_reset_port(s, 0) ELSE s
           s1 == IF 1 \in v.reset THEN scc_reset_port(s0, 1) ELSE s0
           s2 == IF v.reset = Port
                 THEN scc_hard_reset_port(scc_hard_reset_port(s1, 0), 1) ELSE s1
           t == [s2 EXCEPT !.mie = v.mie]
           u == scc_evaluate_ints(t, 0)
<1>1. \A x, p : Apart(x) /\ p \in Port => Apart(scc_reset_port(x, p)) /\ Apart(scc_hard_reset_port(x, p))
  BY BackIsPart, ResetPortApart, HardResetApart
<1>2. 0 \in Port /\ 1 \in Port
  BY DEF Port
<1>3. Apart(s0)
  BY <1>1, <1>2
<1> HIDE DEF s0
<1>4. Apart(s1)
  BY <1>1, <1>2, <1>3
<1> HIDE DEF s1
<1>5. Apart(s2)
  BY <1>1, <1>2, <1>4
<1>6. wr9(s, v) = scc_evaluate_ints(u, 1)
  BY DEF wr9, s0, s1
<1> HIDE DEF s2
<1>7. Still(s2, t) /\ HasPipe(t)
  BY <1>5, StillRest, StillHas DEF Apart, HasPipe
<1> HIDE DEF t
<1>8. Still(t, u) /\ HasPipe(u)
  BY <1>2, <1>7, StillEval, StillHas
<1> HIDE DEF u
<1>9. Still(s2, scc_evaluate_ints(u, 1))
  BY <1>2, <1>7, <1>8, StillEval, StillTrans
<1> QED BY <1>5, <1>6, <1>9, StillApart

LEMMA Wr14Apart ==
  ASSUME LinkOnly, NEW s, Apart(s), NEW p \in Port, NEW v \in Wr14
  PROVE  Apart(wr14(s, p, v))
<1> DEFINE c == [s.scc[p] EXCEPT !.br_en = v.br_en, !.loop = v.loop]
           t == SetPort(s, p, c)
<1>1. wr14(s, p, v) = scc_maybe_br_event(t, p)
  BY DEF wr14, SetPort, Apart, HasPipe
<1>2. /\ c.rx_queue = s.scc[p].rx_queue /\ c.in_buf = s.scc[p].in_buf
      /\ c.sdlc_eof = s.scc[p].sdlc_eof /\ c.loop = v.loop /\ PipeFields \subseteq DOMAIN c
  BY DEF Apart, HasPipe, PipeFields
<1> HIDE DEF c
<1>3. c.loop => OutByte = {}
  BY <1>2 DEF LinkOnly
<1>4. Fine(c)
  BY <1>2, <1>3 DEF Apart, Fine, BytesLeft
<1>5. Apart(t)
  BY <1>2, <1>4, ApartEdit
<1> HIDE DEF t
<1> QED BY <1>1, <1>5, StillTimers, StillApart DEF Apart

LEMMA Wr15Apart ==
  ASSUME NEW s, Apart(s), NEW p \in Port, NEW on
  PROVE  Apart(wr15(s, p, on))
<1> DEFINE t == [s EXCEPT !.scc[p].zc_int_en = on]
           u == scc_maybe_br_event(t, p)
<1>1. wr15(s, p, on) = scc_evaluate_ints(u, p)
  BY DEF wr15
<1>2. Still(s, t) /\ HasPipe(t)
  BY StillFields, StillHas DEF Apart
<1> HIDE DEF t
<1>3. Still(t, u) /\ HasPipe(u)
  BY <1>2, StillTimers, StillHas
<1> HIDE DEF u
<1> QED BY <1>1, <1>2, <1>3, StillEval, StillTrans, StillApart

LEMMA WriteApart ==
  ASSUME NEW s, Apart(s), NEW p \in Port, NEW b \in OutByte, NEW fast, NEW k
  PROVE  Apart(scc_write_data(s, p, b, fast, k, <<>>))
<1> DEFINE t == PutByte(s, p, b, fast)
           u == IF t.scc[p].state # 3 THEN scc_try_to_empty_writebuf(t, p, k, <<>>) ELSE t
<1>1. ~s.scc[p].loop
  BY DEF Apart, Fine
<1>2. Apart(t)
  BY <1>1, StillOutput, StillApart DEF PutByte, Apart
<1>3. scc_write_data(s, p, b, fast, k, <<>>) = scc_maybe_tx_event(u, p)
  BY DEF scc_write_data
<1> HIDE DEF t
<1>4. Apart(u)
  BY <1>2, StillOutput, StillApart DEF Apart
<1> HIDE DEF u
<1> QED BY <1>3, <1>4, StillTimers, StillApart DEF Apart

(* What comes in from outside, and the actions. *)
LEMMA NoBurst ==
  ASSUME LinkOnly
  PROVE  /\ \A bs \in Bursts(MaxBurst) : bs = <<>>
         /\ \A s, p : \A bs \in Echo(s, p) : bs = <<>>
<1>1. ASSUME NEW bs \in Bursts(MaxBurst) PROVE bs = <<>>
  <2>1. MaxBurst = 0
    BY DEF LinkOnly
  <2>2. PICK k \in 0..0 : bs \in [1..k -> Byte]
    BY <2>1 DEF Bursts
  <2>3. bs \in Seq(Byte) /\ Len(bs) = 0
    BY <2>2
  <2> QED BY <2>3
<1> QED BY <1>1 DEF Echo

LEMMA InputTakes ==
  ASSUME LinkOnly, NEW s, NEW p \in Port, NEW in \in HostInput(s, p)
  PROVE  TakesFirst(s, p, in)
<1>1. in = <<>> \/ in \in Bursts(MaxBurst) \/ (in \in Frame /\ LlapReady(s.scc[p]))
  BY DEF HostInput
<1> QED BY <1>1, NoBurst DEF TakesFirst, LlapReady

LEMMA ApartBecomes ==
  ASSUME NEW t, Apart(t), Becomes(t)
  PROVE  Apart(Now)'
BY DEF Becomes, Now, Apart, HasPipe, Fine, BytesLeft

LEMMA BackApart ==
  ASSUME Apart(Now), NEW p \in Port, NEW r
  PROVE  Still(Now, PointTo(Now, p, r)) /\ Apart(PointTo(Now, p, r))
<1>1. Still(Now, PointTo(Now, p, r))
  BY StillFields DEF PointTo, Apart
<1> QED BY <1>1, StillApart

LEMMA WriteByteApart ==
  ASSUME LinkOnly, NEW p \in Port, NEW s, Apart(s), WriteByte(s, p)
  PROVE  Apart(Now)'
<1>1. PICK b \in OutByte, fast \in FastClock :
        LET u == PutByte(s, p, b, fast)
        IN \E k \in 0..OutUsed(u.scc[p]), echo \in Echo(u, p) :
             Becomes(scc_write_data(s, p, b, fast, k, echo))
  BY DEF WriteByte
<1> DEFINE u == PutByte(s, p, b, fast)
<1>2. PICK k \in 0..OutUsed(u.scc[p]), echo \in Echo(u, p) :
        Becomes(scc_write_data(s, p, b, fast, k, echo))
  BY <1>1
<1> HIDE DEF u
<1>3. echo = <<>>
  BY NoBurst
<1>4. Becomes(scc_write_data(s, p, b, fast, k, <<>>))
  BY <1>2, <1>3
<1> DEFINE t == scc_write_data(s, p, b, fast, k, <<>>)
<1>5. Apart(t)
  BY WriteApart
<1> HIDE DEF t
<1> QED BY <1>4, <1>5, ApartBecomes DEF t

LEMMA WriteRegApart ==
  ASSUME LinkOnly, Apart(Now), NEW p \in Port,
         \/ WriteWr0(p) \/ WriteWr1(p) \/ WriteWr3(p) \/ WriteWr4(p) \/ WriteWr5(p)
         \/ WriteWr9(p) \/ WriteWr14(p) \/ WriteWr15(p) \/ WriteWrOther(p)
  PROVE  Apart(Now)'
<1> DEFINE u == BackToWr0(p)
<1>0. Still(Now, u) /\ Apart(u) /\ HasPipe(u)
  BY BackApart DEF BackToWr0, Apart
<1>1. ASSUME WriteWr0(p) PROVE Apart(Now)'
  <2>1. PICK cmd \in Commands, low \in 0..7 :
          Becomes(Command(PointTo(Now, p, IF cmd = 1 THEN low + 8 ELSE low), p, cmd))
    BY <1>1 DEF WriteWr0
  <2> DEFINE v == PointTo(Now, p, IF cmd = 1 THEN low + 8 ELSE low)
             t == Command(v, p, cmd)
  <2>2. Apart(v)
    BY BackApart
  <2> HIDE DEF v
  <2>3. Apart(t)
    BY <2>2, CommandApart
  <2> HIDE DEF t
  <2> QED BY <2>1, <2>3, ApartBecomes DEF t, v
<1>2. ASSUME WriteWr1(p) PROVE Apart(Now)'
  <2>1. PICK v \in Wr1 : Becomes([u EXCEPT !.scc[p].tx_int_en = v.tx_int_en,
                                           !.scc[p].rx_int_mode = v.rx_int_mode])
    BY <1>2 DEF WriteWr1
  <2> HIDE DEF u
  <2> DEFINE t == [u EXCEPT !.scc[p].tx_int_en = v.tx_int_en,
                            !.scc[p].rx_int_mode = v.rx_int_mode]
  <2>2. Still(u, t)
    BY <1>0, StillFields
  <2> HIDE DEF t
  <2> QED BY <1>0, <2>1, <2>2, StillApart, ApartBecomes DEF t
<1>3. ASSUME WriteWr3(p) PROVE Apart(Now)'
  <2>1. PICK on \in BOOLEAN, in \in HostInput(Now, p) : Becomes(wr3(u, p, on, in))
    BY <1>3 DEF WriteWr3
  <2> HIDE DEF u
  <2>2. TakesFirst(u, p, in)
    BY <1>0, InputTakes, StillTakes
  <2>3. Apart(wr3(u, p, on, in))
    BY <1>0, <2>2, Wr3Apart
  <2> QED BY <2>1, <2>3, ApartBecomes
<1>4. ASSUME WriteWr4(p) PROVE Apart(Now)'
  <2>1. Becomes(u) \/ Becomes([u EXCEPT !.scc[p].state = 3])
    BY <1>4 DEF WriteWr4
  <2> HIDE DEF u
  <2>2. Still(u, [u EXCEPT !.scc[p].state = 3])
    BY <1>0, StillFields
  <2> QED BY <1>0, <2>1, <2>2, StillApart, ApartBecomes
<1>5. ASSUME WriteWr5(p) PROVE Apart(Now)'
  <2>1. PICK on \in BOOLEAN : Becomes(wr5(u, p, on))
    BY <1>5 DEF WriteWr5
  <2> HIDE DEF u
  <2> QED BY <1>0, <2>1, Wr5Apart, ApartBecomes
<1>6. ASSUME WriteWr9(p) PROVE Apart(Now)'
  <2>1. PICK v \in Wr9 : Becomes(wr9(u, v))
    BY <1>6 DEF WriteWr9
  <2> HIDE DEF u
  <2> QED BY <1>0, <2>1, Wr9Apart, ApartBecomes
<1>7. ASSUME WriteWr14(p) PROVE Apart(Now)'
  <2>1. PICK v \in Wr14 : Becomes(wr14(u, p, v))
    BY <1>7 DEF WriteWr14
  <2> HIDE DEF u
  <2> QED BY <1>0, <2>1, Wr14Apart, ApartBecomes
<1>8. ASSUME WriteWr15(p) PROVE Apart(Now)'
  <2>1. PICK on \in BOOLEAN : Becomes(wr15(u, p, on))
    BY <1>8 DEF WriteWr15
  <2> HIDE DEF u
  <2> QED BY <1>0, <2>1, Wr15Apart, ApartBecomes
<1>9. ASSUME WriteWrOther(p) PROVE Apart(Now)'
  <2>1. Becomes(u)
    BY <1>9 DEF WriteWrOther
  <2> HIDE DEF u
  <2> QED BY <1>0, <2>1, ApartBecomes
<1> QED BY <1>1, <1>2, <1>3, <1>4, <1>5, <1>6, <1>7, <1>8, <1>9

LEMMA DataApart ==
  ASSUME LinkOnly, Apart(Now), NEW p \in Port,
         WriteWr8(p) \/ WriteData(p) \/ ReadData(p) \/ ReadReg(p)
  PROVE  Apart(Now)'
<1> DEFINE u == BackToWr0(p)
<1>0. Still(Now, u) /\ Apart(u)
  BY BackApart DEF BackToWr0
<1>1. ASSUME NEW in \in HostInput(Now, p), NEW s, s = Now \/ s = u,
             Becomes(scc_read_data(s, p, in))
      PROVE  Apart(Now)'
  <2>1. Apart(s) /\ TakesFirst(s, p, in)
    <3> HIDE DEF u
    <3> QED BY <1>0, <1>1, InputTakes, StillTakes
  <2> QED BY <1>1, <2>1, ReadApart, ApartBecomes
<1>2. ASSUME WriteWr8(p) \/ WriteData(p) PROVE Apart(Now)'
  BY <1>0, <1>2, WriteByteApart DEF WriteWr8, WriteData
<1>3. ASSUME ReadData(p) PROVE Apart(Now)'
  BY <1>1, <1>3 DEF ReadData
<1>4. ASSUME ReadReg(p) PROVE Apart(Now)'
  BY <1>0, <1>1, <1>4, ApartBecomes DEF ReadReg
<1> QED BY <1>2, <1>3, <1>4

LEMMA EventApart ==
  ASSUME Apart(Now), NEW p \in Port, NEW k \in Kind, do_scc_event(p, k)
  PROVE  Apart(Now)'
<1> DEFINE u == pop_event_scc(Now, p, k)
           br == scc_set_zerocnt_int(u, p)
           tx == [u EXCEPT !.scc[p].tx_buf_empty = TRUE]
           rx == scc_maybe_rx_event(u, p)
<1>1. PICK t \in {scc_maybe_br_event(br, p), scc_handle_tx_event(tx, p), rx} : Becomes(t)
  BY DEF do_scc_event, Kind
<1>2. Still(Now, u) /\ Apart(u) /\ HasPipe(u)
  BY StillEvent, StillApart DEF Apart
<1> HIDE DEF u
<1>3. Still(u, br) /\ HasPipe(br) /\ Still(u, tx) /\ HasPipe(tx)
  BY <1>2, StillInts, StillFields, StillHas
<1>4. Passes(u, rx, p)
  BY <1>2, RxEventPasses DEF Apart, Fine
<1>5. Apart(rx)
  BY <1>2, <1>4, PassesApart
<1> HIDE DEF br, tx, rx
<1>6. Apart(scc_maybe_br_event(br, p)) /\ Apart(scc_handle_tx_event(tx, p))
  BY <1>2, <1>3, StillTimers, StillInts, StillTrans, StillApart
<1> QED BY <1>1, <1>5, <1>6, ApartBecomes

LEMMA FreshStill ==
  ASSUME NEW s, HasPipe(s), NEW p \in Port
  PROVE  /\ Still(s, Fresh(s, p)) /\ HasPipe(Fresh(s, p))
         /\ \A k : Still(s, Drain(s, p, k, <<>>)) /\ HasPipe(Drain(s, p, k, <<>>))
<1>1. \A t : HasPipe(t) => Still(t, Fresh(t, p)) /\ HasPipe(Fresh(t, p))
  BY StillFields, StillHas DEF Fresh
<1>2. Still(s, s)
  BY StillRest DEF HasPipe
<1>3. ASSUME NEW k PROVE Still(s, Drain(s, p, k, <<>>)) /\ HasPipe(Drain(s, p, k, <<>>))
  <2> DEFINE t == scc_try_to_empty_writebuf(s, p, k, <<>>)
  <2>1. Still(s, t) /\ HasPipe(t)
    BY StillOutput, StillHas
  <2>2. Drain(s, p, k, <<>>) = IF s.scc[p].state = 3 THEN s ELSE Fresh(t, p)
    BY DEF Drain
  <2> HIDE DEF t
  <2>3. Still(s, Fresh(t, p)) /\ HasPipe(Fresh(t, p))
    BY <1>1, <2>1, StillTrans
  <2> QED BY <1>2, <2>2, <2>3
<1> QED BY <1>1, <1>3

LEMMA UpdateApart ==
  ASSUME LinkOnly, Apart(Now), scc_update
  PROVE  Apart(Now)'
<1> DEFINE s0 == Fresh(Now, 0)
           s == Fresh(s0, 1)
<1>0. 0 \in Port /\ 1 \in Port /\ 1 \in Port \ {0}
  BY DEF Port
<1>1. PICK in0 \in HostInput(s, 0), in1 \in HostInput(s, 1) :
        LET t == scc_try_fill_readbuf(scc_try_fill_readbuf(s, 0, in0), 1, in1)
        IN \E k0 \in 0..OutUsed(t.scc[0]), k1 \in 0..OutUsed(t.scc[1]),
              e0 \in Echo(t, 0), e1 \in Echo(t, 1) :
             Becomes(Drain(Drain(t, 0, k0, e0), 1, k1, e1))
  BY DEF scc_update
<1> DEFINE f == scc_try_fill_readbuf(s, 0, in0)
           t == scc_try_fill_readbuf(f, 1, in1)
<1>2. PICK k0 \in 0..OutUsed(t.scc[0]), k1 \in 0..OutUsed(t.scc[1]),
           e0 \in Echo(t, 0), e1 \in Echo(t, 1) :
             Becomes(Drain(Drain(t, 0, k0, e0), 1, k1, e1))
  BY <1>1
<1>3. e0 = <<>> /\ e1 = <<>>
  BY NoBurst
<1>4. TakesFirst(s, 0, in0) /\ TakesFirst(s, 1, in1)
  BY <1>0, InputTakes
<1> DEFINE d == Drain(t, 0, k0, <<>>)
           u == Drain(d, 1, k1, <<>>)
<1>5. Becomes(u)
  BY <1>2, <1>3
<1> HIDE DEF u
<1>6. Apart(s0)
  BY <1>0, FreshStill, StillApart DEF Apart
<1> HIDE DEF s0
<1>7. Apart(s)
  BY <1>0, <1>6, FreshStill, StillApart DEF Apart
<1> HIDE DEF s
<1>8. Apart(f) /\ SameBytes(f.scc[1], s.scc[1])
  BY <1>0, <1>4, <1>7, FillApart
<1> HIDE DEF f
<1>9. TakesFirst(f, 1, in1)
  BY <1>4, <1>8 DEF TakesFirst, SameBytes
<1>10. Apart(t)
  BY <1>0, <1>8, <1>9, FillApart
<1> HIDE DEF t
<1>11. Apart(d)
  BY <1>0, <1>10, FreshStill, StillApart DEF Apart
<1> HIDE DEF d
<1>12. Apart(u)
  BY <1>0, <1>11, FreshStill, StillApart DEF Apart, u
<1> QED BY <1>5, <1>12, ApartBecomes

LEMMA ResetApart ==
  ASSUME LinkOnly, Apart(Now), do_reset
  PROVE  Apart(Now)'
<1> DEFINE u == ResetOne(Now, 0)
           v == ResetOne(u, 1)
           t == [v EXCEPT !.irq = {}]
<1>0. 0 \in Port /\ 1 \in Port
  BY DEF Port
<1>1. Becomes(t)
  BY DEF do_reset, scc_reset
<1>2. Apart(u)
  BY <1>0, ResetOneApart
<1> HIDE DEF u
<1>3. Apart(v)
  BY <1>0, <1>2, ResetOneApart
<1> HIDE DEF v
<1>4. Still(v, t)
  BY <1>3, StillRest DEF Apart, HasPipe
<1> HIDE DEF t
<1> QED BY <1>1, <1>3, <1>4, StillApart, ApartBecomes

LEMMA InitApart ==
  ASSUME LinkOnly, Init
  PROVE  Apart(Now)
<1>1. ASSUME NEW p \in Port
      PROVE  PipeFields \subseteq DOMAIN Now.scc[p] /\ Fine(Now.scc[p])
  <2> DEFINE d == InitPort(p)
  <2>1. Now.scc[p] = d
    BY DEF Init, Now
  <2>2. /\ d.rx_queue = <<>> /\ d.in_buf = <<>> /\ ~d.sdlc_eof /\ ~d.loop
        /\ PipeFields \subseteq DOMAIN d
    BY DEF InitPort, PipeFields
  <2> HIDE DEF d
  <2>3. <<>> \in Seq(Byte) /\ <<>> \o <<>> = <<>>
    OBVIOUS
  <2>4. Fine(d)
    BY <2>2, <2>3, PartNone DEF Fine
  <2> QED BY <2>1, <2>2, <2>4
<1>2. "scc" \in DOMAIN Now /\ DOMAIN Now.scc = Port
  BY DEF Init, Now
<1> QED BY <1>1, <1>2 DEF Apart, HasPipe

LEMMA NextApart ==
  ASSUME LinkOnly, Apart(Now), [Next]_vars
  PROVE  Apart(Now)'
<1>1. CASE \E p \in UsedPorts : Cpu(p)
  <2>1. PICK p \in Port : Cpu(p)
    BY <1>1, SccAssumption DEF SccAssumption
  <2> QED BY <2>1, WriteRegApart, DataApart DEF Cpu
<1>2. CASE \E p \in Port, k \in Kind : do_scc_event(p, k)
  BY <1>2, EventApart
<1>3. CASE scc_update
  BY <1>3, UpdateApart
<1>4. CASE do_reset
  BY <1>4, ResetApart
<1>5. CASE UNCHANGED vars
  BY <1>5 DEF vars, Now, Apart, HasPipe, Fine, BytesLeft
<1> QED BY <1>1, <1>2, <1>3, <1>4, <1>5 DEF Next

LEMMA ApartKeeps ==
  ASSUME Apart(Now)
  PROVE  PacketsKeepApart
BY DEF Apart, Fine, Part, Now, PacketsKeepApart, OneFrameAtATime, EofMarksLastByte

(* On a LocalTalk port the receive side never holds bytes of two packets, and
   end of frame is flagged on the last byte only: for packets of any contents
   and length, both ports, any order of reads, resets, updates and events. *)
THEOREM SccPackets ==
  ASSUME LinkOnly
  PROVE  Spec => []PacketsKeepApart
<1>1. Init => Apart(Now)
  BY InitApart
<1>2. Apart(Now) /\ [Next]_vars => Apart(Now)'
  BY NextApart
<1>3. Apart(Now) => PacketsKeepApart
  BY ApartKeeps
<1> QED BY <1>1, <1>2, <1>3, PTL DEF Spec

(***************************************************************************)
(* The line of the modem is whole, whatever the other end, the host and    *)
(* the software do.  Whole is stated of any state s of driver and host,    *)
(* and each routine is followed from it, or from as much of it as holds in *)
(* the middle of another routine.                                          *)
(***************************************************************************)

LineFields ==
  {"sockfd", "rdwrfd", "socket_state", "socket_num_rings", "dcd", "was_reset", "modem_s0_val"}

Has(s) ==
  /\ {"m", "h"} \subseteq DOMAIN s
  /\ LineFields \subseteq DOMAIN s.m /\ "open" \in DOMAIN s.h

Fd == 0 .. 3

(* What is open is what the driver knows; a listening socket stays open while
   there is a call, and one that called out serves both ends. *)
Sockets(s) ==
  /\ s.m.sockfd \in Fd \cup {NoFd} /\ s.m.rdwrfd \in Fd \cup {NoFd}
  /\ s.m.rdwrfd # NoFd => s.m.sockfd # NoFd /\ s.h.open[s.m.rdwrfd] = "stream"
  /\ s.m.sockfd \notin {NoFd, s.m.rdwrfd} => s.h.open[s.m.sockfd] = "listen"
  /\ DOMAIN s.h.open = {s.m.sockfd, s.m.rdwrfd} \ {NoFd}

Told(s) ==
  /\ s.m.socket_num_rings \in Nat /\ s.m.modem_s0_val \in Nat
  /\ s.m.sockfd # NoFd => s.m.socket_state \in {0, 1}
  /\ s.m.socket_state = 1 => s.m.rdwrfd # NoFd /\ (s.m.dcd \/ s.m.was_reset)
  /\ s.m.dcd => s.m.rdwrfd # NoFd /\ s.m.socket_num_rings = 0
  /\ s.m.socket_num_rings > 0 => s.m.rdwrfd # NoFd /\ s.m.socket_state = 0
  /\ s.m.rdwrfd # NoFd => s.m.socket_num_rings > 0 \/ s.m.dcd \/ s.m.was_reset

Whole(s) == Has(s) /\ Sockets(s) /\ Told(s)

(* Nothing of the line changes. *)
Same(s, t) == Has(t) /\ (\A x \in LineFields : t.m[x] = s.m[x]) /\ t.h.open = s.h.open

(* Nothing is open; the rest is told by the state. *)
Shut(s, t) ==
  /\ Has(t) /\ t.m.sockfd = NoFd /\ t.m.rdwrfd = NoFd /\ DOMAIN t.h.open = {}
  /\ ~t.m.dcd /\ t.m.socket_num_rings = 0
  /\ t.m.was_reset = s.m.was_reset /\ t.m.modem_s0_val = s.m.modem_s0_val

(* The host calls whose failure leaves a socket open that the driver forgets. *)
Leaks == {"setsockopt", "fcntl of the call"}

LEMMA SameWhole ==
  ASSUME NEW s, NEW t, Whole(s), Same(s, t)
  PROVE  Whole(t)
BY DEF Whole, Same, Sockets, Told, LineFields

LEMMA SameTrans ==
  ASSUME NEW s, NEW t, NEW u, Same(s, t), Same(t, u)
  PROVE  Same(s, u)
BY DEF Same

LEMMA ShutWhole ==
  ASSUME NEW s, NEW t, Shut(s, t), s.m.modem_s0_val \in Nat, t.m.socket_state # 1
  PROVE  Whole(t)
BY DEF Shut, Whole, Sockets, Told

LEMMA LowestIsFree ==
  ASSUME NEW open, NEW a_1, NEW b_1, DOMAIN open \subseteq {a_1, b_1}
  PROVE  Lowest(open) \in Fd /\ Lowest(open) \notin DOMAIN open
<1> DEFINE D == DOMAIN open
           FreeAt(fd) == fd \notin D /\ \A low \in 0 .. fd - 1 : low \in D
<1>1. \E fd \in 0 .. 3 : FreeAt(fd)
  <2>1. CASE 0 \notin D
    BY <2>1
  <2>2. CASE 0 \in D /\ 1 \notin D
    BY <2>2
  <2>3. CASE 0 \in D /\ 1 \in D
    <3>1. 2 \notin D
      BY <2>3
    <3>2. \A low \in 0 .. 2 - 1 : low = 0 \/ low = 1
      OBVIOUS
    <3> QED BY <2>3, <3>1, <3>2
  <2> QED BY <2>1, <2>2, <2>3
<1> QED BY <1>1 DEF Lowest, Fd

LEMMA FdFacts == NoFd \notin Fd /\ NoFd < 0 /\ \A fd \in Fd : fd >= 0
BY DEF NoFd, Fd

(***************************************************************************)
(* Sockets.                                                                *)
(***************************************************************************)
LEMMA CloseHandleOk ==
  ASSUME NEW s, Has(s), NEW fd, NEW t, t = scc_socket_close_handle(s, fd)
  PROVE  /\ Has(t) /\ DOMAIN t.h.open = DOMAIN s.h.open \ {fd}
         /\ \A x \in LineFields : t.m[x] = s.m[x]
BY DEF scc_socket_close_handle, Has

LEMMA CloseOk ==
  ASSUME NEW s, Has(s), DOMAIN s.h.open \subseteq {s.m.sockfd, s.m.rdwrfd},
         NEW full, NEW t, t = scc_socket_close(s, full)
  PROVE  Shut(s, t) /\ t.m.socket_state = IF full THEN 0 ELSE s.m.socket_state
<1> DEFINE u == scc_socket_close_handle(s, s.m.rdwrfd)
           v == scc_socket_close_handle(u, s.m.sockfd)
<1>1. /\ Has(u) /\ DOMAIN u.h.open = DOMAIN s.h.open \ {s.m.rdwrfd}
      /\ \A x \in LineFields : u.m[x] = s.m[x]
  BY CloseHandleOk
<1>2. /\ Has(v) /\ DOMAIN v.h.open = DOMAIN u.h.open \ {s.m.sockfd}
      /\ \A x \in LineFields : v.m[x] = u.m[x]
  <2> HIDE DEF u
  <2> QED BY <1>1, CloseHandleOk
<1>3. t = Hung(v, full)
  BY <1>1 DEF scc_socket_close
<1> HIDE DEF u, v
<1>4. DOMAIN v.h.open = {} /\ \A x \in LineFields : v.m[x] = s.m[x]
  BY <1>1, <1>2
<1>5. /\ t.h = v.h /\ DOMAIN t = DOMAIN v /\ DOMAIN t.m = DOMAIN v.m
      /\ t.m.sockfd = NoFd /\ t.m.rdwrfd = NoFd /\ t.m.dcd = FALSE /\ t.m.socket_num_rings = 0
      /\ t.m.was_reset = v.m.was_reset /\ t.m.modem_s0_val = v.m.modem_s0_val
      /\ t.m.socket_state = IF full THEN 0 ELSE v.m.socket_state
  <2> DEFINE n == [v.m EXCEPT !.line = << >>, !.telnet_mode = 0, !.telnet_iac = FALSE,
                      !.local = {}, !.remote = {}, !.reqwill = {}, !.reqdo = {},
                      !.rdwrfd = NoFd, !.sockfd = NoFd, !.dcd = FALSE, !.socket_num_rings = 0,
                      !.at_once = FALSE,
                      !.socket_state = IF full THEN 0 ELSE v.m.socket_state]
  <2>1. t = [v EXCEPT !.m = n]
    BY <1>3 DEF Hung
  <2>2. /\ n.sockfd = NoFd /\ n.rdwrfd = NoFd /\ n.dcd = FALSE /\ n.socket_num_rings = 0
        /\ n.was_reset = v.m.was_reset /\ n.modem_s0_val = v.m.modem_s0_val
        /\ n.socket_state = IF full THEN 0 ELSE v.m.socket_state
        /\ DOMAIN n = DOMAIN v.m
    BY <1>2 DEF Has, LineFields
  <2> HIDE DEF n
  <2>3. t.m = n /\ t.h = v.h /\ DOMAIN t = DOMAIN v
    BY <1>2, <2>1 DEF Has
  <2> QED BY <2>2, <2>3
<1> QED BY <1>2, <1>4, <1>5 DEF Shut, Has, LineFields

LEMMA NonblockOk ==
  ASSUME NEW s, Has(s), DOMAIN s.h.open \subseteq {s.m.sockfd, s.m.rdwrfd},
         NEW fault, NEW t, t = scc_socket_make_nonblock(s, fault)
  PROVE  t = s \/ (Shut(s, t) /\ t.m.socket_state = -1)
<1> DEFINE u == scc_socket_close(s, TRUE)
<1>1. Shut(s, u)
  BY CloseOk
<1>2. t = s \/ t = Failed(u)
  BY DEF scc_socket_make_nonblock
<1> HIDE DEF u
<1> QED BY <1>1, <1>2 DEF Failed, Shut, Has, LineFields

LEMMA ClosedOk ==
  ASSUME NEW s, Has(s), DOMAIN s.h.open \subseteq {s.m.sockfd, s.m.rdwrfd},
         NEW t, t = Closed(s)
  PROVE  Shut(s, t) /\ t.m.socket_state = 0
<1> DEFINE u == scc_socket_close(s, FALSE)
<1>1. Shut(s, u)
  BY CloseOk
<1>2. t = [u EXCEPT !.m.socket_state = 0]
  BY DEF Closed
<1> HIDE DEF u
<1> QED BY <1>1, <1>2 DEF Shut, Has, LineFields

\* A socket that is opened where nothing is open.
LEMMA OpenedAlone ==
  ASSUME NEW open, DOMAIN open = {}, NEW kind
  PROVE  /\ Lowest(open) \in Fd
         /\ DOMAIN Opened(open, Lowest(open), kind) = {Lowest(open)}
         /\ Opened(open, Lowest(open), kind)[Lowest(open)] = kind
<1>1. Lowest(open) \in Fd
  BY LowestIsFree
<1> QED BY <1>1 DEF Opened

LEMMA OpensIncomingOk ==
  ASSUME NEW s, NEW z, Shut(z, s), z.m.modem_s0_val \in Nat, s.m.socket_state = 0,
         NEW fault, fault \notin Leaks, NEW t, t = OpensIncoming(s, fault)
  PROVE  Whole(t) /\ t.m.rdwrfd = NoFd
<1> DEFINE fd == Lowest(s.h.open)
           u == ListensAt(s, fd)
<1>1. CASE fault \in {"socket", "bind"}
  <2>1. t = Failed(s)
    BY <1>1 DEF OpensIncoming
  <2>2. Shut(z, t) /\ t.m.socket_state = -1
    BY <2>1 DEF Failed, Shut, Has, LineFields
  <2> QED BY <2>2, ShutWhole DEF Shut
<1>2. CASE fault \notin {"socket", "bind"}
  <2>1. t = scc_socket_make_nonblock(u, fault)
    BY <1>2 DEF OpensIncoming, Leaks
  <2>2. /\ fd \in Fd /\ DOMAIN Opened(s.h.open, fd, "listen") = {fd}
        /\ Opened(s.h.open, fd, "listen")[fd] = "listen"
    BY OpenedAlone DEF Shut
  <2> HIDE DEF fd
  <2>3. /\ Has(u) /\ u.m.sockfd = fd /\ u.h.open = Opened(s.h.open, fd, "listen")
        /\ \A x \in LineFields \ {"sockfd"} : u.m[x] = s.m[x]
    BY DEF ListensAt, Shut, Has, LineFields
  <2> HIDE DEF u
  <2>4. t = u \/ (Shut(u, t) /\ t.m.socket_state = -1)
    BY <2>1, <2>2, <2>3, NonblockOk
  <2>5. Whole(u) /\ u.m.rdwrfd = NoFd
    BY <2>2, <2>3, FdFacts DEF Whole, Sockets, Told, Shut, LineFields
  <2>6. CASE Shut(u, t) /\ t.m.socket_state = -1
    BY <2>5, <2>6, ShutWhole DEF Whole, Told, Shut
  <2> QED BY <2>4, <2>5, <2>6
<1> QED BY <1>1, <1>2

LEMMA IncomingOk ==
  ASSUME NEW s, Whole(s), NEW fault, fault \notin Leaks,
         NEW t, t = scc_socket_maybe_open_incoming(s, fault)
  PROVE  Whole(t) /\ t.m.rdwrfd = s.m.rdwrfd /\ (s.m.sockfd # NoFd => t = s)
<1>1. CASE s.m.sockfd # NoFd
  BY <1>1 DEF scc_socket_maybe_open_incoming
<1>2. CASE s.m.sockfd = NoFd
  <2> DEFINE u == Closed(s)
  <2>1. t = OpensIncoming(u, fault)
    BY <1>2 DEF scc_socket_maybe_open_incoming
  <2>2. Shut(s, u) /\ u.m.socket_state = 0
    BY ClosedOk DEF Whole, Sockets
  <2> HIDE DEF u
  <2>3. Whole(t) /\ t.m.rdwrfd = NoFd
    BY <2>1, <2>2, OpensIncomingOk DEF Whole, Told
  <2> QED BY <1>2, <2>3 DEF Whole, Sockets
<1> QED BY <1>1, <1>2

LEMMA OutgoingOk ==
  ASSUME NEW s, Whole(s), NEW fault, fault \notin Leaks,
         NEW t, t = scc_socket_open_outgoing(s, fault)
  PROVE  Whole(t)
<1> DEFINE c == Closed(s)
           fd == Lowest(c.h.open)
           u == Connected(c, fd)
           v == scc_socket_make_nonblock(u, fault)
           bad == {"socket", "port", "lookup", "connect"}
<1>1. Shut(s, c) /\ c.m.socket_state = 0 /\ s.m.modem_s0_val \in Nat
  BY ClosedOk DEF Whole, Sockets, Told
<1>2. t = OpensOutgoing(c, fault)
  BY DEF scc_socket_open_outgoing
<1> HIDE DEF c
<1>3. CASE fault \in bad
  <2> DEFINE w == scc_socket_close(c, TRUE)
  <2>1. t = w
    BY <1>2, <1>3 DEF OpensOutgoing
  <2>2. Shut(c, w) /\ w.m.socket_state = 0
    BY <1>1, CloseOk DEF Shut
  <2> HIDE DEF w
  <2> QED BY <1>1, <2>1, <2>2, ShutWhole DEF Shut
<1>4. CASE fault \notin bad
  <2>1. t = OneSocket(v)
    BY <1>2, <1>4 DEF OpensOutgoing, Leaks
  <2>2. /\ fd \in Fd /\ DOMAIN Opened(c.h.open, fd, "stream") = {fd}
        /\ Opened(c.h.open, fd, "stream")[fd] = "stream"
    BY <1>1, OpenedAlone DEF Shut
  <2> HIDE DEF fd
  <2>3. /\ Has(u) /\ u.m.sockfd = fd /\ u.h.open = Opened(c.h.open, fd, "stream")
        /\ u.m.dcd = TRUE /\ u.m.socket_state = 1 /\ u.m.socket_num_rings = 0
        /\ u.m.rdwrfd = NoFd /\ u.m.modem_s0_val = s.m.modem_s0_val
    BY <1>1 DEF Connected, Shut, Has, LineFields
  <2> HIDE DEF u
  <2>4. v = u \/ (Shut(u, v) /\ v.m.socket_state = -1)
    BY <2>2, <2>3, NonblockOk
  <2> HIDE DEF v
  <2>5. CASE v = u
    <3>1. /\ Has(t) /\ t.m.rdwrfd = fd /\ t.h = u.h
          /\ \A x \in LineFields \ {"rdwrfd"} : t.m[x] = u.m[x]
      BY <2>1, <2>3, <2>5 DEF OneSocket, Has, LineFields
    <3> QED BY <1>1, <2>2, <2>3, <3>1, FdFacts DEF Whole, Sockets, Told, LineFields
  <2>6. CASE Shut(u, v) /\ v.m.socket_state = -1
    <3>1. Shut(u, t) /\ t.m.socket_state = -1
      BY <2>1, <2>6 DEF OneSocket, Shut, Has, LineFields
    <3> QED BY <1>1, <2>3, <3>1, ShutWhole
  <2> QED BY <2>4, <2>5, <2>6
<1> QED BY <1>3, <1>4

(***************************************************************************)
(* What leaves the line as it is.                                          *)
(***************************************************************************)
LEMMA OutOk ==
  ASSUME NEW s, Has(s), NEW what, NEW t, t = Out(s, what)
  PROVE  Same(s, t)
<1> DEFINE o == IF Len(s.m.out) < OutSize THEN Append(s.m.out, what) ELSE s.m.out
<1>1. t = [s EXCEPT !.m.out = o]
  BY DEF Out
<1> HIDE DEF o
<1> QED BY <1>1 DEF Same, Has, LineFields

LEMMA ReqsOk ==
  ASSUME NEW s, Has(s), NEW t, t = scc_socket_telnet_reqs(s)
  PROVE  Same(s, t)
<1>1. PICK o : t = [s EXCEPT !.m.out = o]
  BY DEF scc_socket_telnet_reqs
<1> QED BY <1>1 DEF Same, Has, LineFields

LEMMA RepliedOk ==
  ASSUME NEW s, Has(s), NEW reply, NEW t, t = Replied(s, reply)
  PROVE  Same(s, t)
<1>1. CASE reply = << >>
  BY <1>1 DEF Replied, Same
<1>2. CASE reply # << >>
  BY <1>2, OutOk DEF Replied
<1> QED BY <1>1, <1>2

LEMMA SwitchedOk ==
  ASSUME NEW s, Has(s), NEW c, NEW mode, NEW t, t = Switched(s, c, mode)
  PROVE  Same(s, t)
<1>1. ASSUME NEW turned, t = SwitchedLocal(s, turned) PROVE Same(s, t)
  <2> DEFINE u == Replied(s, turned.reply)
  <2>1. Same(s, u)
    BY RepliedOk
  <2>2. t = [u EXCEPT !.m.local = turned.on, !.m.reqwill = turned.asked]
    BY <1>1 DEF SwitchedLocal
  <2> HIDE DEF u
  <2> QED BY <2>1, <2>2 DEF Same, Has, LineFields
<1>2. ASSUME NEW turned, t = SwitchedRemote(s, turned) PROVE Same(s, t)
  <2> DEFINE u == Replied(s, turned.reply)
  <2>1. Same(s, u)
    BY RepliedOk
  <2>2. t = [u EXCEPT !.m.remote = turned.on, !.m.reqdo = turned.asked]
    BY <1>2 DEF SwitchedRemote
  <2> HIDE DEF u
  <2> QED BY <2>1, <2>2 DEF Same, Has, LineFields
<1>3. CASE mode \in {DO, DONT}
  <2>1. t = SwitchedLocal(s, Turned(s.m.local, s.m.reqwill, c, "will", "wont", mode))
    BY <1>3 DEF Switched, DO, DONT, WILL, WONT
  <2> QED BY <1>1, <2>1
<1>4. CASE mode \notin {DO, DONT} /\ mode \in {WILL, WONT}
  <2>1. t = SwitchedRemote(s, Turned(s.m.remote, s.m.reqdo, c, "do", "dont", mode))
    BY <1>4 DEF Switched, DO, DONT, WILL, WONT
  <2> QED BY <1>2, <2>1
<1>5. CASE mode \notin {DO, DONT} /\ mode \notin {WILL, WONT}
  BY <1>5 DEF Switched, Same
<1> QED BY <1>3, <1>4, <1>5

LEMMA ParsedOk ==
  ASSUME NEW s, Has(s), NEW c, NEW t, t = Parsed(s, c)
  PROVE  Same(s, t)
<1>1. CASE c = IAC /\ ~s.m.telnet_iac
  <2>1. t = [s EXCEPT !.m.telnet_iac = TRUE]
    BY <1>1 DEF Parsed
  <2> QED BY <2>1 DEF Same, Has, LineFields
<1>2. CASE ~(c = IAC /\ ~s.m.telnet_iac)
  <2> DEFINE u == Switched(s, c, s.m.telnet_mode)
  <2>1. Same(s, u)
    BY SwitchedOk
  <2>2. PICK mode : t = [u EXCEPT !.m.telnet_iac = FALSE, !.m.telnet_mode = mode]
    BY <1>2 DEF Parsed
  <2> HIDE DEF u
  <2> QED BY <2>1, <2>2 DEF Same, Has, LineFields
<1> QED BY <1>1, <1>2

LEMMA ScannedOk ==
  ASSUME NEW s, Has(s), NEW t, t = Scanned(s)
  PROVE  Same(s, t)
<1>1. PICK m : t = [s EXCEPT !.m.pause = m.pause, !.m.modem_plus_mode = m.modem_plus_mode]
  BY DEF Scanned
<1> QED BY <1>1 DEF Same, Has, LineFields

LEMMA SentOk ==
  ASSUME NEW s, Has(s), NEW n, NEW t, t = Sent(s, n)
  PROVE  Same(s, t)
<1> DEFINE o == SubSeq(s.m.out, n + 1, Len(s.m.out))
           from == s.h.peer.fromDriver \o SelectSeq(SubSeq(s.m.out, 1, n), LAMBDA e : e[1] # "char")
<1>1. t = [s EXCEPT !.m.out = o, !.h.peer.fromDriver = from]
  BY DEF Sent
<1> HIDE DEF o, from
<1> QED BY <1>1 DEF Same, Has, LineFields

LEMMA TakesOk ==
  ASSUME NEW s, Has(s), NEW n, NEW t, t = Takes(s, n)
  PROVE  Same(s, t)
<1> DEFINE o == SubSeq(s.h.peer.toDriver, n + 1, Len(s.h.peer.toDriver))
<1>1. t = [s EXCEPT !.h.peer.toDriver = o]
  BY DEF Takes
<1> HIDE DEF o
<1> QED BY <1>1 DEF Same, Has, LineFields

(***************************************************************************)
(* Calls that come in.                                                     *)
(***************************************************************************)
LEMMA AnsweredOk ==
  ASSUME NEW s, Has(s), Sockets(s), s.m.rdwrfd # NoFd, s.m.modem_s0_val \in Nat,
         NEW t, t = Answered(s)
  PROVE  Whole(t)
<1> DEFINE u == [s EXCEPT !.m.socket_state = 1]
           v == scc_socket_telnet_reqs(u)
<1>1. /\ Has(u) /\ u.h = s.h /\ u.m.socket_state = 1
      /\ \A x \in LineFields \ {"socket_state"} : u.m[x] = s.m[x]
  BY DEF Has, LineFields
<1> HIDE DEF u
<1>2. Same(u, v)
  BY <1>1, ReqsOk
<1>3. t = [v EXCEPT !.m.dcd = TRUE, !.m.socket_num_rings = 0]
  BY DEF Answered, Carrier, u
<1> HIDE DEF v
<1>4. /\ Has(t) /\ t.h = v.h /\ t.m.dcd = TRUE /\ t.m.socket_num_rings = 0
      /\ \A x \in LineFields \ {"dcd", "socket_num_rings"} : t.m[x] = v.m[x]
  BY <1>2, <1>3 DEF Same, Has, LineFields
<1> QED BY <1>1, <1>2, <1>4 DEF Whole, Sockets, Told, Same, LineFields

LEMMA RungOk ==
  ASSUME NEW s, Has(s), Sockets(s), s.m.rdwrfd # NoFd, s.m.modem_s0_val \in Nat,
         s.m.socket_num_rings \in Nat, s.m.socket_state = 0, ~s.m.dcd,
         NEW t, t = Rung(s)
  PROVE  Whole(t)
<1>1. CASE s.m.socket_num_rings > 0
  <2>1. t = s
    BY <1>1 DEF Rung
  <2>2. Told(s)
    BY <1>1 DEF Told
  <2> QED BY <2>1, <2>2 DEF Whole
<1>2. CASE ~(s.m.socket_num_rings > 0) /\ (s.m.modem_s0_val > 0 \/ ~g_serial_modem)
  BY <1>2, AnsweredOk DEF Rung
<1>3. CASE ~(s.m.socket_num_rings > 0) /\ ~(s.m.modem_s0_val > 0 \/ ~g_serial_modem)
  <2> DEFINE u == scc_socket_close(s, FALSE)
  <2>1. t = u
    BY <1>3 DEF Rung
  <2>2. Shut(s, u) /\ u.m.socket_state = 0
    BY CloseOk DEF Sockets
  <2> HIDE DEF u
  <2> QED BY <2>1, <2>2, ShutWhole
<1> QED BY <1>1, <1>2, <1>3

LEMMA RingOk ==
  ASSUME NEW s, Whole(s), NEW t, t = scc_socket_modem_do_ring(s)
  PROVE  Whole(t)
<1> DEFINE left == IF g_serial_modem THEN s.m.socket_num_rings - 1 ELSE 0
           u == [s EXCEPT !.m.socket_num_rings = left, !.m.ring_due = s.h.late]
           stays == \/ s.m.socket_num_rings = 0 \/ s.m.socket_state # 0
                    \/ ~s.m.ring_due /\ g_serial_modem
<1>1. CASE stays
  BY <1>1 DEF scc_socket_modem_do_ring
<1>2. CASE ~stays
  <2>1. t = Rung(u)
    BY <1>2 DEF scc_socket_modem_do_ring
  <2>2. left \in Nat /\ s.m.socket_num_rings > 0
    BY <1>2 DEF Whole, Told
  <2> HIDE DEF left
  <2>3. /\ Has(u) /\ u.h = s.h /\ u.m.socket_num_rings = left
        /\ \A x \in LineFields \ {"socket_num_rings"} : u.m[x] = s.m[x]
    BY DEF Whole, Has, LineFields
  <2> HIDE DEF u
  <2>4. /\ Sockets(u) /\ u.m.rdwrfd # NoFd /\ u.m.modem_s0_val \in Nat
        /\ u.m.socket_state = 0 /\ ~u.m.dcd
    BY <1>2, <2>2, <2>3 DEF Whole, Sockets, Told, LineFields
  <2> QED BY <2>1, <2>2, <2>3, <2>4, RungOk
<1> QED BY <1>1, <1>2

\* A second socket, beside the one that listens.
LEMMA OpenedBeside ==
  ASSUME NEW open, NEW fd_1, DOMAIN open = {fd_1}, NEW kind
  PROVE  /\ Lowest(open) \in Fd /\ Lowest(open) # fd_1
         /\ DOMAIN Opened(open, Lowest(open), kind) = {fd_1, Lowest(open)}
         /\ Opened(open, Lowest(open), kind)[Lowest(open)] = kind
         /\ Opened(open, Lowest(open), kind)[fd_1] = open[fd_1]
<1>1. Lowest(open) \in Fd /\ Lowest(open) \notin DOMAIN open
  BY LowestIsFree
<1> QED BY <1>1 DEF Opened

LEMMA AcceptsOk ==
  ASSUME NEW s, Whole(s), NEW fault, fault \notin Leaks, NEW t, t = Accepts(s, fault)
  PROVE  Whole(t)
<1> DEFINE fd == Lowest(s.h.open)
           stays == \/ s.m.sockfd = NoFd \/ s.m.rdwrfd # NoFd
                    \/ s.h.peer.is # "calling" \/ fault = "accept"
           rings == IF s.m.modem_s0_val > 0 THEN s.m.modem_s0_val ELSE Rings
           w == Taken(s, fd)
           u == [w EXCEPT !.m.rdwrfd = fd, !.m.ring_due = TRUE, !.m.socket_num_rings = rings]
           v == FirstRing(s, fd)
<1>1. CASE stays
  BY <1>1 DEF Accepts
<1>2. CASE ~stays
  <2>1. t = [v EXCEPT !.m.reqwill = Requested, !.m.reqdo = Requested,
                       !.m.at_once = v.m.socket_state = 1]
    BY <1>2 DEF Accepts, Leaks
  <2>2. v = scc_socket_modem_do_ring(u)
    BY DEF FirstRing
  <2>3. rings \in Nat /\ rings > 0
    BY ModemAssumption DEF ModemAssumption, Whole, Told
  <2> HIDE DEF rings
  <2>4. DOMAIN s.h.open = {s.m.sockfd}
    BY <1>2 DEF Whole, Sockets
  <2>5. /\ fd \in Fd /\ fd # s.m.sockfd
        /\ DOMAIN Opened(s.h.open, fd, "stream") = {s.m.sockfd, fd}
        /\ Opened(s.h.open, fd, "stream")[fd] = "stream"
        /\ Opened(s.h.open, fd, "stream")[s.m.sockfd] = s.h.open[s.m.sockfd]
    <3> DEFINE open == s.h.open
               sock == s.m.sockfd
    <3>1. DOMAIN open = {sock}
      BY <2>4
    <3> HIDE DEF open, sock
    <3>2. /\ Lowest(open) \in Fd /\ Lowest(open) # sock
          /\ DOMAIN Opened(open, Lowest(open), "stream") = {sock, Lowest(open)}
          /\ Opened(open, Lowest(open), "stream")[Lowest(open)] = "stream"
          /\ Opened(open, Lowest(open), "stream")[sock] = open[sock]
      BY <3>1, OpenedBeside
    <3> QED BY <3>2 DEF open, sock
  <2> HIDE DEF fd
  <2>6. Has(w) /\ w.m = s.m /\ w.h.open = Opened(s.h.open, fd, "stream")
    BY DEF Taken, Whole, Has
  <2> HIDE DEF w
  <2>7. /\ Has(u) /\ u.h = w.h /\ u.m.rdwrfd = fd /\ u.m.socket_num_rings = rings
        /\ \A x \in LineFields \ {"rdwrfd", "socket_num_rings"} : u.m[x] = s.m[x]
    BY <2>6 DEF Has, LineFields
  <2> HIDE DEF u
  <2>8. Whole(u)
    <3>1. Sockets(u)
      BY <1>2, <2>5, <2>6, <2>7, FdFacts DEF Whole, Sockets, LineFields
    <3>2. Told(u)
      BY <1>2, <2>3, <2>5, <2>7, FdFacts DEF Whole, Told, LineFields
    <3> QED BY <2>7, <3>1, <3>2 DEF Whole
  <2>9. Whole(v)
    BY <2>2, <2>8, RingOk
  <2> HIDE DEF v
  <2>10. Same(v, t)
    <3> DEFINE n == [v.m EXCEPT !.reqwill = Requested, !.reqdo = Requested,
                                !.at_once = v.m.socket_state = 1]
    <3>1. Has(v)
      BY <2>9 DEF Whole
    <3>2. t = [v EXCEPT !.m = n]
      BY <2>1
    <3>3. DOMAIN n = DOMAIN v.m /\ \A x \in LineFields : n[x] = v.m[x]
      BY <3>1 DEF Has, LineFields
    <3> HIDE DEF n
    <3>4. t.m = n /\ t.h = v.h /\ DOMAIN t = DOMAIN v
      BY <3>1, <3>2 DEF Has
    <3> QED BY <3>1, <3>3, <3>4 DEF Same, Has
  <2> QED BY <2>9, <2>10, SameWhole
<1> QED BY <1>1, <1>2

LEMMA AcceptOk ==
  ASSUME NEW s, Whole(s), NEW fault, fault \notin Leaks, NEW t, t = scc_accept_socket(s, fault)
  PROVE  Whole(t)
<1> DEFINE u == scc_socket_maybe_open_incoming(s, fault)
<1>1. Whole(u)
  BY IncomingOk
<1>2. t = Accepts(u, fault)
  BY DEF scc_accept_socket
<1> HIDE DEF u
<1> QED BY <1>1, <1>2, AcceptsOk

LEMMA AnswerOk ==
  ASSUME NEW s, Whole(s), NEW fault, fault \notin Leaks, NEW t, t = scc_socket_do_answer(s, fault)
  PROVE  Whole(t)
<1> DEFINE u == scc_accept_socket(s, fault)
           v == scc_socket_close(u, TRUE)
<1>1. Whole(u)
  BY AcceptOk
<1>2. t = AnswersOn(u)
  BY DEF scc_socket_do_answer
<1> HIDE DEF u
<1>3. CASE u.m.rdwrfd = NoFd
  <2>1. t = v
    BY <1>2, <1>3 DEF AnswersOn
  <2>2. Shut(u, v) /\ v.m.socket_state = 0
    BY <1>1, CloseOk DEF Whole, Sockets
  <2> HIDE DEF v
  <2> QED BY <1>1, <2>1, <2>2, ShutWhole DEF Whole, Told
<1>4. CASE u.m.rdwrfd # NoFd
  BY <1>1, <1>2, <1>4, AnsweredOk DEF AnswersOn, Whole, Told
<1> QED BY <1>3, <1>4

(***************************************************************************)
(* Bytes from the other end.                                               *)
(***************************************************************************)
LEMMA RecvdOk ==
  ASSUME NEW s, Whole(s), NEW c, NEW fault, fault \notin Leaks,
         NEW t, t = scc_socket_recvd_char(s, c, fault)
  PROVE  Whole(t)
<1> DEFINE u == scc_socket_maybe_open_incoming(s, fault)
<1>1. Whole(u)
  BY IncomingOk
<1>2. t = Parsed(u, c)
  BY DEF scc_socket_recvd_char
<1> HIDE DEF u
<1>3. Same(u, t)
  BY <1>1, <1>2, ParsedOk DEF Whole
<1> QED BY <1>1, <1>3, SameWhole

LEMMA ReceivesOk ==
  ASSUME NEW s, Whole(s), NEW n \in Nat, NEW fault, fault \notin Leaks,
         NEW t, t = Receives(s, n, fault)
  PROVE  Whole(t)
<1> DEFINE bytes == s.h.peer.toDriver
           first == Takes(s, n)
           Turned1(i, u) == IF i > Len(bytes) \/ bytes[i] = 0 THEN u
                            ELSE scc_socket_recvd_char(u, bytes[i], fault)
           Loop(f, k) == f = [i \in 0 .. k |-> IF i = 0 THEN first ELSE Turned1(i, f[i - 1])]
           after == CHOOSE f : Loop(f, n)
<1>1. t = after[n]
  BY DEF Receives
<1>2. Whole(first)
  <2>1. Same(s, first)
    BY TakesOk DEF Whole
  <2> HIDE DEF first
  <2> QED BY <2>1, SameWhole
<1>3. ASSUME NEW i, NEW u, Whole(u) PROVE Whole(Turned1(i, u))
  <2> HIDE DEF bytes
  <2>1. CASE i > Len(bytes) \/ bytes[i] = 0
    BY <1>3, <2>1
  <2>2. CASE ~(i > Len(bytes) \/ bytes[i] = 0)
    BY <1>3, <2>2, RecvdOk
  <2> QED BY <2>1, <2>2
<1> HIDE DEF first, Turned1
<1>4. Loop(after, n)
  <2> DEFINE T == {k \in Nat : \E f : Loop(f, k)}
  <2>1. 0 \in T
    <3>1. Loop([i \in 0 .. 0 |-> first], 0)
      OBVIOUS
    <3> QED BY <3>1
  <2>2. ASSUME NEW k \in Nat, k \in T PROVE k + 1 \in T
    <3>1. PICK f : Loop(f, k)
      BY <2>2
    <3> DEFINE g == [i \in 0 .. k + 1 |-> IF i = k + 1 THEN Turned1(k + 1, f[k]) ELSE f[i]]
    <3>2. ASSUME NEW i \in 0 .. k + 1
          PROVE  g[i] = IF i = 0 THEN first ELSE Turned1(i, g[i - 1])
      <4>1. CASE i = k + 1
        BY <4>1
      <4>2. CASE i \in 0 .. k
        BY <4>2, <3>1
      <4> QED BY <4>1, <4>2
    <3>3. Loop(g, k + 1)
      BY <3>2
    <3> HIDE DEF g
    <3> QED BY <3>3
  <2> HIDE DEF T
  <2>3. n \in T
    BY <2>1, <2>2, SetInduction
  <2> QED BY <2>3 DEF T
<1> HIDE DEF after
<1>5. ASSUME NEW k \in 0 .. n PROVE Whole(after[k])
  <2> DEFINE T == {j \in Nat : j <= n => Whole(after[j])}
  <2>1. 0 \in T
    BY <1>2, <1>4
  <2>2. ASSUME NEW j \in Nat, j \in T PROVE j + 1 \in T
    <3>1. CASE j + 1 <= n
      <4>1. after[j + 1] = Turned1(j + 1, after[j]) /\ Whole(after[j])
        BY <1>4, <2>2, <3>1
      <4> QED BY <1>3, <4>1
    <3>2. CASE ~(j + 1 <= n)
      BY <3>2
    <3> QED BY <3>1, <3>2
  <2> HIDE DEF T
  <2>3. k \in T
    BY <2>1, <2>2, SetInduction
  <2> QED BY <2>3 DEF T
<1> QED BY <1>1, <1>5

LEMMA FillsOk ==
  ASSUME NEW s, Whole(s), NEW n \in Nat, NEW fault, fault \notin Leaks,
         NEW t, t = scc_socket_fill_readbuf(s, n, fault)
  PROVE  Whole(t)
<1> DEFINE u == scc_accept_socket(s, fault)
           v == scc_socket_modem_do_ring(u)
           w == scc_socket_close(v, TRUE)
<1>1. Whole(u)
  BY AcceptOk
<1> HIDE DEF u
<1>2. Whole(v)
  BY <1>1, RingOk
<1>3. t = FillsFrom(v, n, fault)
  BY DEF scc_socket_fill_readbuf, u
<1> HIDE DEF v
<1>4. t \in {v, w} \/ t = Receives(v, n, fault)
  BY <1>3 DEF FillsFrom
<1>5. Whole(w)
  <2>1. Shut(v, w) /\ w.m.socket_state = 0
    BY <1>2, CloseOk DEF Whole, Sockets
  <2> HIDE DEF w
  <2> QED BY <1>2, <2>1, ShutWhole DEF Whole, Told
<1> HIDE DEF w
<1> QED BY <1>2, <1>4, <1>5, ReceivesOk

(***************************************************************************)
(* Commands.                                                               *)
(***************************************************************************)
LEMMA ObeyedOk ==
  ASSUME NEW s, Whole(s), NEW c, NEW fault, fault \notin Leaks, NEW t, t = Obeyed(s, c, fault)
  PROVE  Whole(t)
<1> DEFINE hung == scc_socket_close(s, s.m.rdwrfd # NoFd)
           on == IF Online(s.m) THEN 1 ELSE s.m.socket_state
           rings == {"s0=0", "s0=1", "s0=2"}
           auto == CHOOSE v \in 0 .. 2 : c = <<"s0=0", "s0=1", "s0=2">>[v + 1]
<1>1. CASE c = "z"
  <2>1. t = [s EXCEPT !.m.modem_s0_val = 0]
    BY <1>1 DEF Obeyed
  <2> QED BY <2>1 DEF Whole, Has, Sockets, Told, LineFields
<1>2. CASE c = "o"
  <2>1. t = [s EXCEPT !.m.socket_state = on]
    BY <1>2 DEF Obeyed
  <2>2. CASE Online(s.m)
    <3>1. on = 1 /\ s.m.dcd /\ s.m.rdwrfd # NoFd
      BY <2>2 DEF Online
    <3> HIDE DEF on
    <3> QED BY <2>1, <3>1 DEF Whole, Has, Sockets, Told, LineFields
  <2>3. CASE ~Online(s.m)
    <3>1. on = s.m.socket_state
      BY <2>3
    <3> HIDE DEF on
    <3> QED BY <2>1, <3>1 DEF Whole, Has, Sockets, Told, LineFields
  <2> QED BY <2>2, <2>3
<1>3. CASE c = "h"
  <2>1. t = hung
    BY <1>3 DEF Obeyed
  <2>2. Shut(s, hung) /\ hung.m.socket_state = IF s.m.rdwrfd # NoFd THEN 0 ELSE s.m.socket_state
    BY CloseOk DEF Whole, Sockets
  <2> HIDE DEF hung
  <2>3. hung.m.socket_state # 1
    BY <2>2 DEF Whole, Told
  <2> QED BY <2>1, <2>2, <2>3, ShutWhole DEF Whole, Told
<1>4. CASE c = "a"
  <2>1. t = scc_socket_do_answer(s, fault)
    BY <1>4 DEF Obeyed
  <2> QED BY <2>1, AnswerOk
<1>5. CASE c = "d"
  <2>1. t = scc_socket_open_outgoing(s, fault)
    BY <1>5 DEF Obeyed
  <2> QED BY <2>1, OutgoingOk
<1>6. CASE c \in rings
  <2>1. t = [s EXCEPT !.m.modem_s0_val = auto]
    BY <1>6 DEF Obeyed
  <2>2. \E v \in 0 .. 2 : c = <<"s0=0", "s0=1", "s0=2">>[v + 1]
    <3>1. CASE c = "s0=0"
      <4>1. c = <<"s0=0", "s0=1", "s0=2">>[0 + 1]
        BY <3>1
      <4> QED BY <4>1
    <3>2. CASE c = "s0=1"
      <4>1. c = <<"s0=0", "s0=1", "s0=2">>[1 + 1]
        BY <3>2
      <4> QED BY <4>1
    <3>3. CASE c = "s0=2"
      <4>1. c = <<"s0=0", "s0=1", "s0=2">>[2 + 1]
        BY <3>3
      <4> QED BY <4>1
    <3> QED BY <1>6, <3>1, <3>2, <3>3
  <2>3. auto \in Nat
    BY <2>2
  <2> HIDE DEF auto
  <2> QED BY <2>1, <2>3 DEF Whole, Has, Sockets, Told, LineFields
<1>7. CASE c \notin {"z", "o", "h", "a", "d"} \cup rings
  BY <1>7 DEF Obeyed
<1> QED BY <1>1, <1>2, <1>3, <1>4, <1>5, <1>6, <1>7

LEMMA ObeysOk ==
  ASSUME NEW r, Whole(r.s), NEW c, NEW fault, fault \notin Leaks, NEW q, q = Obeys(r, c, fault)
  PROVE  Whole(q.s)
<1>1. CASE r.goes
  <2>1. q.s = Obeyed(r.s, c, fault)
    BY <1>1 DEF Obeys
  <2> QED BY <2>1, ObeyedOk
<1>2. CASE ~r.goes
  BY <1>2 DEF Obeys
<1> QED BY <1>1, <1>2

LEMMA CmdStrOk ==
  ASSUME NEW s, Whole(s), NEW fault, fault \notin Leaks, NEW t, t = scc_socket_do_cmd_str(s, fault)
  PROVE  Whole(t)
<1> DEFINE first == [s |-> s, goes |-> TRUE]
           Obeyed1(i, r) == IF i >= Len(s.m.line) THEN r ELSE Obeys(r, s.m.line[i + 1], fault)
           Loop(f, k) == f = [i \in 0 .. k |-> IF i = 0 THEN first ELSE Obeyed1(i, f[i - 1])]
           after == CHOOSE f : Loop(f, MaxLine)
<1>1. t = s \/ t = after[MaxLine].s
  BY DEF scc_socket_do_cmd_str
<1>2. MaxLine \in Nat
  BY ModemAssumption DEF ModemAssumption
<1>3. Whole(first.s)
  OBVIOUS
<1>4. ASSUME NEW i, NEW r, Whole(r.s) PROVE Whole(Obeyed1(i, r).s)
  <2>1. CASE i >= Len(s.m.line)
    BY <1>4, <2>1
  <2>2. CASE ~(i >= Len(s.m.line))
    <3>1. Obeyed1(i, r) = Obeys(r, s.m.line[i + 1], fault)
      BY <2>2
    <3> HIDE DEF Obeyed1
    <3> QED BY <1>4, <3>1, ObeysOk
  <2> QED BY <2>1, <2>2
<1> HIDE DEF first, Obeyed1
<1>5. Loop(after, MaxLine)
  <2> DEFINE T == {k \in Nat : \E f : Loop(f, k)}
  <2>1. 0 \in T
    <3>1. Loop([i \in 0 .. 0 |-> first], 0)
      OBVIOUS
    <3> QED BY <3>1
  <2>2. ASSUME NEW k \in Nat, k \in T PROVE k + 1 \in T
    <3>1. PICK f : Loop(f, k)
      BY <2>2
    <3> DEFINE g == [i \in 0 .. k + 1 |-> IF i = k + 1 THEN Obeyed1(k + 1, f[k]) ELSE f[i]]
    <3>2. ASSUME NEW i \in 0 .. k + 1
          PROVE  g[i] = IF i = 0 THEN first ELSE Obeyed1(i, g[i - 1])
      <4>1. CASE i = k + 1
        BY <4>1
      <4>2. CASE i \in 0 .. k
        BY <4>2, <3>1
      <4> QED BY <4>1, <4>2
    <3>3. Loop(g, k + 1)
      BY <3>2
    <3> HIDE DEF g
    <3> QED BY <3>3
  <2> HIDE DEF T
  <2>3. MaxLine \in T
    BY <1>2, <2>1, <2>2, SetInduction
  <2> QED BY <2>3 DEF T
<1> HIDE DEF after
<1>6. ASSUME NEW k \in 0 .. MaxLine PROVE Whole(after[k].s)
  <2> DEFINE T == {j \in Nat : j <= MaxLine => Whole(after[j].s)}
  <2>1. 0 \in T
    BY <1>2, <1>3, <1>5
  <2>2. ASSUME NEW j \in Nat, j \in T PROVE j + 1 \in T
    <3>1. CASE j + 1 <= MaxLine
      <4>1. after[j + 1] = Obeyed1(j + 1, after[j]) /\ Whole(after[j].s)
        BY <1>2, <1>5, <2>2, <3>1
      <4> QED BY <1>4, <4>1
    <3>2. CASE ~(j + 1 <= MaxLine)
      BY <3>2
    <3> QED BY <3>1, <3>2
  <2> HIDE DEF T
  <2>3. k \in T
    BY <1>2, <2>1, <2>2, SetInduction
  <2> QED BY <2>3 DEF T
<1> QED BY <1>1, <1>2, <1>6

(***************************************************************************)
(* What the software writes.                                               *)
(***************************************************************************)
\* Where there is no call, the driver may say that it is disconnected.
LEMMA IdleOk ==
  ASSUME NEW s, Whole(s), s.m.rdwrfd = NoFd, NEW t, t = [s EXCEPT !.m.socket_state = 0]
  PROVE  Whole(t)
BY DEF Whole, Has, Sockets, Told, LineFields

LEMMA ListeningOk ==
  ASSUME NEW s, Whole(s), NEW fault, fault \notin Leaks, NEW t, t = Listening(s, fault)
  PROVE  Whole(t)
<1> DEFINE u == [s EXCEPT !.m.socket_state = 0]
<1>1. CASE s.m.sockfd # NoFd
  BY <1>1 DEF Listening
<1>2. CASE s.m.sockfd = NoFd
  <2>1. t = scc_socket_maybe_open_incoming(u, fault)
    BY <1>2 DEF Listening
  <2>2. Whole(u)
    <3>1. s.m.rdwrfd = NoFd
      BY <1>2 DEF Whole, Sockets
    <3> QED BY <3>1, IdleOk
  <2> HIDE DEF u
  <2> QED BY <2>1, <2>2, IncomingOk
<1> QED BY <1>1, <1>2

LEMMA InLineOk ==
  ASSUME NEW s, Whole(s), NEW c, NEW fault, fault \notin Leaks, NEW t, t = InLine(s, c, fault)
  PROVE  Whole(t)
<1>1. ASSUME NEW u, Whole(u), NEW line, t = [u EXCEPT !.m.line = line] PROVE Whole(t)
  <2>1. Same(u, t)
    BY <1>1 DEF Whole, Same, Has, LineFields
  <2> QED BY <1>1, <2>1, SameWhole
<1> DEFINE v == scc_socket_do_cmd_str(s, fault)
<1>2. CASE c = "cr"
  <2>1. t = [v EXCEPT !.m.line = << >>]
    BY <1>2 DEF InLine
  <2>2. Whole(v)
    BY CmdStrOk
  <2> HIDE DEF v
  <2> QED BY <1>1, <2>1, <2>2
<1>3. CASE c = "bs"
  <2>1. t = s \/ t = [s EXCEPT !.m.line = Front(s.m.line)]
    BY <1>3 DEF InLine
  <2> QED BY <1>1, <2>1
<1>4. CASE c \notin {"cr", "bs"}
  <2>1. t = s \/ t = [s EXCEPT !.m.line = Append(s.m.line, c)]
    BY <1>4 DEF InLine
  <2> QED BY <1>1, <2>1
<1> QED BY <1>2, <1>3, <1>4

LEMMA ToModemOk ==
  ASSUME NEW s, Whole(s), NEW fault, fault \notin Leaks, NEW t, t = ToModem(s, fault)
  PROVE  Whole(t)
<1> DEFINE u == Listening(s, fault)
           v == InLine(u, Typed1(s.m.out[1]), fault)
<1>1. Whole(u)
  BY ListeningOk
<1> HIDE DEF u
<1>2. Whole(v)
  BY <1>1, InLineOk
<1>3. v = scc_socket_modem_write(s, s.m.out[1], fault)
  BY DEF scc_socket_modem_write, u
<1> HIDE DEF v
<1>4. PICK out : t = [v EXCEPT !.m.out = out]
  BY <1>3 DEF ToModem
<1>5. Same(v, t)
  BY <1>2, <1>4 DEF Whole, Same, Has, LineFields
<1> QED BY <1>2, <1>5, SameWhole

LEMMA DrainsOk ==
  ASSUME NEW r, Whole(r.s), DOMAIN r = {"s", "goes"}, NEW fault, fault \notin Leaks,
         NEW q, q = DrainsOne(r, fault)
  PROVE  Whole(q.s) /\ DOMAIN q = {"s", "goes"}
<1> DEFINE s == r.s
           idle == [s EXCEPT !.m.socket_state = 0]
           opened == scc_socket_maybe_open_incoming(idle, fault)
           scanned == Scanned(s)
           hung == scc_socket_close(scanned, TRUE)
           n == IF fault = "partial" THEN 1 ELSE Len(s.m.out)
           sent == Sent(scanned, n)
           typed == ToModem(s, fault)
           stays == ~r.goes \/ s.m.out = << >>
           command == s.m.socket_state < 1 /\ g_serial_modem
<1>1. Whole(scanned)
  <2>1. Same(s, scanned)
    BY ScannedOk DEF Whole
  <2> HIDE DEF scanned
  <2> QED BY <2>1, SameWhole
<1>2. CASE stays
  BY <1>2 DEF DrainsOne
<1>3. CASE ~stays /\ command
  <2>1. q = [r EXCEPT !.s = typed]
    BY <1>3 DEF DrainsOne
  <2>2. Whole(typed)
    BY ToModemOk
  <2> HIDE DEF typed
  <2> QED BY <2>1, <2>2
<1>4. CASE ~stays /\ ~command /\ s.m.rdwrfd = NoFd
  <2>1. q = [s |-> opened, goes |-> FALSE]
    BY <1>4 DEF DrainsOne
  <2>2. Whole(idle)
    BY <1>4, IdleOk
  <2> HIDE DEF idle
  <2>3. Whole(opened)
    BY <2>2, IncomingOk
  <2> HIDE DEF opened
  <2> QED BY <2>1, <2>3
<1>5. CASE ~stays /\ ~command /\ s.m.rdwrfd # NoFd /\ fault = "send"
  <2>1. q = [s |-> hung, goes |-> FALSE]
    BY <1>5 DEF DrainsOne
  <2> HIDE DEF scanned
  <2>2. Shut(scanned, hung) /\ hung.m.socket_state = 0
    BY <1>1, CloseOk DEF Whole, Sockets
  <2> HIDE DEF hung
  <2>3. Whole(hung)
    BY <1>1, <2>2, ShutWhole DEF Whole, Told
  <2> QED BY <2>1, <2>3
<1>6. CASE ~stays /\ ~command /\ s.m.rdwrfd # NoFd /\ fault # "send"
  <2>1. q = [r EXCEPT !.s = sent]
    BY <1>6 DEF DrainsOne
  <2> HIDE DEF scanned, n
  <2>2. Same(scanned, sent)
    BY <1>1, SentOk DEF Whole
  <2> HIDE DEF sent
  <2>3. Whole(sent)
    BY <1>1, <2>2, SameWhole
  <2> QED BY <2>1, <2>3
<1> QED BY <1>2, <1>3, <1>4, <1>5, <1>6

LEMMA DrainOk ==
  ASSUME NEW s, Whole(s), NEW fault, fault \notin Leaks, NEW t, t = DrainOut(s, fault)
  PROVE  Whole(t)
<1> DEFINE N == 2 * OutSize
           first == [s |-> s, goes |-> TRUE]
           Good(r) == Whole(r.s) /\ DOMAIN r = {"s", "goes"}
           More(r) == DrainsOne(r, fault)
           Loop(f, k) == f = [n \in 0 .. k |-> IF n = 0 THEN first ELSE More(f[n - 1])]
           after == CHOOSE f : Loop(f, N)
<1>1. t = after[N].s
  BY DEF DrainOut
<1>2. N \in Nat
  BY ModemAssumption DEF ModemAssumption
<1>3. Good(first)
  OBVIOUS
<1>4. ASSUME NEW r, Good(r) PROVE Good(More(r))
  BY <1>4, DrainsOk
<1> HIDE DEF first, N, More
<1>5. Loop(after, N)
  <2> DEFINE T == {k \in Nat : \E f : Loop(f, k)}
  <2>1. 0 \in T
    <3>1. Loop([i \in 0 .. 0 |-> first], 0)
      OBVIOUS
    <3> QED BY <3>1
  <2>2. ASSUME NEW k \in Nat, k \in T PROVE k + 1 \in T
    <3>1. PICK f : Loop(f, k)
      BY <2>2
    <3> DEFINE g == [i \in 0 .. k + 1 |-> IF i = k + 1 THEN More(f[k]) ELSE f[i]]
    <3>2. ASSUME NEW i \in 0 .. k + 1
          PROVE  g[i] = IF i = 0 THEN first ELSE More(g[i - 1])
      <4>1. CASE i = k + 1
        BY <4>1
      <4>2. CASE i \in 0 .. k
        BY <4>2, <3>1
      <4> QED BY <4>1, <4>2
    <3>3. Loop(g, k + 1)
      BY <3>2
    <3> HIDE DEF g
    <3> QED BY <3>3
  <2> HIDE DEF T
  <2>3. N \in T
    BY <1>2, <2>1, <2>2, SetInduction
  <2> QED BY <2>3 DEF T
<1> HIDE DEF after, Good
<1>6. ASSUME NEW k \in 0 .. N PROVE Good(after[k])
  <2> DEFINE T == {j \in Nat : j <= N => Good(after[j])}
  <2>1. 0 \in T
    BY <1>2, <1>3, <1>5
  <2>2. ASSUME NEW j \in Nat, j \in T PROVE j + 1 \in T
    <3>1. CASE j + 1 <= N
      <4>1. after[j + 1] = More(after[j]) /\ Good(after[j])
        BY <1>2, <1>5, <2>2, <3>1
      <4> QED BY <1>4, <4>1
    <3>2. CASE ~(j + 1 <= N)
      BY <3>2
    <3> QED BY <3>1, <3>2
  <2> HIDE DEF T
  <2>3. k \in T
    BY <1>2, <2>1, <2>2, SetInduction
  <2> QED BY <2>3 DEF T
<1> QED BY <1>1, <1>2, <1>6 DEF Good

LEMMA EmptiesOk ==
  ASSUME NEW s, Whole(s), NEW fault, fault \notin Leaks,
         NEW t, t = scc_socket_empty_writebuf(s, fault)
  PROVE  Whole(t)
<1> DEFINE u == Escaped(s)
<1>1. Whole(u)
  <2>1. CASE u = s
    BY <2>1
  <2>2. CASE u # s
    <3>1. u = [s EXCEPT !.m.socket_state = 0, !.m.modem_plus_mode = 0] /\ s.m.socket_state >= 1
      BY <2>2 DEF Escaped
    <3> HIDE DEF u
    <3>2. s.m.socket_num_rings > 0 => s.m.socket_state = 0
      BY DEF Whole, Told
    <3>3. s.m.socket_num_rings = 0
      BY <3>1, <3>2 DEF Whole, Told
    <3>4. /\ Has(u) /\ u.h = s.h /\ u.m.socket_state = 0
          /\ \A x \in LineFields \ {"socket_state"} : u.m[x] = s.m[x]
      BY <3>1 DEF Whole, Has, LineFields
    <3> QED BY <3>3, <3>4 DEF Whole, Sockets, Told, LineFields
  <2> QED BY <2>1, <2>2
<1>2. t = DrainOut(u, fault)
  BY DEF scc_socket_empty_writebuf
<1> HIDE DEF u
<1> QED BY <1>1, <1>2, DrainOk

(***************************************************************************)
(* Steps.                                                                  *)
(***************************************************************************)
LEMMA DoneOk ==
  ASSUME NEW t, Whole(t), Do(t)
  PROVE  Whole(Both)'
BY DEF Do, Both, Whole, Has, Sockets, Told, LineFields

LEMMA SameOk ==
  ASSUME Whole(Both), Same(Both, Both')
  PROVE  Whole(Both)'
<1> DEFINE s == Both
           t == Both'
<1>1. Whole(s) /\ Same(s, t)
  OBVIOUS
<1> HIDE DEF s, t
<1>2. Whole(t)
  BY <1>1, SameWhole
<1> QED BY <1>2 DEF t, Whole, Has, Sockets, Told

LEMMA PeerOk ==
  ASSUME Whole(Both), NEW p, Peer(p)
  PROVE  Whole(Both)'
<1>1. Same(Both, Both')
  BY DEF Peer, Both, Whole, Same, Has, LineFields
<1> QED BY <1>1, SameOk

LEMMA ReadsOk ==
  ASSUME Whole(Both), NEW n \in Nat, NEW f, f \notin Leaks, Reads(n, f)
  PROVE  Whole(Both)'
<1> DEFINE t == scc_socket_fill_readbuf(Both, n, f)
<1>1. Whole(t) /\ Do(t)
  BY FillsOk DEF Reads
<1> HIDE DEF t
<1> QED BY <1>1, DoneOk

LEMMA VblOk ==
  ASSUME Whole(Both), NEW n \in Nat, NEW f, f \notin Leaks, Vbl(n, f)
  PROVE  Whole(Both)'
<1> DEFINE u == scc_socket_fill_readbuf(Both, n, f)
           t == scc_socket_empty_writebuf(u, f)
<1>1. Whole(u) /\ Do(t)
  BY FillsOk DEF Vbl
<1> HIDE DEF u
<1>2. Whole(t)
  BY <1>1, EmptiesOk
<1> HIDE DEF t
<1> QED BY <1>1, <1>2, DoneOk

LEMMA WritesOk ==
  ASSUME Whole(Both), NEW c, NEW f, f \notin Leaks, Writes(c, f)
  PROVE  Whole(Both)'
<1> DEFINE u == Out(Both, <<"char", c>>)
           t == scc_socket_empty_writebuf(u, f)
<1>1. Whole(u)
  <2>1. Same(Both, u)
    BY OutOk DEF Whole
  <2> HIDE DEF u
  <2> QED BY <2>1, SameWhole
<1>2. Do(u) \/ Do(t)
  BY DEF Writes
<1> HIDE DEF u
<1>3. Whole(t)
  BY <1>1, EmptiesOk
<1> HIDE DEF t
<1> QED BY <1>1, <1>2, <1>3, DoneOk

LEMMA ResetsOk ==
  ASSUME Whole(Both), Resets
  PROVE  Whole(Both)'
<1> DEFINE s == Both
           t == Both'
<1>1. /\ Has(t) /\ t.h = s.h /\ t.m.dcd = FALSE /\ t.m.was_reset = TRUE
      /\ \A x \in LineFields \ {"dcd", "was_reset"} : t.m[x] = s.m[x]
  BY DEF Resets, Both, Whole, Has, LineFields
<1>2. Whole(s)
  OBVIOUS
<1> HIDE DEF s, t
<1>3. Whole(t)
  BY <1>1, <1>2 DEF Whole, Sockets, Told, LineFields
<1> QED BY <1>3 DEF t, Whole, Has, Sockets, Told

LEMMA PausesOk ==
  ASSUME Whole(Both), ShortPause \/ TwoSeconds
  PROVE  Whole(Both)'
<1>1. \E n, due : modem' = [modem EXCEPT !.pause = n, !.ring_due = due]
                  \/ modem' = [modem EXCEPT !.pause = n]
  BY DEF ShortPause, TwoSeconds
<1>2. host' = host
  BY DEF ShortPause, TwoSeconds
<1>3. Same(Both, Both')
  BY <1>1, <1>2 DEF Both, Whole, Same, Has, LineFields
<1> QED BY <1>3, SameOk

\* Whoever is at the other end, and whatever he says, the line is not his.
LEMMA OtherEndOk ==
  ASSUME Whole(Both),
         \/ Calls \/ Hangs \/ (\E bytes : Talks(bytes))
         \/ (\E accepts : Listens(accepts)) \/ (\E o : Requests(o))
  PROVE  Whole(Both)'
<1>1. \E p : Peer(p)
  <2>1. CASE Calls
    BY <2>1 DEF Calls
  <2>2. CASE Hangs
    BY <2>2 DEF Hangs
  <2>3. CASE \E bytes : Talks(bytes)
    BY <2>3 DEF Talks
  <2>4. CASE \E accepts : Listens(accepts)
    <3>1. PICK accepts : Listens(accepts)
      BY <2>4
    <3> QED BY <3>1 DEF Listens
  <2>5. CASE \E o : Requests(o)
    <3>1. PICK o : Requests(o)
      BY <2>5
    <3> QED BY <3>1 DEF Requests
  <2> QED BY <2>1, <2>2, <2>3, <2>4, <2>5
<1> QED BY <1>1, PeerOk

-----------------------------------------------------------------------------
LEMMA InitOk == SerialInit => Whole(Both)
<1> SUFFICES ASSUME SerialInit PROVE Whole(Both)
  OBVIOUS
<1>1. modem = scc_socket_init /\ host.open = << >> /\ "open" \in DOMAIN host
  BY DEF SerialInit, ModemInit
<1>2. DOMAIN << >> = {}
  OBVIOUS
<1>3. Has(Both) /\ Both.m = scc_socket_init /\ DOMAIN Both.h.open = {}
  BY <1>1, <1>2 DEF Both, Has, scc_socket_init, LineFields
<1> QED BY <1>3 DEF Whole, Sockets, Told, scc_socket_init

LEMMA NextOk ==
  ASSUME Whole(Both), Fault \cap Leaks = {}, [SerialNext]_all
  PROVE  Whole(Both)'
<1>1. MaxWire \in Nat /\ 1 \in Nat
  BY ModemAssumption DEF ModemAssumption
<1>2. "none" \notin Leaks /\ "partial" \notin Leaks /\ \A f \in Fault : f \notin Leaks
  BY DEF Leaks
<1>3. CASE UNCHANGED modemVars
  BY <1>3 DEF modemVars, Both, Whole, Has, Sockets, Told
<1>4. CASE OnTheLine
  <2>1. ASSUME NEW f \in Fault, Reads(1, f) \/ Vbl(MaxWire, f) \/ \E c \in Typed : Writes(c, f)
        PROVE  Whole(Both)'
    BY <1>1, <1>2, <2>1, ReadsOk, VblOk, WritesOk
  <2> QED BY <1>4, <2>1, OtherEndOk DEF OnTheLine
<1>5. ASSUME NEW commands, Types(commands) PROVE Whole(Both)'
  <2>1. PICK c : Writes(c, "none")
    BY <1>5 DEF Types
  <2> QED BY <1>2, <2>1, WritesOk
<1>6. CASE Escapes
  <2>1. ASSUME NEW f \in {"none", "partial"},
               Reads(1, f) \/ Vbl(MaxWire, f) \/ \E c : Writes(c, f)
        PROVE  Whole(Both)'
    BY <1>1, <1>2, <2>1, ReadsOk, VblOk, WritesOk
  <2>2. \/ \E f \in {"none", "partial"} : Reads(1, f) \/ Vbl(MaxWire, f) \/ \E c : Writes(c, f)
        \/ Types({"a", "o", "h"}) \/ Resets \/ ShortPause \/ Hangs \/ Listens(FALSE)
    BY <1>6 DEF Escapes
  <2>3. CASE Types({"a", "o", "h"})
    BY <1>5, <2>3
  <2>4. CASE Hangs \/ Listens(FALSE)
    BY <2>4, OtherEndOk
  <2> QED BY <2>1, <2>2, <2>3, <2>4, ResetsOk, PausesOk
<1>7. CASE Negotiates
  <2>1. \/ Reads(1, "none") \/ Vbl(MaxWire, "none") \/ Types({"a", "d", "s0=1"})
        \/ (\E bytes : Talks(bytes)) \/ (\E accepts : Listens(accepts)) \/ (\E o : Requests(o))
    BY <1>7 DEF Negotiates
  <2>2. CASE Types({"a", "d", "s0=1"})
    BY <1>5, <2>2
  <2> QED BY <1>1, <1>2, <2>1, <2>2, ReadsOk, VblOk, OtherEndOk
<1>8. CASE ModemStep
  BY <1>4, <1>6, <1>7, <1>8, OtherEndOk, PausesOk DEF ModemStep
<1> QED BY <1>3, <1>8 DEF SerialNext, all

LEMMA WholeLine == Whole(Both) => LineIsWhole
<1> SUFFICES ASSUME Whole(Both) PROVE LineIsWhole
  OBVIOUS
<1>1. /\ Both.m = modem /\ Both.h = host
  BY DEF Both
<1>2. SocketsMatch
  BY <1>1 DEF SocketsMatch, Whole, Sockets
<1>3. CallIsKept
  BY <1>1 DEF CallIsKept, Whole, Told
<1> QED BY <1>2, <1>3 DEF LineIsWhole

(* The driver has open what it knows and knows what it has open, and rings,
   carrier and state tell of a call just when there is one: for any number of
   rings, ring sizes, commands and bytes, whatever the other end and the
   software do and whichever calls of the host fail, but two: a socket that
   cannot be told to reuse its address, and a call taken that cannot be made
   nonblocking, stay open and are forgotten (scc_socket_maybe_open_incoming,
   scc_accept_socket). *)
THEOREM ModemLine ==
  ASSUME Fault \cap Leaks = {}
  PROVE  SerialSpec => []LineIsWhole
<1>1. SerialInit => Whole(Both)
  BY InitOk
<1>2. Whole(Both) /\ [SerialNext]_all => Whole(Both)'
  BY NextOk
<1>3. Whole(Both) => LineIsWhole
  BY WholeLine
<1> QED BY <1>1, <1>2, <1>3, PTL DEF SerialSpec
=============================================================================
