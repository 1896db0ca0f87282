-------------------------------- MODULE Scc --------------------------------
(***************************************************************************)
(* The Zilog 8530 serial chip of the emulated IIgs, src/src/scc.c: two     *)
(* ports, each with a receive ring filled by a host driver, a 3-byte       *)
(* receive FIFO read by the emulated CPU, a transmit ring, the three       *)
(* interrupt sources and the three timed events the emulator's main loop   *)
(* pops.                                                                   *)
(*                                                                         *)
(* A routine of scc.c is an operator on the whole chip state, a record s:  *)
(*   s.scc  the array scc_stat                                             *)
(*   s.mie  bit 3 of scc_stat[0].reg[9], the master interrupt enable       *)
(*   s.irq  the serial bits of g_irq_pending                               *)
(*   s.ev   how many EV_SCC events of each type the event list holds       *)
(* and an action applies one of them.  Time is abstracted: any event in    *)
(* the list may be the next to come due.                                   *)
(***************************************************************************)
EXTENDS Integers, Sequences, FiniteSets, Irq

CONSTANTS
  Byte,                  \* what a serial character can be
  Frame,                 \* the LocalTalk packets the bridge may deliver
  SCC_INBUF_SIZE,        \* slots of in_buf
  SCC_OUTBUF_SIZE,       \* slots of out_buf
  SerialType,            \* the driver state scc_port_init picks for a port
  Warm,                  \* ports that start with their driver, as after a reset
  g_appletalk_bridging,  \* LocalTalk is configured
  bridge_initialized,    \* and the bridge found a network to bridge to
  UsedPorts,             \* ports the emulated software touches
  OutByte,               \* bytes it writes
  Regs,                  \* write registers it selects
  Commands,              \* WR0 commands it issues
  Wr1, Wr9, Wr14,        \* values it writes to WR1, WR9 and WR14
  FastClock,             \* whether a byte time may be below one cycle
  MaxBurst               \* bytes a host driver hands over in one call

Port == {0, 1}
Source == {"rx", "tx", "zerocnt"}
Kind == {"br", "tx", "rx"}
RxFifoSize == 3
RxFifo == {f \in Seq(Byte) : Len(f) <= RxFifoSize}

(***************************************************************************)
(* Registers of the 8530, cut down to the bits the program looks at.       *)
(***************************************************************************)
Wr1Value == [tx_int_en : BOOLEAN, rx_int_mode : 0..3]
Wr9Value == [mie : BOOLEAN, reset : SUBSET Port]
Wr14Value == [br_en : BOOLEAN, loop : BOOLEAN]

ASSUME SccAssumption ==
  /\ SCC_INBUF_SIZE \in Nat /\ SCC_INBUF_SIZE > 1
  /\ SCC_OUTBUF_SIZE \in Nat /\ SCC_OUTBUF_SIZE > 1
  /\ Frame \subseteq Seq(Byte)
  /\ SerialType \in [Port -> {1, 2, 4}]
  /\ Warm \subseteq Port
  /\ g_appletalk_bridging \in BOOLEAN
  /\ bridge_initialized \in BOOLEAN
  /\ UsedPorts \subseteq Port
  /\ OutByte \subseteq Byte
  /\ Regs \subseteq 0..15
  /\ Commands \subseteq 0..7
  /\ Wr1 \subseteq Wr1Value
  /\ Wr9 \subseteq Wr9Value
  /\ Wr14 \subseteq Wr14Value
  /\ FastClock \subseteq BOOLEAN
  /\ MaxBurst \in Nat

VARIABLES scc, mie, g_irq_pending, events

vars == <<scc, mie, g_irq_pending, events>>

(***************************************************************************)
(* One element of scc_stat.  event_pending gathers br_, tx_ and            *)
(* rx_event_pending, wantint the three wantint_* flags, irq_pending the    *)
(* bits software reads in RR3.  in_buf is the content of the receive ring, *)
(* from in_rdptr up to in_wrptr.                                           *)
(***************************************************************************)
PortState ==
  [state : 0..4,
   mode : {0, 1}, reg_ptr : 0..15,
   tx_int_en : BOOLEAN, rx_int_mode : 0..3,
   rx_en : BOOLEAN, tx_en : BOOLEAN,
   br_en : BOOLEAN, loop : BOOLEAN, zc_int_en : BOOLEAN,
   rx_queue : RxFifo, in_buf : Seq(Byte),
   out_rdptr : 0..SCC_OUTBUF_SIZE - 1, out_wrptr : 0..SCC_OUTBUF_SIZE - 1,
   write_called_this_vbl : BOOLEAN,
   tx_buf_empty : BOOLEAN, did_int_rx_first : BOOLEAN, sdlc_eof : BOOLEAN,
   wantint : SUBSET Source, irq_pending : SUBSET Source,
   event_pending : SUBSET Kind]

Chip == [scc : [Port -> PortState], mie : BOOLEAN,
         irq : SUBSET (Port \X Source), ev : [Port \X Kind -> Nat]]

Now == [scc |-> scc, mie |-> mie, irq |-> g_irq_pending, ev |-> events]

Becomes(s) ==
  /\ scc' = s.scc
  /\ mie' = s.mie
  /\ g_irq_pending' = s.irq
  /\ events' = s.ev

(***************************************************************************)
(* Interrupts.                                                             *)
(***************************************************************************)
scc_evaluate_ints(s, p) ==
  LET want == s.scc[p].wantint
      t == [s EXCEPT !.scc[p].irq_pending = want]
  IN IF s.mie
     THEN [t EXCEPT !.irq = remove_irq(add_irq(@, {p} \X want),
                                       {p} \X (Source \ want))]
     ELSE [t EXCEPT !.irq = remove_irq(@, Port \X Source)]

\* Mutant: the request is withdrawn without evaluating the line again.
ClearSilently(s, p, src) == [s EXCEPT !.scc[p].wantint = @ \ {src}]

ClearInt(s, p, src) ==
  scc_evaluate_ints([s EXCEPT !.scc[p].wantint = @ \ {src}], p)

scc_clr_rx_int(s, p) == ClearInt(s, p, "rx")
scc_clr_tx_int(s, p) == ClearInt(s, p, "tx")
scc_clr_zerocnt_int(s, p) == ClearInt(s, p, "zerocnt")

scc_set_zerocnt_int(s, p) ==
  scc_evaluate_ints(
    IF s.scc[p].zc_int_en THEN [s EXCEPT !.scc[p].wantint = @ \cup {"zerocnt"}]
                          ELSE s, p)

scc_handle_tx_event(s, p) ==
  scc_evaluate_ints(
    IF s.scc[p].tx_int_en THEN [s EXCEPT !.scc[p].wantint = @ \cup {"tx"}]
                          ELSE s, p)

\* Mutant: an empty FIFO leaves the request of the last byte standing.
StaleRxInt(s, p) ==
  IF s.scc[p].rx_queue # <<>> /\ s.scc[p].rx_int_mode = 2
  THEN scc_evaluate_ints([s EXCEPT !.scc[p].wantint = @ \cup {"rx"}], p)
  ELSE scc_evaluate_ints(s, p)

\* "First character" mode interrupts once until re-armed, and in LocalTalk
\* only when the second byte is in.  Modes 0 and 3 raise nothing.
scc_maybe_rx_int(s, p) ==
  LET c == s.scc[p]
      depth == Len(c.rx_queue)
      first == /\ c.rx_int_mode = 1
               /\ ~c.did_int_rx_first
               /\ c.state # 3 \/ depth = 2
  IN CASE depth = 0 -> scc_clr_rx_int(s, p)
       [] depth # 0 /\ (first \/ c.rx_int_mode = 2) ->
            scc_evaluate_ints([s EXCEPT !.scc[p].wantint = @ \cup {"rx"},
                                        !.scc[p].did_int_rx_first = @ \/ first], p)
       [] OTHER -> scc_evaluate_ints(s, p)

(***************************************************************************)
(* Timed events: the flag of the port and the entry of the event list.     *)
(***************************************************************************)
add_event_scc(s, p, k) ==
  [s EXCEPT !.scc[p].event_pending = @ \cup {k}, !.ev[<<p, k>>] = @ + 1]

\* Mutant: the event leaves the list and its flag stays.
PopKeepsFlag(s, p, k) == [s EXCEPT !.ev[<<p, k>>] = @ - 1]

pop_event_scc(s, p, k) ==
  [s EXCEPT !.scc[p].event_pending = @ \ {k}, !.ev[<<p, k>>] = @ - 1]

scc_maybe_br_event(s, p) ==
  LET c == s.scc[p]
  IN IF c.br_en /\ c.zc_int_en /\ "br" \notin c.event_pending
     THEN add_event_scc(s, p, "br") ELSE s

\* A byte moves from the ring to the FIFO when the receiver is on, no byte is
\* "on the line" already, and there is a byte and room for it.
CanReceive(c) ==
  /\ "rx" \notin c.event_pending
  /\ c.rx_en
  /\ c.in_buf # <<>>
  /\ Len(c.rx_queue) < RxFifoSize

\* Mutant: in_rdptr is not advanced.
RxByteTwice(s, p) ==
  IF CanReceive(s.scc[p])
  THEN add_event_scc(
         scc_maybe_rx_int([s EXCEPT
           !.scc[p].rx_queue = Append(@, Head(s.scc[p].in_buf))], p), p, "rx")
  ELSE s

scc_maybe_rx_event(s, p) ==
  IF CanReceive(s.scc[p])
  THEN add_event_scc(
         scc_maybe_rx_int([s EXCEPT
           !.scc[p].rx_queue = Append(@, Head(s.scc[p].in_buf)),
           !.scc[p].in_buf = Tail(@)], p), p, "rx")
  ELSE s

scc_maybe_tx_event(s, p) ==
  IF "tx" \in s.scc[p].event_pending
  THEN [s EXCEPT !.scc[p].tx_buf_empty = FALSE]
  ELSE add_event_scc(scc_evaluate_ints(s, p), p, "tx")

(***************************************************************************)
(* The receive ring and the host driver that fills it.                     *)
(***************************************************************************)
InRoom(s, p) == SCC_INBUF_SIZE - 1 - Len(s.scc[p].in_buf)

scc_add_to_readbuf(s, p, b) ==
  scc_maybe_rx_event(
    IF InRoom(s, p) > 0 THEN [s EXCEPT !.scc[p].in_buf = Append(@, b)] ELSE s, p)

Least(m, n) == IF m < n THEN m ELSE n

\* The loop `for(i...) scc_add_to_readbuf(port, data[i])` of every driver.
\* Only its first round can move a byte to the FIFO: afterwards an rx event is
\* pending, the receiver is off or the FIFO is full; the rest is appended until
\* the ring is full.
AddBytes(s, p, bs) ==
  IF bs = <<>> THEN s
  ELSE LET t == scc_add_to_readbuf(s, p, Head(bs))
           n == Least(InRoom(t, p), Len(bs) - 1)
       IN [t EXCEPT !.scc[p].in_buf = @ \o SubSeq(bs, 2, n + 1)]

SpaceLeft(s, p) == (7 * SCC_INBUF_SIZE) \div 8 - Len(s.scc[p].in_buf)

\* Mutants: a packet may follow one that is still in the FIFO, or whose end
\* has not been acknowledged.
LlapIgnoresFifo(c) == g_appletalk_bridging /\ c.in_buf = <<>> /\ ~c.sdlc_eof

LlapReady(c) ==
  g_appletalk_bridging /\ c.in_buf = <<>> /\ c.rx_queue = <<>> /\ ~c.sdlc_eof

Bursts(n) == UNION {[1..k -> Byte] : k \in 0..n}

\* What the port's driver may deliver when it is asked for bytes now: a modem
\* message or a printer's identification need not respect the space that is left.
HostInput(s, p) ==
  LET c == s.scc[p]
  IN CASE SpaceLeft(s, p) < 1 -> {<<>>}
       [] SpaceLeft(s, p) >= 1 /\ c.state \in {1, 2, 4} -> Bursts(MaxBurst)
       [] SpaceLeft(s, p) >= 1 /\ c.state = 3 /\ LlapReady(c) ->
            {<<>>} \cup IF bridge_initialized THEN Frame ELSE {}
       [] OTHER -> {<<>>}

scc_try_fill_readbuf(s, p, in) == AddBytes(s, p, in)

(***************************************************************************)
(* The transmit ring.                                                      *)
(***************************************************************************)
OutUsed(c) == (c.out_wrptr - c.out_rdptr) % SCC_OUTBUF_SIZE

scc_add_to_writebuf(s, p) ==
  LET next == (s.scc[p].out_wrptr + 1) % SCC_OUTBUF_SIZE
  IN IF next # s.scc[p].out_rdptr THEN [s EXCEPT !.scc[p].out_wrptr = next] ELSE s

scc_port_init(s, p) == [s EXCEPT !.scc[p].state = SerialType[p]]

\* A character is tossed when the transmitter still holds one, and, with a
\* byte time below one cycle (fast), when the ring is not empty.
scc_transmit(s, p, fast) ==
  LET t == IF s.scc[p].state = 0 THEN scc_port_init(s, p) ELSE s
      c == t.scc[p]
  IN IF c.tx_buf_empty /\ ~(fast /\ c.out_wrptr # c.out_rdptr)
     THEN scc_add_to_writebuf(t, p) ELSE t

\* The driver takes k bytes of the ring; the emulated modem (state 1) may answer
\* at once with the bytes of echo.  At most once per port and VBL.
scc_try_to_empty_writebuf(s, p, k, echo) ==
  IF s.scc[p].write_called_this_vbl THEN s
  ELSE LET t == [s EXCEPT !.scc[p].write_called_this_vbl = TRUE]
       IN IF s.scc[p].state \in {1, 2, 4}
          THEN AddBytes([t EXCEPT !.scc[p].out_rdptr = (@ + k) % SCC_OUTBUF_SIZE],
                        p, echo)
          ELSE t

Echo(s, p) == IF s.scc[p].state = 1 THEN Bursts(MaxBurst) ELSE {<<>>}

\* The packet is complete: the whole ring goes to the bridge and is emptied.
scc_llap_empty_writebuf(s, p) ==
  IF ~bridge_initialized \/ OutUsed(s.scc[p]) = 0 THEN s
  ELSE [s EXCEPT !.scc[p].out_rdptr = 0, !.scc[p].out_wrptr = 0]

(***************************************************************************)
(* Resets.                                                                 *)
(***************************************************************************)
scc_reset_port(s, p) ==
  LET t == [s EXCEPT !.scc[p] = [@ EXCEPT
        !.zc_int_en = FALSE, !.loop = FALSE, !.tx_en = FALSE, !.rx_en = FALSE,
        !.tx_buf_empty = TRUE, !.wantint = {}, !.rx_queue = <<>>, !.sdlc_eof = FALSE]]
  IN scc_clr_rx_int(scc_clr_tx_int(scc_evaluate_ints(t, p), p), p)

scc_hard_reset_port(s, p) ==
  scc_evaluate_ints(
    [scc_reset_port(s, p) EXCEPT
        !.scc[p] = [@ EXCEPT !.br_en = FALSE, !.tx_int_en = FALSE, !.rx_int_mode = 0],
        !.mie = FALSE], p)

\* The port's part of scc_reset; the event list and the *_event_pending flags
\* are left alone.
ResetOne(s, p) ==
  scc_hard_reset_port(
    scc_evaluate_ints([s EXCEPT !.scc[p] = [@ EXCEPT
        !.mode = 0, !.reg_ptr = 0, !.in_buf = <<>>, !.out_rdptr = 0, !.out_wrptr = 0,
        !.wantint = {}, !.did_int_rx_first = FALSE, !.irq_pending = {},
        !.write_called_this_vbl = FALSE]], p), p)

scc_reset(s) == ResetOne(ResetOne(s, 0), 1)

(***************************************************************************)
(* What the CPU does: data, commands, registers.                           *)
(***************************************************************************)

\* One byte leaves the FIFO: the next may enter, the interrupt is recomputed.
PopFifo(s, p) ==
  scc_maybe_rx_int(
    scc_maybe_rx_event([s EXCEPT !.scc[p].rx_queue = Tail(@)], p), p)

BytesLeft(c) == Len(c.in_buf) + Len(c.rx_queue)

scc_read_data(s, p, in) ==
  LET t == scc_try_fill_readbuf(s, p, in)
      u == PopFifo(t, p)
  IN IF t.scc[p].rx_queue = <<>> THEN t
     ELSE IF u.scc[p].state = 3 /\ BytesLeft(u.scc[p]) = 1
          THEN [u EXCEPT !.scc[p].sdlc_eof = TRUE] ELSE u

\* The first half of scc_write_data: loop back, or transmit.
PutByte(s, p, b, fast) ==
  IF s.scc[p].loop THEN scc_add_to_readbuf(s, p, b) ELSE scc_transmit(s, p, fast)

scc_write_data(s, p, b, fast, k, echo) ==
  LET t == PutByte(s, p, b, fast)
  IN scc_maybe_tx_event(
       IF t.scc[p].state # 3 THEN scc_try_to_empty_writebuf(t, p, k, echo) ELSE t, p)

\* WR0 command 7 chooses among the bits of g_irq_pending, not among wantint.
HighestPending(s, p) ==
  LET pending == {src \in Source : <<p, src>> \in s.irq}
  IN CASE "rx" \in pending -> {"rx"}
       [] "rx" \notin pending /\ "tx" \in pending -> {"tx"}
       [] OTHER -> pending

reset_highest_pri_int(s, p) ==
  LET h == HighestPending(s, p)
  IN IF h = {} THEN s
     ELSE scc_evaluate_ints([s EXCEPT !.scc[p].wantint = @ \ h], p)

reset_rr1_bits(s, p) ==
  LET t == IF s.scc[p].sdlc_eof /\ s.scc[p].rx_queue # <<>> THEN PopFifo(s, p) ELSE s
  IN [t EXCEPT !.scc[p].sdlc_eof = FALSE]

Command(s, p, cmd) ==
  CASE cmd = 2 -> scc_clr_zerocnt_int(s, p)
    [] cmd = 4 -> [s EXCEPT !.scc[p].did_int_rx_first = FALSE]
    [] cmd = 5 -> scc_clr_tx_int(s, p)
    [] cmd = 6 -> reset_rr1_bits(s, p)
    [] cmd = 7 -> reset_highest_pri_int(s, p)
    [] OTHER -> s

wr3(s, p, on, in) ==
  LET t == [s EXCEPT !.scc[p].rx_en = on]
  IN IF on /\ ~s.scc[p].rx_en
     THEN scc_maybe_rx_event(scc_try_fill_readbuf(t, p, in), p) ELSE t

\* Turning the transmitter off ends a LocalTalk packet.
wr5(s, p, on) ==
  [IF g_appletalk_bridging /\ s.scc[p].state = 3 /\ s.scc[p].tx_en /\ ~on
   THEN scc_llap_empty_writebuf(s, p) ELSE s
   EXCEPT !.scc[p].tx_en = on]

wr9(s, v) ==
  LET s0 == IF 0 \in v.reset THEN scc_reset_port(s, 0) ELSE s
      s1 == IF 1 \in v.reset THEN scc_reset_port(s0, 1) ELSE s0
      s2 == IF v.reset = Port
            THEN scc_hard_reset_port(scc_hard_reset_port(s1, 0), 1) ELSE s1
  IN scc_evaluate_ints(scc_evaluate_ints([s2 EXCEPT !.mie = v.mie], 0), 1)

wr14(s, p, v) ==
  scc_maybe_br_event(
    [s EXCEPT !.scc[p].br_en = v.br_en, !.scc[p].loop = v.loop], p)

\* Mutant: enabling the zero-count interrupt does not restart the generator.
NoBrRestart(s, p, on) == scc_evaluate_ints([s EXCEPT !.scc[p].zc_int_en = on], p)

wr15(s, p, on) ==
  scc_evaluate_ints(scc_maybe_br_event([s EXCEPT !.scc[p].zc_int_en = on], p), p)

(***************************************************************************)
(* Actions of the CPU.  A write goes to WR0 when mode is 0; WR0 selects    *)
(* the register of the next write, and any read goes back to WR0.          *)
(***************************************************************************)
PointTo(s, p, r) ==
  [s EXCEPT !.scc[p].reg_ptr = r, !.scc[p].mode = IF r = 0 THEN 0 ELSE 1]

WriteWr0(p) ==
  /\ scc[p].mode = 0
  /\ \E cmd \in Commands, low \in 0..7 :
       LET ptr == IF cmd = 1 THEN low + 8 ELSE low
       IN /\ ptr \in Regs \cup {0}
          /\ Becomes(Command(PointTo(Now, p, ptr), p, cmd))

Selected(p, r) == scc[p].mode = 1 /\ scc[p].reg_ptr = r
BackToWr0(p) == PointTo(Now, p, 0)

WriteWr1(p) ==
  /\ Selected(p, 1)
  /\ \E v \in Wr1 : Becomes([BackToWr0(p) EXCEPT
                              !.scc[p].tx_int_en = v.tx_int_en,
                              !.scc[p].rx_int_mode = v.rx_int_mode])

WriteWr3(p) ==
  /\ Selected(p, 3)
  /\ \E on \in BOOLEAN, in \in HostInput(Now, p) :
       Becomes(wr3(BackToWr0(p), p, on, in))

\* Synchronous SDLC mode hands the port to LocalTalk, for good.
WriteWr4(p) ==
  /\ Selected(p, 4)
  /\ \E sdlc \in BOOLEAN :
       Becomes(IF sdlc /\ g_appletalk_bridging
               THEN [BackToWr0(p) EXCEPT !.scc[p].state = 3] ELSE BackToWr0(p))

WriteWr5(p) ==
  /\ Selected(p, 5)
  /\ \E on \in BOOLEAN : Becomes(wr5(BackToWr0(p), p, on))

WriteWr9(p) ==
  /\ Selected(p, 9)
  /\ \E v \in Wr9 : Becomes(wr9(BackToWr0(p), v))

WriteWr14(p) ==
  /\ Selected(p, 14)
  /\ \E v \in Wr14 : Becomes(wr14(BackToWr0(p), p, v))

WriteWr15(p) ==
  /\ Selected(p, 15)
  /\ \E on \in BOOLEAN : Becomes(wr15(BackToWr0(p), p, on))

\* WR2, 6, 7 and 10 to 13 hold vectors, addresses and clock rates only.
WriteWrOther(p) ==
  /\ \E r \in {2, 6, 7, 10, 11, 12, 13} : Selected(p, r)
  /\ Becomes(BackToWr0(p))

\* Data is written through c03a/c03b, or through WR8.
WriteByte(s, p) ==
  \E b \in OutByte, fast \in FastClock :
    LET t == PutByte(s, p, b, fast)
    IN \E k \in 0..OutUsed(t.scc[p]), echo \in Echo(t, p) :
         Becomes(scc_write_data(s, p, b, fast, k, echo))

WriteData(p) == WriteByte(Now, p)
WriteWr8(p) == Selected(p, 8) /\ WriteByte(BackToWr0(p), p)

\* Data is read through c03a/c03b, or through RR8.
ReadData(p) == \E in \in HostInput(Now, p) : Becomes(scc_read_data(Now, p, in))

ReadReg(p) ==
  /\ scc[p].mode = 1
  /\ \/ scc[p].reg_ptr = 8 /\ \E in \in HostInput(Now, p) :
                               Becomes(scc_read_data(BackToWr0(p), p, in))
     \/ scc[p].reg_ptr # 8 /\ Becomes(BackToWr0(p))

(***************************************************************************)
(* Actions of the main loop: an event comes due, the 60 Hz update, and the *)
(* machine reset of do_reset, which also clears g_irq_pending.             *)
(***************************************************************************)
\* Mutant: the transmitter is not marked empty.
TxStaysFull(p, k) ==
  /\ events[<<p, k>>] > 0
  /\ LET s == pop_event_scc(Now, p, k)
     IN Becomes(
          CASE k = "br" -> scc_maybe_br_event(scc_set_zerocnt_int(s, p), p)
            [] k = "tx" -> scc_handle_tx_event(s, p)
            [] k = "rx" -> scc_maybe_rx_event(s, p))

do_scc_event(p, k) ==
  /\ events[<<p, k>>] > 0
  /\ LET s == pop_event_scc(Now, p, k)
     IN Becomes(
          CASE k = "br" -> scc_maybe_br_event(scc_set_zerocnt_int(s, p), p)
            [] k = "tx" -> scc_handle_tx_event([s EXCEPT !.scc[p].tx_buf_empty = TRUE], p)
            [] k = "rx" -> scc_maybe_rx_event(s, p))

Fresh(s, p) == [s EXCEPT !.scc[p].write_called_this_vbl = FALSE]

Drain(s, p, k, echo) ==
  IF s.scc[p].state = 3 THEN s
  ELSE Fresh(scc_try_to_empty_writebuf(s, p, k, echo), p)

scc_update ==
  LET s == Fresh(Fresh(Now, 0), 1)
  IN \E in0 \in HostInput(s, 0), in1 \in HostInput(s, 1) :
       LET t == scc_try_fill_readbuf(scc_try_fill_readbuf(s, 0, in0), 1, in1)
       IN \E k0 \in 0..OutUsed(t.scc[0]), k1 \in 0..OutUsed(t.scc[1]),
             e0 \in Echo(t, 0), e1 \in Echo(t, 1) :
            Becomes(Drain(Drain(t, 0, k0, e0), 1, k1, e1))

do_reset == Becomes([scc_reset(Now) EXCEPT !.irq = {}])

(***************************************************************************)
(* The specification.                                                      *)
(***************************************************************************)
\* scc_init: no event is pending, then scc_reset.  A warm start is the same
\* chip later: do_reset keeps the driver a port got with its first byte.
InitPort(p) ==
  [state |-> IF p \in Warm THEN SerialType[p] ELSE 0, mode |-> 0, reg_ptr |-> 0,
   tx_int_en |-> FALSE, rx_int_mode |-> 0, rx_en |-> FALSE, tx_en |-> FALSE,
   br_en |-> FALSE, loop |-> FALSE, zc_int_en |-> FALSE,
   rx_queue |-> <<>>, in_buf |-> <<>>, out_rdptr |-> 0, out_wrptr |-> 0,
   write_called_this_vbl |-> FALSE, tx_buf_empty |-> TRUE,
   did_int_rx_first |-> FALSE, sdlc_eof |-> FALSE,
   wantint |-> {}, irq_pending |-> {}, event_pending |-> {}]

Init ==
  /\ scc = [p \in Port |-> InitPort(p)]
  /\ mie = FALSE
  /\ g_irq_pending = {}
  /\ events = [e \in Port \X Kind |-> 0]

Cpu(p) ==
  \/ WriteWr0(p) \/ WriteWr1(p) \/ WriteWr3(p) \/ WriteWr4(p) \/ WriteWr5(p)
  \/ WriteWr8(p) \/ WriteWr9(p) \/ WriteWr14(p) \/ WriteWr15(p) \/ WriteWrOther(p)
  \/ WriteData(p) \/ ReadData(p) \/ ReadReg(p)

Next ==
  \/ \E p \in UsedPorts : Cpu(p)
  \/ \E p \in Port, k \in Kind : do_scc_event(p, k)
  \/ scc_update
  \/ do_reset

Spec == Init /\ [][Next]_vars

\* run_prog pops every event that is due, whatever the CPU does.
Fairness == \A p \in Port, k \in Kind : WF_vars(do_scc_event(p, k))

FairSpec == Spec /\ Fairness
=============================================================================
