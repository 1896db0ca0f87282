-------------------------------- MODULE Vgc --------------------------------
(***************************************************************************)
(* The interrupts of the emulated video and timer chips: scan line and one *)
(* second (registers c023 and c032), vertical blank and quarter second     *)
(* (c041, c046, c047).  The handlers of the events are in                  *)
(* src/src/sim65816.c, the registers in io_read and io_write of            *)
(* src/src/moremem.c.                                                      *)
(*                                                                         *)
(* Time is counted in video lines since the last 60 Hz event, beam; 65     *)
(* cycles make one line.  The event list holds at most a few events of two *)
(* types here: scan_ev[l] counts those of type EV_SCAN_INT for line l,     *)
(* vbl_ev those of type EV_VBL_INT.                                        *)
(*                                                                         *)
(* A routine is an operator on the record s of the whole state; one that   *)
(* looks for the next line has a set of results.                           *)
(***************************************************************************)
EXTENDS Integers, Irq

CONSTANTS
  LINES,         \* lines with a scan control byte, 200
  VBL_LINE,      \* where the vertical blank starts, 192
  FRAME,         \* lines from one 60 Hz event to the next, 262
  QUARTER,       \* 60 Hz events in a quarter second, 16
  SECOND         \* and in a second, 60

Line == 0..LINES - 1

ASSUME VgcAssumption ==
  /\ FRAME \in Nat /\ LINES \in 1..FRAME /\ VBL_LINE \in 1..FRAME
  /\ QUARTER \in Nat \ {0} /\ SECOND \in Nat \ {0}

(***************************************************************************)
(* The bits of the registers that are modelled.  "scan" and "sec" in c023  *)
(* are the status of the two interrupts, "vgc" is bit 7.                   *)
(***************************************************************************)
C023 == {"scan_en", "sec_en", "scan", "sec", "vgc"}
C041 == {"vbl_en", "quarter_en"}
C046 == {"vbl", "quarter"}
IrqBit == {"scan", "sec", "vbl", "quarter"}

\* The bit that enables a source.
Enable == [src \in IrqBit |->
             CASE src = "scan" -> "scan_en" [] src = "sec" -> "sec_en"
               [] src = "vbl" -> "vbl_en" [] OTHER -> "quarter_en"]

VARIABLE vgc

State ==
  [c023 : SUBSET C023, c041 : SUBSET C041, c046 : SUBSET C046,
   irq : SUBSET IrqBit,          \* their bits of g_irq_pending
   scan_int_events : BOOLEAN,
   super_hires : BOOLEAN,        \* ALL_STAT_SUPER_HIRES in g_cur_a2_stat
   scb : SUBSET Line,            \* lines whose control byte has bit 6 set
   scan_ev : [Line -> Nat], vbl_ev : Nat,
   beam : 0..FRAME,
   quarters : 0..QUARTER - 1, seconds : 0..SECOND - 1]

\* After initialize_events and the first do_reset.
Init ==
  vgc = [c023 |-> {}, c041 |-> {}, c046 |-> {}, irq |-> {},
         scan_int_events |-> FALSE, super_hires |-> FALSE, scb |-> {},
         scan_ev |-> [l \in Line |-> 0], vbl_ev |-> 0, beam |-> 0,
         quarters |-> 0, seconds |-> 0]

(***************************************************************************)
(* Looking for the next line with a scan interrupt.                        *)
(***************************************************************************)
\* Mutant: a line is looked for although an interrupt is still up.
SearchesAnyway(s, start) ==
  LET on == {l \in s.scb : l >= start}
  IN IF ~s.super_hires \/ on = {} THEN {s}
     ELSE {[s EXCEPT !.scan_ev[l] = @ + 1, !.scan_int_events = TRUE] :
             l \in {l \in on : \A m \in on : l <= m}}

check_scan_line_int(s, start) ==
  LET on == {l \in s.scb : l >= start}
  IN IF ~s.super_hires \/ "scan" \in s.c023 \/ on = {} THEN {s}
     ELSE {[s EXCEPT !.scan_ev[l] = @ + 1, !.scan_int_events = TRUE] :
             l \in {l \in on : \A m \in on : l <= m}}

\* From the line that is being drawn.
check_for_new_scan_int(s) == check_scan_line_int(s, s.beam)

(***************************************************************************)
(* Events.                                                                 *)
(***************************************************************************)
\* Mutant: the interrupt is taken though its line no longer asks for it.
TakesAny(s, l) ==
  {[s EXCEPT !.c023 = @ \cup {"scan", "vgc"},
             !.irq = IF "scan_en" \in s.c023 THEN add_irq(@, {"scan"}) ELSE @]}

\* The line of the event need not ask for the interrupt any more.
HandleScan(s, l) ==
  IF l \in s.scb /\ s.super_hires
  THEN {[s EXCEPT !.c023 = @ \cup {"scan", "vgc"},
                  !.irq = IF "scan_en" \in s.c023 THEN add_irq(@, {"scan"}) ELSE @]}
  ELSE check_scan_line_int(s, l + 1)

do_scan_int(s, l) ==
  HandleScan([s EXCEPT !.scan_ev[l] = @ - 1, !.scan_int_events = FALSE], l)

do_vbl_int(s) ==
  LET t == [s EXCEPT !.vbl_ev = @ - 1]
  IN IF "vbl_en" \in s.c041
     THEN [t EXCEPT !.c046 = @ \cup {"vbl"}, !.irq = add_irq(@, {"vbl"})]
     ELSE t

\* Mutant: the bit of the other source is tested.
WrongBit(s) ==
  IF "quarter_en" \in s.c041 THEN [s EXCEPT !.vbl_ev = @ + 1] ELSE s

add_event_vbl(s) ==
  IF "vbl_en" \in s.c041 THEN [s EXCEPT !.vbl_ev = @ + 1] ELSE s

QuarterTick(s) ==
  LET t == [s EXCEPT !.quarters = (@ + 1) % QUARTER]
  IN IF t.quarters = 0 /\ "quarter_en" \in s.c041
     THEN [t EXCEPT !.irq = add_irq(@, {"quarter"}), !.c046 = @ \cup {"quarter"}]
     ELSE t

\* The status bit comes up whether or not the interrupt is enabled.
SecondTick(s) ==
  LET t == [s EXCEPT !.seconds = (@ + 1) % SECOND]
  IN IF t.seconds # 0 THEN t
     ELSE IF "sec_en" \in s.c023
          THEN [t EXCEPT !.c023 = @ \cup {"sec", "vgc"}, !.irq = add_irq(@, {"sec"})]
          ELSE [t EXCEPT !.c023 = @ \cup {"sec"}]

update_60hz(s) ==
  LET t == SecondTick(QuarterTick(add_event_vbl([s EXCEPT !.beam = 0])))
  IN IF t.scan_int_events THEN {t} ELSE check_scan_line_int(t, 0)

(***************************************************************************)
(* Registers.                                                              *)
(***************************************************************************)
\* Bit 7 of c023 after a write: some interrupt of the chip is requested.
Summary(irq) == IF irq \cap {"scan", "sec"} # {} THEN {"vgc"} ELSE {}

\* Mutant: disabling an interrupt leaves its request up.
NoRetract(s, en) ==
  LET up == {src \in {"scan", "sec"} \cap s.c023 : Enable[src] \in en}
      irq == add_irq(add_irq(s.irq, up \cap {"scan"}), up \cap {"sec"})
  IN [s EXCEPT !.c023 = (@ \cap {"scan", "sec"}) \cup en \cup Summary(irq), !.irq = irq]

\* c023: the two enable bits; the status bits stay.
WriteC023(s, en) ==
  LET up == {src \in {"scan", "sec"} \cap s.c023 : Enable[src] \in en}
      off == {src \in {"scan", "sec"} : Enable[src] \notin en}
      irq == remove_irq(add_irq(add_irq(s.irq, up \cap {"scan"}), up \cap {"sec"}), off)
  IN [s EXCEPT !.c023 = (@ \cap {"scan", "sec"}) \cup en \cup Summary(irq), !.irq = irq]

\* c032: acknowledge the interrupts of clear; bit 7 is worked out again, and
\* the next line with an interrupt is looked for.
WriteC032(s, clear) ==
  LET ack == clear \cap s.c023
      irq == remove_irq(s.irq, ack)
      t == [s EXCEPT !.irq = irq,
                     !.c023 = (@ \ (IF ack # {} THEN ack \cup {"vgc"} ELSE {}))
                                 \cup Summary(irq)]
  IN IF "scan" \in ack THEN check_for_new_scan_int(t) ELSE {t}

WriteC041(s, en) ==
  [s EXCEPT !.c041 = en,
            !.irq = remove_irq(@, {src \in C046 : Enable[src] \notin en})]

\* c047, read or written.
ClearC046(s) == [s EXCEPT !.irq = remove_irq(@, C046), !.c046 = {}]

\* The part of do_reset that concerns these chips: c046 and the events stay.
do_reset(s) ==
  [s EXCEPT !.c023 = {}, !.c041 = {}, !.super_hires = FALSE, !.irq = {}]

(***************************************************************************)
(* Actions.                                                                *)
(***************************************************************************)
ScanDue(l) == vgc.scan_ev[l] > 0 /\ vgc.beam >= l
VblDue == vgc.vbl_ev > 0 /\ vgc.beam >= VBL_LINE
Due == VblDue \/ \E l \in Line : ScanDue(l)

\* The program runs for one line.
Tick ==
  /\ vgc.beam < FRAME
  /\ ~Due
  /\ vgc' = [vgc EXCEPT !.beam = @ + 1]

ScanEvent == \E l \in Line : ScanDue(l) /\ vgc' \in do_scan_int(vgc, l)
VblEvent == VblDue /\ vgc' = do_vbl_int(vgc)
Event60Hz == vgc.beam = FRAME /\ ~Due /\ vgc' \in update_60hz(vgc)

\* An access of the program to one of the registers.
C023Write == \E en \in SUBSET {"scan_en", "sec_en"} : vgc' = WriteC023(vgc, en)
C032Write == \E clear \in SUBSET {"scan", "sec"} : vgc' \in WriteC032(vgc, clear)
C041Write == \E en \in SUBSET C041 : vgc' = WriteC041(vgc, en)
C047Access == vgc' = ClearC046(vgc)
C029Write == \E on \in BOOLEAN : vgc' = [vgc EXCEPT !.super_hires = on]
\* A control byte is plain memory: nothing else happens when it is written.
ScbWrite == \E l \in Line :
              \/ vgc' = [vgc EXCEPT !.scb = @ \cup {l}]
              \/ vgc' = [vgc EXCEPT !.scb = @ \ {l}]
Reset == vgc' = do_reset(vgc)

Cpu ==
  \/ C023Write \/ C032Write \/ C041Write \/ C047Access
  \/ C029Write \/ ScbWrite \/ Reset

Next == Tick \/ ScanEvent \/ VblEvent \/ Event60Hz \/ Cpu

Spec == Init /\ [][Next]_vgc

\* run_prog takes the events that are due, and every instruction takes time,
\* however often the program makes a new event due in between.
FairSpec ==
  /\ Spec
  /\ WF_vgc(ScanEvent) /\ WF_vgc(VblEvent) /\ WF_vgc(Event60Hz)
  /\ SF_vgc(Tick)

(***************************************************************************)
(* Properties.                                                             *)
(***************************************************************************)
TypeOK == vgc \in State

\* g_scan_int_events says exactly whether a scan line event is in the list,
\* and there is never a second one.
OneScanEvent ==
  \/ /\ ~vgc.scan_int_events
     /\ \A m \in Line : vgc.scan_ev[m] = 0
  \/ /\ vgc.scan_int_events
     /\ \E l \in Line : \A m \in Line : vgc.scan_ev[m] = IF m = l THEN 1 ELSE 0

\* While an event is in the list the last interrupt has been acknowledged:
\* "c023 scan_int and another on line" in do_scan_int is never printed.
NoScanOverrun == vgc.scan_int_events => "scan" \notin vgc.c023

\* No event is behind the beam, so none is left over when the frame ends,
\* and at most one waits for the vertical blank.
EventsAhead ==
  /\ \A l \in Line : vgc.scan_ev[l] > 0 => vgc.beam <= l
  /\ vgc.vbl_ev \in 0..1
  /\ vgc.vbl_ev = 1 => vgc.beam <= VBL_LINE

(* The scan line and vertical blank events are the ones that the flags speak
   of, none is left behind the beam, and do_scan_int never meets an interrupt
   that is still up: after every order of acknowledgements, changed control
   bytes and resets. *)
EventsFit == OneScanEvent /\ NoScanOverrun /\ EventsAhead

\* The processor is interrupted exactly for what is up and enabled in c023,
\* and bit 7 tells whether it is.
C023Irq ==
  /\ \A src \in {"scan", "sec"} :
       src \in vgc.irq <=> {src, Enable[src]} \subseteq vgc.c023
  /\ Summary(vgc.irq) \subseteq vgc.c023
  /\ "vgc" \in vgc.c023 => "scan" \in vgc.c023 \/ "sec" \in vgc.irq

\* An interrupt of c046 is requested only while its status is up and it is
\* enabled; the status alone may outlive both.
C046Irq ==
  \A src \in C046 : src \in vgc.irq => src \in vgc.c046 /\ Enable[src] \in vgc.c041

\* A scan line interrupt comes in super hires only, at a line that asks for
\* it when it comes, and not before the beam is there.
ScanOnLine ==
  [][ "scan" \in vgc'.c023 \ vgc.c023 =>
        /\ vgc.super_hires
        /\ \E l \in vgc.scb : vgc.scan_ev[l] > 0 /\ vgc.beam >= l ]_vgc

\* A line that asks for an interrupt for good is served, or the interrupt of
\* another line is, in spite of what the program does to the other lines.
ScanServed ==
  \A l \in Line :
    <>[](vgc.super_hires /\ l \in vgc.scb) => []<>("scan" \in vgc.c023)

\* Interrupts of c041 that stay enabled keep coming.
C041Served ==
  \A src \in C046 : <>[](Enable[src] \in vgc.c041) => []<>(src \in vgc.c046)

=============================================================================
