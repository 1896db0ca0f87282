-------------------------------- MODULE Doc --------------------------------
(***************************************************************************)
(* The oscillators of the emulated sound chip, src/src/sound.c: starting   *)
(* and ending, the event that ends one in time for its interrupt, and the  *)
(* queue of interrupts kept in has_irq_pending.                            *)
(*                                                                         *)
(* Samples, volumes and positions are not modelled: an oscillator that     *)
(* plays may reach the end of its wave in any call of sound_play.  A       *)
(* routine is an operator on the record d of the chip; one that plays has  *)
(* a set of results.                                                       *)
(***************************************************************************)
EXTENDS Integers, FiniteSets, Irq

CONSTANTS
  OSCS,       \* number of oscillators, 32; even, for they work in pairs
  Mode,       \* modes the program uses: 0 free run, 1 one shot, 2 sync, 3 swap
  Counts,     \* numbers of oscillators it enables through e1
  ExtraTurns, \* bound: turns in one call of sound_play, beyond one for each
  Resets      \* BOOLEAN: whether the machine may be reset

ASSUME DocAssumption ==
  /\ OSCS \in Nat \ {0} /\ OSCS % 2 = 0
  /\ Mode \subseteq 0..3 /\ Counts \subseteq 1..OSCS
  /\ ExtraTurns \in Nat /\ Resets \in BOOLEAN

Osc == 0..OSCS - 1
NoOsc == -1      \* register e0 with bit 7 set
Partner(o) == IF o % 2 = 0 THEN o + 1 ELSE o - 1

\* Bits 0, 1-2 and 3 of the control register.
Control == [halt : BOOLEAN, mode : Mode \cup {0}, ie : BOOLEAN]

\* What halt_printf is called with.
Complaint ==
  {"event not found", "Adding sound_irq", "REMOVE_sound_irq", "remove_sound_irq, but",
   "already running", "already stop", "but not running",
   "reset: has_irq", "reset: num_osc_int"}

VARIABLE doc

Chip ==
  [ctl : [Osc -> Control], running : [Osc -> BOOLEAN],
   event : [Osc -> BOOLEAN],
   has_irq_pending : [Osc -> Int],   \* 0, or the rank in the queue
   g_num_osc_interrupting : Int,
   g_doc_num_osc_en : 1..OSCS,
   e0 : Osc \cup {NoOsc},
   irq : SUBSET {"doc"},             \* its bit of g_irq_pending
   listed : [Osc -> Nat],            \* entries EV_DOC_INT of the event list
   halted : SUBSET Complaint]        \* those so far

Complain(d, if, what) == IF if THEN [d EXCEPT !.halted = d.halted \cup {what}] ELSE d

(***************************************************************************)
(* Events.                                                                 *)
(***************************************************************************)
remove_event_doc(d, o) ==
  IF d.listed[o] = 0 THEN Complain(d, TRUE, "event not found")
  ELSE [d EXCEPT !.listed[o] = d.listed[o] - 1]

remove_sound_event(d, o) ==
  IF d.event[o] THEN remove_event_doc([d EXCEPT !.event[o] = FALSE], o) ELSE d

\* Only an oscillator that interrupts, or whose partner does, has its end
\* worked out ahead.
wave_end_estimate(d, o) ==
  LET t == remove_sound_event(d, o)
  IN IF d.ctl[o].ie \/ d.ctl[Partner(o)].ie
     THEN [t EXCEPT !.event[o] = TRUE, !.listed[o] = t.listed[o] + 1]
     ELSE t

(***************************************************************************)
(* Interrupts.                                                             *)
(***************************************************************************)

add_sound_irq(d, o) ==
  LET num == d.g_num_osc_interrupting + 1
      t == Complain(d, d.has_irq_pending[o] # 0, "Adding sound_irq")
  IN [t EXCEPT !.has_irq_pending[o] = num, !.g_num_osc_interrupting = num,
               !.irq = add_irq(d.irq, {"doc"}),
               !.e0 = IF num = 1 THEN o ELSE d.e0]

\* The ranks behind r move up, among the enabled oscillators only.
MovedUp(d, r) ==
  [i \in Osc |->
     IF i < d.g_doc_num_osc_en /\ d.has_irq_pending[i] > r
     THEN d.has_irq_pending[i] - 1 ELSE d.has_irq_pending[i]]

\* Mutant: anyone who waits is taken for the first in the queue.
AnyOf(d, pending) ==
  LET any == {i \in Osc : i < d.g_doc_num_osc_en /\ pending[i] # 0}
  IN IF any = {} THEN NoOsc ELSE CHOOSE i \in any : \A j \in any : j <= i

FirstOf(d, pending) ==
  LET first == {i \in Osc : i < d.g_doc_num_osc_en /\ pending[i] = 1}
  IN IF first = {} THEN NoOsc ELSE CHOOSE i \in first : \A j \in first : j <= i

Removed(d, o) ==
  LET r == d.has_irq_pending[o]
      num == d.g_num_osc_interrupting - 1
      t == [d EXCEPT !.g_num_osc_interrupting = num, !.has_irq_pending[o] = 0,
                     !.irq = IF num = 0 THEN remove_irq(d.irq, {"doc"}) ELSE d.irq]
      pending == MovedUp(t, r)
  IN [t EXCEPT !.has_irq_pending = pending,
               !.e0 = IF r = 1 THEN FirstOf(t, pending) ELSE t.e0]

remove_sound_irq(d, o, must) ==
  LET t == IF d.has_irq_pending[o] # 0 THEN Removed(d, o)
           ELSE Complain(d, must, "REMOVE_sound_irq")
  IN Complain(t, t.e0 = NoOsc /\ \E i \in Osc : t.has_irq_pending[i] # 0,
              "remove_sound_irq, but")

(***************************************************************************)
(* Starting and ending.                                                    *)
(***************************************************************************)
Begin(d, o) ==
  [Complain(d, d.running[o], "already running") EXCEPT !.running[o] = TRUE]

StartAlone(d, o) ==
  IF o >= d.g_doc_num_osc_en THEN [d EXCEPT !.ctl[o].halt = TRUE]
  ELSE wave_end_estimate(Begin(d, o), o)

\* The even oscillator of a pair in sync mode starts the odd one.
start_sound(d, o) ==
  LET p == Partner(o)
      sync == /\ o % 2 = 0 /\ d.ctl[o].mode = 2
              /\ d.ctl[p].halt /\ d.ctl[p].mode = 2
      t == Begin(d, o)
  IN IF o >= d.g_doc_num_osc_en THEN [d EXCEPT !.ctl[o].halt = TRUE]
     ELSE wave_end_estimate(
            IF sync THEN StartAlone([t EXCEPT !.ctl[p].halt = FALSE], p) ELSE t, o)

\* What follows the end of a wave: again, the partner, or silence.
Follow(d, o, can_repeat) ==
  LET p == Partner(o)
      t == [d EXCEPT !.ctl[o].halt = TRUE]
  IN IF d.ctl[o].mode = 0 /\ can_repeat THEN start_sound(d, o)
     ELSE IF 3 \in {d.ctl[o].mode, d.ctl[p].mode} /\ ~d.running[p] /\ d.ctl[p].halt
          THEN start_sound([t EXCEPT !.ctl[p].halt = FALSE], p)
          ELSE t

doc_sound_end(d, o, can_repeat) ==
  LET t == remove_sound_event(d, o)
      u == IF t.ctl[o].ie /\ t.has_irq_pending[o] = 0 THEN add_sound_irq(t, o) ELSE t
      v == Complain(u, ~u.running[o], "but not running")
  IN IF t.ctl[o].halt THEN Complain(t, TRUE, "already stop")
     ELSE Follow([v EXCEPT !.running[o] = FALSE], o, can_repeat)

(***************************************************************************)
(* sound_play.  The oscillators are gone through in the order of their     *)
(* numbers, again and again until all have played up to now.  In a record  *)
(* p, todo are those that have not, and at is where the loop is: after the *)
(* end of a silent wave the same oscillator has another turn.              *)
(***************************************************************************)
Ended(p, o, can_repeat) ==
  LET e == doc_sound_end(p.d, o, can_repeat)
      started == {i \in Osc : e.running[i] /\ (i = o \/ ~p.d.running[i])}
  IN {[d |-> e, todo |-> (p.todo \ {o}) \cup started, at |-> i] : i \in {o, o + 1}}

Turn(p) ==
  LET ahead == {o \in p.todo : o >= p.at}
      from == IF ahead = {} THEN p.todo ELSE ahead
      first == {o \in from : \A i \in from : o <= i}
  IN UNION {{[d |-> p.d, todo |-> p.todo \ {k}, at |-> k + 1]}
              \cup Ended(p, k, TRUE) \cup Ended(p, k, FALSE) : k \in first}

sound_play(d) ==
  LET playing == {o \in Osc : d.running[o] /\ o < d.g_doc_num_osc_en}
      after[k \in 0..OSCS + ExtraTurns] ==
        IF k = 0 THEN {[d |-> d, todo |-> playing, at |-> 0]}
        ELSE UNION {IF p.todo = {} THEN {p} ELSE Turn(p) : p \in after[k - 1]}
  IN {p.d : p \in after[OSCS + ExtraTurns]}

(***************************************************************************)
(* Registers.                                                              *)
(***************************************************************************)
\* Mutant: a halted oscillator is still taken to play.
KeepsRunning(d, o, v) ==
  LET t == remove_sound_irq(d, o, FALSE)
  IN IF v.halt
     THEN {[e EXCEPT !.ctl[o] = v] :
             e \in IF d.ctl[o].halt THEN {t} ELSE sound_play(remove_sound_event(t, o))}
     ELSE {IF d.ctl[o].halt THEN start_sound([t EXCEPT !.ctl[o] = v], o)
           ELSE [t EXCEPT !.ctl[o] = v]}

\* The value differs from the old one, in a bit of Control or in another one.
ChangeCtl(d, o, v) ==
  LET t == remove_sound_irq(d, o, FALSE)
      u == [t EXCEPT !.ctl[o] = v]
      s == remove_sound_event(t, o)
  IN IF v.halt
     THEN {[e EXCEPT !.ctl[o] = v, !.running[o] = FALSE] :
             e \in IF d.ctl[o].halt THEN {s} ELSE sound_play(s)}
     ELSE IF d.ctl[o].halt THEN {start_sound(u, o)}
     ELSE {IF v.ie /\ ~d.ctl[o].ie THEN wave_end_estimate(u, o) ELSE u}

\* doc_write_ctl_reg(o, ctl | 1) does nothing to one that is halted.
Halt(d, o) ==
  IF d.ctl[o].halt THEN {d} ELSE ChangeCtl(d, o, [d.ctl[o] EXCEPT !.halt = TRUE])

\* The results of Do for oscillators lo to OSCS - 1, one after the other.
InTurn(d, lo, Do(_, _)) ==
  LET upto[k \in lo..OSCS] ==
        IF k = lo THEN {d} ELSE UNION {Do(e, k - 1) : e \in upto[k - 1]}
  IN upto[OSCS]

WriteE1(d, n) == InTurn([d EXCEPT !.g_doc_num_osc_en = n], n, Halt)

\* One oscillator of sound_reset.
ResetOsc(d, o) ==
  {[Complain(e, e.has_irq_pending[o] # 0, "reset: has_irq")
      EXCEPT !.e0 = NoOsc, !.has_irq_pending[o] = 0] : e \in Halt(d, o)}

\* sound_reset, and g_irq_pending = 0 in do_reset.
sound_reset(d) ==
  {[Complain(e, e.g_num_osc_interrupting # 0, "reset: num_osc_int")
      EXCEPT !.g_num_osc_interrupting = 0, !.irq = {}] : e \in InTurn(d, 0, ResetOsc)}

\* c03d read with the pointer at e0: the oscillator shown is served.
ReadE0(d) == IF d.e0 = NoOsc THEN d ELSE remove_sound_irq(d, d.e0, TRUE)

\* The event is popped, and its end of a wave is played if it is due.
doc_handle_event(d, o) ==
  sound_play([d EXCEPT !.listed[o] = d.listed[o] - 1, !.event[o] = FALSE])

(***************************************************************************)
(* Actions.                                                                *)
(***************************************************************************)
\* sound_init.
Off ==
  [ctl |-> [o \in Osc |-> [halt |-> TRUE, mode |-> 0, ie |-> FALSE]],
   running |-> [o \in Osc |-> FALSE], event |-> [o \in Osc |-> FALSE],
   has_irq_pending |-> [o \in Osc |-> 0], g_num_osc_interrupting |-> 0,
   g_doc_num_osc_en |-> 1, e0 |-> NoOsc, irq |-> {},
   listed |-> [o \in Osc |-> 0], halted |-> {}]

Init == doc = Off

CtlWrite == \E o \in Osc : \E v \in [halt : BOOLEAN, mode : Mode, ie : BOOLEAN] :
              doc' \in ChangeCtl(doc, o, v)

\* Frequency, volume, wave pointer or wave size of an oscillator.
WaveWrite == \E o \in Osc : ~doc.ctl[o].halt /\ doc' \in sound_play(doc)

E1Write == \E n \in Counts : doc' \in WriteE1(doc, n)
E0Read == doc' = ReadE0(doc)

DocEvent ==
  \E o \in Osc : doc.listed[o] > 0 /\ doc' \in doc_handle_event(doc, o)

\* Once per frame.
sound_update == doc' \in sound_play(doc)

Reset == Resets /\ doc' \in sound_reset(doc)

Next ==
  \/ CtlWrite \/ WaveWrite \/ E1Write \/ E0Read
  \/ DocEvent \/ sound_update \/ Reset

Spec == Init /\ [][Next]_doc

(***************************************************************************)
(* Properties.                                                             *)
(***************************************************************************)
TypeOK == doc \in Chip

\* Each event flag stands for one entry of the event list: none is taken out
\* that is not there, and none is left in the list for good.
EventsMatch ==
  /\ \A o \in Osc : doc.listed[o] = IF doc.event[o] THEN 1 ELSE 0
  /\ "event not found" \notin doc.halted

\* The halt bit tells whether an oscillator plays, whatever starts and ends
\* it: the three complaints of start_sound and doc_sound_end are never made,
\* and one that is not enabled is silent.
HaltMeansSilent ==
  /\ \A o \in Osc : doc.running[o] <=> ~doc.ctl[o].halt
  /\ \A o \in Osc : doc.running[o] => o < doc.g_doc_num_osc_en
  /\ doc.halted \cap {"already running", "already stop", "but not running"} = {}

(* The chip keeps its books: whatever control writes, ends, swaps and resets do
   in the middle of one another, each flagged end event is in the event list
   once, and the halt bit tells who plays. *)
BooksAgree == EventsMatch /\ HaltMeansSilent

\* The oscillators that wait for attention, first come first.
QueueOf(d) ==
  [r \in 1..Cardinality({o \in Osc : d.has_irq_pending[o] # 0}) |->
     CHOOSE o \in Osc : d.has_irq_pending[o] = r]

Promise == INSTANCE DocQueue WITH
             queue <- QueueOf(doc), e0 <- doc.e0, irq <- ("doc" \in doc.irq)

\* The ranks in has_irq_pending, register e0 and the interrupt line implement
\* the queue of DocQueue.
InterruptsQueueUp == Promise!Spec

\* "remove_sound_irq[%02x], but [%02x]=%d!": e0 says nobody waits only when
\* nobody does.
NobodyForgotten == "remove_sound_irq, but" \notin doc.halted
=============================================================================
