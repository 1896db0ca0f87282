------------------------------ MODULE DocProof ------------------------------
(***************************************************************************)
(* The sound chip keeps its books, whatever the number of oscillators and  *)
(* however long sound_play goes on: BooksAgree, proved routine by routine  *)
(* as a predicate Books of the record of the chip.                         *)
(*                                                                         *)
(* A write to e1 first changes the number of enabled oscillators and then  *)
(* halts those beyond it, one after the other, each through sound_play; so *)
(* Books(d, k) lets the oscillators from k on play although they are not   *)
(* enabled.  Outside of that loop k is OSCS.                               *)
(***************************************************************************)
EXTENDS MCDoc, NatFacts, Sequences, FiniteSetTheorems

Wrong == {"already running", "already stop", "but not running", "event not found"}

\* The complaints of d that BooksAgree rules out.
Blames(d) == d.halted \cap Wrong

Flagged(d) == \A o \in Osc : d.listed[o] = IF d.event[o] THEN 1 ELSE 0

\* The halt bit of oscillator i tells whether it plays.
Told(d, i, k) ==
  /\ d.running[i] <=> ~d.ctl[i].halt
  /\ d.running[i] => i < d.g_doc_num_osc_en \/ i >= k

Books(d, k) ==
  d \in Chip /\ Flagged(d) /\ Blames(d) = {} /\ \A i \in Osc : Told(d, i, k)

\* Oscillator o is about to start: its halt bit is off already.
Starting(d, o, k) ==
  /\ d \in Chip /\ Flagged(d) /\ Blames(d) = {}
  /\ \A i \in Osc \ {o} : Told(d, i, k)
  /\ ~d.running[o] /\ ~d.ctl[o].halt

\* From d to e nothing happens that Books speaks of.
SameBooks(d, e) ==
  /\ e \in Chip
  /\ e.ctl = d.ctl /\ e.running = d.running /\ e.event = d.event /\ e.listed = d.listed
  /\ e.g_doc_num_osc_en = d.g_doc_num_osc_en /\ Blames(e) = Blames(d)

\* Those that play go on, but for o.
PlayOn(d, e, o) == \A i \in Osc \ {o} : d.running[i] => e.running[i]

-----------------------------------------------------------------------------
LEMMA OscNumbers ==
  /\ OSCS \in Nat \ {0} /\ Osc \subseteq Nat
  /\ \A o \in Osc : Partner(o) \in Osc /\ Partner(o) # o
  /\ \A o \in Osc : NoOsc # o
<1>1. OSCS \in Nat /\ OSCS > 0 /\ OSCS % 2 = 0
  BY DocAssumption DEF DocAssumption
<1>2. ASSUME NEW o \in Osc PROVE Partner(o) \in Osc /\ Partner(o) # o
  BY <1>1 DEF Osc, Partner
<1> QED BY <1>1, <1>2 DEF Osc, NoOsc

LEMMA ChipFields ==
  ASSUME NEW d \in Chip
  PROVE  /\ d.ctl \in [Osc -> Control] /\ d.running \in [Osc -> BOOLEAN]
         /\ d.event \in [Osc -> BOOLEAN] /\ d.has_irq_pending \in [Osc -> Int]
         /\ d.g_num_osc_interrupting \in Int /\ d.g_doc_num_osc_en \in 1..OSCS
         /\ d.e0 \in Osc \cup {NoOsc} /\ d.irq \in SUBSET {"doc"}
         /\ d.listed \in [Osc -> Nat] /\ d.halted \in SUBSET Complaint
         /\ d.g_doc_num_osc_en \in Nat
         /\ \A o \in Osc : /\ d.ctl[o] \in Control
                           /\ d.ctl[o] = [halt |-> d.ctl[o].halt, mode |-> d.ctl[o].mode,
                                          ie |-> d.ctl[o].ie]
                           /\ d.ctl[o].halt \in BOOLEAN /\ d.ctl[o].mode \in Mode \cup {0}
                           /\ d.ctl[o].ie \in BOOLEAN
BY OscNumbers DEF Chip, Control

LEMMA SameBooksKeep ==
  ASSUME NEW d, NEW e, SameBooks(d, e)
  PROVE  /\ \A k : Books(d, k) => Books(e, k)
         /\ \A o, k : Starting(d, o, k) => Starting(e, o, k)
         /\ \A o : PlayOn(d, e, o)
         /\ \A f : SameBooks(e, f) => SameBooks(d, f)
BY DEF SameBooks, Books, Starting, PlayOn, Flagged, Told

\* Complaints about interrupts are not among the wrong ones.
LEMMA Complaints ==
  ASSUME NEW d \in Chip, NEW c, NEW w \in Complaint \ Wrong, c = d.halted \cup {w}
  PROVE  SameBooks(d, d) /\ SameBooks(d, [d EXCEPT !.halted = c])
<1>1. c \in SUBSET Complaint /\ c \cap Wrong = Blames(d)
  BY ChipFields DEF Blames
<1>2. [d EXCEPT !.halted = c] \in Chip
  BY <1>1 DEF Chip
<1> QED BY <1>1, <1>2, ChipFields DEF SameBooks, Blames

LEMMA Messages ==
  {"Adding sound_irq", "REMOVE_sound_irq", "remove_sound_irq, but",
   "reset: has_irq", "reset: num_osc_int"} \subseteq Complaint \ Wrong
BY DEF Complaint, Wrong

-----------------------------------------------------------------------------
\* The interrupts leave the books alone.
LEMMA AddIrq ==
  ASSUME NEW d \in Chip, NEW o \in Osc
  PROVE  SameBooks(d, add_sound_irq(d, o))
<1> DEFINE num == d.g_num_osc_interrupting + 1
           t == Complain(d, d.has_irq_pending[o] # 0, "Adding sound_irq")
           i == add_irq(d.irq, {"doc"})
           z == IF num = 1 THEN o ELSE d.e0
           e == [t EXCEPT !.has_irq_pending[o] = num, !.g_num_osc_interrupting = num,
                          !.irq = i, !.e0 = z]
<1>1. SameBooks(d, t)
  BY Complaints, Messages DEF Complain
<1>2. /\ num \in Int /\ i \in SUBSET {"doc"}
      /\ z \in Osc \cup {NoOsc}
  BY ChipFields DEF add_irq
<1>3. t \in Chip
  BY <1>1 DEF SameBooks
<1>4. SameBooks(t, e)
  <2> HIDE DEF t, num, i, z
  <2> QED BY <1>2, <1>3, ChipFields DEF SameBooks, Chip, Blames
<1>5. SameBooks(d, e)
  <2> HIDE DEF t, e
  <2> QED BY <1>1, <1>4, SameBooksKeep
<1>6. e = add_sound_irq(d, o)
  BY DEF add_sound_irq
<1> QED BY <1>5, <1>6

LEMMA RemoveIrq ==
  ASSUME NEW d \in Chip, NEW o \in Osc, NEW must \in BOOLEAN
  PROVE  SameBooks(d, remove_sound_irq(d, o, must))
<1>1. SameBooks(d, Removed(d, o))
  <2> DEFINE r == d.has_irq_pending[o]
             num == d.g_num_osc_interrupting - 1
             i == IF num = 0 THEN remove_irq(d.irq, {"doc"}) ELSE d.irq
             t == [d EXCEPT !.g_num_osc_interrupting = num, !.has_irq_pending[o] = 0, !.irq = i]
             f == [d.has_irq_pending EXCEPT ![o] = 0]
             pending == MovedUp(t, r)
             z == IF r = 1 THEN FirstOf(t, pending) ELSE t.e0
             e == [t EXCEPT !.has_irq_pending = pending, !.e0 = z]
  <2>1. r \in Int /\ num \in Int /\ i \in SUBSET {"doc"}
    BY ChipFields DEF remove_irq
  <2>2. SameBooks(d, t)
    <3>1. f \in [Osc -> Int]
      BY ChipFields
    <3>2. t = [d EXCEPT !.g_num_osc_interrupting = num, !.has_irq_pending = f, !.irq = i]
      OBVIOUS
    <3> HIDE DEF i, num, f, t
    <3> QED BY <2>1, <3>1, <3>2, ChipFields DEF SameBooks, Chip, Blames
  <2>3. t \in Chip
    BY <2>2 DEF SameBooks
  <2> HIDE DEF t, r
  <2>4. pending \in [Osc -> Int]
    BY <2>1, <2>3, ChipFields DEF MovedUp
  <2> HIDE DEF pending
  <2>5. FirstOf(t, pending) \in Osc \cup {NoOsc}
    <3> DEFINE first == {j \in Osc : j < t.g_doc_num_osc_en /\ pending[j] = 1}
    <3>1. CASE first = {}
      BY <3>1 DEF FirstOf
    <3>2. CASE first # {}
      <4> DEFINE back == {OSCS - j : j \in first}
      <4>1. back \subseteq Nat /\ back # {}
        BY <3>2, OscNumbers DEF Osc
      <4>2. PICK m \in back : \A n \in back : m <= n
        BY <4>1, LeastNumber
      <4>3. PICK j \in first : m = OSCS - j
        BY <4>2
      <4>4. ASSUME NEW k \in first PROVE k <= j
        <5>1. m <= OSCS - k
          BY <4>2
        <5> QED BY <5>1, <4>3, OscNumbers
      <4> QED BY <3>2, <4>4 DEF FirstOf
    <3> QED BY <3>1, <3>2
  <2>6. z \in Osc \cup {NoOsc}
    BY <2>5, <2>3, ChipFields
  <2>7. SameBooks(t, e)
    <3> HIDE DEF z
    <3> QED BY <2>3, <2>4, <2>6, ChipFields DEF SameBooks, Chip, Blames
  <2>8. SameBooks(d, e)
    <3> HIDE DEF e
    <3> QED BY <2>2, <2>7, SameBooksKeep
  <2> QED BY <2>8 DEF Removed, t, pending, r
<1> DEFINE t == IF d.has_irq_pending[o] # 0 THEN Removed(d, o)
                ELSE Complain(d, must, "REMOVE_sound_irq")
           lost == t.e0 = NoOsc /\ \E i \in Osc : t.has_irq_pending[i] # 0
<1>2. SameBooks(d, t)
  BY <1>1, Complaints, Messages DEF Complain
<1>3. t \in Chip
  BY <1>2 DEF SameBooks
<1>4. SameBooks(t, Complain(t, lost, "remove_sound_irq, but"))
  <2> HIDE DEF t
  <2> QED BY <1>3, Complaints, Messages DEF Complain
<1>5. SameBooks(d, Complain(t, lost, "remove_sound_irq, but"))
  <2> HIDE DEF t, lost
  <2> QED BY <1>2, <1>4, SameBooksKeep
<1> QED BY <1>5 DEF remove_sound_irq

-----------------------------------------------------------------------------
\* Events.
LEMMA RemoveEvent ==
  ASSUME NEW d \in Chip, NEW o \in Osc, Flagged(d)
  PROVE  LET e == remove_sound_event(d, o)
         IN /\ e \in Chip /\ Flagged(e) /\ ~e.event[o]
            /\ e.ctl = d.ctl /\ e.running = d.running /\ e.halted = d.halted
            /\ e.g_doc_num_osc_en = d.g_doc_num_osc_en
<1>1. CASE ~d.event[o]
  BY <1>1 DEF remove_sound_event
<1>2. CASE d.event[o]
  <2> DEFINE ev == [d.event EXCEPT ![o] = FALSE]
             li == [d.listed EXCEPT ![o] = d.listed[o] - 1]
             e == [d EXCEPT !.event = ev, !.listed = li]
  <2>1. d.listed[o] = 1
    BY <1>2 DEF Flagged
  <2>2. ev \in [Osc -> BOOLEAN] /\ li \in [Osc -> Nat]
    BY <2>1, ChipFields
  <2>3. \A i \in Osc : li[i] = IF ev[i] THEN 1 ELSE 0
    BY <2>1, ChipFields DEF Flagged
  <2>4. remove_sound_event(d, o) = e
    <3> DEFINE t == [d EXCEPT !.event = ev]
    <3>1. t.listed = d.listed /\ e = [t EXCEPT !.listed = li]
      BY DEF Chip
    <3>2. remove_event_doc(t, o) = [t EXCEPT !.listed = li]
      <4> HIDE DEF t, li, ev
      <4>1. t.listed[o] # 0
        BY <2>1, <3>1
      <4>2. remove_event_doc(t, o) = [t EXCEPT !.listed[o] = t.listed[o] - 1]
        BY <4>1, Zenon DEF remove_event_doc
      <4> USE DEF li
      <4> QED BY <3>1, <4>2
    <3> QED BY <1>2, <3>1, <3>2 DEF remove_sound_event
  <2>5. ~ev[o]
    BY ChipFields
  <2> HIDE DEF ev, li
  <2> QED BY <2>2, <2>3, <2>4, <2>5 DEF Chip, Flagged
<1> QED BY <1>1, <1>2

LEMMA WaveEnd ==
  ASSUME NEW d \in Chip, NEW o \in Osc, Flagged(d)
  PROVE  LET e == wave_end_estimate(d, o)
         IN /\ e \in Chip /\ Flagged(e)
            /\ e.ctl = d.ctl /\ e.running = d.running /\ e.halted = d.halted
            /\ e.g_doc_num_osc_en = d.g_doc_num_osc_en
<1> DEFINE t == remove_sound_event(d, o)
           ev == [t.event EXCEPT ![o] = TRUE]
           li == [t.listed EXCEPT ![o] = t.listed[o] + 1]
           e == [t EXCEPT !.event = ev, !.listed = li]
<1>1. /\ t \in Chip /\ Flagged(t) /\ ~t.event[o]
      /\ t.ctl = d.ctl /\ t.running = d.running /\ t.halted = d.halted
      /\ t.g_doc_num_osc_en = d.g_doc_num_osc_en
  BY RemoveEvent
<1>2. wave_end_estimate(d, o) \in {t, e}
  BY DEF wave_end_estimate
<1> HIDE DEF t
<1>3. ev \in [Osc -> BOOLEAN] /\ li \in [Osc -> Nat]
  BY <1>1, ChipFields
<1>4. \A i \in Osc : li[i] = IF ev[i] THEN 1 ELSE 0
  BY <1>1, ChipFields DEF Flagged
<1>5. CASE wave_end_estimate(d, o) = t
  BY <1>1, <1>5
<1>6. CASE wave_end_estimate(d, o) = e
  <2>1. e \in Chip /\ e.event = ev /\ e.listed = li
    <3> HIDE DEF ev, li
    <3> QED BY <1>1, <1>3 DEF Chip
  <2>2. /\ e.ctl = t.ctl /\ e.running = t.running /\ e.halted = t.halted
        /\ e.g_doc_num_osc_en = t.g_doc_num_osc_en
    <3> HIDE DEF ev, li
    <3> QED BY <1>1 DEF Chip
  <2> HIDE DEF e, ev, li
  <2> QED BY <1>1, <1>4, <1>6, <2>1, <2>2 DEF Flagged
<1> QED BY <1>2, <1>5, <1>6

\* Estimating the end of a wave leaves alone what BooksAgree says of those
\* that play.
LEMMA EventBooks ==
  ASSUME NEW d, NEW e, NEW k, Books(d, k), e \in Chip, Flagged(e),
         e.ctl = d.ctl, e.running = d.running, e.halted = d.halted,
         e.g_doc_num_osc_en = d.g_doc_num_osc_en
  PROVE  Books(e, k) /\ \A o : PlayOn(d, e, o)
BY DEF Books, Told, Blames, PlayOn

-----------------------------------------------------------------------------
\* Setting the halt bit, and starting.
LEMMA SetHalt ==
  ASSUME NEW d \in Chip, NEW o \in Osc, NEW h \in BOOLEAN
  PROVE  LET e == [d EXCEPT !.ctl[o].halt = h]
         IN /\ e \in Chip
            /\ e.ctl[o].halt = h /\ \A i \in Osc \ {o} : e.ctl[i] = d.ctl[i]
            /\ e.running = d.running /\ e.event = d.event /\ e.listed = d.listed
            /\ e.halted = d.halted /\ e.g_doc_num_osc_en = d.g_doc_num_osc_en
<1> DEFINE c == [d.ctl EXCEPT ![o] = [d.ctl[o] EXCEPT !.halt = h]]
           e == [d EXCEPT !.ctl = c]
<1>1. c \in [Osc -> Control] /\ c[o].halt = h /\ \A i \in Osc \ {o} : c[i] = d.ctl[i]
  BY ChipFields DEF Control
<1>2. [d EXCEPT !.ctl[o].halt = h] = e
  OBVIOUS
<1>3. e \in Chip /\ e.ctl = c
  <2> HIDE DEF c
  <2> QED BY <1>1 DEF Chip
<1> QED BY <1>1, <1>2, <1>3

LEMMA Begins ==
  ASSUME NEW d, NEW o \in Osc, NEW k, Starting(d, o, k), o < d.g_doc_num_osc_en
  PROVE  Books(Begin(d, o), k) /\ PlayOn(d, Begin(d, o), o) /\ Begin(d, o).running[o]
         /\ Begin(d, o).ctl = d.ctl /\ Begin(d, o).g_doc_num_osc_en = d.g_doc_num_osc_en
<1> DEFINE r == [d.running EXCEPT ![o] = TRUE]
<1>1. d \in Chip /\ Begin(d, o) = [d EXCEPT !.running = r]
  BY DEF Begin, Complain, Starting
<1>2. r \in [Osc -> BOOLEAN] /\ r[o] /\ \A i \in Osc \ {o} : r[i] = d.running[i]
  BY <1>1, ChipFields
<1>3. Begin(d, o) \in Chip
  <2> HIDE DEF r
  <2> QED BY <1>1, <1>2 DEF Chip
<1>4. /\ Begin(d, o).ctl = d.ctl /\ Begin(d, o).event = d.event /\ Begin(d, o).listed = d.listed
      /\ Begin(d, o).halted = d.halted /\ Begin(d, o).running = r
      /\ Begin(d, o).g_doc_num_osc_en = d.g_doc_num_osc_en
  <2> HIDE DEF r
  <2> QED BY <1>1 DEF Chip
<1> HIDE DEF r
<1> QED BY <1>2, <1>3, <1>4 DEF Starting, Books, Told, Flagged, Blames, PlayOn

\* An oscillator with the halt bit on is let go.
LEMMA LetGo ==
  ASSUME NEW d, NEW p \in Osc, NEW k, Books(d, k), d.ctl[p].halt
  PROVE  LET e == [d EXCEPT !.ctl[p].halt = FALSE]
         IN Starting(e, p, k) /\ e.running = d.running
            /\ e.g_doc_num_osc_en = d.g_doc_num_osc_en
<1> DEFINE e == [d EXCEPT !.ctl[p].halt = FALSE]
<1>1. /\ e \in Chip
      /\ e.ctl[p].halt = FALSE /\ \A i \in Osc \ {p} : e.ctl[i] = d.ctl[i]
      /\ e.running = d.running /\ e.event = d.event /\ e.listed = d.listed
      /\ e.halted = d.halted /\ e.g_doc_num_osc_en = d.g_doc_num_osc_en
  BY SetHalt DEF Books
<1> HIDE DEF e
<1>2. Starting(e, p, k)
  BY <1>1 DEF Starting, Books, Told, Flagged, Blames
<1> QED BY <1>1, <1>2 DEF e

\* One that was about to start is halted instead.
LEMMA HaltInstead ==
  ASSUME NEW d, NEW o \in Osc, NEW k, Starting(d, o, k)
  PROVE  LET e == [d EXCEPT !.ctl[o].halt = TRUE]
         IN /\ Books(e, k) /\ PlayOn(d, e, o) /\ e.running = d.running
            /\ \A i \in Osc \ {o} : e.ctl[i] = d.ctl[i]
<1> DEFINE e == [d EXCEPT !.ctl[o].halt = TRUE]
<1>1. /\ e \in Chip
      /\ e.ctl[o].halt = TRUE /\ \A i \in Osc \ {o} : e.ctl[i] = d.ctl[i]
      /\ e.running = d.running /\ e.event = d.event /\ e.listed = d.listed
      /\ e.halted = d.halted /\ e.g_doc_num_osc_en = d.g_doc_num_osc_en
  BY SetHalt DEF Starting
<1> HIDE DEF e
<1>2. Books(e, k) /\ PlayOn(d, e, o)
  BY <1>1 DEF Starting, Books, Told, Flagged, Blames, PlayOn
<1> QED BY <1>1, <1>2 DEF e

LEMMA Estimated ==
  ASSUME NEW d, NEW o \in Osc, NEW k, Books(d, k)
  PROVE  Books(wave_end_estimate(d, o), k) /\ wave_end_estimate(d, o).running = d.running
<1>1. d \in Chip /\ Flagged(d)
  BY DEF Books
<1> QED BY <1>1, WaveEnd, EventBooks

LEMMA StartsAlone ==
  ASSUME NEW d, NEW o \in Osc, NEW k, Starting(d, o, k)
  PROVE  Books(StartAlone(d, o), k) /\ PlayOn(d, StartAlone(d, o), o)
<1>1. CASE o >= d.g_doc_num_osc_en
  BY <1>1, HaltInstead DEF StartAlone
<1>2. CASE ~(o >= d.g_doc_num_osc_en)
  <2>1. d \in Chip /\ o < d.g_doc_num_osc_en
    BY <1>2, ChipFields, OscNumbers DEF Starting
  <2>2. Books(Begin(d, o), k) /\ PlayOn(d, Begin(d, o), o)
    BY <2>1, Begins
  <2>3. StartAlone(d, o) = wave_end_estimate(Begin(d, o), o)
    BY <1>2 DEF StartAlone
  <2> QED BY <2>2, <2>3, Estimated DEF PlayOn
<1> QED BY <1>1, <1>2

LEMMA Starts ==
  ASSUME NEW d, NEW o \in Osc, NEW k, Starting(d, o, k)
  PROVE  Books(start_sound(d, o), k) /\ PlayOn(d, start_sound(d, o), o)
<1> DEFINE p == Partner(o)
           t == Begin(d, o)
           sync == /\ o % 2 = 0 /\ d.ctl[o].mode = 2
                   /\ d.ctl[p].halt /\ d.ctl[p].mode = 2
           u == [t EXCEPT !.ctl[p].halt = FALSE]
           x == IF sync THEN StartAlone(u, p) ELSE t
<1>1. CASE o >= d.g_doc_num_osc_en
  BY <1>1, HaltInstead DEF start_sound
<1>2. CASE ~(o >= d.g_doc_num_osc_en)
  <2>1. d \in Chip /\ o < d.g_doc_num_osc_en /\ p \in Osc /\ p # o
    BY <1>2, ChipFields, OscNumbers DEF Starting
  <2>2. Books(t, k) /\ PlayOn(d, t, o) /\ t.ctl = d.ctl
    BY <2>1, Begins
  <2>3. start_sound(d, o) = wave_end_estimate(x, o)
    BY <1>2 DEF start_sound
  <2>4. CASE sync
    <3>1. Starting(u, p, k) /\ u.running = t.running
      <4>1. t.ctl[p].halt
        BY <2>2, <2>4
      <4> HIDE DEF t, p
      <4> QED BY <4>1, <2>1, <2>2, LetGo
    <3>2. Books(StartAlone(u, p), k) /\ PlayOn(u, StartAlone(u, p), p)
      <4> HIDE DEF u, p
      <4> QED BY <3>1, <2>1, StartsAlone
    <3>3. ~d.running[p]
      BY <2>1, <2>4 DEF Starting, Told
    <3>4. x = StartAlone(u, p)
      BY <2>4
    <3>5. PlayOn(d, x, o)
      <4> HIDE DEF u, t, p, x
      <4> QED BY <3>1, <3>2, <3>3, <3>4, <2>2 DEF PlayOn
    <3> HIDE DEF u, t, p, x
    <3> QED BY <2>3, <3>2, <3>4, <3>5, Estimated DEF PlayOn
  <2>5. CASE ~sync
    <3>1. x = t
      BY <2>5
    <3> HIDE DEF t, x
    <3> QED BY <2>2, <2>3, <3>1, Estimated DEF PlayOn
  <2> QED BY <2>4, <2>5
<1> QED BY <1>1, <1>2

-----------------------------------------------------------------------------
\* The end of a wave.
LEMMA Follows ==
  ASSUME NEW d, NEW o \in Osc, NEW k, NEW can_repeat \in BOOLEAN, Starting(d, o, k)
  PROVE  Books(Follow(d, o, can_repeat), k) /\ PlayOn(d, Follow(d, o, can_repeat), o)
<1> DEFINE p == Partner(o)
           t == [d EXCEPT !.ctl[o].halt = TRUE]
           u == [t EXCEPT !.ctl[p].halt = FALSE]
<1>1. p \in Osc /\ p # o
  BY OscNumbers
<1>2. /\ Books(t, k) /\ PlayOn(d, t, o) /\ t.running = d.running
      /\ \A i \in Osc \ {o} : t.ctl[i] = d.ctl[i]
  BY HaltInstead
<1>3. CASE Follow(d, o, can_repeat) = start_sound(d, o)
  BY <1>3, Starts
<1>4. CASE Follow(d, o, can_repeat) = start_sound(u, p) /\ ~d.running[p] /\ d.ctl[p].halt
  <2> HIDE DEF t, p
  <2>1. Starting(u, p, k) /\ u.running = d.running
    BY <1>1, <1>2, <1>4, LetGo
  <2> HIDE DEF u
  <2>2. Books(start_sound(u, p), k) /\ PlayOn(u, start_sound(u, p), p)
    BY <1>1, <2>1, Starts
  <2> QED BY <1>1, <1>4, <2>1, <2>2 DEF PlayOn
<1>5. CASE Follow(d, o, can_repeat) = t
  BY <1>2, <1>5
<1>6. \/ Follow(d, o, can_repeat) = start_sound(d, o)
      \/ Follow(d, o, can_repeat) = start_sound(u, p) /\ ~d.running[p] /\ d.ctl[p].halt
      \/ Follow(d, o, can_repeat) = t
  BY DEF Follow
<1> QED BY <1>3, <1>4, <1>5, <1>6

LEMMA Ends ==
  ASSUME NEW d, NEW o \in Osc, NEW k, NEW can_repeat \in BOOLEAN,
         Books(d, k), d.running[o]
  PROVE  LET e == doc_sound_end(d, o, can_repeat) IN Books(e, k) /\ PlayOn(d, e, o)
<1> DEFINE t == remove_sound_event(d, o)
           u == IF t.ctl[o].ie /\ t.has_irq_pending[o] = 0 THEN add_sound_irq(t, o) ELSE t
           v == Complain(u, ~u.running[o], "but not running")
           r == [u.running EXCEPT ![o] = FALSE]
           w == [v EXCEPT !.running[o] = FALSE]
<1>1. Books(t, k) /\ t.running = d.running
  <2>1. d \in Chip /\ Flagged(d)
    BY DEF Books
  <2> QED BY <2>1, RemoveEvent, EventBooks
<1> HIDE DEF t
<1>2. t \in Chip
  BY <1>1 DEF Books
<1>3. Books(u, k) /\ u.running = d.running
  <2>1. SameBooks(t, add_sound_irq(t, o))
    BY <1>2, AddIrq
  <2>2. Books(add_sound_irq(t, o), k) /\ add_sound_irq(t, o).running = t.running
    BY <1>1, <2>1, SameBooksKeep DEF SameBooks
  <2> QED BY <1>1, <2>2
<1>4. ~t.ctl[o].halt
  BY <1>1 DEF Books, Told
<1> HIDE DEF u
<1>5. v = u
  BY <1>3 DEF Complain
<1>6. w = [u EXCEPT !.running = r]
  BY <1>5
<1>7. u \in Chip /\ r \in [Osc -> BOOLEAN] /\ ~r[o] /\ \A i \in Osc \ {o} : r[i] = u.running[i]
  BY <1>3, ChipFields DEF Books
<1>8. /\ w \in Chip /\ w.running = r
      /\ w.ctl = u.ctl /\ w.event = u.event /\ w.listed = u.listed /\ w.halted = u.halted
      /\ w.g_doc_num_osc_en = u.g_doc_num_osc_en
  <2> HIDE DEF r, v
  <2> QED BY <1>6, <1>7 DEF Chip
<1> HIDE DEF r, w
<1>9. Starting(w, o, k)
  BY <1>3, <1>7, <1>8 DEF Books, Starting, Told, Flagged, Blames
<1>10. doc_sound_end(d, o, can_repeat) = Follow(w, o, can_repeat)
  BY <1>4 DEF doc_sound_end, t, u, v, w
<1>11. Books(Follow(w, o, can_repeat), k) /\ PlayOn(w, Follow(w, o, can_repeat), o)
  BY <1>9, Follows
<1> QED BY <1>3, <1>7, <1>8, <1>10, <1>11 DEF PlayOn

-----------------------------------------------------------------------------
\* sound_play.
Playing(p, k) == Books(p.d, k) /\ p.todo \subseteq {o \in Osc : p.d.running[o]}

LEMMA Turns ==
  ASSUME NEW p, NEW k, Playing(p, k), NEW q \in Turn(p)
  PROVE  Playing(q, k)
<1>1. PICK o \in p.todo : q \in {[d |-> p.d, todo |-> p.todo \ {o}, at |-> o + 1]}
                                 \cup Ended(p, o, TRUE) \cup Ended(p, o, FALSE)
  BY DEF Turn
<1>2. o \in Osc /\ p.d.running[o]
  BY DEF Playing
<1>3. CASE q = [d |-> p.d, todo |-> p.todo \ {o}, at |-> o + 1]
  BY <1>3 DEF Playing
<1>4. ASSUME NEW can_repeat \in BOOLEAN, q \in Ended(p, o, can_repeat)
      PROVE  Playing(q, k)
  <2> DEFINE e == doc_sound_end(p.d, o, can_repeat)
             started == {i \in Osc : e.running[i] /\ (i = o \/ ~p.d.running[i])}
  <2>1. Books(e, k) /\ PlayOn(p.d, e, o)
    BY <1>2, Ends DEF Playing
  <2>2. q.d = e /\ q.todo = (p.todo \ {o}) \cup started
    BY <1>4 DEF Ended
  <2> HIDE DEF e
  <2> QED BY <2>1, <2>2 DEF Playing, PlayOn
<1> QED BY <1>1, <1>3, <1>4

LEMMA SoundPlays ==
  ASSUME NEW d, NEW k, Books(d, k), NEW e \in sound_play(d)
  PROVE  Books(e, k)
<1> DEFINE playing == {o \in Osc : d.running[o] /\ o < d.g_doc_num_osc_en}
           Begun == {[d |-> d, todo |-> playing, at |-> 0]}
           More(S) == UNION {IF p.todo = {} THEN {p} ELSE Turn(p) : p \in S}
           N == OSCS + ExtraTurns
           Loop(f, n) == f = [i \in 0..n |-> IF i = 0 THEN Begun ELSE More(f[i - 1])]
           after == CHOOSE f : Loop(f, N)
<1>1. sound_play(d) = {p.d : p \in after[N]}
  BY DEF sound_play
<1>2. N \in Nat
  BY DocAssumption DEF DocAssumption
<1> HIDE DEF N, Begun, More
<1>3. Loop(after, N)
  <2> DEFINE S == {n \in Nat : \E f : Loop(f, n)}
  <2>1. 0 \in S
    <3>1. Loop([i \in 0..0 |-> Begun], 0)
      OBVIOUS
    <3> QED BY <3>1
  <2>2. ASSUME NEW n \in Nat, n \in S PROVE n + 1 \in S
    <3>1. PICK f : Loop(f, n)
      BY <2>2
    <3> DEFINE h == [i \in 0..n + 1 |-> IF i = n + 1 THEN More(f[n]) ELSE f[i]]
    <3>2. ASSUME NEW i \in 0..n + 1 PROVE h[i] = IF i = 0 THEN Begun ELSE More(h[i - 1])
      <4>1. CASE i = n + 1
        BY <4>1
      <4>2. CASE i \in 0..n
        BY <4>2, <3>1
      <4> QED BY <4>1, <4>2
    <3>3. Loop(h, n + 1)
      BY <3>2
    <3> HIDE DEF h
    <3> QED BY <3>3
  <2> HIDE DEF S
  <2>3. N \in S
    BY <1>2, <2>1, <2>2, SetInduction
  <2> QED BY <2>3 DEF S
<1> HIDE DEF after
<1>4. \A p \in Begun : Playing(p, k)
  BY DEF Begun, Playing
<1>5. ASSUME NEW S, \A p \in S : Playing(p, k), NEW q \in More(S)
      PROVE  Playing(q, k)
  BY <1>5, Turns DEF More
<1>6. ASSUME NEW n \in 0..N PROVE \A p \in after[n] : Playing(p, k)
  <2> DEFINE S == {n_1 \in Nat : n_1 <= N => \A p \in after[n_1] : Playing(p, k)}
  <2>1. 0 \in S
    BY <1>2, <1>3, <1>4
  <2>2. ASSUME NEW m \in Nat, m \in S PROVE m + 1 \in S
    <3>1. CASE m + 1 <= N
      <4>1. after[m + 1] = More(after[m]) /\ \A p \in after[m] : Playing(p, k)
        BY <1>2, <1>3, <2>2, <3>1
      <4> QED BY <1>5, <4>1
    <3>2. CASE ~(m + 1 <= N)
      BY <3>2
    <3> QED BY <3>1, <3>2
  <2> HIDE DEF S
  <2>3. n \in S
    BY <1>2, <2>1, <2>2, SetInduction
  <2> QED BY <1>2, <2>3 DEF S
<1>7. PICK p \in after[N] : e = p.d
  BY <1>1
<1> QED BY <1>2, <1>6, <1>7 DEF Playing

-----------------------------------------------------------------------------
\* Registers.
Values == [halt : BOOLEAN, mode : Mode \cup {0}, ie : BOOLEAN]

\* A new control value that leaves the halt bit as it is.
LEMMA SetControl ==
  ASSUME NEW d \in Chip, NEW o \in Osc, NEW v \in Values
  PROVE  LET e == [d EXCEPT !.ctl[o] = v]
         IN /\ e \in Chip
            /\ e.ctl[o] = v /\ \A i \in Osc \ {o} : e.ctl[i] = d.ctl[i]
            /\ e.running = d.running /\ e.event = d.event /\ e.listed = d.listed
            /\ e.halted = d.halted /\ e.g_doc_num_osc_en = d.g_doc_num_osc_en
<1> DEFINE c == [d.ctl EXCEPT ![o] = v]
           e == [d EXCEPT !.ctl = c]
<1>1. c \in [Osc -> Control] /\ c[o] = v /\ \A i \in Osc \ {o} : c[i] = d.ctl[i]
  BY ChipFields DEF Control, Values
<1>2. [d EXCEPT !.ctl[o] = v] = e
  OBVIOUS
<1>3. e \in Chip /\ e.ctl = c
  <2> HIDE DEF c
  <2> QED BY <1>1 DEF Chip
<1> QED BY <1>1, <1>2, <1>3

\* A halted oscillator is silent at last.
LEMMA Silenced ==
  ASSUME NEW d, NEW o \in Osc, NEW v \in Values, NEW k, Books(d, k), v.halt
  PROVE  LET e == [d EXCEPT !.ctl[o] = v, !.running[o] = FALSE]
         IN Books(e, k) /\ ~e.running[o] /\ e.g_doc_num_osc_en = d.g_doc_num_osc_en
<1> DEFINE c == [d EXCEPT !.ctl[o] = v]
           r == [c.running EXCEPT ![o] = FALSE]
           e == [c EXCEPT !.running = r]
<1>1. d \in Chip
  BY DEF Books
<1>2. /\ c \in Chip
      /\ c.ctl[o] = v /\ \A i \in Osc \ {o} : c.ctl[i] = d.ctl[i]
      /\ c.running = d.running /\ c.event = d.event /\ c.listed = d.listed
      /\ c.halted = d.halted /\ c.g_doc_num_osc_en = d.g_doc_num_osc_en
  BY <1>1, SetControl
<1>3. [d EXCEPT !.ctl[o] = v, !.running[o] = FALSE] = e
  BY <1>1 DEF Chip
<1> HIDE DEF c
<1>4. r \in [Osc -> BOOLEAN] /\ ~r[o] /\ \A i \in Osc \ {o} : r[i] = d.running[i]
  BY <1>2, ChipFields
<1>5. /\ e \in Chip /\ e.running = r /\ e.ctl = c.ctl /\ e.event = c.event
      /\ e.listed = c.listed /\ e.halted = c.halted
      /\ e.g_doc_num_osc_en = c.g_doc_num_osc_en
  <2> HIDE DEF r
  <2> QED BY <1>2, <1>4 DEF Chip
<1>6. Books(e, k) /\ ~e.running[o]
  <2> HIDE DEF r, e
  <2> QED BY <1>2, <1>4, <1>5 DEF Books, Told, Flagged, Blames
<1> HIDE DEF e
<1> QED BY <1>2, <1>3, <1>5, <1>6

LEMMA Changes ==
  ASSUME NEW d, NEW o \in Osc, NEW v \in Values, NEW k, Books(d, k), NEW e \in ChangeCtl(d, o, v)
  PROVE  Books(e, k) /\ (v.halt => ~e.running[o])
<1> DEFINE t == remove_sound_irq(d, o, FALSE)
           u == [t EXCEPT !.ctl[o] = v]
           s == remove_sound_event(t, o)
<1>0. d \in Chip
  BY DEF Books
<1>1. SameBooks(d, t)
  BY <1>0, RemoveIrq
<1> HIDE DEF t
<1>2. Books(t, k) /\ t.ctl = d.ctl
  BY <1>1, SameBooksKeep DEF SameBooks
<1>3. t \in Chip /\ Flagged(t)
  BY <1>2 DEF Books
<1>4. CASE v.halt
  <2>1. Books(s, k)
    BY <1>2, <1>3, RemoveEvent, EventBooks
  <2> HIDE DEF s
  <2>2. PICK f \in (IF d.ctl[o].halt THEN {s} ELSE sound_play(s)) :
               e = [f EXCEPT !.ctl[o] = v, !.running[o] = FALSE]
    BY <1>4 DEF ChangeCtl, t, s
  <2>3. Books(f, k)
    BY <2>1, <2>2, SoundPlays
  <2> QED BY <1>4, <2>2, <2>3, Silenced
<1>5. CASE ~v.halt
  <2>1. /\ u \in Chip
        /\ u.ctl[o] = v /\ \A i \in Osc \ {o} : u.ctl[i] = t.ctl[i]
        /\ u.running = t.running /\ u.event = t.event /\ u.listed = t.listed
        /\ u.halted = t.halted /\ u.g_doc_num_osc_en = t.g_doc_num_osc_en
    BY <1>3, SetControl
  <2>2. e \in {start_sound(u, o), wave_end_estimate(u, o), u}
    BY <1>5 DEF ChangeCtl, t
  <2>3. /\ d.ctl[o].halt => e = start_sound(u, o)
        /\ ~d.ctl[o].halt => e \in {wave_end_estimate(u, o), u}
    BY <1>5 DEF ChangeCtl, t
  <2> HIDE DEF u
  <2>4. CASE d.ctl[o].halt
    <3>1. Starting(u, o, k)
      BY <1>2, <1>5, <2>1, <2>4 DEF Books, Starting, Told, Flagged, Blames
    <3> QED BY <1>5, <2>3, <2>4, <3>1, Starts
  <2>5. CASE ~d.ctl[o].halt
    <3>1. Books(u, k)
      BY <1>2, <1>5, <2>1, <2>5 DEF Books, Told, Flagged, Blames
    <3> QED BY <1>5, <2>3, <2>5, <3>1, Estimated
  <2> QED BY <2>4, <2>5
<1> QED BY <1>4, <1>5

LEMMA Halts ==
  ASSUME NEW d, NEW o \in Osc, NEW k, Books(d, k), NEW e \in Halt(d, o)
  PROVE  Books(e, k) /\ ~e.running[o]
<1>1. CASE d.ctl[o].halt
  BY <1>1 DEF Halt, Books, Told
<1>2. CASE ~d.ctl[o].halt
  <2> DEFINE v == [d.ctl[o] EXCEPT !.halt = TRUE]
  <2>1. v \in Values /\ v.halt
    <3>1. d \in Chip
      BY DEF Books
    <3>2. d.ctl[o] \in Values
      BY <3>1, ChipFields DEF Values, Control
    <3> QED BY <3>2 DEF Values
  <2>2. e \in ChangeCtl(d, o, v)
    BY <1>2 DEF Halt
  <2> HIDE DEF v
  <2> QED BY <2>1, <2>2, Changes
<1> QED BY <1>1, <1>2

\* Resetting the queue of interrupts does not touch the books.
LEMMA ResetsOne ==
  ASSUME NEW d, NEW o \in Osc, NEW k, Books(d, k), NEW e \in ResetOsc(d, o)
  PROVE  Books(e, k)
<1>1. PICK f \in Halt(d, o) :
         e = [Complain(f, f.has_irq_pending[o] # 0, "reset: has_irq")
                EXCEPT !.e0 = NoOsc, !.has_irq_pending[o] = 0]
  BY DEF ResetOsc
<1> DEFINE c == Complain(f, f.has_irq_pending[o] # 0, "reset: has_irq")
           q == [c.has_irq_pending EXCEPT ![o] = 0]
<1>2. Books(f, k) /\ f \in Chip
  BY <1>1, Halts DEF Books
<1>3. SameBooks(f, c)
  BY <1>2, Complaints, Messages DEF Complain
<1>4. c \in Chip /\ Books(c, k)
  BY <1>2, <1>3, SameBooksKeep DEF SameBooks
<1>5. e = [c EXCEPT !.e0 = NoOsc, !.has_irq_pending = q]
  BY <1>1
<1> HIDE DEF c
<1>6. q \in [Osc -> Int]
  BY <1>4, ChipFields
<1>7. SameBooks(c, e)
  <2> HIDE DEF q
  <2> QED BY <1>4, <1>5, <1>6 DEF SameBooks, Chip, Blames
<1> QED BY <1>4, <1>7, SameBooksKeep

\* e1 halts the oscillators it does not enable, one after the other.
LEMMA E1Writes ==
  ASSUME NEW d, Books(d, OSCS), NEW lo \in 1..OSCS, NEW e \in WriteE1(d, lo)
  PROVE  Books(e, OSCS)
<1> DEFINE c == [d EXCEPT !.g_doc_num_osc_en = lo]
<1>0. Books(c, lo)
  <2>1. /\ c \in Chip /\ c.ctl = d.ctl /\ c.running = d.running /\ c.event = d.event
        /\ c.listed = d.listed /\ c.halted = d.halted /\ c.g_doc_num_osc_en = lo
    BY DEF Books, Chip
  <2>2. \A i \in Osc : i < lo \/ i >= lo
    BY OscNumbers
  <2> HIDE DEF c
  <2> QED BY <2>1, <2>2 DEF Books, Told, Flagged, Blames
<1>7. WriteE1(d, lo) = InTurn(c, lo, Halt)
  BY DEF WriteE1
<1> HIDE DEF c
<1> DEFINE More(S, n) == UNION {Halt(g, n - 1) : g \in S}
           Loop(f, n) == f = [i \in lo..n |-> IF i = lo THEN {c} ELSE More(f[i - 1], i)]
           upto == CHOOSE f : Loop(f, OSCS)
<1>1. InTurn(c, lo, Halt) = upto[OSCS]
  BY DEF InTurn
<1>2. lo \in Nat /\ OSCS \in Nat /\ lo <= OSCS
  BY OscNumbers
<1> HIDE DEF More
<1>3. Loop(upto, OSCS)
  <2> DEFINE S == {n \in Nat : n >= lo => \E f : Loop(f, n)}
  <2>1. 0 \in S
    <3>1. CASE lo = 0
      <4>1. Loop([i \in lo..0 |-> {c}], 0)
        BY <3>1
      <4> QED BY <4>1
    <3>2. CASE lo # 0
      BY <1>2, <3>2
    <3> QED BY <3>1, <3>2
  <2>2. ASSUME NEW n \in Nat, n \in S PROVE n + 1 \in S
    <3>1. CASE n + 1 < lo
      BY <1>2, <3>1
    <3>2. CASE n + 1 = lo
      <4> DEFINE h == [i \in lo..n + 1 |-> {c}]
      <4>1. Loop(h, n + 1)
        BY <1>2, <3>2
      <4> HIDE DEF h
      <4> QED BY <4>1
    <3>3. CASE n >= lo
      <4>1. PICK f : Loop(f, n)
        BY <2>2, <3>3
      <4> DEFINE h == [i \in lo..n + 1 |-> IF i = n + 1 THEN More(f[n], n + 1) ELSE f[i]]
      <4>2. ASSUME NEW i \in lo..n + 1
            PROVE  h[i] = IF i = lo THEN {c} ELSE More(h[i - 1], i)
        <5>1. CASE i = n + 1
          BY <1>2, <3>3, <5>1
        <5>2. CASE i \in lo..n
          <6>1. f[i] = IF i = lo THEN {c} ELSE More(f[i - 1], i)
            BY <4>1, <5>2
          <6>2. h[i] = f[i] /\ (i # lo => h[i - 1] = f[i - 1])
            BY <1>2, <5>2
          <6> QED BY <6>1, <6>2
        <5> QED BY <1>2, <5>1, <5>2
      <4>3. Loop(h, n + 1)
        BY <4>2
      <4> HIDE DEF h
      <4> QED BY <4>3
    <3> QED BY <1>2, <3>1, <3>2, <3>3
  <2> HIDE DEF S
  <2>3. OSCS \in S
    BY <1>2, <2>1, <2>2, SetInduction
  <2> QED BY <1>2, <2>3 DEF S
<1> HIDE DEF upto
<1>4. \A f \in {c} : Books(f, lo)
  BY <1>0
<1>5. ASSUME NEW m \in Osc, NEW S, \A f \in S : Books(f, m), NEW g \in More(S, m + 1)
      PROVE  Books(g, m + 1)
  <2>1. PICK f \in S : g \in Halt(f, m)
    BY OscNumbers DEF More
  <2>2. Books(g, m) /\ ~g.running[m]
    BY <1>5, <2>1, Halts
  <2>3. \A i \in Osc : i >= m => i = m \/ i >= m + 1
    BY OscNumbers
  <2> QED BY <2>2, <2>3 DEF Books, Told
<1>6. \A g \in upto[OSCS] : Books(g, OSCS)
  <2> DEFINE S == {n \in Nat : lo <= n /\ n <= OSCS => \A g \in upto[n] : Books(g, n)}
  <2>1. 0 \in S
    BY <1>2, <1>3, <1>4
  <2>2. ASSUME NEW m \in Nat, m \in S PROVE m + 1 \in S
    <3>1. CASE m + 1 = lo
      BY <1>2, <1>3, <1>4, <3>1
    <3>2. CASE lo <= m /\ m < OSCS
      <4>1. upto[m + 1] = More(upto[m], m + 1)
        <5>1. upto[m + 1] = IF m + 1 = lo THEN {c} ELSE More(upto[m + 1 - 1], m + 1)
          <6>1. m + 1 \in lo..OSCS
            BY <1>2, <3>2
          <6>2. \A i \in lo..OSCS : upto[i] = IF i = lo THEN {c} ELSE More(upto[i - 1], i)
            BY <1>3
          <6> QED BY <6>1, <6>2
        <5>2. m + 1 - 1 = m /\ m + 1 # lo
          BY <1>2, <3>2
        <5> QED BY <5>1, <5>2
      <4>3. \A f \in upto[m] : Books(f, m)
        BY <1>2, <2>2, <3>2
      <4>2. m \in Osc
        BY <1>2, <3>2 DEF Osc
      <4> QED BY <1>5, <3>2, <4>1, <4>2, <4>3
    <3> QED BY <1>2, <3>1, <3>2
  <2> HIDE DEF S
  <2>3. OSCS \in S
    BY <1>2, <2>1, <2>2, SetInduction
  <2> QED BY <1>2, <2>3 DEF S
<1> QED BY <1>7, <1>1, <1>6

LEMMA Resets0 ==
  ASSUME NEW c, Books(c, OSCS), NEW e \in sound_reset(c)
  PROVE  Books(e, OSCS)
<1> DEFINE More(S, n) == UNION {ResetOsc(g, n - 1) : g \in S}
           Loop(f, n) == f = [i \in 0..n |-> IF i = 0 THEN {c} ELSE More(f[i - 1], i)]
           upto == CHOOSE f : Loop(f, OSCS)
<1>1. InTurn(c, 0, ResetOsc) = upto[OSCS]
  BY DEF InTurn
<1>2. 0 \in Nat /\ OSCS \in Nat /\ 0 <= OSCS
  BY OscNumbers
<1> HIDE DEF More
<1>3. Loop(upto, OSCS)
  <2> DEFINE S == {n \in Nat : \E f : Loop(f, n)}
  <2>1. 0 \in S
    <3>1. Loop([i \in 0..0 |-> {c}], 0)
      OBVIOUS
    <3> QED BY <3>1
  <2>2. ASSUME NEW n \in Nat, n \in S PROVE n + 1 \in S
    <3>1. PICK f : Loop(f, n)
      BY <2>2
    <3> DEFINE h == [i \in 0..n + 1 |-> IF i = n + 1 THEN More(f[n], n + 1) ELSE f[i]]
    <3>2. ASSUME NEW i \in 0..n + 1 PROVE h[i] = IF i = 0 THEN {c} ELSE More(h[i - 1], i)
      <4>1. CASE i = n + 1
        BY <4>1
      <4>2. CASE i \in 0..n
        <5>1. f[i] = IF i = 0 THEN {c} ELSE More(f[i - 1], i)
          BY <3>1, <4>2
        <5>2. h[i] = f[i] /\ (i # 0 => h[i - 1] = f[i - 1])
          BY <4>2
        <5> QED BY <5>1, <5>2
      <4> QED BY <4>1, <4>2
    <3>3. Loop(h, n + 1)
      BY <3>2
    <3> HIDE DEF h
    <3> QED BY <3>3
  <2> HIDE DEF S
  <2>3. OSCS \in S
    BY <1>2, <2>1, <2>2, SetInduction
  <2> QED BY <1>2, <2>3 DEF S
<1> HIDE DEF upto
<1>4. \A f \in {c} : Books(f, OSCS)
  OBVIOUS
<1>5. ASSUME NEW m \in Osc, NEW S, \A f \in S : Books(f, OSCS), NEW g \in More(S, m + 1)
      PROVE  Books(g, OSCS)
  <2>1. PICK f \in S : g \in ResetOsc(f, m)
    BY OscNumbers DEF More
  <2> QED BY <1>5, <2>1, ResetsOne
<1>6. \A g \in upto[OSCS] : Books(g, OSCS)
  <2> DEFINE S == {n \in Nat : 0 <= n /\ n <= OSCS => \A g \in upto[n] : Books(g, OSCS)}
  <2>1. 0 \in S
    BY <1>2, <1>3, <1>4
  <2>2. ASSUME NEW m \in Nat, m \in S PROVE m + 1 \in S
    <3>1. CASE m + 1 = 0
      BY <1>2, <1>3, <1>4, <3>1
    <3>2. CASE 0 <= m /\ m < OSCS
      <4>1. upto[m + 1] = More(upto[m], m + 1)
        <5>1. upto[m + 1] = IF m + 1 = 0 THEN {c} ELSE More(upto[m + 1 - 1], m + 1)
          <6>1. m + 1 \in 0..OSCS
            BY <1>2, <3>2
          <6>2. \A i \in 0..OSCS : upto[i] = IF i = 0 THEN {c} ELSE More(upto[i - 1], i)
            BY <1>3
          <6> QED BY <6>1, <6>2
        <5>2. m + 1 - 1 = m /\ m + 1 # 0
          BY <1>2, <3>2
        <5> QED BY <5>1, <5>2
      <4>3. \A f \in upto[m] : Books(f, OSCS)
        BY <1>2, <2>2, <3>2
      <4>2. m \in Osc
        BY <1>2, <3>2 DEF Osc
      <4> QED BY <1>5, <3>2, <4>1, <4>2, <4>3
    <3> QED BY <1>2, <3>1, <3>2
  <2> HIDE DEF S
  <2>3. OSCS \in S
    BY <1>2, <2>1, <2>2, SetInduction
  <2> QED BY <1>2, <2>3 DEF S
<1>7. PICK f \in upto[OSCS] :
         e = [Complain(f, f.g_num_osc_interrupting # 0, "reset: num_osc_int")
                EXCEPT !.g_num_osc_interrupting = 0, !.irq = {}]
  BY <1>1 DEF sound_reset
<1> DEFINE z == Complain(f, f.g_num_osc_interrupting # 0, "reset: num_osc_int")
<1>8. SameBooks(f, z)
  <2>1. f \in Chip
    BY <1>6 DEF Books
  <2> QED BY <2>1, Complaints, Messages DEF Complain
<1>9. SameBooks(z, e)
  <2>0. e = [z EXCEPT !.g_num_osc_interrupting = 0, !.irq = {}]
    BY <1>7
  <2>1. z \in Chip
    BY <1>8 DEF SameBooks
  <2> HIDE DEF z
  <2>2. e \in Chip
    <3> DEFINE none == {}
               zero == 0
    <3>1. /\ zero \in Int /\ none \in SUBSET {"doc"}
          /\ e = [z EXCEPT !.g_num_osc_interrupting = zero, !.irq = none]
      BY <2>0
    <3> HIDE DEF none, zero
    <3>3. [z EXCEPT !.g_num_osc_interrupting = zero, !.irq = none] \in Chip
      BY <2>1, <3>1 DEF Chip
    <3> QED BY <3>1, <3>3
  <2>3. /\ e.ctl = z.ctl /\ e.running = z.running /\ e.event = z.event /\ e.listed = z.listed
        /\ e.g_doc_num_osc_en = z.g_doc_num_osc_en /\ e.halted = z.halted
    BY <2>0, <2>1 DEF Chip
  <2> QED BY <2>2, <2>3 DEF SameBooks, Blames
<1> QED BY <1>6, <1>8, <1>9, SameBooksKeep

LEMMA EventPops ==
  ASSUME NEW d, NEW o \in Osc, Books(d, OSCS), d.listed[o] > 0, NEW e \in doc_handle_event(d, o)
  PROVE  Books(e, OSCS)
<1> DEFINE ev == [d.event EXCEPT ![o] = FALSE]
           li == [d.listed EXCEPT ![o] = d.listed[o] - 1]
           c == [d EXCEPT !.listed = li, !.event = ev]
<1>1. d \in Chip /\ Flagged(d) /\ d.listed[o] = 1
  BY ChipFields DEF Books, Flagged
<1>2. ev \in [Osc -> BOOLEAN] /\ li \in [Osc -> Nat]
  BY <1>1, ChipFields
<1>3. \A i \in Osc : li[i] = IF ev[i] THEN 1 ELSE 0
  BY <1>1, ChipFields DEF Flagged
<1>4. /\ c \in Chip /\ c.event = ev /\ c.listed = li
      /\ c.ctl = d.ctl /\ c.running = d.running /\ c.halted = d.halted
      /\ c.g_doc_num_osc_en = d.g_doc_num_osc_en
  <2> HIDE DEF ev, li
  <2> QED BY <1>1, <1>2 DEF Chip
<1>5. e \in sound_play(c)
  <2>1. [d EXCEPT !.listed[o] = d.listed[o] - 1, !.event[o] = FALSE] = c
    BY <1>1 DEF Chip
  <2> QED BY <2>1 DEF doc_handle_event
<1> HIDE DEF c, ev, li
<1>6. Books(c, OSCS)
  BY <1>3, <1>4, EventBooks DEF Flagged
<1> QED BY <1>5, <1>6, SoundPlays

-----------------------------------------------------------------------------
\* BooksAgree is Books of the state.
LEMMA BooksOfDoc == Books(doc, OSCS) => BooksAgree
<1>1. \A o \in Osc : ~(o >= OSCS)
  BY OscNumbers DEF Osc
<1> QED BY <1>1 DEF Books, BooksAgree, EventsMatch, HaltMeansSilent, Flagged, Blames, Told, Wrong

\* The chip as sound_init leaves it is silent.
LEMMA InitBooks == Init => Books(doc, OSCS)
<1>1. Off \in Chip
  BY OscNumbers DEF Off, Chip, Control
<1> QED BY <1>1 DEF Init, Books, Off, Flagged, Blames, Told

LEMMA NextBooks == Books(doc, OSCS) /\ [Next]_doc => Books(doc', OSCS)
<1> SUFFICES ASSUME Books(doc, OSCS), [Next]_doc PROVE Books(doc', OSCS)
  OBVIOUS
<1>1. CASE CtlWrite
  <2>1. PICK o \in Osc, v \in [halt : BOOLEAN, mode : Mode, ie : BOOLEAN] :
               doc' \in ChangeCtl(doc, o, v)
    BY <1>1 DEF CtlWrite
  <2>2. v \in Values
    BY DEF Values
  <2> QED BY <2>1, <2>2, Changes
<1>2. CASE WaveWrite
  BY <1>2, SoundPlays DEF WaveWrite
<1>3. CASE E1Write
  <2>1. PICK n \in Counts : doc' \in WriteE1(doc, n)
    BY <1>3 DEF E1Write
  <2>2. n \in 1..OSCS
    BY DocAssumption DEF DocAssumption
  <2> QED BY <2>1, <2>2, E1Writes
<1>4. CASE E0Read
  <2>1. doc \in Chip /\ doc.e0 \in Osc \cup {NoOsc}
    BY ChipFields DEF Books
  <2>2. CASE doc.e0 = NoOsc
    BY <1>4, <2>2 DEF E0Read, ReadE0
  <2>3. CASE doc.e0 # NoOsc
    <3>1. doc' = remove_sound_irq(doc, doc.e0, TRUE)
      BY <1>4, <2>3 DEF E0Read, ReadE0
    <3>2. SameBooks(doc, remove_sound_irq(doc, doc.e0, TRUE))
      BY <2>1, <2>3, RemoveIrq
    <3> QED BY <3>1, <3>2, SameBooksKeep
  <2> QED BY <2>2, <2>3
<1>5. CASE DocEvent
  BY <1>5, EventPops DEF DocEvent
<1>6. CASE sound_update
  BY <1>6, SoundPlays DEF sound_update
<1>7. CASE Reset
  BY <1>7, Resets0 DEF Reset
<1>8. CASE UNCHANGED doc
  BY <1>8
<1> QED BY <1>1, <1>2, <1>3, <1>4, <1>5, <1>6, <1>7, <1>8 DEF Next

\* Each flagged end event is in the event list once, the halt bits tell who
\* plays, and nobody plays who is not enabled: start_sound, doc_sound_end and
\* remove_sound_event never come upon a state they complain about, in a chip of
\* any size and through any number of ends of waves in one call of sound_play.
THEOREM DocBooksAgree == Spec => []BooksAgree
<1>1. Init => Books(doc, OSCS)
  BY InitBooks
<1>2. Books(doc, OSCS) /\ [Next]_doc => Books(doc, OSCS)'
  BY NextBooks
<1>3. Books(doc, OSCS) => BooksAgree
  BY BooksOfDoc
<1> QED BY <1>1, <1>2, <1>3, PTL DEF Spec

\* The state of the chip has the types of struct Doc_reg and of its globals.
THEOREM DocTypes == Spec => []TypeOK
<1>1. Init => Books(doc, OSCS)
  BY InitBooks
<1>2. Books(doc, OSCS) /\ [Next]_doc => Books(doc, OSCS)'
  BY NextBooks
<1>3. Books(doc, OSCS) => TypeOK
  BY DEF Books, TypeOK
<1> QED BY <1>1, <1>2, <1>3, PTL DEF Spec

(***************************************************************************)
(* The queue of interrupts, in a ring of any number of oscillators.        *)
(***************************************************************************)
\* Those that wait have the ranks from 1 on, each its own; e0 shows the first
\* of them, and the line is up while there is one.
Ranked(d) ==
  /\ d \in Ring!Chip
  /\ d.g_doc_num_osc_en = Oscillators /\ d.g_num_osc_interrupting \in Nat
  /\ \A o \in Ring!Osc : d.has_irq_pending[o] \in 0..d.g_num_osc_interrupting
  /\ \A o, p \in Ring!Osc : d.has_irq_pending[o] = d.has_irq_pending[p] /\ d.has_irq_pending[o] # 0 => o = p
  /\ \A r \in 1..d.g_num_osc_interrupting : \E o \in Ring!Osc : d.has_irq_pending[o] = r
  /\ \/ d.g_num_osc_interrupting = 0 /\ d.e0 = NoOsc /\ "doc" \notin d.irq
     \/ /\ d.g_num_osc_interrupting > 0 /\ "doc" \in d.irq
        /\ d.e0 \in Ring!Osc /\ d.has_irq_pending[d.e0] = 1

\* Oscillator o, which did not wait, is now the last that does.
Joins(d, e, o) ==
  /\ o \in Ring!Osc /\ d.has_irq_pending[o] = 0
  /\ e.g_num_osc_interrupting = d.g_num_osc_interrupting + 1
  /\ \A i \in Ring!Osc : e.has_irq_pending[i] =
       IF i = o THEN e.g_num_osc_interrupting ELSE d.has_irq_pending[i]

\* Oscillator o waits no longer, and those behind it move up.
Leaves(d, e, o) ==
  /\ o \in Ring!Osc /\ d.has_irq_pending[o] # 0
  /\ e.g_num_osc_interrupting = d.g_num_osc_interrupting - 1
  /\ \A i \in Ring!Osc : e.has_irq_pending[i] =
       IF i = o THEN 0
       ELSE IF d.has_irq_pending[i] > d.has_irq_pending[o] THEN d.has_irq_pending[i] - 1
       ELSE d.has_irq_pending[i]

\* q lists those that wait by their ranks.
Lists(q, d) ==
  /\ q \in Seq(Ring!Osc) /\ Len(q) = d.g_num_osc_interrupting
  /\ \A r \in 1..d.g_num_osc_interrupting : q[r] \in Ring!Osc /\ d.has_irq_pending[q[r]] = r

LEMMA RingOsc == Ring!Osc = 0..Oscillators - 1 /\ Oscillators \in Nat \ {0} /\ Ring!NoOsc = NoOsc
BY MCDocAssumption DEF Ring!Osc, Ring!NoOsc, NoOsc

LEMMA RingCardinality == \A S : Ring!Cardinality(S) = Cardinality(S)
BY Zenon DEF Ring!Cardinality, Cardinality, Ring!IsFiniteSet, IsFiniteSet

LEMMA RankedLists ==
  ASSUME NEW d, Ranked(d)
  PROVE  Lists(Ring!QueueOf(d), d)
<1> DEFINE n == d.g_num_osc_interrupting
           W == {o \in Ring!Osc : d.has_irq_pending[o] # 0}
           f == [r \in 1..n |-> CHOOSE o \in Ring!Osc : d.has_irq_pending[o] = r]
<1>4. n \in Nat
  BY DEF Ranked
<1>1. \A r \in 1..n : f[r] \in Ring!Osc /\ d.has_irq_pending[f[r]] = r
  BY DEF Ranked
<1>2. \A o \in W : d.has_irq_pending[o] \in 1..n /\ f[d.has_irq_pending[o]] = o
  <2> SUFFICES ASSUME NEW o \in W
               PROVE  d.has_irq_pending[o] \in 1..n /\ f[d.has_irq_pending[o]] = o
    OBVIOUS
  <2>1. d.has_irq_pending[o] \in 1..n
    BY DEF Ranked
  <2>2. f[d.has_irq_pending[o]] \in Ring!Osc /\ d.has_irq_pending[f[d.has_irq_pending[o]]] = d.has_irq_pending[o]
    BY <1>1, <2>1
  <2> HIDE DEF f
  <2> QED BY <2>1, <2>2 DEF Ranked
<1>7. f = [r \in 1..n |-> f[r]]
  OBVIOUS
<1>3. f \in Bijection(1..n, W)
  <2>1. \A r \in 1..n : f[r] \in W
    <3> SUFFICES ASSUME NEW r \in 1..n
                 PROVE  f[r] \in W
      OBVIOUS
    <3> HIDE DEF f, n
    <3>1. f[r] \in Ring!Osc /\ d.has_irq_pending[f[r]] = r /\ r # 0
      BY <1>1, <1>4
    <3> QED BY <3>1
  <2>2. \A a, b \in 1..n : f[a] = f[b] => a = b
    BY <1>1
  <2>3. \A o \in W : \E r \in 1..n : f[r] = o
    BY <1>2
  <2> HIDE DEF f, W, n
  <2>4. f \in [1..n -> W]
    BY <2>1, <1>7
  <2> QED BY <2>4, <2>2, <2>3, Zenon DEF Bijection, Injection, Surjection, IsInjective
<1>5. Cardinality(W) = n
  <2> HIDE DEF f, W, n
  <2>1. ExistsBijection(1..n, W)
    BY <1>3, Zenon DEF ExistsBijection
  <2> QED BY <2>1, <1>4, FS_CountingElements
<1>6. Ring!QueueOf(d) = f
  <2>1. Ring!QueueOf(d) = [r \in 1..Cardinality(W) |-> CHOOSE o \in Ring!Osc : d.has_irq_pending[o] = r]
    BY RingCardinality DEF Ring!QueueOf
  <2> QED BY <2>1, <1>5
<1> HIDE DEF f, W, n
<1>8. f \in Seq(Ring!Osc) /\ Len(f) = n
  <2>1. f \in [1..n -> Ring!Osc]
    BY <1>1, <1>7
  <2> QED BY <2>1, <1>4
<1> QED BY <1>1, <1>6, <1>8 DEF Lists, n

LEMMA RingStarts ==
  ASSUME ring = [Ring!Off EXCEPT !.g_doc_num_osc_en = Oscillators]
  PROVE  Ranked(ring)
<1>1. Ring!Off \in Ring!Chip
  BY RingOsc DEF Ring!Off, Ring!Chip, Ring!Control, Ring!NoOsc
<1>2. ring \in Ring!Chip
  <2>1. Oscillators \in 1..Oscillators
    BY RingOsc
  <2>2. \A d \in Ring!Chip : \A n \in 1..Oscillators : [d EXCEPT !.g_doc_num_osc_en = n] \in Ring!Chip
    BY DEF Ring!Chip
  <2> QED BY <1>1, <2>1, <2>2
<1>3. /\ ring.g_doc_num_osc_en = Oscillators /\ ring.g_num_osc_interrupting = 0
      /\ ring.e0 = NoOsc /\ ring.irq = {}
      /\ \A o \in Ring!Osc : ring.has_irq_pending[o] = 0
  BY RingOsc DEF Ring!Off
<1> QED BY <1>2, <1>3 DEF Ranked

\* The complaints leave the queue alone.
SameQueue(d, e) ==
  /\ e \in Ring!Chip
  /\ e.g_doc_num_osc_en = d.g_doc_num_osc_en
  /\ e.g_num_osc_interrupting = d.g_num_osc_interrupting
  /\ e.has_irq_pending = d.has_irq_pending /\ e.e0 = d.e0 /\ e.irq = d.irq

LEMMA RingComplain ==
  ASSUME NEW d \in Ring!Chip, NEW if, NEW what \in Ring!Complaint
  PROVE  SameQueue(d, Ring!Complain(d, if, what))
BY DEF SameQueue, Ring!Complain, Ring!Chip

LEMMA RingJoins ==
  ASSUME NEW d, Ranked(d), NEW o \in Ring!Osc, d.has_irq_pending[o] = 0,
         NEW e, e = Ring!add_sound_irq(d, o)
  PROVE  Ranked(e) /\ Joins(d, e, o)
<1> DEFINE t == Ring!Complain(d, d.has_irq_pending[o] # 0, "Adding sound_irq")
           num == d.g_num_osc_interrupting + 1
<1>1. SameQueue(d, t)
  BY RingComplain DEF Ranked, Ring!Complaint
<1>2. num \in Nat \ {0}
  BY DEF Ranked
<1>3. e = [t EXCEPT !.has_irq_pending[o] = num, !.g_num_osc_interrupting = num,
                    !.irq = Ring!add_irq(d.irq, {"doc"}),
                    !.e0 = IF num = 1 THEN o ELSE d.e0]
  BY DEF Ring!add_sound_irq
<1> HIDE DEF t
<1>4. /\ e \in Ring!Chip /\ e.g_doc_num_osc_en = Oscillators
      /\ e.g_num_osc_interrupting = num /\ e.irq = {"doc"}
      /\ e.has_irq_pending = [d.has_irq_pending EXCEPT ![o] = num]
      /\ e.e0 = IF num = 1 THEN o ELSE d.e0
  <2>1. d.irq \cup {"doc"} = {"doc"}
    BY DEF Ranked, Ring!Chip
  <2>2. Ring!add_irq(d.irq, {"doc"}) = {"doc"}
    BY <2>1 DEF Ring!add_irq
  <2>3. (IF num = 1 THEN o ELSE d.e0) \in Ring!Osc \cup {Ring!NoOsc}
    BY DEF Ranked, Ring!Chip
  <2>4. t \in Ring!Chip /\ t.g_doc_num_osc_en = Oscillators /\ t.has_irq_pending = d.has_irq_pending
    BY <1>1 DEF SameQueue, Ranked
  <2>5. [d.has_irq_pending EXCEPT ![o] = num] \in [Ring!Osc -> Int]
    BY <1>2 DEF Ranked, Ring!Chip
  <2> DEFINE e0 == IF num = 1 THEN o ELSE d.e0
             up == [d.has_irq_pending EXCEPT ![o] = num]
  <2>6. e = [t EXCEPT !.has_irq_pending = up, !.g_num_osc_interrupting = num,
                      !.irq = {"doc"}, !.e0 = e0]
    BY <1>3, <2>2, <2>4 DEF Ring!Chip
  <2> HIDE DEF num, e0, up
  <2>7. e \in Ring!Chip
    BY <1>2, <2>3, <2>4, <2>5, <2>6 DEF Ring!Chip, e0, up
  <2>8. /\ e.g_doc_num_osc_en = t.g_doc_num_osc_en /\ e.g_num_osc_interrupting = num
        /\ e.irq = {"doc"} /\ e.has_irq_pending = up /\ e.e0 = e0
    BY <2>4, <2>6 DEF Ring!Chip
  <2> QED BY <2>4, <2>7, <2>8 DEF e0, up
<1>5. \A i \in Ring!Osc : e.has_irq_pending[i] = IF i = o THEN num ELSE d.has_irq_pending[i]
  <2> HIDE DEF num
  <2> QED BY <1>4 DEF Ranked, Ring!Chip
<1>6. Joins(d, e, o)
  BY <1>4, <1>5 DEF Joins
<1>7. Ranked(e)
  <2>1. \A i \in Ring!Osc : e.has_irq_pending[i] \in 0..num
    BY <1>5, <1>2 DEF Ranked
  <2>2. \A i, p \in Ring!Osc : e.has_irq_pending[i] = e.has_irq_pending[p] /\ e.has_irq_pending[i] # 0 => i = p
    BY <1>5, <1>2 DEF Ranked
  <2>3. \A r \in 1..num : \E i \in Ring!Osc : e.has_irq_pending[i] = r
    <3> SUFFICES ASSUME NEW r \in 1..num
                 PROVE  \E i \in Ring!Osc : e.has_irq_pending[i] = r
      OBVIOUS
    <3>1. CASE r = num
      BY <3>1, <1>5
    <3>2. CASE r # num
      <4>1. PICK i \in Ring!Osc : d.has_irq_pending[i] = r
        BY <3>2 DEF Ranked
      <4> QED BY <4>1, <1>5, <3>2
    <3> QED BY <3>1, <3>2
  <2>4. e.e0 \in Ring!Osc /\ e.has_irq_pending[e.e0] = 1
    BY <1>4, <1>5, <1>2 DEF Ranked
  <2> QED BY <1>2, <1>4, <2>1, <2>2, <2>3, <2>4 DEF Ranked
<1> QED BY <1>6, <1>7

LEMMA RingRemoved ==
  ASSUME NEW d, Ranked(d), NEW o \in Ring!Osc, d.has_irq_pending[o] # 0,
         NEW e, e = Ring!Removed(d, o)
  PROVE  Ranked(e) /\ Leaves(d, e, o)
<1> DEFINE r == d.has_irq_pending[o]
           num == d.g_num_osc_interrupting - 1
           irq == IF num = 0 THEN Ring!remove_irq(d.irq, {"doc"}) ELSE d.irq
           t == [d EXCEPT !.g_num_osc_interrupting = num, !.has_irq_pending[o] = 0, !.irq = irq]
           pending == Ring!MovedUp(t, r)
           first == Ring!FirstOf(t, pending)
           e0 == IF r = 1 THEN first ELSE d.e0
<1>1. num \in Nat /\ r \in 1..num + 1 /\ d.g_num_osc_interrupting = num + 1
  BY DEF Ranked
<1>2. /\ irq = (IF num = 0 THEN {} ELSE {"doc"})
      /\ d.irq = {"doc"}
  <2>1. d.irq = {"doc"}
    BY <1>1 DEF Ranked, Ring!Chip
  <2> HIDE DEF num
  <2> QED BY <2>1 DEF Ring!remove_irq
<1>3. /\ t \in Ring!Chip /\ t.g_doc_num_osc_en = Oscillators /\ t.e0 = d.e0
      /\ t.g_num_osc_interrupting = num /\ t.irq = irq
      /\ \A i \in Ring!Osc : t.has_irq_pending[i] = IF i = o THEN 0 ELSE d.has_irq_pending[i]
  <2>1. [d.has_irq_pending EXCEPT ![o] = 0] \in [Ring!Osc -> Int]
    BY DEF Ranked, Ring!Chip
  <2> DEFINE up == [d.has_irq_pending EXCEPT ![o] = 0]
  <2>3. t = [d EXCEPT !.g_num_osc_interrupting = num, !.has_irq_pending = up, !.irq = irq]
    BY DEF Ranked, Ring!Chip
  <2>4. \A i \in Ring!Osc : up[i] = IF i = o THEN 0 ELSE d.has_irq_pending[i]
    BY DEF Ranked, Ring!Chip
  <2> HIDE DEF t, num, irq, up
  <2>7. d \in Ring!Chip /\ up \in [Ring!Osc -> Int]
    BY <2>1 DEF up, Ranked
  <2>5. t \in Ring!Chip
    <3>1. irq \in SUBSET {"doc"} /\ num \in Int
      BY <1>1, <1>2
    <3>2. \A c \in Ring!Chip : \A n \in Int : \A q \in SUBSET {"doc"} : \A u \in [Ring!Osc -> Int] :
            [c EXCEPT !.g_num_osc_interrupting = n, !.has_irq_pending = u, !.irq = q] \in Ring!Chip
      BY DEF Ring!Chip
    <3> QED BY <2>3, <2>7, <3>1, <3>2
  <2>6. /\ t.g_doc_num_osc_en = Oscillators /\ t.e0 = d.e0
        /\ t.g_num_osc_interrupting = num /\ t.irq = irq /\ t.has_irq_pending = up
    BY <2>3 DEF Ranked, Ring!Chip
  <2> QED BY <2>4, <2>5, <2>6
<1>4. /\ pending \in [Ring!Osc -> Int]
      /\ \A i \in Ring!Osc : pending[i] =
           IF i = o THEN 0
           ELSE IF d.has_irq_pending[i] > r THEN d.has_irq_pending[i] - 1
           ELSE d.has_irq_pending[i]
  <2> HIDE DEF t
  <2>1. \A i \in Ring!Osc : i < Oscillators
    BY RingOsc
  <2>2. \A i \in Ring!Osc : t.has_irq_pending[i] \in Int
    BY <1>3 DEF Ring!Chip
  <2>3. pending = [i \in Ring!Osc |-> IF t.has_irq_pending[i] > r THEN t.has_irq_pending[i] - 1
                                      ELSE t.has_irq_pending[i]]
    BY <1>3, <2>1 DEF Ring!MovedUp
  <2>4. \A i \in Ring!Osc : d.has_irq_pending[i] \in Nat
    BY DEF Ranked
  <2> HIDE DEF pending
  <2>5. pending \in [Ring!Osc -> Int]
    BY <2>2, <2>3
  <2>6. ASSUME NEW i \in Ring!Osc
        PROVE  pending[i] = IF i = o THEN 0
                            ELSE IF d.has_irq_pending[i] > r THEN d.has_irq_pending[i] - 1
                            ELSE d.has_irq_pending[i]
    BY <1>1, <1>3, <2>3, <2>4
  <2> QED BY <2>5, <2>6
<1>5. e = [t EXCEPT !.has_irq_pending = pending, !.e0 = e0]
  <2>1. e = [t EXCEPT !.has_irq_pending = pending, !.e0 = IF r = 1 THEN first ELSE t.e0]
    BY DEF Ring!Removed
  <2> HIDE DEF t, pending, first
  <2> QED BY <2>1, <1>3
<1>6. /\ \A i \in Ring!Osc : pending[i] \in 0..num
      /\ \A i, p \in Ring!Osc : pending[i] = pending[p] /\ pending[i] # 0 => i = p
      /\ \A s \in 1..num : \E i \in Ring!Osc : pending[i] = s
  <2> HIDE DEF t, pending, num
  <2>1. \A i \in Ring!Osc : d.has_irq_pending[i] \in 0..num + 1
    BY <1>1 DEF Ranked
  <2>2. \A i, p \in Ring!Osc : d.has_irq_pending[i] = d.has_irq_pending[p] /\ d.has_irq_pending[i] # 0 => i = p
    BY DEF Ranked
  <2>3. ASSUME NEW i \in Ring!Osc
        PROVE  pending[i] \in 0..num
    BY <1>1, <1>4, <2>1, <2>2
  <2>4. ASSUME NEW i \in Ring!Osc, NEW p \in Ring!Osc, pending[i] = pending[p], pending[i] # 0
        PROVE  i = p
    BY <1>1, <1>4, <2>1, <2>2, <2>4
  <2>5. ASSUME NEW s \in 1..num
        PROVE  \E i \in Ring!Osc : pending[i] = s
    <3>1. CASE s < r
      <4>1. PICK i \in Ring!Osc : d.has_irq_pending[i] = s
        BY <1>1 DEF Ranked
      <4> QED BY <4>1, <3>1, <1>1, <1>4
    <3>2. CASE ~(s < r)
      <4>1. PICK i \in Ring!Osc : d.has_irq_pending[i] = s + 1
        BY <1>1 DEF Ranked
      <4> QED BY <4>1, <3>2, <1>1, <1>4
    <3> QED BY <3>1, <3>2
  <2> QED BY <2>3, <2>4, <2>5
<1>7. \/ num = 0 /\ e0 = NoOsc
      \/ num > 0 /\ e0 \in Ring!Osc /\ pending[e0] = 1
  <2> HIDE DEF t, pending, num
  <2>1. CASE r = 1
    <3> DEFINE F == {i \in Ring!Osc : pending[i] = 1}
               G == {i \in Ring!Osc : i < t.g_doc_num_osc_en /\ pending[i] = 1}
    <3>1. G = F
      BY <1>3, RingOsc
    <3>6. first = IF G = {} THEN Ring!NoOsc ELSE CHOOSE i \in G : \A j \in G : j <= i
      BY Zenon DEF Ring!FirstOf
    <3>2. first = IF F = {} THEN Ring!NoOsc ELSE CHOOSE i \in F : \A j \in F : j <= i
      <4> HIDE DEF G, F, first
      <4> QED BY <3>1, <3>6
    <3>3. num = 0 => F = {}
      BY <1>6
    <3>4. num > 0 => \E i \in F : \A j \in F : j <= i
      <4>1. num > 0 => \E i \in Ring!Osc : pending[i] = 1
        BY <1>1, <1>6
      <4>2. \A i, j \in F : j <= i
        BY <1>6, RingOsc
      <4> QED BY <4>1, <4>2
    <3> HIDE DEF first
    <3>5. num > 0 => first \in F
      BY <3>2, <3>4
    <3> QED BY <2>1, <3>2, <3>3, <3>5, <1>1, RingOsc
  <2>2. CASE r # 1
    <3>1. num > 0
      BY <1>1, <2>2
    <3>2. d.e0 \in Ring!Osc /\ d.has_irq_pending[d.e0] = 1
      BY <1>1 DEF Ranked
    <3>3. d.e0 # o /\ pending[d.e0] = 1
      BY <3>2, <2>2, <1>1, <1>4
    <3> QED BY <3>1, <3>2, <3>3, <2>2
  <2> QED BY <2>1, <2>2
<1>8. /\ e \in Ring!Chip /\ e.g_doc_num_osc_en = Oscillators
      /\ e.g_num_osc_interrupting = num /\ e.irq = irq
      /\ e.has_irq_pending = pending /\ e.e0 = e0
  <2> HIDE DEF t, pending, num, irq, e0
  <2>1. e0 \in Ring!Osc \cup {Ring!NoOsc}
    BY <1>7, RingOsc
  <2>2. e \in Ring!Chip
    BY <1>3, <1>4, <1>5, <2>1 DEF Ring!Chip
  <2> QED BY <1>3, <1>5, <2>2 DEF Ring!Chip
<1>9. Leaves(d, e, o)
  <2> HIDE DEF t, pending, irq, e0
  <2> QED BY <1>4, <1>8 DEF Leaves
<1>10. Ranked(e)
  <2> HIDE DEF t, pending, num, irq, e0
  <2> QED BY <1>1, <1>2, <1>6, <1>7, <1>8 DEF Ranked
<1> QED BY <1>9, <1>10

LEMMA RingSame ==
  ASSUME NEW d, Ranked(d), NEW e, SameQueue(d, e)
  PROVE  Ranked(e)
BY DEF Ranked, SameQueue

LEMMA RingRemoves ==
  ASSUME NEW d, Ranked(d), NEW o \in Ring!Osc, NEW must \in BOOLEAN,
         NEW e, e = Ring!remove_sound_irq(d, o, must)
  PROVE  Ranked(e) /\ (SameQueue(d, e) \/ Leaves(d, e, o))
<1> DEFINE t == IF d.has_irq_pending[o] # 0 THEN Ring!Removed(d, o)
                ELSE Ring!Complain(d, must, "REMOVE_sound_irq")
           lost == t.e0 = Ring!NoOsc /\ \E i \in Ring!Osc : t.has_irq_pending[i] # 0
<1>1. e = Ring!Complain(t, lost, "remove_sound_irq, but")
  BY DEF Ring!remove_sound_irq
<1>2. Ranked(t) /\ (SameQueue(d, t) \/ Leaves(d, t, o))
  <2>1. CASE d.has_irq_pending[o] # 0
    <3>1. t = Ring!Removed(d, o)
      BY <2>1
    <3> HIDE DEF t
    <3> QED BY <3>1, <2>1, RingRemoved
  <2>2. CASE d.has_irq_pending[o] = 0
    <3>1. t = Ring!Complain(d, must, "REMOVE_sound_irq")
      BY <2>2
    <3>2. SameQueue(d, Ring!Complain(d, must, "REMOVE_sound_irq"))
      BY RingComplain DEF Ranked, Ring!Complaint
    <3> HIDE DEF t
    <3>3. SameQueue(d, t)
      BY <3>1, <3>2
    <3> QED BY <3>3, RingSame
  <2> QED BY <2>1, <2>2
<1> HIDE DEF t, lost
<1>3. SameQueue(t, e)
  <2>1. t \in Ring!Chip /\ "remove_sound_irq, but" \in Ring!Complaint
    BY <1>2 DEF Ranked, Ring!Complaint
  <2> QED BY <2>1, <1>1, RingComplain
<1>4. Ranked(e)
  BY <1>2, <1>3, RingSame
<1>5. SameQueue(d, t) => SameQueue(d, e)
  BY <1>3 DEF SameQueue
<1>6. Leaves(d, t, o) => Leaves(d, e, o)
  BY <1>3 DEF SameQueue, Leaves
<1> QED BY <1>2, <1>4, <1>5, <1>6

(***************************************************************************)
(* The queue of DocQueue, before and after.                                *)
(***************************************************************************)
Shifts(q, s) ==
  /\ {s[i] : i \in DOMAIN s} \subseteq Ring!Osc
  /\ \A i, j \in DOMAIN s : s[i] = s[j] => i = j
  /\ \A i, j \in DOMAIN s :
       i < j /\ s[j] \in {q[k] : k \in DOMAIN q} =>
         \E k, l \in DOMAIN q : k < l /\ q[k] = s[i] /\ q[l] = s[j]

LEMMA RankIsPlace ==
  ASSUME NEW d, Ranked(d), NEW q, Lists(q, d), NEW o \in Ring!Osc, d.has_irq_pending[o] # 0
  PROVE  d.has_irq_pending[o] \in DOMAIN q /\ q[d.has_irq_pending[o]] = o
<1> DEFINE r == d.has_irq_pending[o]
<1>1. r \in 1..d.g_num_osc_interrupting
  BY DEF Ranked
<1>2. DOMAIN q = 1..d.g_num_osc_interrupting
  BY DEF Lists
<1>3. q[r] \in Ring!Osc /\ d.has_irq_pending[q[r]] = r
  BY <1>1 DEF Lists
<1> QED BY <1>1, <1>2, <1>3 DEF Ranked

LEMMA RingShifts ==
  ASSUME NEW d, Ranked(d), NEW e, Ranked(e), NEW q, Lists(q, d), NEW s, Lists(s, e),
         SameQueue(d, e) \/ \E o \in Ring!Osc : Joins(d, e, o) \/ Leaves(d, e, o)
  PROVE  Shifts(q, s)
<1>1. DOMAIN q = 1..d.g_num_osc_interrupting /\ DOMAIN s = 1..e.g_num_osc_interrupting
  BY DEF Lists
<1>2. \A i \in DOMAIN s : s[i] \in Ring!Osc /\ e.has_irq_pending[s[i]] = i
  BY <1>1 DEF Lists
<1>3. \A i \in DOMAIN q : q[i] \in Ring!Osc /\ d.has_irq_pending[q[i]] = i
  BY <1>1 DEF Lists
<1>4. ASSUME NEW i \in DOMAIN s, NEW j \in DOMAIN s, i < j,
             s[j] \in {q[k] : k \in DOMAIN q}
      PROVE  \E k, l \in DOMAIN q : k < l /\ q[k] = s[i] /\ q[l] = s[j]
  <2> DEFINE a == s[i]
             b == s[j]
  <2>1. a \in Ring!Osc /\ b \in Ring!Osc /\ e.has_irq_pending[a] = i /\ e.has_irq_pending[b] = j
    BY <1>2
  <2>2. i \in Nat /\ j \in Nat /\ 0 < i /\ j <= e.g_num_osc_interrupting
    BY <1>1 DEF Ranked
  <2>3. d.has_irq_pending[b] \in Nat /\ d.has_irq_pending[b] # 0
    <3>1. PICK k \in DOMAIN q : q[k] = b
      BY <1>4
    <3>2. k \in Nat /\ k # 0
      BY <1>1 DEF Ranked
    <3> QED BY <3>1, <3>2, <1>3
  <2>4. d.has_irq_pending[a] \in Nat
    BY <2>1 DEF Ranked
  <2> HIDE DEF a, b
  <2>5. d.has_irq_pending[a] # 0 /\ d.has_irq_pending[a] < d.has_irq_pending[b]
    <3>1. CASE SameQueue(d, e)
      BY <3>1, <2>1, <2>2, <1>4 DEF SameQueue
    <3>2. CASE \E o \in Ring!Osc : Joins(d, e, o)
      <4>1. PICK o \in Ring!Osc : Joins(d, e, o)
        BY <3>2
      <4> QED BY <4>1, <2>1, <2>2, <2>3, <2>4, <1>4 DEF Joins
    <3>3. CASE \E o \in Ring!Osc : Leaves(d, e, o)
      <4>1. PICK o \in Ring!Osc : Leaves(d, e, o)
        BY <3>3
      <4>2. d.has_irq_pending[o] \in Nat
        BY DEF Ranked
      <4> QED BY <4>1, <4>2, <2>1, <2>2, <2>3, <2>4, <1>4 DEF Leaves
    <3> QED BY <3>1, <3>2, <3>3
  <2>6. /\ d.has_irq_pending[a] \in DOMAIN q /\ q[d.has_irq_pending[a]] = a
        /\ d.has_irq_pending[b] \in DOMAIN q /\ q[d.has_irq_pending[b]] = b
    BY <2>1, <2>3, <2>5, RankIsPlace
  <2> QED BY <2>5, <2>6 DEF a, b
<1> QED BY <1>2, <1>4 DEF Shifts

LEMMA RingShows ==
  ASSUME NEW d, Ranked(d), NEW q, Lists(q, d)
  PROVE  /\ d.e0 = IF q = <<>> THEN Ring!NoOsc ELSE q[1]
         /\ ("doc" \in d.irq) = (q # <<>>)
<1>1. q = <<>> <=> d.g_num_osc_interrupting = 0
  BY DEF Lists, Ranked
<1>2. d.g_num_osc_interrupting > 0 => d.e0 = q[1]
  BY RankIsPlace DEF Lists, Ranked
<1> QED BY <1>1, <1>2, RingOsc DEF Ranked

(***************************************************************************)
(* Behaviours of the ring.                                                 *)
(***************************************************************************)
LEMMA RingNext ==
  ASSUME Ranked(ring), [FocusNext]_<<doc, ring, focus>>
  PROVE  /\ Ranked(ring')
         /\ \/ SameQueue(ring, ring')
            \/ \E o \in Ring!Osc : Joins(ring, ring', o) \/ Leaves(ring, ring', o)
<1>1. SameQueue(ring, ring)
  BY DEF SameQueue, Ranked
<1>2. CASE Asks
  <2>1. PICK o \in Ring!Osc : ring.has_irq_pending[o] = 0 /\ ring' = Ring!add_sound_irq(ring, o)
    BY <1>2 DEF Asks
  <2>2. Ranked(ring') /\ Joins(ring, ring', o)
    BY <2>1, RingJoins
  <2> QED BY <2>2
<1>3. CASE Withdraws
  <2>1. PICK o \in Ring!Osc : ring' = Ring!remove_sound_irq(ring, o, FALSE)
    BY <1>3 DEF Withdraws
  <2>2. Ranked(ring') /\ (SameQueue(ring, ring') \/ Leaves(ring, ring', o))
    BY <2>1, RingRemoves
  <2> QED BY <2>2
<1>4. CASE Ring!E0Read
  <2>1. CASE ring.e0 = Ring!NoOsc
    BY <1>1, <1>4, <2>1 DEF Ring!E0Read, Ring!ReadE0
  <2>2. CASE ring.e0 # Ring!NoOsc
    <3>1. ring.e0 \in Ring!Osc /\ ring' = Ring!remove_sound_irq(ring, ring.e0, TRUE)
      BY <1>4, <2>2 DEF Ring!E0Read, Ring!ReadE0, Ranked, Ring!Chip
    <3>2. Ranked(ring') /\ (SameQueue(ring, ring') \/ Leaves(ring, ring', ring.e0))
      BY <3>1, RingRemoves
    <3> QED BY <3>1, <3>2
  <2> QED BY <2>1, <2>2
<1>5. CASE UNCHANGED ring
  BY <1>1, <1>5
<1> QED BY <1>2, <1>3, <1>4, <1>5 DEF FocusNext

LEMMA RingPromise ==
  ASSUME Ranked(ring), Ranked(ring'),
         SameQueue(ring, ring') \/ \E o \in Ring!Osc : Joins(ring, ring', o) \/ Leaves(ring, ring', o)
  PROVE  Ring!Promise!Next
<1> DEFINE q == Ring!QueueOf(ring)
           s == Ring!QueueOf(ring')
<1>1. Lists(q, ring) /\ Lists(s, ring')
  BY RankedLists
<1> HIDE DEF q, s
<1>2. Shifts(q, s)
  BY <1>1, RingShifts
<1>3. /\ ring'.e0 = IF s = <<>> THEN Ring!NoOsc ELSE s[1]
      /\ ("doc" \in ring'.irq) = (s # <<>>)
  BY <1>1, RingShows
<1>4. Ring!QueueOf(ring)' = s /\ Ring!QueueOf(ring) = q
  BY DEF q, s, Ring!QueueOf
<1>5. Ring!Promise!Shift
  BY <1>2, <1>4 DEF Shifts, Ring!Promise!Shift, Ring!Promise!Waiting, Ring!Promise!Before
<1>6. Ring!Promise!Shows
  BY <1>3, <1>4 DEF Ring!Promise!Shows, Ring!Promise!Head0
<1> QED BY <1>5, <1>6 DEF Ring!Promise!Next

\* Oscillators queue up for attention in the order in which they ask for it:
\* add_sound_irq, remove_sound_irq and the reading of e0 keep ranks that, with
\* e0 and the interrupt line, implement DocQueue in a ring of any size.
THEOREM DocRing == FocusSpec => RingQueuesUp
<1>1. FocusInit => Ranked(ring)
  BY RingStarts DEF FocusInit
<1>2. FocusInit => Ring!Promise!Init
  <2> SUFFICES ASSUME FocusInit
               PROVE  Ring!Promise!Init
    OBVIOUS
  <2>1. Ranked(ring) /\ Lists(Ring!QueueOf(ring), ring)
    BY <1>1, RankedLists
  <2>2. ring.g_num_osc_interrupting = 0 /\ ring.e0 = Ring!NoOsc /\ "doc" \notin ring.irq
    BY RingOsc DEF FocusInit, Ring!Off
  <2>3. Ring!QueueOf(ring) = <<>>
    BY <2>1, <2>2 DEF Lists
  <2> QED BY <2>2, <2>3 DEF Ring!Promise!Init
<1>3. Ranked(ring) /\ [FocusNext]_<<doc, ring, focus>> => Ranked(ring)'
  BY RingNext
<1>4. Ranked(ring) /\ [FocusNext]_<<doc, ring, focus>>
        => [Ring!Promise!Next]_<<Ring!QueueOf(ring), ring.e0, "doc" \in ring.irq>>
  BY RingNext, RingPromise
<1> QED BY <1>1, <1>2, <1>3, <1>4, PTL
        DEF FocusSpec, RingQueuesUp, Ring!InterruptsQueueUp, Ring!Promise!Spec
=============================================================================
