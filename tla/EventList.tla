------------------------------ MODULE EventList ------------------------------
(***************************************************************************)
(* The event list of src/src/sim65816.c, at the level of its pointers, and *)
(* the loop of run_prog that runs the CPU up to the first event and then   *)
(* pops every event that is due.                                           *)
(*                                                                         *)
(* The nodes of g_event_list are linked into two lists, g_event_start      *)
(* (sorted by time) and g_event_free.  All times are counted from the      *)
(* current cycle, so that the passing of k cycles subtracts k from each;   *)
(* the code keeps absolute ones.                                           *)
(*                                                                         *)
(* The list routines are operators on a record e of everything they use.   *)
(***************************************************************************)
EXTENDS Integers, FiniteSets

CONSTANTS
  MAX_EVENTS,   \* nodes of g_event_list
  EV_60HZ,      \* the type of the 60 Hz event
  Device,       \* the types of all other events
  Removable,    \* those a device may take back: DOC oscillators
  MayBeLate,    \* those that may be added for a time already past: scan lines
  Period,       \* cycles from one 60 Hz event to the next
  MaxDelay,     \* bound on the delay a device asks for; also stands for the
                \* 1000 cycles a bad request is put off to
  MaxInstr      \* bound on the cycles of one instruction

Type == Device \cup {EV_60HZ}

ASSUME EventListAssumption ==
  /\ EV_60HZ \notin Device /\ IsFiniteSet(Device)
  /\ Removable \subseteq Device /\ MayBeLate \subseteq Device
  /\ MAX_EVENTS \in Nat /\ Cardinality(Type) <= MAX_EVENTS
  /\ MaxInstr \in Nat \ {0} /\ MaxDelay \in Nat
  /\ Period \in Nat /\ Period > MaxInstr

Node == 1..MAX_EVENTS
Null == 0
g_event_start == MAX_EVENTS + 1
g_event_free == MAX_EVENTS + 2

VARIABLES
  next,               \* the links, those of the two list heads included
  dcycs, type,        \* of each node
  g_cur_dcycs,        \* when the CPU was last entered
  g_last_vbl_dcycs,   \* when the last 60 Hz event was due
  g_fcycles_stop,     \* when the CPU has to return
  running,            \* the CPU runs
  halted              \* the complaints of halt_printf so far

listVars == <<next, dcycs, type, g_cur_dcycs, g_last_vbl_dcycs, g_fcycles_stop,
          running, halted>>

Now == [next |-> next, dcycs |-> dcycs, type |-> type, cur |-> g_cur_dcycs,
        vbl |-> g_last_vbl_dcycs, stop |-> g_fcycles_stop, halted |-> halted]

Becomes(e) ==
  /\ next' = e.next /\ dcycs' = e.dcycs /\ type' = e.type
  /\ g_cur_dcycs' = e.cur /\ g_last_vbl_dcycs' = e.vbl
  /\ g_fcycles_stop' = e.stop /\ halted' = e.halted

(***************************************************************************)
(* The list.  Hop(e, h)[n] is the node n links behind the head h.          *)
(***************************************************************************)
Hop(e, h) ==
  LET hop[n \in 0..MAX_EVENTS + 1] ==
        IF n = 0 THEN h
        ELSE LET at == hop[n - 1] IN IF at = Null THEN Null ELSE e.next[at]
  IN hop

First(e) == e.next[g_event_start]

\* The node a walk from the head stops behind: the last one before Null or
\* before a node of S.
Before(e, S) ==
  LET hop == Hop(e, g_event_start)
      stops(n) == hop[n + 1] = Null \/ hop[n + 1] \in S
  IN hop[CHOOSE n \in 0..MAX_EVENTS : stops(n) /\ \A m \in 0..n - 1 : ~stops(m)]

\* set_halt(HALT_EVENT): g_fcycles_stop becomes 0.0, the time of the last VBL.
set_halt(e) == [e EXCEPT !.stop = e.vbl]

\* Mutant: an earlier event does not stop the CPU.
NoHalt(e, d, ty) ==
  LET this == e.next[g_event_free]
      prev == Before(e, {n \in Node : e.dcycs[n] >= d})
  IN [e EXCEPT !.next[g_event_free] = e.next[this], !.next[this] = e.next[prev],
               !.next[prev] = this, !.type[this] = ty, !.dcycs[this] = d]

\* In front of events of the same time.
add_event_entry(e, d, ty) ==
  LET this == e.next[g_event_free]
      bad == d < e.cur /\ ty \notin MayBeLate
      at == IF bad THEN e.cur + MaxDelay ELSE d
      prev == Before(e, {n \in Node : e.dcycs[n] >= at})
      t == IF First(e) # Null /\ at < e.dcycs[First(e)] THEN set_halt(e) ELSE e
  IN IF this = Null THEN [e EXCEPT !.halted = @ \cup {"Out of queue entries"}]
     ELSE [t EXCEPT !.next[g_event_free] = e.next[this],
                    !.next[this] = e.next[prev], !.next[prev] = this,
                    !.type[this] = ty, !.dcycs[this] = at,
                    !.halted = IF bad THEN @ \cup {"add_event"} ELSE @]

\* The node behind prev goes to the front of the free list.  Nothing reads the
\* time and type it keeps there, so they are forgotten.
Unlink(e, prev) ==
  LET this == e.next[prev]
  IN [e EXCEPT !.next[prev] = e.next[this],
               !.next[this] = e.next[g_event_free], !.next[g_event_free] = this,
               !.dcycs[this] = 0, !.type[this] = EV_60HZ]

remove_event_entry(e, ty) ==
  LET prev == Before(e, {n \in Node : e.type[n] = ty})
  IN IF e.next[prev] = Null THEN [e EXCEPT !.halted = @ \cup {"not found"}]
     ELSE Unlink(e, prev)

Listed(e) ==
  LET hop == Hop(e, g_event_start) IN {hop[n] : n \in 1..MAX_EVENTS} \ {Null}
Pending(e, ty) == \E n \in Listed(e) : e.type[n] = ty

\* Mutant: an event asked for too late is not put off.
NoClamp(e, d, ty) == add_event_entry(e, d, ty)

\* add_event_scc, add_event_doc: not before the CPU was entered.  The events of
\* the screen go in as they are: that of the vertical blank and of an update are
\* asked for ahead, so that the clamp says nothing of them, a scan line may be past.
add_event_device(e, d, ty) ==
  add_event_entry(e, IF d < e.cur /\ ty \notin MayBeLate THEN e.cur ELSE d, ty)

(***************************************************************************)
(* Handlers.                                                               *)
(***************************************************************************)

AgainIn60th(e) ==
  LET vbl == e.vbl + Period
  IN add_event_entry([e EXCEPT !.vbl = vbl], vbl + Period, EV_60HZ)

\* What else a handler or an instruction may do to the list: each device keeps
\* at most one event of each of its types.  Those it adds are for low or later.
Uses(e, low) ==
  {e}
  \cup {add_event_device(e, d, ty) :
          d \in low..MaxDelay, ty \in {t \in Device : ~Pending(e, t)}}
  \cup {remove_event_entry(e, ty) : ty \in {t \in Removable : Pending(e, t)}}

Aged(k) ==
  LET listed == Listed(Now)
  IN [Now EXCEPT !.dcycs = [n \in Node |-> IF n \in listed THEN @[n] - k ELSE 0],
                 !.cur = @ - k, !.vbl = @ - k, !.stop = @ - k]

(***************************************************************************)
(* run_prog.                                                               *)
(***************************************************************************)
\* Nothing is due: the CPU runs up to the first event.
Enter ==
  /\ ~running
  /\ dcycs[First(Now)] > 0
  /\ running' = TRUE
  /\ Becomes([Now EXCEPT !.stop = dcycs[First(Now)]])

\* One instruction; its access to a device may add or remove an event, and may
\* raise an interrupt.  A sound or a transfer is timed from where it has got to,
\* a scan line from the last VBL: either may be long before this instruction.
Instr ==
  /\ running /\ g_fcycles_stop >= 0
  /\ \E k \in 1..MaxInstr : \E a \in {Aged(k)} : \E e \in Uses(a, a.vbl) :
       Becomes(e) \/ Becomes(set_halt(e))
  /\ UNCHANGED running

Leave ==
  /\ running /\ g_fcycles_stop < 0
  /\ running' = FALSE
  /\ Becomes([Now EXCEPT !.cur = 0])

\* The first event is due: it is popped and its handler called.  That of a new
\* frame times its events from the VBL that was just due; any other from its own
\* event, and for later: the next line, the end of a sound of one sample or more.
Pop ==
  /\ ~running
  /\ dcycs[First(Now)] <= 0
  /\ LET ty == type[First(Now)]
         e == Unlink(Now, g_event_start)
         low == dcycs[First(Now)] + IF ty = EV_60HZ THEN 0 ELSE 1
     IN \E f \in {IF ty = EV_60HZ THEN AgainIn60th(e) ELSE e} :
          \E g \in Uses(f, low) : \E h \in Uses(g, low) : Becomes(h)
  /\ UNCHANGED running

\* initialize_events, with the clock at zero.
ListInit ==
  /\ next = [n \in 1..MAX_EVENTS + 2 |->
               CASE n = 1 -> Null
                 [] n \in 2..MAX_EVENTS - 1 -> n + 1
                 [] n = MAX_EVENTS -> Null
                 [] n = g_event_start -> 1
                 [] n = g_event_free -> IF MAX_EVENTS = 1 THEN Null ELSE 2]
  /\ dcycs = [n \in Node |-> IF n = 1 THEN Period ELSE 0]
  /\ type = [n \in Node |-> EV_60HZ]
  /\ g_cur_dcycs = 0 /\ g_last_vbl_dcycs = 0 /\ g_fcycles_stop = 0
  /\ running = FALSE /\ halted = {}

ListNext == Enter \/ Instr \/ Leave \/ Pop

(***************************************************************************)
(* Properties.                                                             *)
(***************************************************************************)
(* The nodes behind g_event_start and those behind g_event_free: every node
   is in exactly one of the two lists, once, and both lists end. *)
NoNodeLost ==
  LET busy == Hop(Now, g_event_start)
      free == Hop(Now, g_event_free)
      nodes(hop) == {n \in 1..MAX_EVENTS : hop[n] # Null}
  IN /\ busy[MAX_EVENTS + 1] = Null /\ free[MAX_EVENTS + 1] = Null
     /\ Cardinality(nodes(busy)) + Cardinality(nodes(free)) = MAX_EVENTS
     /\ {busy[n] : n \in nodes(busy)} \cup {free[n] : n \in nodes(free)} = Node

(* The events are in the order of their times, one of each type. *)
InOrder ==
  LET busy == Hop(Now, g_event_start)
  IN \A i, j \in 1..MAX_EVENTS :
       i < j /\ busy[j] # Null =>
         dcycs[busy[i]] <= dcycs[busy[j]] /\ type[busy[i]] # type[busy[j]]

(* Every node is in one of the two lists, the events in the order of their
   times, and no halt_printf of the list routines is ever reached: the list does
   not run full, and no event but that of a scan line goes in for a time before
   the CPU was entered, however late a device asks for it.  That a device asks
   for one event of a type and takes back only what is there is assumed here;
   EventsFit, BooksAgree and EventsMatch say it of each device. *)
ListIsSound == NoNodeLost /\ InOrder /\ halted = {}

(* What the list is to its users: each type of event is a timer. *)
DueOf(e) ==
  LET listed == Listed(e)
  IN [ty \in {e.type[n] : n \in listed} |->
        e.dcycs[CHOOSE n \in listed : e.type[n] = ty]]

(* However the devices use the list, the 60 Hz update comes round again. *)
TicksAgain ==
  []<>(~running /\ type[First(Now)] = EV_60HZ /\ dcycs[First(Now)] <= 0)
=============================================================================
