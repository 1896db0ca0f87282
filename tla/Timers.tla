------------------------------- MODULE Timers -------------------------------
(***************************************************************************)
(* What the event list of the emulator promises to the devices that use    *)
(* it: a set of timers, each armed at most once, that go off in the order  *)
(* of their times, none of them overdue while an instruction of the CPU    *)
(* starts, and a clock among them that ticks without drift.                *)
(*                                                                         *)
(* Times are cycles from now; due maps the armed timers to theirs.         *)
(***************************************************************************)
EXTENDS Integers

CONSTANTS Clock,      \* the timer that is always armed
          Period,     \* cycles from one of its ticks to the next
          Removable,  \* timers that may be cancelled
          MaxInstr    \* cycles of the longest instruction

VARIABLE due

Init == DOMAIN due = {Clock} /\ due[Clock] = Period

\* A step leads from the times in now to those in then.  The timers of the set
\* S stay, and k cycles go by; others may be armed.
Keeps(now, then, S, k) ==
  \A t \in S : t \in DOMAIN then /\ then[t] = now[t] - k

\* An instruction takes up to MaxInstr cycles and may arm timers or cancel some.
\* None was overdue when it started.
Pass(now, then) ==
  /\ \A t \in DOMAIN now : now[t] >= 0
  /\ \E k \in 1..MaxInstr, gone \in SUBSET Removable :
       Keeps(now, then, DOMAIN now \ gone, k)

\* The first timer goes off; its handler may arm it again, and use the others.
Expire(now, then) ==
  \E t \in DOMAIN now :
    /\ now[t] <= 0
    /\ \A u \in DOMAIN now : now[t] <= now[u]
    /\ \E gone \in SUBSET Removable : Keeps(now, then, DOMAIN now \ (gone \cup {t}), 0)
    /\ t = Clock => Clock \in DOMAIN then /\ then[Clock] = now[Clock] + Period

Next == Pass(due, due') \/ Expire(due, due')

Spec == Init /\ [][Next]_due
=============================================================================
