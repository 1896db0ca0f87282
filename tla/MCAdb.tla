------------------------------- MODULE MCAdb -------------------------------
(***************************************************************************)
(* Finite instances of module Mouse.  The controller, the keyboard latch   *)
(* and the mouse have little to do with each other, so a behaviour works   *)
(* on one of them at length, with what it needs of the others; focus says  *)
(* on which.                                                               *)
(***************************************************************************)
EXTENDS Mouse

CONSTANT Focus
VARIABLE focus

Middle == <<1, 0>>

Ops(ops) == {c \in AdbCommand : c.op \in ops}

\* The mouse neither moves nor is switched off.
MouseAside == adb'.mouse_ctl = 3 /\ "mouse_off" \notin adb'.mode

\* Every command; keys only as far as they wait for a talk command.
Controls ==
  \/ \E c \in AdbCommand \ Ops({"send_keycodes"}) : StartCommand(c)
  \/ (ArgumentByte /\ MouseAside)
  \/ WriteOverAnswer
  \/ ReadC026
  \/ \E enables \in SUBSET {"data"} : WriteC027(enables)
  \/ \E k \in Plain \cup {RESET}, up \in BOOLEAN : ~autopoll(adb) /\ PhysicalKey(k, up)

\* Characters, with the commands that concern them.
Types ==
  \/ \E k \in Hard, up \in BOOLEAN : PhysicalKey(k, up)
  \/ AllKeysUp
  \/ RepeatOff
  \/ ReadC000
  \/ AccessC010
  \/ \E c \in Ops({"send_keycodes", "set_config"}) : StartCommand(c)
  \/ (ArgumentByte /\ MouseAside /\ adb'.kbd_ctl = 2)
  \/ DoReset

\* Keys pressed together, while the controller polls and while it does not.
Chords ==
  \/ \E k \in Key \ Plain, up \in BOOLEAN : PhysicalKey(k, up)
  \/ AllKeysUp
  \/ \E c \in Ops({"set_modes", "clear_modes", "talk0"}) : StartCommand(c)
  \/ (ArgumentByte /\ MouseAside)
  \/ ReadC026
  \/ \E enables \in SUBSET {"data"} : WriteC027(enables)

\* What turns the mouse and its interrupt on and off.
Switches ==
  \/ \E c \in Ops({"set_modes", "clear_modes"}) : StartCommand(c)
  \/ (ArgumentByte /\ "kbd_off" \notin adb'.mode)
  \/ \E enables \in SUBSET {"mouse"} : WriteC027(enables)
  \/ DoReset

FocusNext ==
  /\ UNCHANGED focus
  /\ \/ focus = "controls" /\ Controls /\ UNCHANGED mouse
     \/ focus = "types" /\ Types /\ UNCHANGED mouse
     \/ focus = "chords" /\ Chords /\ UNCHANGED mouse
     \/ focus = "mouse" /\ (MouseStep \/ (Switches /\ UNCHANGED mouse))

FocusInit == AdbInit /\ MouseInit /\ focus \in Focus

FocusSpec == FocusInit /\ [][FocusNext]_<<adb, mouse, focus>>
=============================================================================
