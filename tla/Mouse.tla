------------------------------- MODULE Mouse -------------------------------
(***************************************************************************)
(* The mouse of src/src/adb.c: the host moves it (update_mouse), the       *)
(* program reads it as deltas, x and y in turn (mouse_read_c024), and a    *)
(* FIFO between them keeps the moments at which the button changed.        *)
(*                                                                         *)
(* fifo[1] is g_mouse_fifo[0], where the host's mouse is now; the rest are *)
(* the entries up to g_mouse_fifo_pos, older ones behind.  How many of     *)
(* them are older than half a second is any number.  Scaling to the screen *)
(* and the event manager's own variables are left out.                     *)
(***************************************************************************)
EXTENDS Adb, FiniteSets

CONSTANTS
  X, Y,            \* positions of the host's mouse
  Center,          \* where a locked pointer is put back to
  MaxDelta,        \* largest step one read reports, 0x3f
  ADB_MOUSE_FIFO,  \* entries of the FIFO, 8
  Ages,            \* BOOLEAN: whether half a second may pass between reads
  MaxLag           \* bound: how far behind the program may be when the pointer is put back

ASSUME MouseAssumption ==
  /\ X \subseteq Int /\ Y \subseteq Int /\ Center \in X \X Y
  /\ MaxDelta \in Nat \ {0}
  /\ ADB_MOUSE_FIFO \in Nat \ {0, 1}
  /\ Ages \in BOOLEAN /\ MaxLag \in Nat

VARIABLE mouse

Entry == [x : X, y : Y, button : BOOLEAN]
MouseState ==
  [fifo : Seq(Entry) \ {<<>>},
   a2_x : Int, a2_y : Int, a2_button : BOOLEAN]   \* as the program sees it

Pos(m) == Len(m.fifo) - 1
MouseOn(d) == "mouse_off" \notin d.mode /\ d.mouse_ctl = 3

\* Entries older than half a second go.
mouse_compress_fifo(m) ==
  {[m EXCEPT !.fifo = SubSeq(m.fifo, 1, n)] :
     n \in IF Ages THEN 1..Len(m.fifo) ELSE {Len(m.fifo)}}

\* The locked pointer was put back to the centre: no motion.
WarpTo(m, x, y) ==
  [m EXCEPT !.a2_x = m.a2_x + x - m.fifo[1].x, !.a2_y = m.a2_y + y - m.fifo[1].y,
            !.fifo[1] = [x |-> x, y |-> y, button |-> m.fifo[1].button]]

\* A button change keeps a copy of where it happened, if there is room.
MoveTo(m, x, y, button) ==
  LET now == [x |-> x, y |-> y, button |-> m.fifo[1].button]
      rest == Tail(m.fifo)
      copy == IF Pos(m) < ADB_MOUSE_FIFO - 2 /\ button # now.button THEN <<now>> ELSE <<>>
  IN [m EXCEPT !.fifo = <<[now EXCEPT !.button = button]>> \o copy \o rest]

\* Mutant: a button change without motion is no news.
MotionOnly(m, x, y, button) == m.fifo[1].x # x \/ m.fifo[1].y # y

Changes(m, x, y, button) ==
  m.fifo[1].x # x \/ m.fifo[1].y # y \/ m.fifo[1].button # button

\* update_mouse, of a real motion or button change; a driver that has no news
\* of the button says so, and then it stays as it was.
UpdateMouse(x, y, button) ==
  /\ \E m \in mouse_compress_fifo(mouse) :
       /\ mouse' = MoveTo(m, x, y, button)
       /\ adb' = IF Changes(m, x, y, button) /\ MouseOn(adb)
                 THEN adb_add_mouse_int([adb EXCEPT !.mouse_valid_data = TRUE]) ELSE adb

\* update_mouse, of a pointer that is locked and was put back.
WarpMouse ==
  /\ \E m \in mouse_compress_fifo(mouse) : mouse' = WarpTo(m, Center[1], Center[2])
  /\ mouse'.a2_x - mouse'.fifo[1].x \in -MaxLag..MaxLag
  /\ mouse'.a2_y - mouse'.fifo[1].y \in -MaxLag..MaxLag
  /\ UNCHANGED adb

Clamp(n) == IF n > MaxDelta THEN MaxDelta ELSE IF n < -MaxDelta THEN -MaxDelta ELSE n

\* The delta of one read, clamped, and the button that goes with it: the y read
\* peeks at the next entry's button when it brings the program to this one.
ReadPosition(d, m) ==
  LET target == m.fifo[Len(m.fifo)]
      dx == target.x - m.a2_x
      dy == target.y - m.a2_y
      clamped == Clamp(dx) # dx \/ Clamp(dy) # dy
      peek == Pos(m) > 0 /\ ~clamped /\ d.mouse_coord
      button == IF peek THEN m.fifo[Pos(m)].button ELSE target.button
      moved == [m EXCEPT !.a2_x = IF d.mouse_coord THEN m.a2_x ELSE m.a2_x + Clamp(dx),
                         !.a2_y = IF d.mouse_coord THEN m.a2_y + Clamp(dy) ELSE m.a2_y,
                         !.a2_button = IF d.mouse_coord THEN button ELSE m.a2_button]
  IN IF /\ Pos(m) > 0
        /\ target.x = moved.a2_x /\ target.y = moved.a2_y /\ moved.a2_button = button
     THEN [moved EXCEPT !.fifo = Front(m.fifo)] ELSE moved

\* The program knows where the mouse is now.
CaughtUp(m) ==
  /\ Pos(m) = 0
  /\ m.fifo[1] = [x |-> m.a2_x, y |-> m.a2_y, button |-> m.a2_button]

mouse_read_c024(d, m) ==
  LET t == IF CaughtUp(m) THEN adb_clear_mouse_int([d EXCEPT !.mouse_valid_data = FALSE])
           ELSE d
  IN [t EXCEPT !.mouse_coord = ~d.mouse_coord]

ReadC024 ==
  IF MouseOn(adb)
  THEN \E m \in mouse_compress_fifo(mouse) :
         /\ mouse' = ReadPosition(adb, m)
         /\ adb' = mouse_read_c024(adb, mouse')
  ELSE /\ adb' = adb_clear_mouse_int([adb EXCEPT !.mouse_valid_data = FALSE])
       /\ UNCHANGED mouse

MouseInit ==
  mouse = [fifo |-> <<[x |-> Center[1], y |-> Center[2], button |-> FALSE]>>,
           a2_x |-> Center[1], a2_y |-> Center[2], a2_button |-> FALSE]

MouseStep ==
  \/ \E x \in X, y \in Y, button \in BOOLEAN : UpdateMouse(x, y, button)
  \/ WarpMouse
  \/ ReadC024

Init == AdbInit /\ MouseInit
Next == (AdbNext /\ UNCHANGED mouse) \/ MouseStep
Spec == Init /\ [][Next]_<<adb, mouse>>

(***************************************************************************)
(* Properties.                                                             *)
(***************************************************************************)
(* The FIFO has at most the entries the code makes room for, and the other
   fields have the types of the declarations. *)
MouseTypeOK ==
  /\ AdbTypeOK
  /\ mouse \in MouseState /\ Len(mouse.fifo) < ADB_MOUSE_FIFO

(* Whenever the program falls behind the host's mouse the data valid flag is set,
   and the flag goes only when the program has the newest position and button, was
   told that the mouse is off, or was reset: motions that fill the FIFO, entries
   that grow old, a pointer put back to the centre and reads of one coordinate
   only never leave a motion, or the button as it is now, untold.  Nothing is
   claimed of buttons in between: their copies are for want of room not made, or
   dropped by a read that is there already (adb.c:1239, 1309-1313, 1394-1398), and
   by age (1427), so that a click at rest may pass unseen. *)
FlagWhileBehind ==
  /\ []MouseTypeOK
  /\ [][/\ CaughtUp(mouse) /\ ~CaughtUp(mouse)' /\ MouseOn(adb) => adb'.mouse_valid_data
        /\ adb.mouse_valid_data /\ ~adb'.mouse_valid_data =>
             CaughtUp(mouse)' \/ ~MouseOn(adb) \/ adb' = do_reset(adb)]_<<adb, mouse>>
=============================================================================
