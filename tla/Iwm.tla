-------------------------------- MODULE Iwm --------------------------------
(***************************************************************************)
(* The disk controller as the program sees it (iwm.c, iwm_35_525.h): the   *)
(* sixteen switches c0e0 .. c0ef, the head that the phases move, the bytes *)
(* that come off the surface and go onto it, and what every VBL does.      *)
(*                                                                         *)
(* Time is counted in cycles since a drive was last read (elapsed) and     *)
(* until slow writes end (emul.left); the motor's second is counted down   *)
(* in VBLs (iwm.off).                                                      *)
(***************************************************************************)
EXTENDS Disks

CONSTANTS MotorDelay,   \* 60: VBLs for which the motor runs on
          SlowWrite,    \* 64: cycles of slow writes after each write of a 5.25" disk
          MaxElapsed    \* bound: a drive left alone for longer counts as left alone for this

VARIABLE bus  \* the last byte read from the controller
iwmVars == <<diskVars, bus>>

Kind35(val) == (val \div 64) % 2 = 1
Sel35(m) == Kind35(m.c031)
Selected(m) == <<IF Sel35(m) THEN 5 ELSE 6, m.iwm.drive_select>>
Mult(d) == IF Is525(d) THEN 2 ELSE 1

\* iwm_reset; the handshake counter of enable2 is outside of the record.
iwm_reset(m) ==
  [m EXCEPT
     !.iwm = [q6 |-> 0, q7 |-> 0, motor_on |-> FALSE, motor_on35 |-> FALSE, motor_off |-> FALSE,
              off |-> 0, step |-> 0, head35 |-> 0, drive_select |-> 0, mode |-> 0,
              enable2 |-> FALSE, reset |-> FALSE, phase |-> [p \in 0 .. 3 |-> 0],
              prev_val |-> 0, previous_write_bits |-> 0, cnt |-> m.iwm.cnt],
     !.emul = [m.emul EXCEPT !.motor = FALSE],
     !.c031 = 0]

\* cycles pass.
Later(m, cycles) ==
  [m EXCEPT !.drv = [d \in Drives |-> [m.drv[d] EXCEPT
                        !.elapsed = IF @ + cycles > MaxElapsed THEN MaxElapsed ELSE @ + cycles]],
            !.emul = [m.emul EXCEPT !.left = IF @ < cycles THEN -1 ELSE @ - cycles]]

-----------------------------------------------------------------------------
(* The head.                                                               *)

\* A phase pulls the arm when it is a neighbour of the half track it is at.
iwm525_phase_change(m, d) ==
  LET q == m.drv[d].track
      half == q \div 2
      delta == 2 * m.iwm.phase[(half + 1) % 4] - 2 * m.iwm.phase[(half + 3) % 4]
      to == q + delta
      last == 4 * (Tracks525 - 1)
  IN  iwm_move_to_track(m, d, IF to < 0 THEN 0 ELSE IF to > last THEN last ELSE to)

\* What three phases and the side line of c031 ask a 3.5" drive for.
State35(m) ==
  8 * m.iwm.phase[1] + 4 * m.iwm.phase[0] + 2 * BitOf(m.c031, 7) + m.iwm.phase[2]

iwm_do_action35(m, garbage) ==
  LET d == <<5, m.iwm.drive_select>>
      state == State35(m)
      track == m.drv[d].track
  IN  IF ~m.iwm.motor_on THEN m
      ELSE CASE state \in {0, 1} -> [m EXCEPT !.iwm.step = state]
             [] state = 3 -> [m EXCEPT !.drv[d].ejected = FALSE]
             [] state = 4 -> iwm_move_to_track(m, d, IF m.iwm.step = 1 THEN track - 2
                                                     ELSE track + 2)
             [] state \in {8, 9} -> [m EXCEPT !.iwm.motor_on35 = (state = 8)]
             [] state = 13 -> eject_disk(m, d, garbage)
             [] OTHER -> m

Truth(b) == IF b THEN 1 ELSE 0

(* The status line of a 3.5" drive: reading the head's data puts a head on. *)
iwm_read_status35(m, any) ==
  LET d == <<5, m.iwm.drive_select>>
      k == m.drv[d]
      state == State35(m)
      head(h) == iwm_move_to_track([m EXCEPT !.iwm.head35 = h], d, 2 * (k.track \div 2) + h)
      line == CASE state = 0 -> m.iwm.step
                [] state = 2 -> Truth(NumTracks(k) = 0)
                [] state = 6 -> Truth(~k.prot)
                [] state \in {8, 11} -> Truth(~m.iwm.motor_on35)
                [] state = 10 -> Truth(k.track # 0)
                [] state = 12 -> Truth(k.ejected)
                [] state = 15 -> m.iwm.drive_select
                [] state \in {1, 3, 14} -> any
                [] OTHER -> 1
  IN  IF ~m.iwm.motor_on THEN [m |-> m, val |-> 1]
      ELSE [m |-> IF state = 1 THEN head(0) ELSE IF state = 3 THEN head(1) ELSE m, val |-> line]

-----------------------------------------------------------------------------
(* The switches.                                                           *)

\* Phases 0 and 2 together reset the controller, 1 and 3 enable what is on the
\* SmartPort bus.
Pull(m, phase, on, garbage) ==
  IF ~m.iwm.motor_on \/ on = 0 THEN m
  ELSE IF ~Sel35(m) THEN iwm525_phase_change(m, <<6, m.iwm.drive_select>>)
  ELSE IF phase = 3 THEN iwm_do_action35(m, garbage) ELSE m
Phased(m, p) ==
  [m EXCEPT !.iwm = [@ EXCEPT !.reset = (p[0] = 1 /\ p[2] = 1), !.enable2 = (p[1] = 1 /\ p[3] = 1)]]
Phase(m, phase, on, garbage) ==
  Phased(Pull([m EXCEPT !.iwm.phase[phase] = on], phase, on, garbage),
         [m.iwm.phase EXCEPT ![phase] = on])

\* A mutant: the engine is not told that the disk has stopped.
QuietMotorOff(m) ==
  LET still == IF BitOf(m.iwm.mode, 2) = 1
               THEN [m EXCEPT !.iwm = [m.iwm EXCEPT !.motor_on = FALSE, !.motor_off = FALSE]]
               ELSE IF m.iwm.motor_on /\ ~m.iwm.motor_off
               THEN [m EXCEPT !.iwm = [m.iwm EXCEPT !.motor_off = TRUE, !.off = MotorDelay]]
               ELSE m
  IN  [still EXCEPT !.emul = [m.emul EXCEPT !.motor = FALSE, !.slow = FALSE]]

\* c0e8: at once in one mode, else a second from now.
MotorOff(m) ==
  LET still == IF BitOf(m.iwm.mode, 2) = 1
               THEN [m EXCEPT !.iwm = [m.iwm EXCEPT !.motor_on = FALSE, !.motor_off = FALSE]]
               ELSE IF m.iwm.motor_on /\ ~m.iwm.motor_off
               THEN [m EXCEPT !.iwm = [m.iwm EXCEPT !.motor_off = TRUE, !.off = MotorDelay]]
               ELSE m
  IN  [still EXCEPT !.halt = m.halt \/ m.emul.motor \/ m.emul.slow,
                    !.emul = [m.emul EXCEPT !.motor = FALSE, !.slow = FALSE]]

MotorOn(m) ==
  [m EXCEPT !.iwm = [m.iwm EXCEPT !.motor_on = TRUE, !.motor_off = FALSE],
            !.halt = m.halt \/ ~m.emul.motor,
            !.emul = [m.emul EXCEPT !.motor = TRUE]]

\* A slow write that is over ends with the next access.
EndSlow(m) ==
  IF m.emul.left < 0 /\ m.emul.slow
  THEN [m EXCEPT !.halt = TRUE, !.emul = [m.emul EXCEPT !.slow = FALSE]]
  ELSE m

Settled(m) == EndSlow(IF m.iwm.q7 = 0 THEN [m EXCEPT !.iwm.previous_write_bits = 0] ELSE m)
iwm_touch_switches(m, loc, garbage) ==
  LET on == loc % 2
  IN  Settled(CASE loc < 8 -> Phase(m, loc \div 2, on, garbage)
                [] loc = 8 -> MotorOff(m)
                [] loc = 9 -> MotorOn(m)
                [] loc \in {10, 11} -> [m EXCEPT !.iwm.drive_select = on]
                [] loc \in {12, 13} -> [m EXCEPT !.iwm.q6 = on]
                [] loc \in {14, 15} -> [m EXCEPT !.iwm.q7 = on])

-----------------------------------------------------------------------------
(* The surface.                                                            *)

NibCycles(d, size) == size * 2 * Mult(d)
\* The first place from pos on that has bits.
NextPlace(t, pos) ==
  LET k == CHOOSE i \in 0 .. TrackLen(t) - 1 :
             /\ Bits(t, (pos + i) % TrackLen(t)) # 0
             /\ \A j \in 0 .. i - 1 : Bits(t, (pos + j) % TrackLen(t)) = 0
  IN  (pos + k) % TrackLen(t)

\* What is under the head after cycles: places passed by and cycles left over.
Skipped(t, d, pos, cycles) ==
  LET turned == cycles % (Mult(d) * 8 * TrackLen(t) * 2)
      places == turned \div (16 * Mult(d))
  IN  [pos |-> NextPlace(t, (pos + places) % TrackLen(t)), cycles |-> turned % (16 * Mult(d))]

(* IWM_READ_ROUT: the nibble under the head, or its first bits when the head *)
(* is not past it.  Fast mode has one nibble per read, and half of one the   *)
(* first time it meets a long nibble; slow mode goes by the cycles since.    *)
(* Under says what is read from track t of a drive and where the head, the   *)
(* cycles and g_iwm_fake_fast are then.                                      *)
Under(t, d, k, latch, fast, fake) ==
  LET give(at, skip, half, bits) ==
        LET nib == t.nib[1 + at.pos][2]
            whole == at.cycles >= NibCycles(d, bits)
        IN  [pos |-> IF whole THEN (at.pos + 1) % TrackLen(t) ELSE at.pos,
             elapsed |-> IF fast THEN k.elapsed
                         ELSE IF whole THEN at.cycles - NibCycles(d, bits)
                         ELSE IF skip THEN at.cycles ELSE k.elapsed,
             fake |-> IF fast THEN half ELSE fake,
             val |-> IF whole THEN nib ELSE nib \div 2^(bits - (at.cycles \div (2 * Mult(d)))),
             whole |-> whole]
      at(place, skip, half) == give(place, skip, half, Bits(t, place.pos))
      turn(pos, cycles, skip, half) ==
        at(IF skip THEN Skipped(t, d, pos, cycles) ELSE [pos |-> pos, cycles |-> cycles], skip, half)
      pass(pos, cycles, size, half) ==
        turn(pos, cycles,
             /\ cycles >= NibCycles(d, size) + 11
             /\ ~(latch /\ cycles < NibCycles(d, size)
                    + NibCycles(d, Bits(t, NextPlace(t, (pos + 1) % TrackLen(t))))),
             half)
      pace(pos, size, half) ==
        pass(pos, IF half THEN NibCycles(d, size) \div 2
                  ELSE IF fast THEN NibCycles(d, size) ELSE k.elapsed, size, half)
      meet(pos, size) == pace(pos, size, fast /\ size > 8 /\ ~fake)
      under(pos) == meet(pos, Bits(t, pos))
  IN  under(NextPlace(t, Wrap(t, k.pos)))

PutBack(m, d, r) ==
  [m |-> [m EXCEPT !.iwm.previous_write_bits = 0, !.emul.fake = r.fake,
                   !.drv[d] = [@ EXCEPT !.elapsed = r.elapsed, !.pos = r.pos]],
   val |-> r.val, whole |-> r.whole, data |-> TRUE]
iwm_read_data(m, d) ==
  LET k == m.drv[d]
      q == IF Is525(d) THEN 4 * (k.track \div 4) ELSE k.track
  IN  IF ~HasTrack(k, q)
      THEN [m |-> [m EXCEPT !.iwm.previous_write_bits = 0],
            val |-> 128 + (k.elapsed % 128), whole |-> TRUE, data |-> FALSE]
      ELSE PutBack(m, d, Under(k.trks[q], d, k, m.iwm.mode % 2 = 1, m.emul.fast, m.emul.fake))

\* disk_nib_out where the head is: only a whole track can be written.
NibOut(m, d, val, size) ==
  LET k == m.drv[d]
      q == k.track
      t == disk_nib_out([k.trks[q] EXCEPT !.pos = k.pos], val % 256, size)
  IN  IF ~(q \in DOMAIN k.trks) \/ TrackLen(k.trks[q]) \in 0 .. 5 THEN [m EXCEPT !.gone = TRUE]
      ELSE [m EXCEPT !.drv[d] = [k EXCEPT !.trks[q] = [t EXCEPT !.pos = 0],
                                          !.pos = t.pos, !.dirty = TRUE]]

\* The bits of a nibble that has begun with prev after k bits of val.
Begun(prev, val, k) ==
  prev * 2^k + (IF k <= 8 THEN val \div 2^(8 - k) ELSE val * 2^(k - 8))

(* IWM_WRITE_ROUT: a nibble starts at a bit that is set; what comes before *)
(* one waits, and is forced out once there are ten bits of it.             *)
(* The pace of a write, then: the head writes size bits of out, or not     *)
(* yet, and v and its b bits wait.                                         *)
SlowFor(m, d) ==
  IF Is525(d)
  THEN [m EXCEPT !.halt = m.halt \/ ~m.emul.slow,
                 !.emul = [m.emul EXCEPT !.left = SlowWrite, !.slow = TRUE]]
  ELSE [m EXCEPT !.halt = m.halt \/ m.emul.slow, !.emul = [m.emul EXCEPT !.slow = FALSE]]

Wrote(now, out, size, v, b) == [now |-> now, out |-> out, size |-> size, v |-> v, b |-> b]
Joins(joined, taken, waiting, val, bits) ==
  IF joined < 128 /\ waiting + taken < 10
  THEN Wrote(FALSE, 0, 0, joined, waiting + taken)
  ELSE Wrote(TRUE, joined, waiting + taken,
             IF taken <= 8 THEN val % 2^(8 - taken) ELSE val, bits - taken)
WriteBits(waiting, prev, val, bits) ==
  LET full == {n \in 0 .. 15 : n <= bits /\ Begun(prev, val, n) >= 128}
      taken == IF full = {} THEN bits ELSE Min(full)
  IN  IF waiting = 0 THEN Wrote(val >= 128, val, bits, val, IF val >= 128 THEN 0 ELSE bits)
      ELSE Joins(IF full = {} /\ bits > 15 THEN 0 ELSE Begun(prev, val, taken),
                 taken, waiting, val, bits)

Waits(m, d, w, elapsed) ==
  [m EXCEPT !.iwm = [@ EXCEPT !.prev_val = w.v, !.previous_write_bits = w.b],
            !.drv[d] = [@ EXCEPT !.elapsed = elapsed]]
Put(m, d, w, elapsed) == Waits(IF w.now THEN NibOut(m, d, w.out, w.size) ELSE m, d, w, elapsed)
WriteInTime(m, d, val, bits, cycles) ==
  Put(SlowFor(m, d), d, WriteBits(m.iwm.previous_write_bits, m.iwm.prev_val, val, bits),
      IF cycles < NibCycles(d, bits) \/ cycles > 2 * NibCycles(d, bits) THEN 0
      ELSE cycles - NibCycles(d, bits))
iwm_write_data(m, d, val, fast) ==
  LET k == m.drv[d]
      come == k.elapsed \div (2 * Mult(d))
  IN  IF k.file = NoFile \/ k.trks = << >> THEN m
      ELSE WriteInTime(m, d, val, IF fast \/ BitOf(m.iwm.mode, 1) = 1 \/ come < 8 THEN 8 ELSE come,
                       k.elapsed)

-----------------------------------------------------------------------------
(* Reads and writes of c0e0 .. c0ef.                                       *)

\* What an even location gives: data, status or handshake.
Answer(m, any) ==
  LET d == Selected(m)
      i == m.iwm
      status == 32 * Truth(i.motor_on) + i.mode
      line == iwm_read_status35(m, any)
      byte(s, v) == [m |-> s, val |-> v, whole |-> TRUE, data |-> FALSE]
      count == (i.cnt + 1) % 4
  IN  CASE i.q7 = 0 /\ i.q6 = 0 /\ ~i.enable2 /\ i.motor_on -> iwm_read_data(m, d)
        [] i.q7 = 0 /\ i.q6 = 0 /\ (i.enable2 \/ ~i.motor_on) -> byte(m, 255)
        [] i.q7 = 0 /\ i.q6 = 1 /\ i.enable2 -> byte(m, 128 + status)
        [] i.q7 = 0 /\ i.q6 = 1 /\ ~i.enable2 /\ Sel35(m) ->
             byte(line.m, 128 * line.val + status)
        [] i.q7 = 0 /\ i.q6 = 1 /\ ~i.enable2 /\ ~Sel35(m) ->
             byte(m, 128 * Truth(m.drv[d].prot) + status)
        [] i.q7 = 1 /\ i.q6 = 0 /\ i.enable2 ->
             byte([m EXCEPT !.iwm.cnt = count], IF count = 0 THEN 128 ELSE 192)
        [] i.q7 = 1 /\ i.q6 = 0 /\ ~i.enable2 ->
             byte(m, IF m.drv[d].elapsed > 16 * (IF Is525(d) THEN 1 ELSE 2) THEN 128 ELSE 192)
        [] i.q7 = 1 /\ i.q6 = 1 -> byte(m, 0)

\* read_iwm, and iwm_read_c0ec for the location that programs read data from.
Reads(m, loc, any) ==
  IF loc % 2 = 1 THEN [m |-> m, val |-> 0, whole |-> TRUE, data |-> FALSE] ELSE Answer(m, any)
read_iwm(m, loc, any, garbage) ==
  Reads(IF loc = 12 THEN [m EXCEPT !.iwm.q6 = 0] ELSE iwm_touch_switches(m, loc, garbage), loc, any)

\* write_iwm: with q6 and q7 on an odd location takes data, or the mode while
\* the motor is off.
Writes(m, loc, val) ==
  IF loc % 2 = 0 \/ m.iwm.q7 = 0 \/ m.iwm.q6 = 0 THEN m
  ELSE IF ~m.iwm.motor_on THEN [m EXCEPT !.iwm.mode = val % 32]
  ELSE IF m.iwm.enable2 THEN m
  ELSE iwm_write_data(m, Selected(m), val, m.emul.fast /\ (Sel35(m) \/ ~m.emul.slow))
write_iwm(m, loc, val, garbage) == Writes(iwm_touch_switches(m, loc, garbage), loc, val)

ReadIwm(loc, cycles) ==
  /\ ~gone
  /\ \E g \in Garbage, any \in {0, 1} :
       \E r \in {read_iwm(Later(Machine, cycles), loc, any, g)} :
         Becomes(r.m) /\ bus' = [val |-> r.val, whole |-> r.whole, data |-> r.data]
WriteIwm(loc, val, cycles) ==
  /\ ~gone
  /\ \E g \in Garbage : \E m \in {write_iwm(Later(Machine, cycles), loc, val, g)} : Becomes(m)
  /\ UNCHANGED bus

\* c031: the side and which kind of drive; a change of kind changes the speed.
WriteC031(val) ==
  /\ ~gone
  /\ c031' = 64 * ((val \div 64) % 4)
  /\ halt' = (halt \/ Kind35(val) # Kind35(c031))
  /\ UNCHANGED <<iwm, emul, drv, files, gone, bus>>

-----------------------------------------------------------------------------
(* Every VBL.                                                              *)

\* The second is over: the motor stops.
Expires(m) == m.iwm.motor_on /\ m.iwm.motor_off /\ m.iwm.off <= 1

\* A mutant: only the 5.25" drives are looked at.
OnlySlot6(m, third, garbage) ==
  LET s == IF Expires(m)
           THEN [m EXCEPT !.iwm = [m.iwm EXCEPT !.motor_on = FALSE, !.motor_off = FALSE]]
           ELSE [m EXCEPT !.iwm.off = IF @ > 0 THEN @ - 1 ELSE 0]
      turning == IF Sel35(s) THEN s.iwm.motor_on35 ELSE s.iwm.motor_on
  IN  IF third /\ (~turning \/ s.iwm.motor_off)
      THEN iwm_flush_disk_to_unix(iwm_flush_disk_to_unix(s, <<6, 0>>, garbage), <<6, 1>>, garbage)
      ELSE s

FlushBoth(m, slot, garbage) ==
  iwm_flush_disk_to_unix(iwm_flush_disk_to_unix(m, <<slot, 0>>, garbage), <<slot, 1>>, garbage)

\* iwm_vbl_update: three times a second dirty tracks are written if the disk is
\* not turning.
iwm_vbl_update(m, third, garbage) ==
  LET s == IF Expires(m)
           THEN [m EXCEPT !.iwm = [m.iwm EXCEPT !.motor_on = FALSE, !.motor_off = FALSE]]
           ELSE [m EXCEPT !.iwm.off = IF @ > 0 THEN @ - 1 ELSE 0]
      turning == IF Sel35(s) THEN s.iwm.motor_on35 ELSE s.iwm.motor_on
  IN  IF third /\ (~turning \/ s.iwm.motor_off)
      THEN FlushBoth(FlushBoth(s, 6, garbage), 5, garbage)
      ELSE s

\* The temporary boot slot goes when a drive stops, and while the 3.5" drives are
\* selected.
DropsSlot(m, third) ==
  LET still == Expires(m)
  IN  still \/ (third /\ Sel35(m))

Vbl(third) ==
  /\ ~gone
  /\ \E g \in Garbage :
       \E m \in {iwm_vbl_update(Later(Machine, MaxElapsed), third, g)} : Becomes(m)
  /\ UNCHANGED bus

\* do_reset and the key that toggles fast disk emulation.
Reset ==
  /\ ~gone
  /\ \E m \in {iwm_reset(Machine)} : Becomes(m)
  /\ UNCHANGED bus
ToggleFast ==
  /\ ~gone
  /\ emul' = [emul EXCEPT !.fast = ~emul.fast]
  /\ UNCHANGED <<iwm, c031, drv, files, halt, gone, bus>>

-----------------------------------------------------------------------------
\* iwm_init, then iwm_shut at the end, which ejects everything.
Blank == [cnt |-> 0]
Empty(fast, contents) ==
  iwm_reset([iwm |-> Blank,
             emul |-> [motor |-> FALSE, slow |-> FALSE, left |-> -1, fake |-> FALSE,
                       fast |-> fast],
             c031 |-> 0, drv |-> [d \in Drives |-> iwm_init_drive], files |-> contents,
             halt |-> FALSE, gone |-> FALSE])

iwm_shut(m, garbage) ==
  LET after[i \in 0 .. Units + 4] ==
        IF i = 0 THEN m ELSE eject_disk(after[i - 1], Drive(i), garbage)
  IN  after[Units + 4]
Shut ==
  /\ ~gone
  /\ \E g \in Garbage : \E m \in {iwm_shut(Machine, g)} : Becomes([m EXCEPT !.gone = TRUE])
  /\ UNCHANGED bus
=============================================================================
