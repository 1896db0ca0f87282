------------------------------ MODULE MCDisk ------------------------------
(***************************************************************************)
(* The disk drives, the controller, the SmartPort, the clock chip and the  *)
(* speed of the engine, put together for TLC.  A behaviour keeps to one    *)
(* focus, a program of the guest that uses a part of all this, chosen at   *)
(* the start; what happens around it (VBLs, the user's disks, run_prog) is *)
(* the same for all.  Tracks have one sector of one or two bytes.          *)
(***************************************************************************)
EXTENDS Speed, SmartPort, Clock

CONSTANTS Foci,      \* which programs a run looks at
          MaxWrites  \* bound: bytes a program gives to a surface, a file or a chip

VARIABLES focus,
          odd,     \* every other VBL looks for dirty disks (one in twenty does)
          writes,  \* counts what MaxWrites bounds
          hist     \* the accesses of c034 since the clock chip was last idle
vars == <<iwmVars, speedVars, smartVars, clockVars, focus, odd, writes, hist>>
allButClock == <<iwmVars, speedVars, smartVars, focus, odd, writes>>

-----------------------------------------------------------------------------
MCTracks525 == 2
MCSectors35 == <<2, 1>>
MCSync == <<2, 2>>
Floppy(ext, header, can) ==
  [opens |-> TRUE, gz |-> FALSE, writable |-> can, header |-> header, locked |-> FALSE,
   refuses |-> FALSE, dosOrder |-> FALSE, volSet |-> FALSE, vol |-> 254, ext |-> ext, start |-> 0, size |-> 2,
   parts |-> << >>]
MCImages ==
  [apple |-> Floppy("po", "none", TRUE),
   other |-> Floppy("dsk", "none", TRUE),
   disk35 |-> [Floppy("po", "2img", TRUE) EXCEPT !.start = 1],
   locked |-> [Floppy("po", "2img", TRUE) EXCEPT !.locked = TRUE, !.size = 4],
   hard |-> [Floppy("hdv", "none", TRUE) EXCEPT !.size = 8,
               !.parts = <<[start |-> 1, size |-> 2], [start |-> 2, size |-> 3]>>],
   full |-> [Floppy("po", "none", TRUE) EXCEPT !.refuses = TRUE],
   absent |-> [Floppy("po", "none", FALSE) EXCEPT !.opens = FALSE]]

Track525(b) == [s \in 0 .. Sectors525 - 1 |-> [i \in 0 .. Bytes525 - 1 |-> b]]
Track35(b) == [s \in 0 .. 1 |-> [i \in 0 .. Bytes35 - 1 |-> b]]
Contents ==
  [apple |-> (0 :> Track525(0)) @@ (1 :> Track525(5)),
   other |-> (0 :> Track525(255)) @@ (1 :> Track525(0)),
   disk35 |-> (0 :> <<9>>) @@ (1 :> Track35(7)) @@ (2 :> Track35(200)),
   locked |-> (0 :> <<7>>) @@ (1 :> <<8>>),
   hard |-> [b \in 0 .. 3 |-> <<b + 1>>],
   full |-> (0 :> Track525(0)) @@ (1 :> Track525(5)),
   absent |-> << >>]
MCZero == <<0>>

\* The values four seconds of the host's clock may have.
MCHostTimes == {[n \in 0 .. 3 |-> 160], [n \in 0 .. 3 |-> n]}

\* A program: what it reads, writes and in how many cycles; the user's disks.
Quiet == [reads |-> {}, writes |-> {}, gaps |-> {0}, sides |-> {}, inserts |-> {}, ejects |-> {},
          vbls |-> TRUE, fast |-> TRUE, q6 |-> {0, 1}, max |-> 1,
          in |-> << >>, on |-> "off", wrote |-> FALSE]
Nibbles == {150, 64}
Program ==
  [write525 |-> [Quiet EXCEPT !.max = 2, !.reads = {12}, !.in = <<<<6, 0>>, "apple">>,
                   !.on = "motor", !.writes = {<<8, 0>>, <<13, 0>>} \cup ({15} \X Nibbles)],
   write35 |-> [Quiet EXCEPT !.max = 2, !.wrote = TRUE, !.reads = {12}, !.in = <<<<5, 0>>, "disk35">>, !.sides = {64},
                  !.on = "motor", !.writes = {<<8, 0>>, <<13, 0>>} \cup ({15} \X {151})],
   seek525 |-> [Quiet EXCEPT !.writes = (0 .. 9) \X {0}, !.in = <<<<6, 0>>, "apple">>],
   seek35 |-> [Quiet EXCEPT !.vbls = FALSE, !.reads = {14}, !.sides = {64, 192}, !.in = <<<<5, 0>>, "disk35">>,
                 !.writes = ((0 .. 7) \cup {9, 13}) \X {0}, !.q6 = {1}],
   slow |-> [Quiet EXCEPT !.reads = {12}, !.fast = FALSE, !.gaps = {32, 43, 76}, !.vbls = FALSE,
               !.in = <<<<6, 0>>, "apple">>, !.on = "motor"],
   late |-> [Quiet EXCEPT !.fast = FALSE, !.gaps = {32, 43}, !.vbls = FALSE, !.max = 4,
               !.in = <<<<6, 0>>, "apple">>, !.on = "motor",
               !.writes = {<<13, 0>>, <<15, 1>>, <<15, 150>>}],
   swap |-> [Quiet EXCEPT !.wrote = TRUE, !.in = <<<<6, 0>>, "apple">>, !.on = "motor",
               !.writes = {<<8, 0>>, <<9, 0>>, <<13, 0>>, <<15, 151>>},
               !.inserts = {<<<<6, 0>>, "absent", 0, FALSE>>, <<<<6, 0>>, "other", 0, FALSE>>,
                            <<<<6, 1>>, "apple", 0, FALSE>>, <<<<6, 1>>, "apple", 0, TRUE>>},
               !.ejects = {<<6, 0>>}],
   refused |-> [Quiet EXCEPT !.wrote = TRUE, !.in = <<<<6, 0>>, "full">>, !.on = "motor",
               !.writes = {<<8, 0>>, <<9, 0>>, <<13, 0>>, <<15, 151>>},
               !.inserts = {<<<<6, 0>>, "full", 0, FALSE>>}, !.ejects = {<<6, 0>>}],
   over |-> [Quiet EXCEPT !.wrote = TRUE, !.in = <<<<6, 0>>, "apple">>, !.on = "motor",
               !.writes = {<<8, 0>>}, !.inserts = {<<<<6, 0>>, "other", 0, FALSE>>}],
   hard |-> [Quiet EXCEPT !.vbls = FALSE, !.inserts = {<<<<7, 0>>, "hard", 1, FALSE>>, <<<<7, 0>>, "hard", 3, FALSE>>,
                            <<<<7, 1>>, "hard", 2, FALSE>>, <<<<7, 1>>, "locked", 0, FALSE>>,
                            <<<<7, 2>>, "hard", 0, FALSE>>},
               !.ejects = {<<7, 0>>}],
   speed |-> [Quiet EXCEPT !.in = <<<<6, 0>>, "apple">>, !.sides = {0, 64}, !.vbls = FALSE,
                !.gaps = {70}, !.on = "write", !.writes = {<<8, 0>>, <<9, 0>>, <<13, 0>>, <<15, 150>>}],
   zip |-> [Quiet EXCEPT !.vbls = FALSE],
   clock |-> [Quiet EXCEPT !.vbls = FALSE],
   boot |-> Quiet]
P == Program[focus]

\* What a focus may ask for is one of the programs above.
ASSUME MCDiskAssumption == Foci \subseteq DOMAIN Program

\* A surface that was written is dirty; one without places cannot be written.
Overwritten(t) == [t EXCEPT !.dirty = (TrackLen(t) # 0)]

\* A program has written a whole track again, with other bytes than the file has.
Rewritten(m, d) ==
  LET k == m.drv[d]
      other == (k.trks[0].at :> IF Is525(d) THEN Track525(3) ELSE Track35(77))
  IN  [m EXCEPT !.drv[d] =
         [k EXCEPT !.dirty = TRUE,
                   !.trks[0] = Overwritten(disk_unix_to_nib(k, d, other, 0, k.trks[0].at))]]

\* It has switched the motor on, or both latches to writing.
Started(m) ==
  CASE P.on = "off" -> m
    [] P.on = "motor" -> MotorOn(m)
    [] P.on = "write" -> [m EXCEPT !.iwm.q6 = 1, !.iwm.q7 = 1]

-----------------------------------------------------------------------------
\* The state that other parts keep is untouched.
Quietly(action) == action /\ UNCHANGED <<smartVars, clk, c033, c034, time, focus, hist>>
Disk(action) == Quietly(action) /\ UNCHANGED odd
KeepsSlot == UNCHANGED <<boot, bram, cfg>>

GuestReads ==
  /\ iwm.q6 \in P.q6 /\ (P.max > 1 => writes = 0)
  /\ Disk(Guest(\E loc \in P.reads, gap \in P.gaps : ReadIwm(loc, gap)))
  /\ KeepsSlot /\ UNCHANGED writes
GuestWrites ==
  /\ \E w \in P.writes, gap \in P.gaps :
       /\ IF w[1] = 8 THEN P.max > 1 => writes = P.max * MaxWrites
          ELSE writes < P.max * MaxWrites
       /\ Disk(Guest(WriteIwm(w[1], w[2], gap)))
       /\ writes' = IF w[1] % 2 = 1 /\ iwm'.q6 = 1 /\ iwm'.q7 = 1 /\ iwm'.motor_on
                     THEN writes + 1 ELSE writes
  /\ KeepsSlot
GuestSelects ==
  /\ Disk(Guest(\E val \in P.sides : WriteC031(val)))
  /\ KeepsSlot /\ UNCHANGED writes
GuestSpeed ==
  /\ \/ focus = "speed" /\ Disk(\E fast \in BOOLEAN, detect \in {0, 4} : WriteC036(fast, detect))
     \/ focus = "zip"
        /\ Disk(\/ \E fast \in BOOLEAN : WriteC036(fast, 0)
                \/ \E high \in {0, 5, 10} : WriteC05a(high)
                \/ WriteC05b
                \/ \E high \in {0, 8} : WriteC05d(high))
  /\ KeepsSlot /\ UNCHANGED writes
GuestZip ==
  /\ focus = "zip"
  /\ Disk(\E follow \in BOOLEAN : WriteC059(follow))
  /\ KeepsSlot /\ UNCHANGED writes
UserSpeed ==
  /\ \/ focus = "speed" /\ writes = 0 /\ Disk(Between(ToggleFast))
     \/ focus = "zip" /\ Disk(adb_increment_speed)
  /\ KeepsSlot /\ UNCHANGED writes
UserReset == Disk(Between(Reset)) /\ KeepsSlot /\ focus \in {"swap", "speed"} /\ UNCHANGED writes

UserInserts ==
  /\ \E i \in P.inserts :
       /\ focus # "over" => drv[i[1]].file = NoFile
       /\ Disk(Between(Insert(i[1], i[2], i[4], i[3]) /\ UNCHANGED bus))
  /\ cfg' = TRUE /\ UNCHANGED <<boot, bram, writes>>
UserEjects ==
  /\ Disk(Between(\E d \in P.ejects : Eject(d) /\ UNCHANGED bus))
  /\ KeepsSlot /\ UNCHANGED writes
VblPasses ==
  /\ P.vbls /\ (P.max > 1 => writes > 0)
  /\ odd' = ~odd
  /\ Quietly(Between(Vbl(odd)))
  /\ IF DropsSlot(Machine, odd) THEN DropTempSlot ELSE KeepsSlot
  /\ UNCHANGED writes

\* Commands with their number of parameters, and one with a wrong number.
Calls == ({"status", "read", "write", "control", "other"} \X {3}) \cup ({"format", "read"} \X {1})
SmartPortCall ==
  /\ focus = "hard" /\ run.inside /\ writes < P.max * MaxWrites
  /\ \/ \E call \in Calls, unit \in 0 .. Units + 1, blk \in {0, 2} : do_c70d(call[1], call[2], unit, blk)
     \/ \E cmd \in {"status", "read", "write", "format", "other"},
           number \in {112, 240, 64} : do_c70a(cmd, number, 1)
  /\ writes' = (IF files' = files THEN writes ELSE writes + 1)
  /\ UNCHANGED <<bus, speedVars, clockVars, focus, odd, hist>>
Boots ==
  /\ focus \in {"hard", "boot"} /\ run.inside
  /\ do_c700 /\ DropTempSlot
  /\ UNCHANGED <<bus, speedVars, clk, c033, c034, time, focus, odd, writes, hist>>

\* The clock chip: bytes that lead to every kind of command.
Access(read) ==
  IF clk.mode = "IDLE"
  THEN IF focus = "clock" /\ ~read /\ c033 \div 8 = 23 THEN <<<<read, c033>>>> ELSE << >>
  ELSE IF hist = << >> THEN << >> ELSE hist \o <<<<read, c033>>>>
ClockCommands == IF focus = "boot" THEN {57, 185, 32} ELSE {57, 185, 32, 4, 129}
GuestClock ==
  /\ focus \in {"clock", "boot"} /\ run.inside
  /\ \/ \E val \in ClockCommands : write_c033(val) /\ UNCHANGED <<hist, writes>>
     \/ \E read \in BOOLEAN :
          /\ clock_write_c034(IF read THEN 192 ELSE 128)
          /\ hist' = Access(read)
          /\ writes' = (IF bram' = bram /\ time'.sec = time.sec THEN writes ELSE writes + 1)
          /\ writes' <= MaxWrites
  /\ UNCHANGED <<iwmVars, speedVars, smartVars, focus, odd>>
UserBoots ==
  /\ focus = "boot" /\ ~run.inside
  /\ \E slot \in {6, 7} : BootFrom(slot)
  /\ cfg' = TRUE
  /\ UNCHANGED <<allButClock, hist>>
ClockTicks ==
  /\ focus = "clock" /\ clk.mode = "IDLE" /\ ~run.inside
  /\ ClockVbl /\ config_vbl_update
  /\ UNCHANGED <<allButClock, clk, c033, c034, bram, boot, hist>>

Enters == EnterEngine /\ UNCHANGED <<smartVars, clockVars, focus, odd, writes, hist>>
Leaves == LeaveEngine /\ (P.max > 1 => halt \/ writes > 0)
          /\ UNCHANGED <<smartVars, clockVars, focus, odd, writes, hist>>
Ends == Shut /\ focus = "swap" /\ ~run.inside
        /\ UNCHANGED <<speedVars, smartVars, clockVars, focus, odd, writes, hist>>

Init ==
  /\ focus \in Foci
  /\ odd = FALSE /\ writes = 0 /\ hist = << >>
  /\ \E m \in {Empty(P.fast, Contents)}, g \in Garbage :
     \E loaded \in {IF P.in = << >> THEN m ELSE insert_disk(m, P.in[1], P.in[2], FALSE, 0, g)} :
     \E dirty \in {IF P.wrote THEN Rewritten(loaded, P.in[1]) ELSE loaded} :
       \E s \in {Started(dirty)} :
         /\ iwm = s.iwm /\ emul = s.emul /\ c031 = s.c031 /\ drv = s.drv
         /\ files = s.files /\ halt = s.halt /\ gone = s.gone
  /\ bus = [val |-> 0, whole |-> TRUE, data |-> FALSE]
  /\ speed = speed_reset(2)
  /\ run = [inside |-> FALSE, mult |-> "slow", follow |-> TRUE]
  /\ buffer = <<6>>
  /\ answer = [acc |-> 0, carry |-> FALSE, x |-> 0, y |-> 0, to |-> "caller"]
  /\ ClockInit(TRUE, 5)

Next ==
  \/ GuestReads \/ GuestWrites \/ GuestSelects \/ GuestSpeed \/ GuestZip \/ SmartPortCall \/ Boots
  \/ GuestClock \/ UserSpeed \/ UserReset \/ UserInserts \/ UserEjects \/ UserBoots
  \/ VblPasses \/ ClockTicks \/ Enters \/ Leaves \/ Ends

\* Each VBL puts the next one into the event list, whatever else happens
\* (update_60hz in sim65816.c).
Spec == Init /\ [][Next]_vars /\ WF_vars(Leaves) /\ []<><<odd' # odd>>_odd

-----------------------------------------------------------------------------
(* Invariants. *)

\* The shape of what a guest and a user can bring about; a file is never changed
\* into one without its first track.
TypeOK ==
  /\ iwm.drive_select \in {0, 1} /\ iwm.mode \in 0 .. 31 /\ iwm.off \in 0 .. MotorDelay
  /\ iwm.previous_write_bits \in 0 .. MaxElapsed /\ iwm.prev_val \in 0 .. 255
  /\ bus.val \in Byte
  /\ \A d \in Drives : drv[d].file # NoFile => drv[d].file \in DOMAIN files
  /\ ClockTypeOK

\* Every surface holds as many bits as the code counts (the sum iwm_show_a_track
\* prints beside what it expects): disk_nib_out makes up for long nibbles by
\* dropping places, whatever is written where.
SurfaceKeepsItsBits ==
  \A d \in Drives : \A q \in DOMAIN drv[d].trks :
    LET t == drv[d].trks[q]
        places(bits) == Cardinality({i \in DOMAIN t.nib : t.nib[i][1] = bits})
    IN  /\ places(0) + places(8) + places(9) + places(10) = TrackLen(t)
        /\ t.overflow = places(9) + 2 * places(10) - 8 * places(0)

\* A track that is not dirty decodes to what its file holds, on every disk that
\* is still written back to a file the host does not refuse to write: what was
\* encoded, or just written, comes out the same.
CleanTrackIsTheFile ==
  \A d \in Drives : \A q \in DOMAIN drv[d].trks :
    LET k == drv[d]
        same(read) == read.ok /\ read.bytes = files[k.file][k.trks[q].at]
    IN  (/\ k.through /\ HasTrack(k, q) /\ ~k.trks[q].dirty
         /\ ~Images[k.file].refuses /\ k.trks[q].at \in DOMAIN files[k.file]) => same(Denib(k, d, q, 0))

\* The head of a drive with a disk is on one of its tracks, whatever the phases
\* did and whatever was put in while it was far out.
HeadOnDisk ==
  \A d \in Drives : drv[d].trks # << >> => drv[d].track \in DOMAIN drv[d].trks

\* A track that waits to be written back belongs to a disk that is marked, or it
\* would never be looked at (iwm_flush_disk_to_unix returns at once).
DirtyIsMarked ==
  \A d \in Drives :
    drv[d].through /\ (\E q \in DOMAIN drv[d].trks : drv[d].trks[q].dirty) => drv[d].dirty

\* An image is in one drive, unless as two partitions (eject_named_disk).
NoDiskTwice ==
  \A d, e \in Drives :
    d # e /\ drv[d].file # NoFile /\ drv[d].file = drv[e].file =>
      drv[d].part # drv[e].part /\ drv[d].part # 0 /\ drv[e].part # 0

\* A nibble that is read whole has its top bit, a part of one has not: programs
\* poll for it.
TopBitMeansWhole == bus.data => (bus.val >= 128) = bus.whole

(* The drives as a whole: bits, bytes, heads, marks and images fit together
   whatever is read, written, stepped, inserted or ejected in between. *)
DisksAreSound ==
  /\ SurfaceKeepsItsBits /\ CleanTrackIsTheFile /\ HeadOnDisk
  /\ DirtyIsMarked /\ NoDiskTwice /\ TopBitMeansWhole

\* While the engine runs and was not told to come back, it runs at the speed
\* run_prog would choose: each handler that changes one of the switches it is
\* made of has raised HALT_EVENT.  c058 and c059 do not: whether the Zip follows
\* c036 counts from the next run on.
SpeedIsCurrent ==
  run.inside /\ ~halt => run.mult = SpeedOf(Machine, [speed EXCEPT !.follow = run.follow])

-----------------------------------------------------------------------------
(* What a step may never do. *)

\* A dirty track loses its mark only when its sectors are in the file, or when
\* they could not be read and the image is given up.  Where the host refuses the
\* write (refuses) they are not in the file, and no mark remembers it: the code
\* prints a message and goes on (iwm.c:322-325).
Recovered(d, q) ==
  LET k == drv[d]
      kept(read) ==
        CASE ~read.ok -> files'[k.file] = files[k.file] /\ ~drv'[d].through
          [] read.ok /\ Images[k.file].refuses -> files'[k.file] = files[k.file]
          [] OTHER -> k.trks[q].at \in DOMAIN files'[k.file]
                      /\ files'[k.file][k.trks[q].at] = read.bytes
  IN  kept(Denib(k, d, q, 0))
DirtyGoesToTheFile ==
  [][\A d \in Drives : \A q \in DOMAIN drv[d].trks :
       drv[d].through /\ drv[d].trks[q].dirty =>
         \/ gone'
         \/ drv'[d].file = drv[d].file /\ q \in DOMAIN drv'[d].trks /\ drv'[d].trks[q].dirty
         \/ Recovered(d, q)]_vars

\* A file changes only if its image is unlocked, plain and writable on the host.
LockedStaysAsItIs ==
  [][\A f \in DOMAIN files : files'[f] # files[f] =>
       \E d \in Drives : drv[d].file = f /\ CanWrite(d, Images[f])]_vars

\* Three accesses that give an address name the byte that is then read: what
\* came before, even a command given up half-way, does not show in it.
CommandNamesTheByte ==
  [][LET h == hist'
         hi == h[1][2] % 8
         lo == (h[2][2] \div 4) % 32
     IN  Len(h) = 3 /\ hist # h /\ ~h[1][1] /\ ~h[2][1] /\ h[3][1]
         /\ h[1][2] \div 8 = 23 /\ clk.mode = "BRAM1" =>
           c033' = IF 32 * hi + lo = BootByte /\ boot.temp # NoTempSlot THEN boot.temp
                   ELSE bram[32 * hi + lo]]_vars

\* A dirty disk whose drive stays still is written back or given up.
Still == IF BitOf(c031, 6) = 1 THEN ~iwm.motor_on35 ELSE ~iwm.motor_on
DirtyGoesOut ==
  \A d \in {<<6, 0>>, <<5, 0>>} :
    (drv[d].dirty /\ drv[d].through) ~> (~drv[d].dirty \/ ~drv[d].through \/ ~Still \/ gone)
=============================================================================
