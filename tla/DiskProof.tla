----------------------------- MODULE DiskProof -----------------------------
(***************************************************************************)
(* Proofs about the disk drives and the speed of the engine, for any       *)
(* sizes of disks, any images and any of the programs of MCDisk: while the *)
(* engine runs and was not told to come back its speed is the one run_prog *)
(* would choose; a file of the host changes only if its image may be       *)
(* written; and the parts of DisksAreSound that are about where things are *)
(* and not about the bits of a surface (DrivesAreSound).                   *)
(*                                                                         *)
(* Every handler is shown to be a Step: it leaves a machine that is Good,  *)
(* keeps what is in each drive or ejects it, writes only to files that are *)
(* written through, and changes the pace of the engine only with a         *)
(* HALT_EVENT.  Steps compose, so a handler is the steps it is made of.    *)
(*                                                                         *)
(* The clock chip comes last: three accesses that give an address name the *)
(* byte that is read, whatever went before.                                *)
(***************************************************************************)
EXTENDS MCDisk, NatFacts, FiniteSetTheorems, SequenceTheorems

-----------------------------------------------------------------------------
(* What the handlers keep.                                                 *)

Rec(m) == DOMAIN m = {"iwm", "emul", "c031", "drv", "files", "halt", "gone"}

Regs(i) ==
  /\ DOMAIN i = {"q6", "q7", "motor_on", "motor_on35", "motor_off", "off", "step", "head35",
                 "drive_select", "mode", "enable2", "reset", "phase", "prev_val",
                 "previous_write_bits", "cnt"}
  /\ i.head35 \in {0, 1} /\ i.drive_select \in {0, 1}
  /\ i.q6 \in {0, 1} /\ i.q7 \in {0, 1}
  /\ i.motor_on \in BOOLEAN /\ i.enable2 \in BOOLEAN
  /\ i.phase \in [0 .. 3 -> {0, 1}]

Paced(e) ==
  /\ DOMAIN e = {"motor", "slow", "left", "fake", "fast"}
  /\ e.motor \in BOOLEAN /\ e.slow \in BOOLEAN

\* The last track of a floppy drive.
LastTrack(d) == IF Is525(d) THEN 4 * Tracks525 - 1 ELSE 2 * Cylinders35 - 1

Area(t) == DOMAIN t = {"nib", "overflow", "dirty", "pos", "at"}
Surface(t) ==
  /\ Area(t)
  /\ t.dirty \in BOOLEAN
  /\ t.dirty => TrackLen(t) # 0

\* A drive with all tracks or none, and its head on one of them.
Laden(k, d) ==
  /\ k.track \in Nat
  /\ k.trks = << >> \/ (~IsSmartPort(d) /\ DOMAIN k.trks = 0 .. LastTrack(d))
  /\ \A q \in DOMAIN k.trks : Surface(k.trks[q])
Tracked(k, d) == Laden(k, d) /\ (k.trks # << >> => k.track <= LastTrack(d))

\* A drive; a file is written through only if it may be.
Held(k, d) ==
  /\ DOMAIN k = {"file", "name", "part", "start", "size", "track", "type", "vol", "prot",
                 "through", "dirty", "ejected", "pos", "trks", "elapsed"}
  /\ k.through \in BOOLEAN /\ k.dirty \in BOOLEAN
  /\ k.file # NoFile => k.file = k.name
  /\ k.through /\ k.file # NoFile => CanWrite(d, Images[k.file])

Marked(k) == k.through /\ (\E q \in DOMAIN k.trks : k.trks[q].dirty) => k.dirty

Fit(k, d) == Held(k, d) /\ Tracked(k, d) /\ Marked(k)

DrivesFit(drives) == DOMAIN drives = Drives /\ \A d \in Drives : Fit(drives[d], d)

Good(m) ==
  /\ Rec(m) /\ Regs(m.iwm) /\ Paced(m.emul) /\ m.halt \in BOOLEAN
  /\ DrivesFit(m.drv)
  /\ NoFile \notin DOMAIN m.files

\* What is in a drive stays there or goes out.
Holds(k, l) ==
  \/ l.file = NoFile
  \/ l.file = k.file /\ l.name = k.name /\ l.part = k.part /\ (l.through => k.through)

\* The files that change are written through by a drive.
WritesThrough(m, n) ==
  /\ DOMAIN n.files = DOMAIN m.files
  /\ \A f \in DOMAIN m.files : n.files[f] # m.files[f] =>
       \E d \in Drives : m.drv[d].file = f /\ m.drv[d].through

\* The engine goes on at the same pace, or is told to come back.
KeepsPace(m, n) ==
  \/ n.halt
  \/ /\ ~m.halt
     /\ n.emul.motor = m.emul.motor /\ n.emul.slow = m.emul.slow /\ n.emul.fast = m.emul.fast
     /\ Sel35(n) = Sel35(m)

Step(m, n) ==
  /\ Good(n)
  /\ WritesThrough(m, n)
  /\ \A d \in Drives : Holds(m.drv[d], n.drv[d])
  /\ KeepsPace(m, n)

LEMMA StepStutters ==
  ASSUME NEW m, Good(m)
  PROVE  Step(m, m)
BY DEF Step, WritesThrough, Holds, KeepsPace, Good

LEMMA StepsCompose ==
  ASSUME NEW m, Good(m), NEW n, NEW o, Step(m, n), Step(n, o)
  PROVE  Step(m, o)
<1>1. \A d \in Drives : Holds(m.drv[d], o.drv[d])
  BY DEF Step, Holds
<1>2. WritesThrough(m, o)
  <2> SUFFICES ASSUME NEW f \in DOMAIN m.files, o.files[f] # m.files[f]
               PROVE  \E d \in Drives : m.drv[d].file = f /\ m.drv[d].through
    BY DEF Step, WritesThrough
  <2>1. CASE n.files[f] # m.files[f]
    BY <2>1 DEF Step, WritesThrough
  <2>2. CASE n.files[f] = m.files[f]
    <3>1. PICK d \in Drives : n.drv[d].file = f /\ n.drv[d].through
      BY <2>2 DEF Step, WritesThrough
    <3>2. f # NoFile
      BY DEF Good
    <3>3. Holds(m.drv[d], n.drv[d])
      BY DEF Step
    <3> QED BY <3>1, <3>2, <3>3 DEF Holds
  <2> QED BY <2>1, <2>2
<1>3. KeepsPace(m, o)
  BY DEF Step, KeepsPace
<1> QED BY <1>1, <1>2, <1>3 DEF Step

\* A handler that leaves the drives and the files alone.
LEMMA RegistersStep ==
  ASSUME NEW m, Good(m), NEW n, Rec(n), Regs(n.iwm), Paced(n.emul), n.halt \in BOOLEAN,
         n.drv = m.drv, n.files = m.files, KeepsPace(m, n)
  PROVE  Step(m, n)
<1>1. Good(n)
  BY DEF Good
<1> QED BY <1>1 DEF Step, WritesThrough, Holds

\* A handler that changes one drive.
LEMMA DriveStep ==
  ASSUME NEW m, Good(m), NEW d \in Drives, NEW k, Fit(k, d), Holds(m.drv[d], k),
         NEW n, n = [m EXCEPT !.drv[d] = k]
  PROVE  Step(m, n)
<1>1. /\ Rec(n) /\ n.iwm = m.iwm /\ n.emul = m.emul /\ n.c031 = m.c031 /\ n.files = m.files
      /\ n.halt = m.halt /\ n.drv = [m.drv EXCEPT ![d] = k]
  BY DEF Good, Rec
<1>2. DOMAIN n.drv = Drives /\ n.drv[d] = k /\ \A e \in Drives : e # d => n.drv[e] = m.drv[e]
  BY <1>1 DEF Good, DrivesFit
<1>3. Good(n)
  BY <1>1, <1>2 DEF Good, DrivesFit
<1>4. \A e \in Drives : Holds(m.drv[e], n.drv[e])
  BY <1>2 DEF Holds
<1>5. KeepsPace(m, n)
  BY <1>1 DEF KeepsPace, Sel35, Good
<1> QED BY <1>1, <1>3, <1>4, <1>5 DEF Step, WritesThrough
-----------------------------------------------------------------------------
(* The head.                                                               *)

LEMMA LastTrackFits ==
  ASSUME NEW d
  PROVE  LastTrack(d) \in Nat /\ LastTrack(d) >= 1 /\ (Is525(d) => LastTrack(d) >= 3)
BY DisksAssumption DEF LastTrack

LEMMA TracksCounted ==
  ASSUME NEW k, NEW d, Laden(k, d)
  PROVE  \/ k.trks = << >> /\ NumTracks(k) = 0
         \/ k.trks # << >> /\ NumTracks(k) = LastTrack(d) + 1
<1>1. CASE k.trks = << >>
  <2>1. DOMAIN k.trks = {}
    BY <1>1
  <2>2. Cardinality({}) = 0
    BY FS_EmptySet
  <2> QED BY <1>1, <2>1, <2>2 DEF NumTracks
<1>2. CASE k.trks # << >>
  <2>1. DOMAIN k.trks = 0 .. LastTrack(d)
    BY <1>2 DEF Laden
  <2>2. Cardinality(0 .. LastTrack(d)) = LastTrack(d) - 0 + 1
    BY LastTrackFits, FS_Interval
  <2> QED BY <1>2, <2>1, <2>2, LastTrackFits DEF NumTracks
<1> QED BY <1>1, <1>2

\* A drive that changed only where its head is.
LEMMA HeadFits ==
  ASSUME NEW k, NEW d, Fit(k, d), NEW to \in Nat, k.trks # << >> => to <= LastTrack(d)
  PROVE  Fit([k EXCEPT !.track = to], d) /\ Holds(k, [k EXCEPT !.track = to])
<1> DEFINE l == [k EXCEPT !.track = to]
<1>1. /\ DOMAIN l = DOMAIN k /\ l.track = to /\ l.trks = k.trks /\ l.file = k.file /\ l.name = k.name
      /\ l.part = k.part /\ l.through = k.through /\ l.dirty = k.dirty
  BY DEF Fit, Held
<1> HIDE DEF l
<1>2. Fit(l, d)
  BY <1>1 DEF Fit, Held, Tracked, Laden, Marked
<1>3. Holds(k, l)
  BY <1>1 DEF Holds
<1> QED BY <1>2, <1>3 DEF l

\* Where a head stops, whether it was on its disk or not.
StopsAt(m, n, d, to) ==
  /\ m.drv[d].trks # << >> => to <= LastTrack(d)
  /\ n = [m EXCEPT !.drv[d].track = to]

LEMMA HeadStops ==
  ASSUME NEW m, NEW d \in Drives, Laden(m.drv[d], d), m.iwm.head35 \in {0, 1}, NEW new \in Int,
         NEW n, n = iwm_move_to_track(m, d, new)
  PROVE  \E to \in Nat : StopsAt(m, n, d, to)
<1> DEFINE k == m.drv[d]
           last == IF Is525(d) THEN NumTracks(k) - 4 ELSE NumTracks(k) - 2 + m.iwm.head35
           at == IF new < 0 THEN 0 ELSE IF new >= NumTracks(k) THEN last ELSE new
           to == IF at < 0 THEN 0 ELSE at
<1>1. to \in Nat /\ (k.trks # << >> => to <= LastTrack(d))
  <2>1. \/ k.trks = << >> /\ NumTracks(k) = 0
        \/ k.trks # << >> /\ NumTracks(k) = LastTrack(d) + 1
    BY TracksCounted
  <2>2. LastTrack(d) \in Nat /\ LastTrack(d) >= 1 /\ (Is525(d) => LastTrack(d) >= 3)
    BY LastTrackFits
  <2> HIDE DEF k
  <2> QED BY <2>1, <2>2
<1>2. iwm_move_to_track(m, d, new) = [m EXCEPT !.drv[d].track = to]
  BY DEF iwm_move_to_track
<1> HIDE DEF to
<1> QED BY <1>1, <1>2 DEF StopsAt

LEMMA Moves ==
  ASSUME NEW m, Good(m), NEW d \in Drives, NEW new \in Int,
         NEW n, n = iwm_move_to_track(m, d, new)
  PROVE  Step(m, n)
<1>1. Fit(m.drv[d], d) /\ m.iwm.head35 \in {0, 1}
  BY DEF Good, DrivesFit, Regs
<1>2. PICK to \in Nat : StopsAt(m, n, d, to)
  BY <1>1, HeadStops DEF Fit, Tracked
<1> DEFINE l == [m.drv[d] EXCEPT !.track = to]
<1>3. n = [m EXCEPT !.drv[d] = l]
  BY <1>2 DEF StopsAt
<1>4. Fit(l, d) /\ Holds(m.drv[d], l)
  BY <1>1, <1>2, HeadFits DEF StopsAt
<1> HIDE DEF l
<1> QED BY <1>3, <1>4, DriveStep

-----------------------------------------------------------------------------
(* Writing back.  While the tracks of drive d are gone through it is not   *)
(* marked any more, and those below the q-th are clean.                    *)

Flushing(m, d) ==
  /\ Rec(m) /\ Regs(m.iwm) /\ Paced(m.emul) /\ m.halt \in BOOLEAN
  /\ DOMAIN m.drv = Drives
  /\ \A e \in Drives : Held(m.drv[e], e) /\ Tracked(m.drv[e], e)
  /\ \A e \in Drives \ {d} : Marked(m.drv[e])
  /\ NoFile \notin DOMAIN m.files

Clean(k, q) == k.through => \A p \in DOMAIN k.trks : p < q => ~k.trks[p].dirty

\* What writing back some of the tracks of drive d changes.
Flushed(m, n, d) ==
  /\ Flushing(n, d)
  /\ WritesThrough(m, n)
  /\ \A e \in Drives : Holds(m.drv[e], n.drv[e])
  /\ \A e \in Drives \ {d} : n.drv[e] = m.drv[e]
  /\ DOMAIN n.drv[d].trks = DOMAIN m.drv[d].trks
  /\ n.halt = m.halt /\ n.c031 = m.c031
  /\ n.emul.motor = m.emul.motor /\ n.emul.slow = m.emul.slow /\ n.emul.fast = m.emul.fast

LEMMA FlushesCompose ==
  ASSUME NEW m, NEW d \in Drives, Flushing(m, d), NEW n, NEW o, Flushed(m, n, d), Flushed(n, o, d)
  PROVE  Flushed(m, o, d)
<1>1. \A e \in Drives : Holds(m.drv[e], o.drv[e])
  BY DEF Flushed, Holds
<1>2. WritesThrough(m, o)
  <2> SUFFICES ASSUME NEW f \in DOMAIN m.files, o.files[f] # m.files[f]
               PROVE  \E e \in Drives : m.drv[e].file = f /\ m.drv[e].through
    BY DEF Flushed, WritesThrough
  <2>1. CASE n.files[f] # m.files[f]
    BY <2>1 DEF Flushed, WritesThrough
  <2>2. CASE n.files[f] = m.files[f]
    <3>1. PICK e \in Drives : n.drv[e].file = f /\ n.drv[e].through
      BY <2>2 DEF Flushed, WritesThrough
    <3>2. f # NoFile
      BY DEF Flushing
    <3>3. Holds(m.drv[e], n.drv[e])
      BY DEF Flushed
    <3> QED BY <3>1, <3>2, <3>3 DEF Holds
  <2> QED BY <2>1, <2>2
<1> QED BY <1>1, <1>2 DEF Flushed

\* A drive of which one track was taken off the dirty ones, and perhaps its
\* image given up.
CleanedIn(m, n, d, q, through) ==
  /\ through \in {m.drv[d].through, FALSE}
  /\ n.drv = [m.drv EXCEPT ![d] = [m.drv[d] EXCEPT !.trks[q].dirty = FALSE, !.through = through]]

LEMMA TrackCleaned ==
  ASSUME NEW m, NEW d \in Drives, Flushing(m, d), NEW q, q \in DOMAIN m.drv[d].trks,
         NEW through,
         NEW n, Rec(n), Regs(n.iwm), Paced(n.emul),
         n.halt = m.halt, n.c031 = m.c031, n.emul.motor = m.emul.motor,
         n.emul.slow = m.emul.slow, n.emul.fast = m.emul.fast, WritesThrough(m, n),
         CleanedIn(m, n, d, q, through)
  PROVE  /\ Flushed(m, n, d)
         /\ \A p \in DOMAIN n.drv[d].trks : n.drv[d].trks[p].dirty => p # q /\ m.drv[d].trks[p].dirty
         /\ n.drv[d].through => m.drv[d].through
<1> DEFINE k == m.drv[d]
           l == n.drv[d]
<1>1. Held(k, d) /\ Tracked(k, d)
  BY DEF Flushing
<1>2. l = [k EXCEPT !.trks[q].dirty = FALSE, !.through = through] /\ through \in BOOLEAN
      /\ (through = k.through \/ through = FALSE)
  BY <1>1 DEF Flushing, CleanedIn, Held
<1>3. DOMAIN n.drv = Drives /\ \A e \in Drives \ {d} : n.drv[e] = m.drv[e]
  BY DEF Flushing, CleanedIn
<1> HIDE DEF l, k
<1>4. /\ DOMAIN l = DOMAIN k /\ l.file = k.file /\ l.name = k.name /\ l.part = k.part
      /\ l.through = through /\ l.dirty = k.dirty /\ l.track = k.track
      /\ l.trks = [k.trks EXCEPT ![q] = [k.trks[q] EXCEPT !.dirty = FALSE]]
  BY <1>1, <1>2 DEF Held
<1>5. DOMAIN l.trks = DOMAIN k.trks /\ \A p \in DOMAIN k.trks : p # q => l.trks[p] = k.trks[p]
  BY <1>4
<1>6. Surface(l.trks[q]) /\ l.trks[q].dirty = FALSE
  <2>1. Surface(k.trks[q])
    BY <1>1 DEF Tracked, Laden, k
  <2>2. l.trks[q] = [k.trks[q] EXCEPT !.dirty = FALSE]
    BY <1>4 DEF k
  <2> QED BY <2>1, <2>2 DEF Surface, Area
<1>7. Tracked(l, d)
  <2>1. k.trks # << >>
    BY DEF k
  <2>2. l.trks # << >>
    BY <1>5 DEF k
  <2>3. \A p \in DOMAIN l.trks : Surface(l.trks[p])
    BY <1>1, <1>5, <1>6 DEF Tracked, Laden
  <2> QED BY <1>1, <1>4, <1>5, <2>1, <2>3 DEF Tracked, Laden
<1>8. Held(l, d) /\ Holds(k, l)
  BY <1>1, <1>2, <1>4 DEF Held, Holds
<1>9. Flushing(n, d)
  <2>1. \A e \in Drives : Held(n.drv[e], e) /\ Tracked(n.drv[e], e)
    BY <1>3, <1>7, <1>8 DEF Flushing, l
  <2> QED BY <1>3, <2>1 DEF Flushing, WritesThrough
<1>10. \A e \in Drives : Holds(m.drv[e], n.drv[e])
  BY <1>3, <1>8 DEF Holds, k, l
<1>11. Flushed(m, n, d)
  BY <1>3, <1>5, <1>9, <1>10 DEF Flushed, k, l
<1>12. \A p \in DOMAIN l.trks : l.trks[p].dirty => p # q /\ k.trks[p].dirty
  BY <1>5, <1>6
<1>13. l.through => k.through
  BY <1>2, <1>4
<1> QED BY <1>11, <1>12, <1>13 DEF k, l

LEMMA TrackWritten ==
  ASSUME NEW m, NEW d \in Drives, Flushing(m, d), NEW q \in Nat, NEW garbage,
         m.drv[d].through, Clean(m.drv[d], q),
         NEW n, n = disk_track_to_unix(m, d, q, garbage)
  PROVE  Flushed(m, n, d) /\ Clean(n.drv[d], q + 1)
<1> DEFINE k == m.drv[d]
           read == Denib(k, d, q, garbage)
           clean == [m EXCEPT !.drv[d].trks[q].dirty = FALSE]
           after == IF k.type = "nib" /\ Is525(d) THEN clean ELSE AfterReading(clean)
           given == (k.trks[q].at :> read.bytes) @@ after.files[k.file]
<1>1. CASE ~HasTrack(k, q) \/ ~k.trks[q].dirty
  <2>1. n = m
    BY <1>1 DEF disk_track_to_unix
  <2>2. \A p \in DOMAIN k.trks : p < q + 1 => ~k.trks[p].dirty
    <3>1. q \in DOMAIN k.trks => Surface(k.trks[q])
      BY DEF Flushing, Tracked, Laden
    <3>2. q \in DOMAIN k.trks => ~k.trks[q].dirty
      BY <1>1, <3>1 DEF HasTrack, Surface
    <3>3. \A p \in DOMAIN k.trks : p \in Int
      BY LastTrackFits DEF Flushing, Tracked, Laden
    <3> QED BY <3>2, <3>3 DEF Clean
  <2>3. Flushed(m, m, d)
    BY DEF Flushed, WritesThrough, Holds
  <2> QED BY <2>1, <2>2, <2>3 DEF Clean
<1>2. CASE HasTrack(k, q) /\ k.trks[q].dirty
  <2>0. q \in DOMAIN k.trks
    BY <1>2 DEF HasTrack
  <2>1. /\ Rec(clean) /\ clean.iwm = m.iwm /\ clean.emul = m.emul /\ clean.halt = m.halt
        /\ clean.c031 = m.c031 /\ clean.files = m.files
        /\ clean.drv = [m.drv EXCEPT ![d] = [k EXCEPT !.trks[q].dirty = FALSE]]
    BY DEF Flushing, Rec
  <2> HIDE DEF clean
  <2>2. /\ Rec(after) /\ Regs(after.iwm) /\ Paced(after.emul) /\ after.halt = m.halt
        /\ after.c031 = m.c031 /\ after.files = m.files /\ after.drv = clean.drv
        /\ after.emul.motor = m.emul.motor /\ after.emul.slow = m.emul.slow
        /\ after.emul.fast = m.emul.fast
    <3>1. CASE after = clean
      BY <2>1, <3>1 DEF Flushing
    <3>2. CASE after = AfterReading(clean)
      BY <2>1, <3>2 DEF Flushing, AfterReading, Rec, Regs, Paced
    <3> QED BY <3>1, <3>2
  <2>3. \/ n = [clean EXCEPT !.drv[d].through = FALSE]
        \/ n = [after EXCEPT !.drv[d].through = FALSE]
        \/ n = after
        \/ n = [after EXCEPT !.files[k.file] = given]
    BY <1>2 DEF disk_track_to_unix, clean
  <2> HIDE DEF given, after, read
  <2>4. PICK through : CleanedIn(m, n, d, q, through)
    <3>1. DOMAIN m.drv = Drives /\ Held(k, d)
      BY DEF Flushing
    <3>2. CASE n.drv = [clean.drv EXCEPT ![d].through = FALSE]
      <4>1. n.drv = [m.drv EXCEPT ![d] = [k EXCEPT !.trks[q].dirty = FALSE, !.through = FALSE]]
        BY <2>1, <3>1, <3>2
      <4> QED BY <4>1 DEF CleanedIn
    <3>3. CASE n.drv = clean.drv
      <4>1. [k EXCEPT !.trks[q].dirty = FALSE, !.through = k.through]
              = [k EXCEPT !.trks[q].dirty = FALSE]
        BY <3>1 DEF Held
      <4>2. n.drv = [m.drv EXCEPT ![d] = [k EXCEPT !.trks[q].dirty = FALSE, !.through = k.through]]
        BY <2>1, <3>3, <4>1
      <4> QED BY <4>2 DEF CleanedIn
    <3>4. n.drv = [clean.drv EXCEPT ![d].through = FALSE] \/ n.drv = clean.drv
      BY <2>1, <2>2, <2>3 DEF Rec
    <3> QED BY <3>2, <3>3, <3>4
  <2>5. /\ Rec(n) /\ Regs(n.iwm) /\ Paced(n.emul) /\ n.halt = m.halt
        /\ n.c031 = m.c031 /\ n.emul.motor = m.emul.motor /\ n.emul.slow = m.emul.slow
        /\ n.emul.fast = m.emul.fast
    BY <2>1, <2>2, <2>3 DEF Rec, Flushing
  <2>6. WritesThrough(m, n)
    <3>1. \/ n.files = m.files
          \/ n.files = [m.files EXCEPT ![k.file] = given]
      BY <2>1, <2>2, <2>3 DEF Rec
    <3>2. CASE n.files = m.files
      BY <3>2 DEF WritesThrough
    <3>3. CASE n.files = [m.files EXCEPT ![k.file] = given]
      BY <3>3 DEF WritesThrough
    <3> QED BY <3>1, <3>2, <3>3
  <2>7. /\ Flushed(m, n, d)
        /\ \A p \in DOMAIN n.drv[d].trks : n.drv[d].trks[p].dirty => p # q /\ k.trks[p].dirty
        /\ n.drv[d].through => m.drv[d].through
    BY <2>0, <2>4, <2>5, <2>6, TrackCleaned
  <2>8. DOMAIN n.drv[d].trks = DOMAIN k.trks
    BY <2>7 DEF Flushed
  <2>9. \A p \in DOMAIN k.trks : p \in Int
    BY LastTrackFits DEF Flushing, Tracked, Laden
  <2> QED BY <2>7, <2>8, <2>9 DEF Clean
<1> QED BY <1>1, <1>2

LEMMA Flushes ==
  ASSUME NEW m, Good(m), NEW d \in Drives, NEW garbage,
         NEW n, n = iwm_flush_disk_to_unix(m, d, garbage)
  PROVE  Step(m, n) /\ \A e \in Drives \ {d} : n.drv[e] = m.drv[e]
<1> DEFINE k == m.drv[d]
           N == NumTracks(k)
           base == [m EXCEPT !.drv[d].dirty = FALSE]
           Loop(f, top) ==
             f = [i \in 0 .. top |-> IF i = 0 THEN base ELSE FlushTrack(f[i - 1], d, i - 1, garbage)]
           after == CHOOSE f : Loop(f, N)
<1>1. CASE ~k.dirty \/ ~k.through
  <2>1. n = m
    BY <1>1 DEF iwm_flush_disk_to_unix
  <2> QED BY <2>1, StepStutters
<1>2. CASE k.dirty /\ k.through
  <2>1. n = after[N]
    BY <1>2 DEF iwm_flush_disk_to_unix
  <2>2. N \in Nat /\ DOMAIN k.trks = 0 .. N - 1
    <3>1. Tracked(k, d)
      BY DEF Good, DrivesFit, Fit
    <3>2. \/ k.trks = << >> /\ N = 0
          \/ k.trks # << >> /\ N = LastTrack(d) + 1
      BY <3>1, TracksCounted DEF Tracked
    <3> HIDE DEF N
    <3>3. CASE k.trks = << >> /\ N = 0
      BY <3>3
    <3>4. CASE k.trks # << >> /\ N = LastTrack(d) + 1
      BY <3>1, <3>4, LastTrackFits DEF Tracked, Laden
    <3> QED BY <3>2, <3>3, <3>4
  <2>3. /\ Flushing(base, d) /\ Flushed(m, base, d) /\ base.drv[d].trks = k.trks
    <3>1. /\ Rec(base) /\ base.iwm = m.iwm /\ base.emul = m.emul /\ base.c031 = m.c031
          /\ base.files = m.files /\ base.halt = m.halt
          /\ base.drv = [m.drv EXCEPT ![d] = [k EXCEPT !.dirty = FALSE]]
      BY DEF Good, Rec
    <3> HIDE DEF base
    <3>2. Held(k, d) /\ Tracked(k, d)
      BY DEF Good, DrivesFit, Fit
    <3> DEFINE l == [k EXCEPT !.dirty = FALSE]
    <3>3. /\ DOMAIN l = DOMAIN k /\ l.track = k.track /\ l.trks = k.trks /\ l.file = k.file
          /\ l.name = k.name /\ l.part = k.part /\ l.through = k.through /\ l.dirty = FALSE
      BY <3>2 DEF Held
    <3>4. DOMAIN base.drv = Drives /\ base.drv[d] = l /\ \A e \in Drives \ {d} : base.drv[e] = m.drv[e]
      BY <3>1 DEF Good, DrivesFit
    <3> HIDE DEF l
    <3>5. Held(l, d) /\ Tracked(l, d) /\ Holds(k, l)
      BY <3>2, <3>3 DEF Held, Tracked, Laden, Holds
    <3>6. Flushing(base, d)
      <4>1. \A e \in Drives : Held(base.drv[e], e) /\ Tracked(base.drv[e], e)
        BY <3>4, <3>5 DEF Good, DrivesFit, Fit
      <4>2. \A e \in Drives \ {d} : Marked(base.drv[e])
        BY <3>4 DEF Good, DrivesFit, Fit
      <4> QED BY <3>1, <3>4, <4>1, <4>2 DEF Flushing, Good
    <3>7. \A e \in Drives : Holds(m.drv[e], base.drv[e])
      BY <3>4, <3>5 DEF Holds
    <3>8. WritesThrough(m, base)
      BY <3>1 DEF WritesThrough
    <3>9. Flushed(m, base, d)
      BY <3>1, <3>3, <3>4, <3>6, <3>7, <3>8 DEF Flushed
    <3> QED BY <3>3, <3>4, <3>6, <3>9
  <2> HIDE DEF base, N, k
  <2>4. Loop(after, N)
    <3> DEFINE S == {j \in Nat : \E f : Loop(f, j)}
    <3>1. 0 \in S
      <4>1. Loop([i \in 0 .. 0 |-> base], 0)
        OBVIOUS
      <4> QED BY <4>1
    <3>2. ASSUME NEW j \in Nat, j \in S PROVE j + 1 \in S
      <4>1. PICK f : Loop(f, j)
        BY <3>2
      <4> DEFINE h == [i \in 0 .. j + 1 |-> IF i = j + 1 THEN FlushTrack(f[j], d, j, garbage) ELSE f[i]]
      <4>2. ASSUME NEW i \in 0 .. j + 1
           PROVE  h[i] = IF i = 0 THEN base ELSE FlushTrack(h[i - 1], d, i - 1, garbage)
        <5>1. CASE i = j + 1
          BY <5>1
        <5>2. CASE i \in 0 .. j
          BY <5>2, <4>1
        <5> QED BY <5>1, <5>2
      <4>3. Loop(h, j + 1)
        BY <4>2
      <4> HIDE DEF h
      <4> QED BY <4>3
    <3> HIDE DEF S
    <3>3. N \in S
      BY <2>2, <3>1, <3>2, SetInduction
    <3> QED BY <3>3 DEF S
  <2> HIDE DEF after
  <2>5. \A i \in 0 .. N : Flushed(m, after[i], d) /\ Clean(after[i].drv[d], i)
    <3> DEFINE S == {i \in Nat : i <= N => Flushed(m, after[i], d) /\ Clean(after[i].drv[d], i)}
    <3>1. 0 \in S
      <4>1. after[0] = base
        BY <2>2, <2>4
      <4>2. Clean(base.drv[d], 0)
        <5>1. \A p \in DOMAIN base.drv[d].trks : p \in Nat
          BY <2>2, <2>3
        <5> QED BY <5>1 DEF Clean
      <4> QED BY <2>3, <4>1, <4>2
    <3>2. ASSUME NEW i \in Nat, i \in S PROVE i + 1 \in S
      <4>1. SUFFICES ASSUME i + 1 <= N
                     PROVE  Flushed(m, after[i + 1], d) /\ Clean(after[i + 1].drv[d], i + 1)
        OBVIOUS
      <4>2. Flushed(m, after[i], d) /\ Clean(after[i].drv[d], i)
        BY <2>2, <3>2, <4>1
      <4>3. after[i + 1] = FlushTrack(after[i], d, i, garbage)
        <5>1. i + 1 \in 0 .. N /\ i + 1 # 0 /\ (i + 1) - 1 = i
          BY <2>2, <4>1
        <5> QED BY <2>4, <5>1
      <4>4. CASE after[i].drv[d].through
        <5>1. after[i + 1] = disk_track_to_unix(after[i], d, i, garbage)
          BY <4>3, <4>4 DEF FlushTrack
        <5>2. Flushing(after[i], d)
          BY <4>2 DEF Flushed
        <5>3. Flushed(after[i], after[i + 1], d) /\ Clean(after[i + 1].drv[d], i + 1)
          BY <4>2, <4>4, <5>1, <5>2, TrackWritten
        <5>4. Flushing(m, d)
          BY DEF Good, DrivesFit, Fit, Flushing
        <5> QED BY <4>2, <5>3, <5>4, FlushesCompose
      <4>5. CASE ~after[i].drv[d].through
        BY <4>2, <4>3, <4>5 DEF FlushTrack, Clean
      <4> QED BY <4>4, <4>5
    <3> HIDE DEF S
    <3>3. Nat \subseteq S
      BY <3>1, <3>2, SetInduction
    <3> QED BY <2>2, <3>3 DEF S
  <2>6. Flushed(m, n, d) /\ Clean(n.drv[d], N)
    BY <2>1, <2>2, <2>5
  <2>7. Marked(n.drv[d])
    <3>1. DOMAIN n.drv[d].trks = 0 .. N - 1
      BY <2>2, <2>6 DEF Flushed, k
    <3> QED BY <2>2, <2>6, <3>1 DEF Marked, Clean
  <2>8. Good(n)
    BY <2>6, <2>7 DEF Flushed, Flushing, Good, DrivesFit, Fit
  <2>9. KeepsPace(m, n)
    BY <2>6 DEF Flushed, KeepsPace, Sel35, Good
  <2> QED BY <2>6, <2>8, <2>9 DEF Step, Flushed
<1> QED BY <1>1, <1>2

-----------------------------------------------------------------------------
(* Taking disks out and putting them in.                                   *)

LEMMA TakesOut ==
  ASSUME NEW m, Good(m), NEW d \in Drives, NEW n, n = TakenOut(m, d)
  PROVE  /\ Step(m, n)
         /\ n.drv[d].file = NoFile
         /\ \A e \in Drives \ {d} : n.drv[e] = m.drv[e]
<1> DEFINE k == m.drv[d]
           l == [k EXCEPT !.trks = << >>, !.start = 0, !.size = 0, !.pos = 0, !.dirty = FALSE,
                          !.through = FALSE, !.prot = TRUE, !.file = NoFile, !.ejected = TRUE]
<1>1. n = [m EXCEPT !.drv[d] = l]
  BY DEF TakenOut
<1>2. Held(k, d) /\ Tracked(k, d)
  BY DEF Good, DrivesFit, Fit
<1>3. /\ DOMAIN l = DOMAIN k /\ l.track = k.track /\ l.trks = << >> /\ l.file = NoFile
      /\ l.through = FALSE /\ l.dirty = FALSE
  BY <1>2 DEF Held
<1>4. n.drv[d] = l /\ \A e \in Drives \ {d} : n.drv[e] = m.drv[e]
  BY <1>1 DEF Good, DrivesFit, Rec
<1> HIDE DEF l
<1>5. Fit(l, d)
  <2>1. DOMAIN l.trks = {}
    BY <1>3
  <2> QED BY <1>2, <1>3, <2>1 DEF Fit, Held, Tracked, Laden, Marked
<1>6. Holds(k, l)
  BY <1>3 DEF Holds
<1>7. Step(m, n)
  BY <1>1, <1>5, <1>6, DriveStep
<1> QED BY <1>3, <1>4, <1>7

LEMMA Ejects ==
  ASSUME NEW m, Good(m), NEW d \in Drives, NEW garbage, NEW n, n = eject_disk(m, d, garbage)
  PROVE  /\ Step(m, n)
         /\ n.drv[d].file = NoFile
         /\ \A e \in Drives \ {d} : n.drv[e] = m.drv[e]
<1>1. CASE m.drv[d].file = NoFile
  BY <1>1, StepStutters DEF eject_disk
<1>2. CASE m.drv[d].file # NoFile
  <2> DEFINE o == iwm_flush_disk_to_unix(m, d, garbage)
  <2>1. Step(m, o) /\ \A e \in Drives \ {d} : o.drv[e] = m.drv[e]
    BY Flushes
  <2>2. n = TakenOut(o, d)
    BY <1>2 DEF eject_disk
  <2> HIDE DEF o
  <2>3. Good(o)
    BY <2>1 DEF Step
  <2>4. /\ Step(o, n) /\ n.drv[d].file = NoFile
        /\ \A e \in Drives \ {d} : n.drv[e] = o.drv[e]
    BY <2>2, <2>3, TakesOut
  <2>5. Step(m, n)
    BY <2>1, <2>4, StepsCompose
  <2> QED BY <2>1, <2>4, <2>5
<1> QED BY <1>1, <1>2

\* No drive but e has the image that is to be put in, unless as another partition.
Apart(k, name, part) ==
  k.file = NoFile \/ k.name # name \/ (part # 0 /\ k.part # 0 /\ k.part # part)

LEMMA EjectsNamed ==
  ASSUME NEW m, Good(m), NEW d \in Drives, NEW name, NEW part, NEW garbage,
         NEW n, n = eject_named_disk(m, d, name, part, garbage)
  PROVE  /\ Step(m, n)
         /\ Apart(n.drv[d], name, part)
         /\ \A e \in Drives \ {d} : n.drv[e] = m.drv[e]
<1> DEFINE k == m.drv[d]
           same == k.file # NoFile /\ k.name = name /\ (part = 0 \/ k.part = 0 \/ k.part = part)
<1>1. CASE same
  <2>1. n = eject_disk(m, d, garbage)
    BY <1>1 DEF eject_named_disk
  <2>2. /\ Step(m, n) /\ n.drv[d].file = NoFile
        /\ \A e \in Drives \ {d} : n.drv[e] = m.drv[e]
    BY <2>1, Ejects
  <2> QED BY <2>2 DEF Apart
<1>2. CASE ~same
  <2>1. n = m
    BY <1>2 DEF eject_named_disk
  <2> QED BY <1>2, <2>1, StepStutters DEF Apart
<1> QED BY <1>1, <1>2

\* The drives are gone through one by one.
LEMMA AllDrives ==
  /\ \A i \in 1 .. Units + 4 : Drive(i) \in Drives
  /\ \A d \in Drives : \E i \in 1 .. Units + 4 : Drive(i) = d
<1>1. Units \in Nat /\ Units > 2
  BY DisksAssumption
<1>2. /\ Drive(1) = <<6, 0>> /\ Drive(2) = <<5, 0>> /\ Drive(3) = <<6, 1>> /\ Drive(4) = <<5, 1>>
  BY DEF Drive
<1>3. \A i \in 5 .. Units + 4 : Drive(i) = <<7, i - 5>> /\ i - 5 \in 0 .. Units - 1
  BY <1>1 DEF Drive
<1>4. ASSUME NEW i \in 1 .. Units + 4 PROVE Drive(i) \in Drives
  <2>1. i \in 5 .. Units + 4 \/ i = 1 \/ i = 2 \/ i = 3 \/ i = 4
    BY <1>1
  <2> QED BY <1>2, <1>3, <2>1 DEF Drives
<1>5. ASSUME NEW d \in Drives PROVE \E i \in 1 .. Units + 4 : Drive(i) = d
  <2>1. CASE d \in {<<6, 0>>, <<6, 1>>, <<5, 0>>, <<5, 1>>}
    <3>1. 1 \in 1 .. Units + 4 /\ 2 \in 1 .. Units + 4 /\ 3 \in 1 .. Units + 4 /\ 4 \in 1 .. Units + 4
      BY <1>1
    <3> QED BY <1>2, <2>1, <3>1
  <2>2. CASE \E u \in 0 .. Units - 1 : d = <<7, u>>
    <3>1. PICK u \in 0 .. Units - 1 : d = <<7, u>>
      BY <2>2
    <3>2. u + 5 \in 5 .. Units + 4 /\ u + 5 \in 1 .. Units + 4 /\ (u + 5) - 5 = u
      BY <1>1
    <3> QED BY <1>3, <3>1, <3>2
  <2> QED BY <2>1, <2>2 DEF Drives
<1> QED BY <1>4, <1>5

LEMMA EjectsAllNamed ==
  ASSUME NEW m, Good(m), NEW name, NEW part, NEW garbage,
         NEW n, n = EjectNamed(m, name, part, garbage)
  PROVE  Step(m, n) /\ \A d \in Drives : Apart(n.drv[d], name, part)
<1> DEFINE N == Units + 4
           Loop(f, top) ==
             f = [i \in 0 .. top |-> IF i = 0 THEN m
                                     ELSE eject_named_disk(f[i - 1], Drive(i), name, part, garbage)]
           after == CHOOSE f : Loop(f, N)
<1>1. n = after[N]
  BY DEF EjectNamed
<1>2. N \in Nat
  BY DisksAssumption
<1>3. Loop(after, N)
  <2> DEFINE S == {j \in Nat : \E f : Loop(f, j)}
  <2>1. 0 \in S
    <3>1. Loop([i \in 0 .. 0 |-> m], 0)
      OBVIOUS
    <3> QED BY <3>1
  <2>2. ASSUME NEW j \in Nat, j \in S PROVE j + 1 \in S
    <3>1. PICK f : Loop(f, j)
      BY <2>2
    <3> DEFINE h == [i \in 0 .. j + 1 |-> IF i = j + 1 THEN eject_named_disk(f[j], Drive(j + 1), name, part, garbage) ELSE f[i]]
    <3>2. ASSUME NEW i \in 0 .. j + 1
         PROVE  h[i] = IF i = 0 THEN m ELSE eject_named_disk(h[i - 1], Drive(i), name, part, garbage)
      <4>1. CASE i = j + 1
        BY <4>1
      <4>2. CASE i \in 0 .. j
        BY <4>2, <3>1
      <4> QED BY <4>1, <4>2
    <3>3. Loop(h, j + 1)
      BY <3>2
    <3> HIDE DEF h
    <3> QED BY <3>3
  <2> HIDE DEF S
  <2>3. N \in S
    BY <1>2, <2>1, <2>2, SetInduction
  <2> QED BY <2>3 DEF S
<1> HIDE DEF after
<1> DEFINE SoFar(i) == /\ Step(m, after[i])
                       /\ \A c \in 1 .. i : Apart(after[i].drv[Drive(c)], name, part)
           T == {i \in Nat : i <= N => SoFar(i)}
<1>4. 0 \in T
  <2>1. after[0] = m
    BY <1>2, <1>3
  <2> QED BY <2>1, StepStutters
<1>5. ASSUME NEW i \in Nat, i \in T PROVE i + 1 \in T
  <2>1. SUFFICES ASSUME i + 1 <= N PROVE SoFar(i + 1)
    OBVIOUS
  <2>2. i + 1 \in 1 .. N /\ i + 1 \in 0 .. N /\ i + 1 # 0 /\ (i + 1) - 1 = i /\ i <= N
    BY <1>2, <2>1
  <2>3. SoFar(i)
    BY <1>5, <2>2
  <2> HIDE DEF N
  <2>4. after[i + 1] = eject_named_disk(after[i], Drive(i + 1), name, part, garbage)
    BY <1>3, <2>2
  <2>5. Good(after[i]) /\ Drive(i + 1) \in Drives
    BY <2>2, <2>3, AllDrives DEF Step, N
  <2>6. /\ Step(after[i], after[i + 1])
        /\ Apart(after[i + 1].drv[Drive(i + 1)], name, part)
        /\ \A e \in Drives \ {Drive(i + 1)} : after[i + 1].drv[e] = after[i].drv[e]
    BY <2>4, <2>5, EjectsNamed
  <2>7. Step(m, after[i + 1])
    BY <2>3, <2>6, StepsCompose
  <2>8. ASSUME NEW c \in 1 .. i + 1 PROVE Apart(after[i + 1].drv[Drive(c)], name, part)
    <3>1. CASE Drive(c) = Drive(i + 1)
      BY <2>6, <3>1
    <3>2. CASE Drive(c) # Drive(i + 1)
      <4>1. c \in 1 .. i /\ c \in 1 .. N
        BY <1>2, <2>2, <3>2
      <4>2. Drive(c) \in Drives
        BY <4>1, AllDrives DEF N
      <4> QED BY <2>3, <2>6, <3>2, <4>1, <4>2
    <3> QED BY <3>1, <3>2
  <2> QED BY <2>7, <2>8
<1>6. SoFar(N)
  <2> HIDE DEF T
  <2>1. Nat \subseteq T
    BY <1>4, <1>5, SetInduction
  <2> HIDE DEF N
  <2> QED BY <1>2, <2>1 DEF T
<1>7. ASSUME NEW d \in Drives PROVE Apart(n.drv[d], name, part)
  <2>1. PICK c \in 1 .. N : Drive(c) = d
    BY AllDrives
  <2> QED BY <1>1, <1>6, <2>1
<1> QED BY <1>1, <1>6, <1>7

\* A machine in which image name, or nothing, was put into drive d.
PutInto(m, n, d, name, part) ==
  /\ Good(n)
  /\ n.files = m.files
  /\ \A e \in Drives \ {d} : n.drv[e] = m.drv[e]
  /\ n.drv[d].file \in {NoFile, name} /\ n.drv[d].name = name /\ n.drv[d].part = part

LEMMA PutsInto ==
  ASSUME NEW m, Good(m), NEW d \in Drives, NEW name, NEW part,
         NEW k, Fit(k, d), k.file \in {NoFile, name}, k.name = name, k.part = part,
         NEW n, n = [m EXCEPT !.drv[d] = k]
  PROVE  PutInto(m, n, d, name, part)
<1>1. /\ Rec(n) /\ n.iwm = m.iwm /\ n.emul = m.emul /\ n.c031 = m.c031 /\ n.files = m.files
      /\ n.halt = m.halt /\ n.drv = [m.drv EXCEPT ![d] = k]
  BY DEF Good, Rec
<1>2. DOMAIN n.drv = Drives /\ n.drv[d] = k /\ \A e \in Drives \ {d} : n.drv[e] = m.drv[e]
  BY <1>1 DEF Good, DrivesFit
<1>3. Good(n)
  BY <1>1, <1>2 DEF Good, DrivesFit
<1> QED BY <1>1, <1>2, <1>3 DEF PutInto

\* The tracks of an image come clean from disk_unix_to_nib.
LEMMA TracksComeClean ==
  ASSUME NEW k, NEW d \in Drives, NEW file, NEW q, NEW u
  PROVE  Surface(disk_unix_to_nib(k, d, file, q, u)) /\ ~disk_unix_to_nib(k, d, file, q, u).dirty
<1> DEFINE t == Nibblized(k, d, file, q, u)
<1>1. DOMAIN t = {"nib", "overflow", "dirty", "pos", "at"} /\ t.dirty = FALSE
  BY DEF Nibblized, iwm_nibblize_track_35, iwm_nibblize_track_525, iwm_nibblize_track_nib525,
         LayTrack, disk_nib_end_track
<1> HIDE DEF t
<1>2. disk_unix_to_nib(k, d, file, q, u) = [t EXCEPT !.at = u]
  BY DEF disk_unix_to_nib, t
<1> QED BY <1>1, <1>2 DEF Surface, Area

LEMMA AllTracksClean ==
  ASSUME NEW k, NEW d \in Drives, NEW file, NEW trks, trks = AllTracks(k, d, file)
  PROVE  /\ trks = << >> \/ (~IsSmartPort(d) /\ DOMAIN trks = 0 .. LastTrack(d))
         /\ \A q \in DOMAIN trks : Surface(trks[q]) /\ ~trks[q].dirty
<1>1. CASE IsSmartPort(d)
  <2>1. trks = << >>
    BY <1>1 DEF AllTracks
  <2>2. DOMAIN trks = {}
    BY <2>1
  <2> QED BY <2>1, <2>2
<1>2. CASE ~IsSmartPort(d)
  <2> DEFINE each == IF Is525(d) THEN 4 ELSE 1
  <2>1. trks = [q \in 0 .. LastTrack(d) |->
                  IF q % each = 0 THEN disk_unix_to_nib(k, d, file, q, k.start + q \div each)
                  ELSE NoTrack]
    BY <1>2 DEF AllTracks, LastTrack
  <2>2. Surface(NoTrack) /\ ~NoTrack.dirty
    BY DEF NoTrack, Surface, Area
  <2> HIDE DEF each
  <2>3. \A q \in 0 .. LastTrack(d) :
          trks[q] = NoTrack \/ \E u : trks[q] = disk_unix_to_nib(k, d, file, q, u)
    BY <2>1
  <2> QED BY <1>2, <2>1, <2>2, <2>3, TracksComeClean
<1> QED BY <1>1, <1>2

LEMMA PutsIn ==
  ASSUME NEW m, Good(m), NEW d \in Drives, NEW name, NEW ejected \in BOOLEAN, NEW part,
         NEW n, n = PutIn(m, d, name, ejected, part, Images[name])
  PROVE  PutInto(m, n, d, name, part) /\ (ejected => n.drv[d].file = NoFile)
<1> DEFINE k == m.drv[d]
           img == Images[name]
           where == Extent(img, part)
           out == IF ejected THEN FALSE ELSE k.ejected
           l == [k EXCEPT !.ejected = out, !.name = name, !.part = part, !.file = NoFile]
<1>1. Held(k, d) /\ Tracked(k, d) /\ Marked(k)
  BY DEF Good, DrivesFit, Fit
<1>2. l = Named(k, name, ejected, part)
  BY <1>1 DEF Named, Held
<1> HIDE DEF where, out
<1>3. /\ DOMAIN l = DOMAIN k /\ l.name = name /\ l.part = part /\ l.file = NoFile
      /\ l.track = k.track /\ l.trks = k.trks /\ l.through = k.through /\ l.dirty = k.dirty
  BY <1>1 DEF Held
<1> HIDE DEF l
<1>4. Fit(l, d)
  BY <1>1, <1>3 DEF Fit, Held, Tracked, Laden, Marked
<1>5. CASE ejected \/ ~img.opens
  <2>1. n = [m EXCEPT !.drv[d] = l]
    BY <1>2, <1>5 DEF PutIn
  <2>2. PutInto(m, n, d, name, part)
    BY <1>3, <1>4, <2>1, PutsInto
  <2>3. n.drv[d].file = NoFile
    BY <1>3, <2>1 DEF Good, DrivesFit, Rec
  <2> QED BY <2>2, <2>3
<1>6. CASE ~ejected /\ img.opens
  <2> DEFINE o == Identified(l, d, name, img, where)
  <2>1. n = Opened(m, d, l, img, where)
    BY <1>2, <1>6 DEF PutIn, where
  <2>2. /\ DOMAIN o = DOMAIN k /\ o.name = name /\ o.part = part /\ o.file = name
        /\ o.track = k.track /\ o.trks = << >> /\ o.through = CanWrite(d, img) /\ o.dirty = FALSE
    BY <1>1, <1>3 DEF Identified, Held
  <2>3. o.through \in BOOLEAN
    BY <2>2 DEF CanWrite
  <2> HIDE DEF o
  <2>4. CASE where.start < 0
    <3> DEFINE p == [o EXCEPT !.file = NoFile, !.start = img.start, !.size = img.size]
    <3>1. n = [m EXCEPT !.drv[d] = p]
      BY <1>3, <2>1, <2>4 DEF Opened, o
    <3>2. /\ DOMAIN p = DOMAIN k /\ p.name = name /\ p.part = part /\ p.file = NoFile
          /\ p.track = k.track /\ p.trks = << >> /\ p.through = o.through /\ p.dirty = FALSE
      BY <1>1, <2>2 DEF Held
    <3> HIDE DEF p
    <3>3. Fit(p, d)
      <4>1. DOMAIN p.trks = {}
        BY <3>2
      <4> QED BY <1>1, <2>3, <3>2, <4>1 DEF Fit, Held, Tracked, Laden, Marked
    <3>4. PutInto(m, n, d, name, part)
      BY <3>1, <3>2, <3>3, PutsInto
    <3> QED BY <1>6, <3>4
  <2>5. CASE ~(where.start < 0)
    <3> DEFINE trks == AllTracks(o, d, m.files[o.file])
               p == [o EXCEPT !.trks = trks]
               w == [m EXCEPT !.drv[d] = p]
    <3>1. n = iwm_move_to_track(w, d, o.track)
      BY <1>3, <2>1, <2>5 DEF Opened, Loaded, o
    <3>2. /\ trks = << >> \/ (~IsSmartPort(d) /\ DOMAIN trks = 0 .. LastTrack(d))
          /\ \A q \in DOMAIN trks : Surface(trks[q]) /\ ~trks[q].dirty
      BY AllTracksClean
    <3> HIDE DEF trks
    <3>3. /\ DOMAIN p = DOMAIN k /\ p.name = name /\ p.part = part /\ p.file = name
          /\ p.track = k.track /\ p.trks = trks /\ p.through = o.through /\ p.dirty = FALSE
      BY <1>1, <2>2 DEF Held
    <3>4. w.drv[d] = p /\ w.iwm = m.iwm
      BY DEF Good, DrivesFit, Rec
    <3> HIDE DEF p
    <3>5. Laden(p, d)
      BY <1>1, <3>2, <3>3 DEF Laden, Tracked
    <3> HIDE DEF w
    <3>6. w.iwm.head35 \in {0, 1} /\ o.track \in Int
      BY <1>1, <2>2, <3>4 DEF Good, Regs, Tracked, Laden
    <3>7. PICK to \in Nat : /\ p.trks # << >> => to <= LastTrack(d)
                            /\ n = [w EXCEPT !.drv[d].track = to]
      <4>1. Laden(w.drv[d], d)
        BY <3>4, <3>5
      <4>2. \E to \in Nat : StopsAt(w, n, d, to)
        BY <3>1, <3>6, <4>1, HeadStops
      <4> QED BY <3>4, <4>2 DEF StopsAt
    <3> DEFINE r == [p EXCEPT !.track = to]
    <3>8. n = [m EXCEPT !.drv[d] = r]
      BY <3>7 DEF w, Good, DrivesFit, Rec
    <3>9. /\ DOMAIN r = DOMAIN k /\ r.name = name /\ r.part = part /\ r.file = name
          /\ r.track = to /\ r.trks = trks /\ r.through = o.through /\ r.dirty = FALSE
      BY <1>1, <3>3 DEF Held
    <3> HIDE DEF r
    <3>10. Fit(r, d)
      <4>1. Held(r, d)
        BY <1>1, <2>2, <2>3, <3>9 DEF Held
      <4>2. Tracked(r, d)
        BY <3>3, <3>2, <3>7, <3>9 DEF Tracked, Laden
      <4>3. Marked(r)
        BY <3>2, <3>9 DEF Marked
      <4> QED BY <4>1, <4>2, <4>3 DEF Fit
    <3>11. PutInto(m, n, d, name, part)
      BY <3>8, <3>9, <3>10, PutsInto
    <3> QED BY <1>6, <3>11
  <2> QED BY <2>4, <2>5
<1> QED BY <1>5, <1>6

\* An image is in one drive, unless as two partitions (NoDiskTwice).
Alone(drives) ==
  \A d, e \in Drives :
    d # e /\ drives[d].file # NoFile /\ drives[d].file = drives[e].file =>
      drives[d].part # drives[e].part /\ drives[d].part # 0 /\ drives[e].part # 0

LEMMA StepLeavesAlone ==
  ASSUME NEW m, Alone(m.drv), NEW n, Step(m, n)
  PROVE  Alone(n.drv)
BY DEF Alone, Step, Holds

LEMMA Inserts ==
  ASSUME NEW m, Good(m), Alone(m.drv), NEW d \in Drives, NEW name, NEW ejected \in BOOLEAN,
         NEW part, NEW garbage, NEW n, n = insert_disk(m, d, name, ejected, part, garbage)
  PROVE  Good(n) /\ WritesThrough(m, n) /\ Alone(n.drv)
<1>1. CASE ejected
  <2>1. n = PutIn(m, d, name, ejected, part, Images[name])
    BY <1>1 DEF insert_disk
  <2>2. PutInto(m, n, d, name, part) /\ n.drv[d].file = NoFile
    BY <1>1, <2>1, PutsIn
  <2>3. \A e \in Drives : e = d \/ n.drv[e] = m.drv[e]
    BY <2>2 DEF PutInto
  <2>4. Alone(n.drv)
    BY <2>2, <2>3 DEF Alone
  <2> QED BY <2>2, <2>4 DEF PutInto, WritesThrough
<1>2. CASE ~ejected
  <2> DEFINE k == [m.drv[d] EXCEPT !.ejected = FALSE]
             o == [m EXCEPT !.drv[d] = k]
             p == EjectNamed(o, name, part, garbage)
  <2>1. n = PutIn(p, d, name, ejected, part, Images[name])
    <3>1. [m EXCEPT !.drv[d].ejected = FALSE] = o
      OBVIOUS
    <3> HIDE DEF o
    <3> QED BY <1>2, <3>1 DEF insert_disk
  <2>2. Fit(k, d) /\ Holds(m.drv[d], k)
    <3>1. Fit(m.drv[d], d)
      BY DEF Good, DrivesFit
    <3>2. /\ DOMAIN k = DOMAIN m.drv[d] /\ k.name = m.drv[d].name /\ k.part = m.drv[d].part
          /\ k.file = m.drv[d].file /\ k.track = m.drv[d].track /\ k.trks = m.drv[d].trks
          /\ k.through = m.drv[d].through /\ k.dirty = m.drv[d].dirty
      BY <3>1 DEF Fit, Held
    <3> HIDE DEF k
    <3>3. Fit(k, d)
      BY <3>1, <3>2 DEF Fit, Held, Tracked, Laden, Marked
    <3> QED BY <3>2, <3>3 DEF Holds
  <2> HIDE DEF k
  <2>3. Step(m, o)
    BY <2>2, DriveStep
  <2> HIDE DEF o
  <2>4. Good(o)
    BY <2>3 DEF Step
  <2>5. Step(o, p) /\ \A e \in Drives : Apart(p.drv[e], name, part)
    BY <2>4, EjectsAllNamed
  <2> HIDE DEF p
  <2>6. Step(m, p) /\ Good(p)
    BY <2>3, <2>5, StepsCompose DEF Step
  <2>7. PutInto(p, n, d, name, part)
    BY <2>1, <2>6, PutsIn
  <2>8. Alone(p.drv)
    BY <2>6, StepLeavesAlone
  <2>9. Alone(n.drv)
    <3> SUFFICES ASSUME NEW c \in Drives, NEW e \in Drives, c # e, n.drv[c].file # NoFile,
                        n.drv[c].file = n.drv[e].file
                 PROVE  n.drv[c].part # n.drv[e].part /\ n.drv[c].part # 0 /\ n.drv[e].part # 0
      BY DEF Alone
    <3>1. \A f \in Drives \ {d} : /\ n.drv[f] = p.drv[f]
                                  /\ p.drv[f].file # NoFile => p.drv[f].file = p.drv[f].name
      BY <2>6, <2>7 DEF PutInto, Good, DrivesFit, Fit, Held
    <3>2. n.drv[d].file \in {NoFile, name} /\ n.drv[d].part = part
      BY <2>7 DEF PutInto
    <3>3. CASE c # d /\ e # d
      BY <2>8, <3>1, <3>3 DEF Alone
    <3>4. ASSUME NEW f \in Drives \ {d}, n.drv[f].file = name, name # NoFile
          PROVE  part # 0 /\ n.drv[f].part # 0 /\ n.drv[f].part # part
      BY <2>5, <3>1, <3>4 DEF Apart
    <3> QED BY <3>2, <3>3, <3>4
  <2>10. WritesThrough(m, n)
    BY <2>6, <2>7 DEF Step, PutInto, WritesThrough
  <2> QED BY <2>7, <2>9, <2>10 DEF PutInto
<1> QED BY <1>1, <1>2

-----------------------------------------------------------------------------
(* The controller.                                                         *)

\* Two drives that differ in nothing that Fit and Holds look at.
Alike(k, l) ==
  /\ DOMAIN l = DOMAIN k /\ l.name = k.name /\ l.part = k.part /\ l.file = k.file
  /\ l.track = k.track /\ l.trks = k.trks /\ l.through = k.through /\ l.dirty = k.dirty

LEMMA AlikeFits ==
  ASSUME NEW k, NEW d, Fit(k, d), NEW l, Alike(k, l)
  PROVE  Fit(l, d) /\ Holds(k, l)
BY DEF Alike, Fit, Held, Tracked, Laden, Marked, Holds

\* Time passes.
LEMMA LaterSteps ==
  ASSUME NEW m, Good(m), NEW cycles, NEW n, n = Later(m, cycles)
  PROVE  Step(m, n)
<1> DEFINE aged(d) == IF m.drv[d].elapsed + cycles > MaxElapsed THEN MaxElapsed
                      ELSE m.drv[d].elapsed + cycles
           left == IF m.emul.left < cycles THEN -1 ELSE m.emul.left - cycles
           k(d) == [m.drv[d] EXCEPT !.elapsed = aged(d)]
<1>1. n = [m EXCEPT !.drv = [d \in Drives |-> k(d)], !.emul = [m.emul EXCEPT !.left = left]]
  BY DEF Later, Good, Paced
<1> HIDE DEF aged, left
<1>2. /\ Rec(n) /\ n.iwm = m.iwm /\ n.c031 = m.c031 /\ n.files = m.files /\ n.halt = m.halt
      /\ n.drv = [d \in Drives |-> k(d)] /\ n.emul = [m.emul EXCEPT !.left = left]
  BY <1>1 DEF Good, Rec
<1>3. \A d \in Drives : n.drv[d] = k(d)
  BY <1>2
<1>4. ASSUME NEW d \in Drives PROVE Fit(n.drv[d], d) /\ Holds(m.drv[d], n.drv[d])
  <2>1. Fit(m.drv[d], d)
    BY DEF Good, DrivesFit
  <2>2. Alike(m.drv[d], k(d))
    BY <2>1 DEF Alike, Fit, Held
  <2> HIDE DEF k
  <2> QED BY <1>3, <2>1, <2>2, AlikeFits
<1>5. /\ Paced(n.emul) /\ n.emul.motor = m.emul.motor /\ n.emul.slow = m.emul.slow
      /\ n.emul.fast = m.emul.fast
  BY <1>2 DEF Good, Paced
<1>6. Good(n)
  BY <1>2, <1>4, <1>5 DEF Good, DrivesFit
<1>7. KeepsPace(m, n)
  BY <1>2, <1>5 DEF KeepsPace, Sel35, Good
<1> QED BY <1>2, <1>4, <1>6, <1>7 DEF Step, WritesThrough

LEMMA PhaseSteps ==
  ASSUME NEW m, Good(m), NEW d \in Drives, Is525(d), NEW n, n = iwm525_phase_change(m, d)
  PROVE  Step(m, n)
<1> DEFINE q == m.drv[d].track
           half == q \div 2
           ahead == m.iwm.phase[(half + 1) % 4]
           behind == m.iwm.phase[(half + 3) % 4]
           to == q + (2 * ahead - 2 * behind)
           last == 4 * (Tracks525 - 1)
           new == IF to < 0 THEN 0 ELSE IF to > last THEN last ELSE to
<1>1. q \in Nat
  BY DEF Good, DrivesFit, Fit, Tracked, Laden
<1>2. (half + 1) % 4 \in 0 .. 3 /\ (half + 3) % 4 \in 0 .. 3
  <2> HIDE DEF q
  <2> QED BY <1>1
<1>3. ahead \in Int /\ behind \in Int
  <2> HIDE DEF half
  <2> QED BY <1>2 DEF Good, Regs
<1>4. last \in Int
  BY DisksAssumption
<1>5. new \in Int
  <2> HIDE DEF q, ahead, behind, last
  <2> QED BY <1>1, <1>3, <1>4
<1>6. n = iwm_move_to_track(m, d, new)
  BY DEF iwm525_phase_change
<1> HIDE DEF new
<1> QED BY <1>5, <1>6, Moves

LEMMA ActionSteps ==
  ASSUME NEW m, Good(m), NEW garbage, NEW n, n = iwm_do_action35(m, garbage)
  PROVE  Step(m, n)
<1> DEFINE d == <<5, m.iwm.drive_select>>
           state == State35(m)
           track == m.drv[d].track
           to == IF m.iwm.step = 1 THEN track - 2 ELSE track + 2
           k == [m.drv[d] EXCEPT !.ejected = FALSE]
<1>1. d \in Drives
  BY DEF Drives, Good, Regs
<1>2. \/ n = m
      \/ n = [m EXCEPT !.iwm.step = state]
      \/ n = [m EXCEPT !.drv[d].ejected = FALSE]
      \/ n = iwm_move_to_track(m, d, to)
      \/ n = [m EXCEPT !.iwm.motor_on35 = (state = 8)]
      \/ n = eject_disk(m, d, garbage)
  <2> HIDE DEF to, d
  <2>1. CASE ~m.iwm.motor_on
    BY <2>1 DEF iwm_do_action35
  <2>2. CASE m.iwm.motor_on
    <3>1. CASE state \in {0, 1}
      BY <2>2, <3>1 DEF iwm_do_action35
    <3>2. CASE state = 3
      BY <2>2, <3>2 DEF iwm_do_action35, d
    <3>3. CASE state = 4
      BY <2>2, <3>3 DEF iwm_do_action35, d, to
    <3>4. CASE state \in {8, 9}
      BY <2>2, <3>4 DEF iwm_do_action35
    <3>5. CASE state = 13
      BY <2>2, <3>5 DEF iwm_do_action35, d
    <3>6. CASE state \notin {0, 1, 3, 4, 8, 9, 13}
      BY <2>2, <3>6 DEF iwm_do_action35
    <3> QED BY <3>1, <3>2, <3>3, <3>4, <3>5, <3>6
  <2> QED BY <2>1, <2>2
<1>3. Fit(m.drv[d], d)
  BY <1>1 DEF Good, DrivesFit
<1>4. track \in Nat
  BY <1>3 DEF Fit, Tracked, Laden
<1>5. to \in Int
  <2> HIDE DEF track
  <2> QED BY <1>4
<1> HIDE DEF d, state, to
<1>6. CASE n = m
  BY <1>6, StepStutters
<1>7. CASE n = [m EXCEPT !.iwm.step = state] \/ n = [m EXCEPT !.iwm.motor_on35 = (state = 8)]
  <2>1. /\ Rec(n) /\ Regs(n.iwm) /\ n.emul = m.emul /\ n.halt = m.halt /\ n.c031 = m.c031
        /\ n.drv = m.drv /\ n.files = m.files
    BY <1>7 DEF Good, Rec, Regs
  <2>2. KeepsPace(m, n)
    BY <2>1 DEF KeepsPace, Sel35, Good
  <2> QED BY <2>1, <2>2, RegistersStep DEF Good
<1>8. CASE n = [m EXCEPT !.drv[d].ejected = FALSE]
  <2>1. n = [m EXCEPT !.drv[d] = k]
    BY <1>8
  <2>2. Alike(m.drv[d], k)
    BY <1>3 DEF Alike, Fit, Held
  <2> HIDE DEF k
  <2>3. Fit(k, d) /\ Holds(m.drv[d], k)
    BY <1>3, <2>2, AlikeFits
  <2> QED BY <1>1, <2>1, <2>3, DriveStep
<1>9. CASE n = iwm_move_to_track(m, d, to)
  BY <1>1, <1>5, <1>9, Moves
<1>10. CASE n = eject_disk(m, d, garbage)
  BY <1>1, <1>10, Ejects
<1> QED BY <1>2, <1>6, <1>7, <1>8, <1>9, <1>10

\* A handler that gives one of the registers another value.
LEMMA RegisterSteps ==
  ASSUME NEW m, Good(m), NEW i, Regs(i), NEW n, n = [m EXCEPT !.iwm = i]
  PROVE  Step(m, n)
<1>1. /\ Rec(n) /\ n.iwm = i /\ n.emul = m.emul /\ n.halt = m.halt /\ n.c031 = m.c031
      /\ n.drv = m.drv /\ n.files = m.files
  BY DEF Good, Rec
<1>2. KeepsPace(m, n)
  BY <1>1 DEF KeepsPace, Sel35, Good
<1> QED BY <1>1, <1>2, RegistersStep DEF Good

LEMMA PullSteps ==
  ASSUME NEW m, Good(m), NEW phase, NEW on, NEW garbage, NEW n, n = Pull(m, phase, on, garbage)
  PROVE  Step(m, n)
<1>1. <<6, m.iwm.drive_select>> \in Drives /\ Is525(<<6, m.iwm.drive_select>>)
  BY DEF Drives, Is525, Good, Regs
<1>2. n = m \/ n = iwm525_phase_change(m, <<6, m.iwm.drive_select>>) \/ n = iwm_do_action35(m, garbage)
  BY DEF Pull
<1>3. CASE n = m
  BY <1>3, StepStutters
<1>4. CASE n = iwm525_phase_change(m, <<6, m.iwm.drive_select>>)
  BY <1>1, <1>4, PhaseSteps
<1>5. CASE n = iwm_do_action35(m, garbage)
  BY <1>5, ActionSteps
<1> QED BY <1>2, <1>3, <1>4, <1>5

LEMMA PhasesStep ==
  ASSUME NEW m, Good(m), NEW phase \in 0 .. 3, NEW on \in {0, 1}, NEW garbage,
         NEW n, n = Phase(m, phase, on, garbage)
  PROVE  Step(m, n)
<1> DEFINE o == [m EXCEPT !.iwm.phase[phase] = on]
           p == Pull(o, phase, on, garbage)
           lines == [m.iwm.phase EXCEPT ![phase] = on]
           reset == lines[0] = 1 /\ lines[2] = 1
           enable == lines[1] = 1 /\ lines[3] = 1
<1>1. n = [p EXCEPT !.iwm = [@ EXCEPT !.reset = reset, !.enable2 = enable]]
  BY DEF Phase, Phased
<1>2. enable \in BOOLEAN
  OBVIOUS
<1> HIDE DEF reset, enable
<1>3. Step(m, o)
  <2>1. /\ Rec(o) /\ o.iwm = [m.iwm EXCEPT !.phase = lines] /\ o.emul = m.emul
        /\ o.halt = m.halt /\ o.c031 = m.c031 /\ o.drv = m.drv /\ o.files = m.files
    BY DEF Good, Rec
  <2>2. lines \in [0 .. 3 -> {0, 1}]
    BY DEF Good, Regs
  <2> HIDE DEF o, lines
  <2>3. Regs(o.iwm)
    BY <2>1, <2>2 DEF Good, Regs
  <2>4. KeepsPace(m, o)
    BY <2>1 DEF KeepsPace, Sel35, Good
  <2> QED BY <2>1, <2>3, <2>4, RegistersStep DEF Good
<1> HIDE DEF o, lines
<1>4. Good(o)
  BY <1>3 DEF Step
<1>5. Step(o, p)
  BY <1>4, PullSteps
<1>6. Step(m, p) /\ Good(p)
  BY <1>3, <1>5, StepsCompose DEF Step
<1> HIDE DEF p
<1> DEFINE i == [p.iwm EXCEPT !.reset = reset, !.enable2 = enable]
<1>7. n = [p EXCEPT !.iwm = i]
  BY <1>1
<1>8. Regs(i)
  BY <1>2, <1>6 DEF Good, Regs
<1> HIDE DEF i
<1>9. Step(p, n)
  BY <1>6, <1>7, <1>8, RegisterSteps
<1> QED BY <1>6, <1>9, StepsCompose

LEMMA MotorsStep ==
  ASSUME NEW m, Good(m), NEW n, n = MotorOff(m) \/ n = MotorOn(m)
  PROVE  Step(m, n)
<1>1. /\ Rec(n) /\ Regs(n.iwm) /\ Paced(n.emul) /\ n.halt \in BOOLEAN /\ KeepsPace(m, n)
      /\ n.drv = m.drv /\ n.files = m.files
  <2>1. CASE n = MotorOn(m)
    <3> DEFINE i == [m.iwm EXCEPT !.motor_on = TRUE, !.motor_off = FALSE]
               h == m.halt \/ ~m.emul.motor
               e == [m.emul EXCEPT !.motor = TRUE]
    <3>1. n = [m EXCEPT !.iwm = i, !.halt = h, !.emul = e]
      BY <2>1 DEF MotorOn
    <3>2. Regs(i)
      BY DEF Good, Regs
    <3>3. Paced(e) /\ e.motor = TRUE /\ e.slow = m.emul.slow /\ e.fast = m.emul.fast
      BY DEF Good, Paced
    <3>4. h \in BOOLEAN /\ (~h => ~m.halt /\ m.emul.motor = TRUE)
      BY DEF Good, Paced
    <3> HIDE DEF i, h, e
    <3>5. /\ Rec(n) /\ n.iwm = i /\ n.halt = h /\ n.emul = e /\ n.c031 = m.c031
          /\ n.drv = m.drv /\ n.files = m.files
      BY <3>1 DEF Good, Rec
    <3> QED BY <3>2, <3>3, <3>4, <3>5 DEF KeepsPace, Sel35
  <2>2. CASE n = MotorOff(m)
    <3> DEFINE i == IF BitOf(m.iwm.mode, 2) = 1
                    THEN [m.iwm EXCEPT !.motor_on = FALSE, !.motor_off = FALSE]
                    ELSE IF m.iwm.motor_on /\ ~m.iwm.motor_off
                    THEN [m.iwm EXCEPT !.motor_off = TRUE, !.off = MotorDelay]
                    ELSE m.iwm
               still == IF BitOf(m.iwm.mode, 2) = 1
                        THEN [m EXCEPT !.iwm = [m.iwm EXCEPT !.motor_on = FALSE, !.motor_off = FALSE]]
                        ELSE IF m.iwm.motor_on /\ ~m.iwm.motor_off
                        THEN [m EXCEPT !.iwm = [m.iwm EXCEPT !.motor_off = TRUE, !.off = MotorDelay]]
                        ELSE m
               h == m.halt \/ m.emul.motor \/ m.emul.slow
               e == [m.emul EXCEPT !.motor = FALSE, !.slow = FALSE]
    <3>1. n = [still EXCEPT !.halt = h, !.emul = e]
      BY <2>2 DEF MotorOff
    <3>2. Regs(i)
      BY DEF Good, Regs
    <3>3. Paced(e) /\ e.motor = FALSE /\ e.slow = FALSE /\ e.fast = m.emul.fast
      BY DEF Good, Paced
    <3>4. h \in BOOLEAN /\ (~h => ~m.halt /\ m.emul.motor = FALSE /\ m.emul.slow = FALSE)
      BY DEF Good, Paced
    <3>5. /\ Rec(still) /\ still.iwm = i /\ still.c031 = m.c031 /\ still.drv = m.drv
          /\ still.files = m.files
      BY DEF Good, Rec
    <3> HIDE DEF i, h, e, still
    <3>6. /\ Rec(n) /\ n.iwm = i /\ n.halt = h /\ n.emul = e /\ n.c031 = m.c031
          /\ n.drv = m.drv /\ n.files = m.files
      BY <3>1, <3>5 DEF Rec
    <3> QED BY <3>2, <3>3, <3>4, <3>6 DEF KeepsPace, Sel35
  <2> QED BY <2>1, <2>2
<1> QED BY <1>1, RegistersStep

LEMMA SlowEnds ==
  ASSUME NEW m, Good(m), NEW n, n = EndSlow(m)
  PROVE  Step(m, n)
<1>1. CASE ~(m.emul.left < 0 /\ m.emul.slow)
  BY <1>1, StepStutters DEF EndSlow
<1>2. CASE m.emul.left < 0 /\ m.emul.slow
  <2>1. n = [m EXCEPT !.halt = TRUE, !.emul = [m.emul EXCEPT !.slow = FALSE]]
    BY <1>2 DEF EndSlow
  <2>2. /\ Rec(n) /\ n.iwm = m.iwm /\ Paced(n.emul) /\ n.halt = TRUE /\ n.drv = m.drv
        /\ n.files = m.files
    BY <2>1 DEF Good, Rec, Paced
  <2> QED BY <2>2, RegistersStep DEF Good, KeepsPace
<1> QED BY <1>1, <1>2

LEMMA Settles ==
  ASSUME NEW m, Good(m), NEW n, n = Settled(m)
  PROVE  Step(m, n)
<1> DEFINE i == [m.iwm EXCEPT !.previous_write_bits = 0]
           o == IF m.iwm.q7 = 0 THEN [m EXCEPT !.iwm = i] ELSE m
<1>1. n = EndSlow(o)
  BY DEF Settled
<1>2. Regs(i)
  BY DEF Good, Regs
<1> HIDE DEF i
<1>3. Step(m, o)
  BY <1>2, RegisterSteps, StepStutters
<1> HIDE DEF o
<1>4. Good(o)
  BY <1>3 DEF Step
<1>5. Step(o, n)
  BY <1>1, <1>4, SlowEnds
<1> QED BY <1>3, <1>5, StepsCompose

LEMMA SwitchesStep ==
  ASSUME NEW m, Good(m), NEW loc \in 0 .. 15, NEW garbage,
         NEW n, n = iwm_touch_switches(m, loc, garbage)
  PROVE  Step(m, n)
<1> DEFINE on == loc % 2
           o == CASE loc < 8 -> Phase(m, loc \div 2, on, garbage)
                  [] loc = 8 -> MotorOff(m)
                  [] loc = 9 -> MotorOn(m)
                  [] loc \in {10, 11} -> [m EXCEPT !.iwm.drive_select = on]
                  [] loc \in {12, 13} -> [m EXCEPT !.iwm.q6 = on]
                  [] loc \in {14, 15} -> [m EXCEPT !.iwm.q7 = on]
<1>1. n = Settled(o)
  BY DEF iwm_touch_switches
<1>2. on \in {0, 1}
  OBVIOUS
<1>3. Step(m, o)
  <2>1. CASE loc < 8
    <3>1. loc \div 2 \in 0 .. 3
      BY <2>1
    <3>2. o = Phase(m, loc \div 2, on, garbage)
      BY <2>1
    <3> HIDE DEF o, on
    <3> QED BY <1>2, <3>1, <3>2, PhasesStep
  <2>2. CASE loc = 8
    <3>1. o = MotorOff(m)
      BY <2>2
    <3> HIDE DEF o
    <3> QED BY <3>1, MotorsStep
  <2>3. CASE loc = 9
    <3>1. o = MotorOn(m)
      BY <2>3
    <3> HIDE DEF o
    <3> QED BY <3>1, MotorsStep
  <2>4. CASE loc \in {10, 11}
    <3> DEFINE i == [m.iwm EXCEPT !.drive_select = on]
    <3>1. o = [m EXCEPT !.iwm = i]
      BY <2>4
    <3> HIDE DEF o, on
    <3>2. Regs(i)
      BY <1>2 DEF Good, Regs
    <3> HIDE DEF i
    <3> QED BY <3>1, <3>2, RegisterSteps
  <2>5. CASE loc \in {12, 13}
    <3> DEFINE i == [m.iwm EXCEPT !.q6 = on]
    <3>1. o = [m EXCEPT !.iwm = i]
      BY <2>5
    <3> HIDE DEF o, on
    <3>2. Regs(i)
      BY <1>2 DEF Good, Regs
    <3> HIDE DEF i
    <3> QED BY <3>1, <3>2, RegisterSteps
  <2>6. CASE loc \in {14, 15}
    <3> DEFINE i == [m.iwm EXCEPT !.q7 = on]
    <3>1. o = [m EXCEPT !.iwm = i]
      BY <2>6
    <3> HIDE DEF o, on
    <3>2. Regs(i)
      BY <1>2 DEF Good, Regs
    <3> HIDE DEF i
    <3> QED BY <3>1, <3>2, RegisterSteps
  <2>7. loc < 8 \/ loc \in {8, 9, 10, 11, 12, 13, 14, 15}
    OBVIOUS
  <2> QED BY <2>1, <2>2, <2>3, <2>4, <2>5, <2>6, <2>7
<1> HIDE DEF o
<1>4. Good(o)
  BY <1>3 DEF Step
<1>5. Step(o, n)
  BY <1>1, <1>4, Settles
<1> QED BY <1>3, <1>5, StepsCompose

-----------------------------------------------------------------------------
(* Reading.                                                                *)

LEMMA DataSteps ==
  ASSUME NEW m, Good(m), NEW d \in Drives, NEW n, n = iwm_read_data(m, d).m
  PROVE  Step(m, n)
<1> DEFINE k == m.drv[d]
           q == IF Is525(d) THEN 4 * (k.track \div 4) ELSE k.track
           r == Under(k.trks[q], d, k, m.iwm.mode % 2 = 1, m.emul.fast, m.emul.fake)
           i == [m.iwm EXCEPT !.previous_write_bits = 0]
           e == [m.emul EXCEPT !.fake = r.fake]
           l == [k EXCEPT !.elapsed = r.elapsed, !.pos = r.pos]
           o == [m EXCEPT !.iwm = i, !.emul = e]
<1>1. n = [m EXCEPT !.iwm = i] \/ n = PutBack(m, d, r).m
  <2>1. CASE ~HasTrack(k, q)
    BY <2>1 DEF iwm_read_data
  <2>2. CASE HasTrack(k, q)
    BY <2>2 DEF iwm_read_data
  <2> QED BY <2>1, <2>2
<1>2. Regs(i)
  BY DEF Good, Regs
<1> HIDE DEF r, q
<1>3. CASE n = [m EXCEPT !.iwm = i]
  BY <1>2, <1>3, RegisterSteps
<1>4. CASE n = PutBack(m, d, r).m
  <2>1. n = [o EXCEPT !.drv[d] = l]
    BY <1>4 DEF PutBack, Good, Rec
  <2>2. Fit(k, d)
    BY DEF Good, DrivesFit
  <2>3. Alike(k, l)
    BY <2>2 DEF Alike, Fit, Held
  <2>4. Paced(e) /\ e.motor = m.emul.motor /\ e.slow = m.emul.slow /\ e.fast = m.emul.fast
    BY DEF Good, Paced
  <2> HIDE DEF l, e, i
  <2>5. /\ Rec(o) /\ o.iwm = i /\ o.emul = e /\ o.halt = m.halt /\ o.c031 = m.c031
        /\ o.drv = m.drv /\ o.files = m.files
    BY DEF Good, Rec
  <2> HIDE DEF o
  <2>6. KeepsPace(m, o)
    BY <2>4, <2>5 DEF KeepsPace, Sel35, Good
  <2>7. Step(m, o)
    BY <1>2, <2>4, <2>5, <2>6, RegistersStep DEF Good
  <2>8. Good(o)
    BY <2>7 DEF Step
  <2>9. Fit(l, d) /\ Holds(o.drv[d], l)
    BY <2>2, <2>3, <2>5, AlikeFits
  <2>10. Step(o, n)
    BY <2>1, <2>8, <2>9, DriveStep
  <2> QED BY <2>7, <2>10, StepsCompose
<1> QED BY <1>1, <1>3, <1>4

LEMMA StatusSteps ==
  ASSUME NEW m, Good(m), NEW any, NEW n, n = iwm_read_status35(m, any).m
  PROVE  Step(m, n)
<1> DEFINE d == <<5, m.iwm.drive_select>>
           k == m.drv[d]
           state == State35(m)
           on(h) == [m EXCEPT !.iwm.head35 = h]
           head(h) == iwm_move_to_track(on(h), d, 2 * (k.track \div 2) + h)
<1>1. n = m \/ n = head(0) \/ n = head(1)
  <2>1. CASE ~m.iwm.motor_on
    BY <2>1 DEF iwm_read_status35
  <2>2. CASE m.iwm.motor_on
    <3>1. n = IF state = 1 THEN head(0) ELSE IF state = 3 THEN head(1) ELSE m
      BY <2>2 DEF iwm_read_status35
    <3> HIDE DEF head
    <3> QED BY <3>1
  <2> QED BY <2>1, <2>2
<1>2. d \in Drives
  BY DEF Drives, Good, Regs
<1>3. k.track \in Nat
  BY <1>2 DEF Good, DrivesFit, Fit, Tracked, Laden
<1>4. ASSUME NEW h \in {0, 1}, n = head(h) PROVE Step(m, n)
  <2> DEFINE i == [m.iwm EXCEPT !.head35 = h]
             o == on(h)
             to == 2 * (k.track \div 2) + h
  <2>1. o = [m EXCEPT !.iwm = i]
    OBVIOUS
  <2>2. Regs(i)
    BY DEF Good, Regs
  <2>3. to \in Int
    <3> HIDE DEF k
    <3> QED BY <1>3
  <2>4. n = iwm_move_to_track(o, d, to)
    BY <1>4
  <2> HIDE DEF o, i, to, d
  <2>5. Step(m, o)
    BY <2>1, <2>2, RegisterSteps
  <2>6. Good(o)
    BY <2>5 DEF Step
  <2>7. Step(o, n)
    BY <1>2, <2>3, <2>4, <2>6, Moves
  <2> QED BY <2>5, <2>7, StepsCompose
<1> HIDE DEF head
<1> QED BY <1>1, <1>4, StepStutters

LEMMA AnswerSteps ==
  ASSUME NEW m, Good(m), NEW any, NEW n, n = Answer(m, any).m
  PROVE  Step(m, n)
<1> DEFINE d == Selected(m)
           i == m.iwm
           count == (i.cnt + 1) % 4
           j == [i EXCEPT !.cnt = count]
<1>1. /\ i.q6 \in {0, 1} /\ i.q7 \in {0, 1} /\ i.motor_on \in BOOLEAN /\ i.enable2 \in BOOLEAN
  BY DEF Good, Regs
<1>2. \/ n = iwm_read_data(m, d).m
      \/ n = m
      \/ n = iwm_read_status35(m, any).m
      \/ n = [m EXCEPT !.iwm.cnt = count]
  <2>1. CASE i.q7 = 0 /\ i.q6 = 0
    <3>1. CASE ~i.enable2 /\ i.motor_on
      BY <2>1, <3>1 DEF Answer
    <3>2. CASE i.enable2 \/ ~i.motor_on
      BY <2>1, <3>2 DEF Answer
    <3> QED BY <3>1, <3>2
  <2>2. CASE i.q7 = 0 /\ i.q6 = 1
    <3>1. CASE i.enable2
      BY <2>2, <3>1 DEF Answer
    <3>2. CASE ~i.enable2 /\ Sel35(m)
      BY <2>2, <3>2 DEF Answer
    <3>3. CASE ~i.enable2 /\ ~Sel35(m)
      BY <2>2, <3>3 DEF Answer
    <3> QED BY <3>1, <3>2, <3>3
  <2>3. CASE i.q7 = 1 /\ i.q6 = 0
    <3>1. CASE i.enable2
      BY <2>3, <3>1 DEF Answer
    <3>2. CASE ~i.enable2
      BY <2>3, <3>2 DEF Answer
    <3> QED BY <3>1, <3>2
  <2>4. CASE i.q7 = 1 /\ i.q6 = 1
    BY <2>4 DEF Answer
  <2> QED BY <1>1, <2>1, <2>2, <2>3, <2>4
<1>3. d \in Drives
  BY DEF Selected, Drives, Good, Regs
<1>4. CASE n = [m EXCEPT !.iwm.cnt = count]
  <2>1. n = [m EXCEPT !.iwm = j]
    BY <1>4
  <2>2. Regs(j)
    BY DEF Good, Regs
  <2> HIDE DEF j
  <2> QED BY <2>1, <2>2, RegisterSteps
<1> HIDE DEF d, count
<1>5. CASE n = iwm_read_data(m, d).m
  BY <1>3, <1>5, DataSteps
<1>6. CASE n = iwm_read_status35(m, any).m
  BY <1>6, StatusSteps
<1> QED BY <1>2, <1>4, <1>5, <1>6, StepStutters

LEMMA ReadSteps ==
  ASSUME NEW m, Good(m), NEW loc \in 0 .. 15, NEW any, NEW garbage,
         NEW n, n = read_iwm(m, loc, any, garbage).m
  PROVE  Step(m, n)
<1> DEFINE i == [m.iwm EXCEPT !.q6 = 0]
           o == IF loc = 12 THEN [m EXCEPT !.iwm.q6 = 0] ELSE iwm_touch_switches(m, loc, garbage)
<1>1. n = o \/ n = Answer(o, any).m
  BY DEF read_iwm, Reads
<1>2. Step(m, o)
  <2>1. CASE loc = 12
    <3>1. o = [m EXCEPT !.iwm = i]
      BY <2>1
    <3>2. Regs(i)
      BY DEF Good, Regs
    <3> HIDE DEF i, o
    <3> QED BY <3>1, <3>2, RegisterSteps
  <2>2. CASE loc # 12
    <3>1. o = iwm_touch_switches(m, loc, garbage)
      BY <2>2
    <3> HIDE DEF o
    <3> QED BY <3>1, SwitchesStep
  <2> QED BY <2>1, <2>2
<1> HIDE DEF o
<1>3. Good(o)
  BY <1>2 DEF Step
<1>4. Step(o, n)
  BY <1>1, <1>3, AnswerSteps, StepStutters
<1> QED BY <1>2, <1>4, StepsCompose

-----------------------------------------------------------------------------
(* Writing.                                                                *)

LEMMA SlowSteps ==
  ASSUME NEW m, Good(m), NEW d, NEW n, n = SlowFor(m, d)
  PROVE  Step(m, n)
<1> DEFINE h == IF Is525(d) THEN m.halt \/ ~m.emul.slow ELSE m.halt \/ m.emul.slow
           e == IF Is525(d) THEN [m.emul EXCEPT !.left = SlowWrite, !.slow = TRUE]
                ELSE [m.emul EXCEPT !.slow = FALSE]
<1>1. n = [m EXCEPT !.halt = h, !.emul = e]
  BY DEF SlowFor
<1>2. Paced(e) /\ e.motor = m.emul.motor /\ e.fast = m.emul.fast
  BY DEF Good, Paced
<1>3. h \in BOOLEAN /\ (~h => ~m.halt /\ e.slow = m.emul.slow)
  BY DEF Good, Paced
<1> HIDE DEF h, e
<1>4. /\ Rec(n) /\ n.iwm = m.iwm /\ n.emul = e /\ n.halt = h /\ n.c031 = m.c031
      /\ n.drv = m.drv /\ n.files = m.files
  BY <1>1 DEF Good, Rec
<1>5. KeepsPace(m, n)
  BY <1>2, <1>3, <1>4 DEF KeepsPace, Sel35
<1> QED BY <1>2, <1>3, <1>4, <1>5, RegistersStep DEF Good

LEMMA NibsLieWhereTheyWere ==
  ASSUME NEW t, Area(t), NEW val, NEW size,
         NEW u, u = disk_nib_out(t, val, size)
  PROVE  Area(u) /\ u.dirty = TRUE /\ TrackLen(u) = TrackLen(t)
<1>1. PICK pos1, pos2, over, bits, v : u = Laid(t, pos1, pos2, over, bits, v)
  BY DEF disk_nib_out, LaidAfter, LaidAt
<1> DEFINE place == <<bits, IF v < 128 THEN v + 128 ELSE v>>
           written == [t.nib EXCEPT ![1 + pos1] = place]
           both == [written EXCEPT ![1 + pos2] = <<0, 0>>]
           after == (pos2 + 1) % TrackLen(t)
           fewer == over - Bits(t, pos2)
<1>2. \/ u = [t EXCEPT !.nib = both, !.dirty = TRUE, !.overflow = fewer, !.pos = after]
      \/ u = [t EXCEPT !.nib = written, !.dirty = TRUE, !.overflow = over, !.pos = pos2]
  BY <1>1 DEF Laid
<1>3. DOMAIN written = DOMAIN t.nib /\ DOMAIN both = DOMAIN t.nib
  OBVIOUS
<1> HIDE DEF both, written, after, fewer
<1>4. DOMAIN u = DOMAIN t /\ u.dirty = TRUE /\ DOMAIN u.nib = DOMAIN t.nib
  BY <1>2, <1>3 DEF Area
<1> QED BY <1>4 DEF TrackLen, Area

LEMMA NibSteps ==
  ASSUME NEW m, Good(m), NEW d \in Drives, NEW val, NEW size, NEW n, n = NibOut(m, d, val, size)
  PROVE  Step(m, n)
<1> DEFINE k == m.drv[d]
           q == k.track
           s == [k.trks[q] EXCEPT !.pos = k.pos]
           v == val % 256
           t == disk_nib_out(s, v, size)
           u == [t EXCEPT !.pos = 0]
           l == [k EXCEPT !.trks[q] = u, !.pos = t.pos, !.dirty = TRUE]
<1>1. CASE ~(q \in DOMAIN k.trks) \/ TrackLen(k.trks[q]) \in 0 .. 5
  <2>1. n = [m EXCEPT !.gone = TRUE]
    BY <1>1 DEF NibOut
  <2>2. /\ Rec(n) /\ n.iwm = m.iwm /\ n.emul = m.emul /\ n.halt = m.halt /\ n.c031 = m.c031
        /\ n.drv = m.drv /\ n.files = m.files
    BY <2>1 DEF Good, Rec
  <2>3. KeepsPace(m, n)
    BY <2>2 DEF KeepsPace, Sel35, Good
  <2> QED BY <2>2, <2>3, RegistersStep DEF Good
<1>2. CASE q \in DOMAIN k.trks /\ TrackLen(k.trks[q]) \notin 0 .. 5
  <2>1. n = [m EXCEPT !.drv[d] = l]
    BY <1>2 DEF NibOut
  <2>2. Fit(k, d)
    BY DEF Good, DrivesFit
  <2>3. Surface(k.trks[q]) /\ TrackLen(k.trks[q]) # 0
    BY <1>2, <2>2 DEF Fit, Tracked, Laden
  <2>4. Area(s) /\ TrackLen(s) = TrackLen(k.trks[q])
    BY <2>3 DEF Surface, Area, TrackLen
  <2> HIDE DEF s, v
  <2>5. Area(t) /\ t.dirty = TRUE /\ TrackLen(t) = TrackLen(s)
    BY <2>4, NibsLieWhereTheyWere
  <2> HIDE DEF t
  <2>6. Area(u) /\ u.dirty = TRUE /\ TrackLen(u) = TrackLen(k.trks[q])
    BY <2>4, <2>5 DEF Area, TrackLen
  <2>7. Surface(u)
    BY <2>3, <2>6 DEF Surface, Area
  <2> HIDE DEF u
  <2>8. /\ DOMAIN l = DOMAIN k /\ l.name = k.name /\ l.part = k.part /\ l.file = k.file
        /\ l.track = k.track /\ l.through = k.through /\ l.dirty = TRUE
        /\ l.trks = [k.trks EXCEPT ![q] = u]
    BY <2>2 DEF Fit, Held
  <2> HIDE DEF l
  <2>9. Tracked(l, d)
    <3>1. DOMAIN l.trks = DOMAIN k.trks /\ \A p \in DOMAIN l.trks : Surface(l.trks[p])
      BY <2>2, <2>7, <2>8 DEF Fit, Tracked, Laden
    <3>2. k.trks # << >>
      BY <1>2
    <3> HIDE DEF k
    <3> QED BY <2>2, <2>8, <3>1, <3>2 DEF Fit, Tracked, Laden
  <2>10. Fit(l, d) /\ Holds(k, l)
    BY <2>2, <2>8, <2>9 DEF Fit, Held, Marked, Holds
  <2> QED BY <2>1, <2>10, DriveStep
<1> QED BY <1>1, <1>2

LEMMA WaitSteps ==
  ASSUME NEW m, Good(m), NEW d \in Drives, NEW w, NEW elapsed, NEW n, n = Waits(m, d, w, elapsed)
  PROVE  Step(m, n)
<1> DEFINE i == [m.iwm EXCEPT !.prev_val = w.v, !.previous_write_bits = w.b]
           k == m.drv[d]
           l == [k EXCEPT !.elapsed = elapsed]
           o == [m EXCEPT !.iwm = i]
<1>1. n = [o EXCEPT !.drv[d] = l]
  BY DEF Waits, Good, Rec
<1>2. Regs(i)
  BY DEF Good, Regs
<1>3. Fit(k, d)
  BY DEF Good, DrivesFit
<1>4. Alike(k, l)
  BY <1>3 DEF Alike, Fit, Held
<1> HIDE DEF l, i
<1>5. Step(m, o) /\ o.drv = m.drv
  BY <1>2, RegisterSteps DEF Good, Rec
<1> HIDE DEF o
<1>6. Good(o) /\ Fit(l, d) /\ Holds(o.drv[d], l)
  BY <1>3, <1>4, <1>5, AlikeFits DEF Step
<1>7. Step(o, n)
  BY <1>1, <1>6, DriveStep
<1> QED BY <1>5, <1>7, StepsCompose

LEMMA WriteDataSteps ==
  ASSUME NEW m, Good(m), NEW d \in Drives, NEW val, NEW fast,
         NEW n, n = iwm_write_data(m, d, val, fast)
  PROVE  Step(m, n)
<1>1. n = m \/ \E bits, cycles : n = WriteInTime(m, d, val, bits, cycles)
  BY DEF iwm_write_data
<1>2. ASSUME NEW bits, NEW cycles, n = WriteInTime(m, d, val, bits, cycles)
      PROVE  Step(m, n)
  <2> DEFINE o == SlowFor(m, d)
  <2>1. PICK w, elapsed : n = Put(o, d, w, elapsed)
    BY <1>2 DEF WriteInTime
  <2> DEFINE p == IF w.now THEN NibOut(o, d, w.out, w.size) ELSE o
  <2>2. n = Waits(p, d, w, elapsed)
    BY <2>1 DEF Put
  <2>3. Step(m, o)
    BY SlowSteps
  <2> HIDE DEF o
  <2>4. Good(o)
    BY <2>3 DEF Step
  <2>5. Step(o, p)
    BY <2>4, NibSteps, StepStutters
  <2> HIDE DEF p
  <2>6. Step(m, p) /\ Good(p)
    BY <2>3, <2>5, StepsCompose DEF Step
  <2>7. Step(p, n)
    BY <2>2, <2>6, WaitSteps
  <2> QED BY <2>6, <2>7, StepsCompose
<1> QED BY <1>1, <1>2, StepStutters

LEMMA WriteSteps ==
  ASSUME NEW m, Good(m), NEW loc \in 0 .. 15, NEW val, NEW garbage,
         NEW n, n = write_iwm(m, loc, val, garbage)
  PROVE  Step(m, n)
<1> DEFINE o == iwm_touch_switches(m, loc, garbage)
           d == Selected(o)
           fast == o.emul.fast /\ (Sel35(o) \/ ~o.emul.slow)
           i == [o.iwm EXCEPT !.mode = val % 32]
<1>1. n = o \/ n = [o EXCEPT !.iwm.mode = val % 32] \/ n = iwm_write_data(o, d, val, fast)
  BY DEF write_iwm, Writes
<1>2. Step(m, o)
  BY SwitchesStep
<1> HIDE DEF o, fast
<1>3. Good(o)
  BY <1>2 DEF Step
<1>4. d \in Drives
  BY <1>3 DEF Selected, Drives, Good, Regs
<1>5. CASE n = [o EXCEPT !.iwm.mode = val % 32]
  <2>1. n = [o EXCEPT !.iwm = i]
    BY <1>5
  <2>2. Regs(i)
    BY <1>3 DEF Good, Regs
  <2> HIDE DEF i
  <2>3. Step(o, n)
    BY <1>3, <2>1, <2>2, RegisterSteps
  <2> QED BY <1>2, <2>3, StepsCompose
<1> HIDE DEF d
<1>6. CASE n = iwm_write_data(o, d, val, fast)
  <2>1. Step(o, n)
    BY <1>3, <1>4, <1>6, WriteDataSteps
  <2> QED BY <1>2, <2>1, StepsCompose
<1> QED BY <1>1, <1>2, <1>5, <1>6

-----------------------------------------------------------------------------
(* Every VBL, the end, and the machine at the start.                       *)

LEMMA BothFlush ==
  ASSUME NEW m, Good(m), NEW slot \in {5, 6}, NEW garbage, NEW n, n = FlushBoth(m, slot, garbage)
  PROVE  Step(m, n)
<1> DEFINE a == <<slot, 0>>
           b == <<slot, 1>>
           o == iwm_flush_disk_to_unix(m, a, garbage)
<1>1. a \in Drives /\ b \in Drives
  BY DEF Drives
<1>2. n = iwm_flush_disk_to_unix(o, b, garbage)
  BY DEF FlushBoth
<1> HIDE DEF a, b
<1>3. Step(m, o)
  BY <1>1, Flushes
<1> HIDE DEF o
<1>4. Good(o)
  BY <1>3 DEF Step
<1>5. Step(o, n)
  BY <1>1, <1>2, <1>4, Flushes
<1> QED BY <1>3, <1>5, StepsCompose

LEMMA VblSteps ==
  ASSUME NEW m, Good(m), NEW third, NEW garbage, NEW n, n = iwm_vbl_update(m, third, garbage)
  PROVE  Step(m, n)
<1> DEFINE i == [m.iwm EXCEPT !.motor_on = FALSE, !.motor_off = FALSE]
           off == IF m.iwm.off > 0 THEN m.iwm.off - 1 ELSE 0
           j == [m.iwm EXCEPT !.off = off]
           s == IF Expires(m) THEN [m EXCEPT !.iwm = i]
                ELSE [m EXCEPT !.iwm.off = IF @ > 0 THEN @ - 1 ELSE 0]
           o == FlushBoth(s, 6, garbage)
<1>1. n = s \/ n = FlushBoth(o, 5, garbage)
  BY DEF iwm_vbl_update
<1>2. s = [m EXCEPT !.iwm = i] \/ s = [m EXCEPT !.iwm = j]
  OBVIOUS
<1>3. Regs(i) /\ Regs(j)
  BY DEF Good, Regs
<1> HIDE DEF i, j, s
<1>4. Step(m, s)
  BY <1>2, <1>3, RegisterSteps
<1>5. Good(s)
  BY <1>4 DEF Step
<1>6. Step(s, o)
  BY <1>5, BothFlush
<1> HIDE DEF o
<1>7. Step(m, o) /\ Good(o)
  BY <1>4, <1>6, StepsCompose DEF Step
<1>8. CASE n = FlushBoth(o, 5, garbage)
  <2>1. Step(o, n)
    BY <1>7, <1>8, BothFlush
  <2> QED BY <1>7, <2>1, StepsCompose
<1> QED BY <1>1, <1>4, <1>8

\* A reset leaves the drives alone; it happens between two runs of the engine.
\* The registers need not be there yet: this is how the machine begins.
LEMMA Resets ==
  ASSUME NEW m, Rec(m), Paced(m.emul), m.halt \in BOOLEAN, DrivesFit(m.drv),
         NoFile \notin DOMAIN m.files, NEW n, n = iwm_reset(m)
  PROVE  Good(n) /\ n.drv = m.drv /\ n.files = m.files
<1> DEFINE i == [q6 |-> 0, q7 |-> 0, motor_on |-> FALSE, motor_on35 |-> FALSE, motor_off |-> FALSE,
              off |-> 0, step |-> 0, head35 |-> 0, drive_select |-> 0, mode |-> 0,
              enable2 |-> FALSE, reset |-> FALSE, phase |-> [p \in 0 .. 3 |-> 0],
              prev_val |-> 0, previous_write_bits |-> 0, cnt |-> m.iwm.cnt]
           e == [m.emul EXCEPT !.motor = FALSE]
<1>1. n = [m EXCEPT !.iwm = i, !.emul = e, !.c031 = 0]
  BY DEF iwm_reset
<1>2. Regs(i)
  <2>1. [p \in 0 .. 3 |-> 0] \in [0 .. 3 -> {0, 1}]
    OBVIOUS
  <2> QED BY <2>1 DEF Regs
<1>3. Paced(e)
  BY DEF Paced
<1> HIDE DEF i, e
<1>4. /\ Rec(n) /\ n.iwm = i /\ n.emul = e /\ n.halt = m.halt /\ n.drv = m.drv
      /\ n.files = m.files
  BY <1>1 DEF Rec
<1> QED BY <1>2, <1>3, <1>4 DEF Good

LEMMA AllEject ==
  ASSUME NEW m, Good(m), NEW garbage, NEW n, n = iwm_shut(m, garbage)
  PROVE  Step(m, n)
<1> DEFINE N == Units + 4
           Loop(f, top) ==
             f = [i \in 0 .. top |-> IF i = 0 THEN m
                                     ELSE eject_disk(f[i - 1], Drive(i), garbage)]
           after == CHOOSE f : Loop(f, N)
<1>1. n = after[N]
  BY DEF iwm_shut
<1>2. N \in Nat
  BY DisksAssumption
<1>3. Loop(after, N)
  <2> DEFINE S == {j \in Nat : \E f : Loop(f, j)}
  <2>1. 0 \in S
    <3>1. Loop([i \in 0 .. 0 |-> m], 0)
      OBVIOUS
    <3> QED BY <3>1
  <2>2. ASSUME NEW j \in Nat, j \in S PROVE j + 1 \in S
    <3>1. PICK f : Loop(f, j)
      BY <2>2
    <3> DEFINE h == [i \in 0 .. j + 1 |-> IF i = j + 1 THEN eject_disk(f[j], Drive(j + 1), garbage)
                                          ELSE f[i]]
    <3>2. ASSUME NEW i \in 0 .. j + 1
         PROVE  h[i] = IF i = 0 THEN m ELSE eject_disk(h[i - 1], Drive(i), garbage)
      <4>1. CASE i = j + 1
        BY <4>1
      <4>2. CASE i \in 0 .. j
        BY <4>2, <3>1
      <4> QED BY <4>1, <4>2
    <3>3. Loop(h, j + 1)
      BY <3>2
    <3> HIDE DEF h
    <3> QED BY <3>3
  <2> HIDE DEF S
  <2>3. N \in S
    BY <1>2, <2>1, <2>2, SetInduction
  <2> QED BY <2>3 DEF S
<1> HIDE DEF after
<1> DEFINE T == {i \in Nat : i <= N => Step(m, after[i])}
<1>4. 0 \in T
  <2>1. after[0] = m
    BY <1>2, <1>3
  <2> QED BY <2>1, StepStutters
<1>5. ASSUME NEW i \in Nat, i \in T PROVE i + 1 \in T
  <2>1. SUFFICES ASSUME i + 1 <= N PROVE Step(m, after[i + 1])
    OBVIOUS
  <2>2. i + 1 \in 1 .. N /\ i + 1 \in 0 .. N /\ i + 1 # 0 /\ (i + 1) - 1 = i /\ i <= N
    BY <1>2, <2>1
  <2>3. Step(m, after[i])
    BY <1>5, <2>2
  <2> HIDE DEF N
  <2>4. after[i + 1] = eject_disk(after[i], Drive(i + 1), garbage)
    BY <1>3, <2>2
  <2>5. Good(after[i]) /\ Drive(i + 1) \in Drives
    BY <2>2, <2>3, AllDrives DEF Step, N
  <2>6. Step(after[i], after[i + 1])
    BY <2>4, <2>5, Ejects
  <2> QED BY <2>3, <2>6, StepsCompose
<1>6. Step(m, after[N])
  <2> HIDE DEF T
  <2>1. Nat \subseteq T
    BY <1>4, <1>5, SetInduction
  <2> HIDE DEF N
  <2> QED BY <1>2, <2>1 DEF T
<1> QED BY <1>1, <1>6

-----------------------------------------------------------------------------
(* The programs: what they ask for is what the handlers are there for.     *)

Legal(p) ==
  /\ p.reads \subseteq 0 .. 15
  /\ \A w \in p.writes : w[1] \in 0 .. 15
  /\ p.sides \subseteq Nat
  /\ \A i \in p.inserts : i[1] \in Drives /\ i[4] \in BOOLEAN
  /\ p.ejects \subseteq Drives
  /\ p.in # << >> => p.in[1] \in Drives /\ ~IsSmartPort(p.in[1])
  /\ p.wrote => p.in # << >>
  /\ p.on \in {"off", "motor", "write"}

LEMMA SomeDrives ==
  /\ <<6, 0>> \in Drives /\ <<6, 1>> \in Drives /\ <<5, 0>> \in Drives
  /\ <<7, 0>> \in Drives /\ <<7, 1>> \in Drives /\ <<7, 2>> \in Drives
  /\ ~IsSmartPort(<<6, 0>>) /\ ~IsSmartPort(<<5, 0>>)
<1>1. 0 \in 0 .. Units - 1 /\ 1 \in 0 .. Units - 1 /\ 2 \in 0 .. Units - 1
  BY DisksAssumption
<1> QED BY <1>1 DEF Drives, IsSmartPort

LEMMA ProgramsAreLegal ==
  ASSUME focus \in Foci
  PROVE  Legal(P)
<1>1. focus \in DOMAIN Program
  BY MCDiskAssumption
<1>2. DOMAIN Program = {"write525", "write35", "seek525", "seek35", "slow", "late", "swap",
                        "refused", "over", "hard", "speed", "zip", "clock", "boot"}
  BY DEF Program
<1>3. CASE focus = "write525"
  <2>1. P = [Quiet EXCEPT !.max = 2, !.reads = {12}, !.in = <<<<6, 0>>, "apple">>,
        !.on = "motor", !.writes = {<<8, 0>>, <<13, 0>>} \cup ({15} \X Nibbles)]
    BY <1>3 DEF P, Program
  <2>2. P.reads = {12} /\ P.writes = {<<8, 0>>, <<13, 0>>} \cup ({15} \X Nibbles)
        /\ P.sides = {} /\ P.inserts = {}
        /\ P.ejects = {} /\ P.in = <<<<6, 0>>, "apple">> /\ P.on = "motor" /\ P.wrote = FALSE
    BY <2>1 DEF Quiet
  <2>3. \A w \in P.writes : w[1] \in 0 .. 15
    BY <2>2
  <2>4. P.in # << >> /\ P.in[1] = <<6, 0>>
    BY <2>2
  <2> QED BY <2>2, <2>3, <2>4, SomeDrives DEF Legal
<1>4. CASE focus = "write35"
  <2>1. P = [Quiet EXCEPT !.max = 2, !.wrote = TRUE, !.reads = {12},
        !.in = <<<<5, 0>>, "disk35">>, !.sides = {64}, !.on = "motor",
        !.writes = {<<8, 0>>, <<13, 0>>} \cup ({15} \X {151})]
    BY <1>4 DEF P, Program
  <2>2. P.reads = {12} /\ P.writes = {<<8, 0>>, <<13, 0>>} \cup ({15} \X {151})
        /\ P.sides = {64} /\ P.inserts = {}
        /\ P.ejects = {} /\ P.in = <<<<5, 0>>, "disk35">> /\ P.on = "motor" /\ P.wrote = TRUE
    BY <2>1 DEF Quiet
  <2>3. \A w \in P.writes : w[1] \in 0 .. 15
    BY <2>2
  <2>4. P.in # << >> /\ P.in[1] = <<5, 0>>
    BY <2>2
  <2> QED BY <2>2, <2>3, <2>4, SomeDrives DEF Legal
<1>5. CASE focus = "seek525"
  <2>1. P = [Quiet EXCEPT !.writes = (0 .. 9) \X {0}, !.in = <<<<6, 0>>, "apple">>]
    BY <1>5 DEF P, Program
  <2>2. P.reads = {} /\ P.writes = (0 .. 9) \X {0} /\ P.sides = {} /\ P.inserts = {}
        /\ P.ejects = {} /\ P.in = <<<<6, 0>>, "apple">> /\ P.on = "off" /\ P.wrote = FALSE
    BY <2>1 DEF Quiet
  <2>3. \A w \in P.writes : w[1] \in 0 .. 15
    BY <2>2
  <2>4. P.in # << >> /\ P.in[1] = <<6, 0>>
    BY <2>2
  <2> QED BY <2>2, <2>3, <2>4, SomeDrives DEF Legal
<1>6. CASE focus = "seek35"
  <2>1. P = [Quiet EXCEPT !.vbls = FALSE, !.reads = {14}, !.sides = {64, 192},
        !.in = <<<<5, 0>>, "disk35">>, !.writes = ((0 .. 7) \cup {9, 13}) \X {0}, !.q6 = {1}]
    BY <1>6 DEF P, Program
  <2>2. P.reads = {14} /\ P.writes = ((0 .. 7) \cup {9, 13}) \X {0} /\ P.sides = {64, 192}
        /\ P.inserts = {}
        /\ P.ejects = {} /\ P.in = <<<<5, 0>>, "disk35">> /\ P.on = "off" /\ P.wrote = FALSE
    BY <2>1 DEF Quiet
  <2>3. \A w \in P.writes : w[1] \in 0 .. 15
    BY <2>2
  <2>4. P.in # << >> /\ P.in[1] = <<5, 0>>
    BY <2>2
  <2> QED BY <2>2, <2>3, <2>4, SomeDrives DEF Legal
<1>7. CASE focus = "slow"
  <2>1. P = [Quiet EXCEPT !.reads = {12}, !.fast = FALSE, !.gaps = {32, 43, 76}, !.vbls = FALSE,
        !.in = <<<<6, 0>>, "apple">>, !.on = "motor"]
    BY <1>7 DEF P, Program
  <2>2. P.reads = {12} /\ P.writes = {} /\ P.sides = {} /\ P.inserts = {}
        /\ P.ejects = {} /\ P.in = <<<<6, 0>>, "apple">> /\ P.on = "motor" /\ P.wrote = FALSE
    BY <2>1 DEF Quiet
  <2>4. P.in # << >> /\ P.in[1] = <<6, 0>>
    BY <2>2
  <2> QED BY <2>2, <2>4, SomeDrives DEF Legal
<1>8. CASE focus = "late"
  <2>1. P = [Quiet EXCEPT !.fast = FALSE, !.gaps = {32, 43}, !.vbls = FALSE, !.max = 4,
        !.in = <<<<6, 0>>, "apple">>, !.on = "motor",
        !.writes = {<<13, 0>>, <<15, 1>>, <<15, 150>>}]
    BY <1>8 DEF P, Program
  <2>2. P.reads = {} /\ P.writes = {<<13, 0>>, <<15, 1>>, <<15, 150>>} /\ P.sides = {}
        /\ P.inserts = {}
        /\ P.ejects = {} /\ P.in = <<<<6, 0>>, "apple">> /\ P.on = "motor" /\ P.wrote = FALSE
    BY <2>1 DEF Quiet
  <2>3. \A w \in P.writes : w[1] \in 0 .. 15
    BY <2>2
  <2>4. P.in # << >> /\ P.in[1] = <<6, 0>>
    BY <2>2
  <2> QED BY <2>2, <2>3, <2>4, SomeDrives DEF Legal
<1>9. CASE focus = "swap"
  <2>1. P = [Quiet EXCEPT !.wrote = TRUE, !.in = <<<<6, 0>>, "apple">>, !.on = "motor",
        !.writes = {<<8, 0>>, <<9, 0>>, <<13, 0>>, <<15, 151>>},
        !.inserts = {<<<<6, 0>>, "absent", 0, FALSE>>, <<<<6, 0>>, "other", 0, FALSE>>, <<<<6, 1>>, "apple", 0, FALSE>>, <<<<6, 1>>, "apple", 0, TRUE>>},
        !.ejects = {<<6, 0>>}]
    BY <1>9 DEF P, Program
  <2>2. P.reads = {} /\ P.writes = {<<8, 0>>, <<9, 0>>, <<13, 0>>, <<15, 151>>} /\ P.sides = {}
        /\ P.inserts = {<<<<6, 0>>, "absent", 0, FALSE>>, <<<<6, 0>>, "other", 0, FALSE>>, <<<<6, 1>>, "apple", 0, FALSE>>, <<<<6, 1>>, "apple", 0, TRUE>>}
        /\ P.ejects = {<<6, 0>>} /\ P.in = <<<<6, 0>>, "apple">> /\ P.on = "motor"
              /\ P.wrote = TRUE
    BY <2>1 DEF Quiet
  <2>3. \A w \in P.writes : w[1] \in 0 .. 15
    BY <2>2
  <2>4. P.in # << >> /\ P.in[1] = <<6, 0>>
    BY <2>2
  <2> QED BY <2>2, <2>3, <2>4, SomeDrives DEF Legal
<1>10. CASE focus = "over"
  <2>1. P = [Quiet EXCEPT !.wrote = TRUE, !.in = <<<<6, 0>>, "apple">>, !.on = "motor",
        !.writes = {<<8, 0>>}, !.inserts = {<<<<6, 0>>, "other", 0, FALSE>>}]
    BY <1>10 DEF P, Program
  <2>2. P.reads = {} /\ P.writes = {<<8, 0>>} /\ P.sides = {}
        /\ P.inserts = {<<<<6, 0>>, "other", 0, FALSE>>}
        /\ P.ejects = {} /\ P.in = <<<<6, 0>>, "apple">> /\ P.on = "motor" /\ P.wrote = TRUE
    BY <2>1 DEF Quiet
  <2>3. \A w \in P.writes : w[1] \in 0 .. 15
    BY <2>2
  <2>4. P.in # << >> /\ P.in[1] = <<6, 0>>
    BY <2>2
  <2> QED BY <2>2, <2>3, <2>4, SomeDrives DEF Legal
<1>11. CASE focus = "hard"
  <2>1. P = [Quiet EXCEPT !.vbls = FALSE,
        !.inserts = {<<<<7, 0>>, "hard", 1, FALSE>>, <<<<7, 0>>, "hard", 3, FALSE>>, <<<<7, 1>>, "hard", 2, FALSE>>, <<<<7, 1>>, "locked", 0, FALSE>>, <<<<7, 2>>, "hard", 0, FALSE>>},
        !.ejects = {<<7, 0>>}]
    BY <1>11 DEF P, Program
  <2>2. P.reads = {} /\ P.writes = {} /\ P.sides = {}
        /\ P.inserts = {<<<<7, 0>>, "hard", 1, FALSE>>, <<<<7, 0>>, "hard", 3, FALSE>>, <<<<7, 1>>, "hard", 2, FALSE>>, <<<<7, 1>>, "locked", 0, FALSE>>, <<<<7, 2>>, "hard", 0, FALSE>>}
        /\ P.ejects = {<<7, 0>>} /\ P.in = << >> /\ P.on = "off" /\ P.wrote = FALSE
    BY <2>1 DEF Quiet
  <2> QED BY <2>2, SomeDrives DEF Legal
<1>12. CASE focus = "speed"
  <2>1. P = [Quiet EXCEPT !.in = <<<<6, 0>>, "apple">>, !.sides = {0, 64}, !.vbls = FALSE,
        !.gaps = {70}, !.on = "write", !.writes = {<<8, 0>>, <<9, 0>>, <<13, 0>>, <<15, 150>>}]
    BY <1>12 DEF P, Program
  <2>2. P.reads = {} /\ P.writes = {<<8, 0>>, <<9, 0>>, <<13, 0>>, <<15, 150>>}
        /\ P.sides = {0, 64} /\ P.inserts = {}
        /\ P.ejects = {} /\ P.in = <<<<6, 0>>, "apple">> /\ P.on = "write" /\ P.wrote = FALSE
    BY <2>1 DEF Quiet
  <2>3. \A w \in P.writes : w[1] \in 0 .. 15
    BY <2>2
  <2>4. P.in # << >> /\ P.in[1] = <<6, 0>>
    BY <2>2
  <2> QED BY <2>2, <2>3, <2>4, SomeDrives DEF Legal
<1>13. CASE focus = "zip"
  <2>1. P = [Quiet EXCEPT !.vbls = FALSE]
    BY <1>13 DEF P, Program
  <2> QED BY <2>1 DEF Quiet, Legal
<1>14. CASE focus = "clock"
  <2>1. P = [Quiet EXCEPT !.vbls = FALSE]
    BY <1>14 DEF P, Program
  <2> QED BY <2>1 DEF Quiet, Legal
<1>15. CASE focus = "boot"
  <2>1. P = Quiet
    BY <1>15 DEF P, Program
  <2> QED BY <2>1 DEF Quiet, Legal
<1>16. CASE focus = "refused"
  <2>1. P = [Quiet EXCEPT !.wrote = TRUE, !.in = <<<<6, 0>>, "full">>, !.on = "motor",
        !.writes = {<<8, 0>>, <<9, 0>>, <<13, 0>>, <<15, 151>>},
        !.inserts = {<<<<6, 0>>, "full", 0, FALSE>>}, !.ejects = {<<6, 0>>}]
    BY <1>16 DEF P, Program
  <2>2. P.reads = {} /\ P.writes = {<<8, 0>>, <<9, 0>>, <<13, 0>>, <<15, 151>>} /\ P.sides = {}
        /\ P.inserts = {<<<<6, 0>>, "full", 0, FALSE>>}
        /\ P.ejects = {<<6, 0>>} /\ P.in = <<<<6, 0>>, "full">> /\ P.on = "motor" /\ P.wrote = TRUE
    BY <2>1 DEF Quiet
  <2>3. \A w \in P.writes : w[1] \in 0 .. 15
    BY <2>2
  <2>4. P.in # << >> /\ P.in[1] = <<6, 0>>
    BY <2>2
  <2> QED BY <2>2, <2>3, <2>4, SomeDrives DEF Legal
<1> QED BY <1>1, <1>2, <1>3, <1>4, <1>5, <1>6, <1>7, <1>8, <1>9, <1>10, <1>11, <1>12, <1>13,
           <1>14, <1>15, <1>16

\* A machine without disks, and the disk a program finds in a drive.
LEMMA EmptyIsGood ==
  ASSUME NEW fast, NEW m, m = Empty(fast, Contents)
  PROVE  Good(m) /\ Alone(m.drv)
<1> DEFINE e == [motor |-> FALSE, slow |-> FALSE, left |-> -1, fake |-> FALSE, fast |-> fast]
           k == iwm_init_drive
           drives == [d \in Drives |-> k]
           o == [iwm |-> Blank, emul |-> e, c031 |-> 0, drv |-> drives, files |-> Contents,
                 halt |-> FALSE, gone |-> FALSE]
<1>1. m = iwm_reset(o)
  BY DEF Empty
<1>2. Paced(e)
  BY DEF Paced
<1>3. NoFile \notin DOMAIN Contents
  BY DEF Contents, NoFile
<1>4. DrivesFit(drives) /\ Alone(drives)
  <2>1. /\ DOMAIN k = {"file", "name", "part", "start", "size", "track", "type", "vol", "prot",
                       "through", "dirty", "ejected", "pos", "trks", "elapsed"}
        /\ k.through = FALSE /\ k.dirty = FALSE /\ k.file = NoFile /\ k.name = NoFile
        /\ k.track = 0 /\ k.trks = << >>
    BY DEF iwm_init_drive
  <2> HIDE DEF k
  <2>2. DOMAIN k.trks = {}
    BY <2>1
  <2>3. ASSUME NEW d \in Drives PROVE Fit(k, d)
    <3>1. Held(k, d)
      BY <2>1 DEF Held
    <3>2. Tracked(k, d)
      BY <2>1, <2>2 DEF Tracked, Laden
    <3>3. Marked(k)
      BY <2>1 DEF Marked
    <3> QED BY <3>1, <3>2, <3>3 DEF Fit
  <2> QED BY <2>1, <2>3 DEF DrivesFit, Alone
<1> HIDE DEF e, drives
<1>5. /\ Rec(o) /\ o.emul = e /\ o.halt = FALSE /\ o.drv = drives /\ o.files = Contents
  BY DEF Rec
<1> HIDE DEF o
<1> QED BY <1>1, <1>2, <1>3, <1>4, <1>5, Resets

LEMMA Rewrites ==
  ASSUME NEW m, Good(m), NEW d \in Drives, ~IsSmartPort(d), NEW n, n = Rewritten(m, d)
  PROVE  Step(m, n)
<1> DEFINE k == m.drv[d]
           other == (k.trks[0].at :> IF Is525(d) THEN Track525(3) ELSE Track35(77))
           s == disk_unix_to_nib(k, d, other, 0, k.trks[0].at)
           t == Overwritten(s)
           l == [k EXCEPT !.dirty = TRUE, !.trks[0] = t]
<1>1. n = [m EXCEPT !.drv[d] = l]
  BY DEF Rewritten
<1>2. Held(k, d) /\ Tracked(k, d)
  BY DEF Good, DrivesFit, Fit
<1>3. Surface(t)
  <2>1. Surface(s)
    BY TracksComeClean
  <2> HIDE DEF s
  <2>2. t = [s EXCEPT !.dirty = (TrackLen(s) # 0)]
    BY DEF Overwritten
  <2> HIDE DEF t
  <2>3. DOMAIN t = DOMAIN s /\ t.nib = s.nib /\ t.dirty = (TrackLen(s) # 0)
    BY <2>1, <2>2 DEF Surface, Area
  <2> QED BY <2>1, <2>3 DEF Surface, Area, TrackLen
<1> HIDE DEF t
<1>4. /\ DOMAIN l = DOMAIN k /\ l.name = k.name /\ l.part = k.part /\ l.file = k.file
      /\ l.track = k.track /\ l.through = k.through /\ l.dirty = TRUE
      /\ l.trks = [k.trks EXCEPT ![0] = t]
  BY <1>2 DEF Held
<1> HIDE DEF l
<1>5. Tracked(l, d)
  <2>1. CASE k.trks = << >>
    <3>1. DOMAIN k.trks = {}
      BY <2>1
    <3>2. l.trks = << >> /\ DOMAIN l.trks = {}
      BY <1>4, <2>1, <3>1
    <3> QED BY <1>2, <1>4, <3>2 DEF Tracked, Laden
  <2>2. CASE k.trks # << >>
    <3>1. DOMAIN l.trks = DOMAIN k.trks /\ \A q \in DOMAIN k.trks : q = 0 \/ l.trks[q] = k.trks[q]
      BY <1>4
    <3>2. 0 \in DOMAIN k.trks => l.trks[0] = t
      BY <1>4
    <3> HIDE DEF k
    <3>3. \A q \in DOMAIN l.trks : Surface(l.trks[q])
      BY <1>2, <1>3, <3>1, <3>2 DEF Tracked, Laden
    <3> QED BY <1>2, <1>4, <2>2, <3>1, <3>3 DEF Tracked, Laden
  <2> QED BY <2>1, <2>2
<1>6. Fit(l, d) /\ Holds(k, l)
  BY <1>2, <1>4, <1>5 DEF Fit, Held, Marked, Holds
<1> QED BY <1>1, <1>6, DriveStep

LEMMA Starts ==
  ASSUME NEW m, Good(m), Legal(P), NEW n, n = Started(m)
  PROVE  Step(m, n)
<1>1. CASE n = m
  BY <1>1, StepStutters
<1>2. CASE n = MotorOn(m)
  BY <1>2, MotorsStep
<1>3. CASE n = [m EXCEPT !.iwm.q6 = 1, !.iwm.q7 = 1]
  <2> DEFINE i == [m.iwm EXCEPT !.q6 = 1, !.q7 = 1]
  <2>1. n = [m EXCEPT !.iwm = i]
    BY <1>3 DEF Good, Rec
  <2>2. Regs(i)
    BY DEF Good, Regs
  <2> HIDE DEF i
  <2> QED BY <2>1, <2>2, RegisterSteps
<1>4. P.on = "off" \/ P.on = "motor" \/ P.on = "write"
  BY DEF Legal
<1> QED BY <1>1, <1>2, <1>3, <1>4 DEF Started

-----------------------------------------------------------------------------
(* The state of a behaviour.                                               *)

Switches(s) ==
  /\ DOMAIN s = {"fast", "detect", "follow", "zip", "zip_en", "unlock", "limit"}
  /\ s.fast \in BOOLEAN /\ s.follow \in BOOLEAN /\ s.zip_en \in BOOLEAN
  /\ s.unlock \in Nat /\ s.limit \in 0 .. 3

Inv ==
  /\ focus \in Foci
  /\ Good(Machine) /\ Alone(drv)
  /\ Switches(speed)
  /\ DOMAIN run = {"inside", "mult", "follow"}
  /\ SpeedIsCurrent

\* What a step may do to the files (LockedStaysAsItIs).
OnlyUnlocked ==
  \A f \in DOMAIN files : files'[f] # files[f] =>
    \E d \in Drives : drv[d].file = f /\ CanWrite(d, Images[f])

\* The speed is made of these, and of the count of c05a and the number of c05d
\* only where the limit has decided already.
SamePace(m, n) ==
  /\ n.emul.motor = m.emul.motor /\ n.emul.slow = m.emul.slow /\ n.emul.fast = m.emul.fast
  /\ Sel35(n) = Sel35(m)
SameSwitches(s, t) ==
  /\ t.fast = s.fast /\ t.detect = s.detect /\ t.follow = s.follow /\ t.zip_en = s.zip_en
  /\ t.limit = s.limit

LEMMA SpeedDepends ==
  ASSUME NEW m, NEW n, SamePace(m, n), NEW s, NEW t, SameSwitches(s, t), s.limit \in 0 .. 3
  PROVE  SpeedOf(n, t) = SpeedOf(m, s)
<1> DEFINE fast(r) == r.fast \/ (r.zip_en /\ ~r.follow)
           iwm_1(k, r) == /\ k.emul.motor /\ ~Sel35(k) /\ BitOf(r.detect, 2) = 1
                          /\ (k.emul.slow \/ ~k.emul.fast)
           iwm_25(k) == k.emul.motor /\ Sel35(k) /\ ~k.emul.fast
           above(k, r) == fast(r) /\ ~iwm_1(k, r) /\ ~iwm_25(k) /\ r.zip_en /\ r.limit \in {0, 3}
           zips(k, r) == above(k, r) /\ (r.zip # 0 \/ r.limit = 3 \/ r.unlock >= ZipOn)
           full(k, r) == fast(r) /\ ~iwm_1(k, r) /\ r.limit # 1
           told(k, r) == IF above(k, r) THEN IF r.limit = 0 THEN "unlimited" ELSE "zip"
                         ELSE IF full(k, r) THEN "fast" ELSE "slow"
<1>1. /\ fast(t) = fast(s) /\ iwm_1(n, t) = iwm_1(m, s) /\ iwm_25(n) = iwm_25(m)
  BY DEF SamePace, SameSwitches
<1>2. above(n, t) = above(m, s) /\ full(n, t) = full(m, s)
  BY <1>1 DEF SameSwitches
<1>3. told(n, t) = told(m, s)
  BY <1>2 DEF SameSwitches
<1>4. ASSUME NEW k, NEW r, r.limit \in 0 .. 3 PROVE SpeedOf(k, r) = told(k, r)
  <2>1. SpeedOf(k, r) =
          CASE r.limit = 0 /\ above(k, r) -> "unlimited"
            [] r.limit # 0 /\ zips(k, r) -> "zip"
            [] ~(r.limit = 0 /\ above(k, r)) /\ ~zips(k, r) /\ full(k, r) -> "fast"
            [] OTHER -> "slow"
    BY DEF SpeedOf
  <2>2. above(k, r) => r.limit = 0 \/ (r.limit # 0 /\ zips(k, r))
    OBVIOUS
  <2>3. zips(k, r) => above(k, r)
    OBVIOUS
  <2> HIDE DEF above, zips, full
  <2> QED BY <2>1, <2>2, <2>3
<1> HIDE DEF told
<1> QED BY <1>3, <1>4 DEF SameSwitches

\* A file that is written through may be written.
LEMMA OnlyUnlockedFiles ==
  ASSUME Good(Machine), NEW n, WritesThrough(Machine, n), files' = n.files
  PROVE  OnlyUnlocked
<1> SUFFICES ASSUME NEW f \in DOMAIN files, files'[f] # files[f]
             PROVE  \E d \in Drives : drv[d].file = f /\ CanWrite(d, Images[f])
  BY DEF OnlyUnlocked
<1>1. PICK d \in Drives : drv[d].file = f /\ drv[d].through
  BY DEF WritesThrough, Machine
<1>2. f # NoFile
  BY DEF Good, Machine
<1>3. Held(drv[d], d)
  BY DEF Good, DrivesFit, Fit, Machine
<1> QED BY <1>1, <1>2, <1>3 DEF Held

LEMMA GoodNext ==
  ASSUME NEW n, Good(n), Becomes(n)
  PROVE  Good(Machine)'
<1>1. /\ Machine.iwm' = n.iwm /\ Machine.emul' = n.emul /\ Machine.c031' = n.c031
      /\ Machine.drv' = n.drv /\ Machine.files' = n.files /\ Machine.halt' = n.halt
      /\ Rec(Machine)'
  BY DEF Becomes, Machine, Rec
<1> QED BY <1>1 DEF Good

\* A step of the machine, whether the engine runs or not.
LEMMA Turns ==
  ASSUME Inv, NEW n, Step(Machine, n), Becomes(n), UNCHANGED <<speed, run, focus>>
  PROVE  Inv' /\ OnlyUnlocked
<1>1. Good(n) /\ WritesThrough(Machine, n) /\ KeepsPace(Machine, n)
  BY DEF Step
<1>2. Good(Machine)'
  BY <1>1, GoodNext
<1>3. Alone(drv)'
  <2>1. Alone(Machine.drv)
    BY DEF Inv, Machine
  <2>2. Alone(n.drv)
    BY <2>1, StepLeavesAlone
  <2> QED BY <2>2 DEF Becomes
<1>4. OnlyUnlocked
  BY <1>1, OnlyUnlockedFiles DEF Inv, Becomes
<1>5. SpeedIsCurrent'
  <2> SUFFICES ASSUME run.inside, ~n.halt
               PROVE  run.mult = SpeedOf(Machine', [speed EXCEPT !.follow = run.follow])
    BY DEF SpeedIsCurrent, Becomes
  <2> DEFINE s == [speed EXCEPT !.follow = run.follow]
  <2>1. ~halt /\ SamePace(Machine, n)
    BY <1>1 DEF KeepsPace, SamePace, Machine
  <2>2. SamePace(Machine, Machine')
    BY <2>1 DEF SamePace, Becomes, Machine, Sel35
  <2>3. s.limit \in 0 .. 3 /\ SameSwitches(s, s)
    BY DEF Inv, Switches, SameSwitches
  <2> HIDE DEF s
  <2>4. SpeedOf(Machine', s) = SpeedOf(Machine, s)
    BY <2>2, <2>3, SpeedDepends
  <2> QED BY <2>1, <2>4 DEF Inv, SpeedIsCurrent, s
<1> QED BY <1>2, <1>3, <1>4, <1>5 DEF Inv

\* What happens between two runs of the engine.
LEMMA Rests ==
  ASSUME Inv, ~run.inside, NEW n, Good(n), WritesThrough(Machine, n), Alone(n.drv), Becomes(n),
         UNCHANGED <<speed, run, focus>>
  PROVE  Inv' /\ OnlyUnlocked
<1>1. Good(Machine)'
  BY GoodNext
<1>2. OnlyUnlocked
  BY OnlyUnlockedFiles DEF Inv, Becomes
<1>3. Alone(drv)' /\ SpeedIsCurrent'
  BY DEF Becomes, SpeedIsCurrent
<1> QED BY <1>1, <1>2, <1>3 DEF Inv

LEMMA Stands ==
  ASSUME Inv, UNCHANGED <<diskVars, speedVars, focus>>
  PROVE  Inv' /\ OnlyUnlocked
<1>1. Machine' = Machine
  BY DEF diskVars, Machine
<1>2. SpeedIsCurrent'
  BY <1>1 DEF Inv, SpeedIsCurrent, diskVars, speedVars
<1> QED BY <1>1, <1>2 DEF Inv, diskVars, speedVars, OnlyUnlocked

-----------------------------------------------------------------------------
(* The actions.                                                            *)

LEMMA ReadsKeep ==
  ASSUME Inv, GuestReads
  PROVE  Inv' /\ OnlyUnlocked
<1>1. PICK loc \in P.reads, gap \in P.gaps : ReadIwm(loc, gap)
  BY DEF GuestReads, Disk, Quietly, Guest
<1> DEFINE o == Later(Machine, gap)
<1>2. PICK g \in Garbage, any \in {0, 1} :
        \E r \in {read_iwm(o, loc, any, g)} : Becomes(r.m)
  BY <1>1 DEF ReadIwm
<1> DEFINE n == read_iwm(o, loc, any, g).m
<1>3. Becomes(n)
  BY <1>2
<1>4. loc \in 0 .. 15
  BY ProgramsAreLegal DEF Legal, Inv
<1>5. Step(Machine, o)
  BY LaterSteps DEF Inv
<1> HIDE DEF o
<1>6. Good(o)
  BY <1>5 DEF Step
<1>7. Step(o, n)
  BY <1>4, <1>6, ReadSteps
<1> HIDE DEF n
<1>8. Step(Machine, n)
  BY <1>5, <1>7, StepsCompose DEF Inv
<1>9. UNCHANGED <<speed, run, focus>>
  BY DEF GuestReads, Disk, Quietly, Guest, speedVars
<1> QED BY <1>3, <1>8, <1>9, Turns

LEMMA WritesKeep ==
  ASSUME Inv, GuestWrites
  PROVE  Inv' /\ OnlyUnlocked
<1>1. PICK w \in P.writes, gap \in P.gaps : Disk(Guest(WriteIwm(w[1], w[2], gap)))
  BY DEF GuestWrites
<1> DEFINE o == Later(Machine, gap)
<1>2. PICK g \in Garbage : \E m \in {write_iwm(o, w[1], w[2], g)} : Becomes(m)
  BY <1>1 DEF Disk, Quietly, Guest, WriteIwm
<1> DEFINE n == write_iwm(o, w[1], w[2], g)
<1>3. Becomes(n)
  BY <1>2
<1>4. w[1] \in 0 .. 15
  BY ProgramsAreLegal DEF Legal, Inv
<1>5. Step(Machine, o)
  BY LaterSteps DEF Inv
<1> HIDE DEF o
<1>6. Good(o)
  BY <1>5 DEF Step
<1>7. Step(o, n)
  BY <1>4, <1>6, WriteSteps
<1> HIDE DEF n
<1>8. Step(Machine, n)
  BY <1>5, <1>7, StepsCompose DEF Inv
<1>9. UNCHANGED <<speed, run, focus>>
  BY <1>1 DEF Disk, Quietly, Guest, speedVars
<1> QED BY <1>3, <1>8, <1>9, Turns

\* The bit of c031 that says which drives are selected is kept.
LEMMA KindIsKept ==
  ASSUME NEW val \in Nat
  PROVE  Kind35(64 * ((val \div 64) % 4)) = Kind35(val)
<1> DEFINE x == val \div 64
<1>1. x \in Nat
  OBVIOUS
<1> HIDE DEF x
<1>2. (64 * (x % 4)) \div 64 = x % 4 /\ (x % 4) % 2 = x % 2
  BY <1>1
<1> QED BY <1>2 DEF Kind35, x

LEMMA SelectsKeep ==
  ASSUME Inv, GuestSelects
  PROVE  Inv' /\ OnlyUnlocked
<1>1. PICK val \in P.sides : WriteC031(val)
  BY DEF GuestSelects, Disk, Quietly, Guest
<1>2. val \in Nat
  BY ProgramsAreLegal DEF Legal, Inv
<1> DEFINE side == 64 * ((val \div 64) % 4)
           h == halt \/ Kind35(val) # Kind35(c031)
           n == [Machine EXCEPT !.c031 = side, !.halt = h]
<1>3. Kind35(side) = Kind35(val)
  BY <1>2, KindIsKept
<1>4. h \in BOOLEAN
  OBVIOUS
<1>5. ~h => Kind35(side) = Kind35(c031)
  BY <1>3
<1>6. ~h => ~halt
  OBVIOUS
<1>7. c031' = side /\ halt' = h /\ UNCHANGED <<iwm, emul, drv, files, gone>>
  BY <1>1 DEF WriteC031
<1> HIDE DEF side, h
<1>8. /\ Rec(n) /\ n.iwm = iwm /\ n.emul = emul /\ n.drv = drv /\ n.files = files /\ n.halt = h
      /\ n.c031 = side /\ n.gone = gone
  BY DEF Machine, Rec
<1>9. Becomes(n)
  BY <1>7, <1>8 DEF Becomes
<1> HIDE DEF n
<1>10. KeepsPace(Machine, n)
  BY <1>5, <1>6, <1>8 DEF KeepsPace, Sel35, Machine
<1>11. Step(Machine, n)
  BY <1>4, <1>8, <1>10, RegistersStep DEF Inv, Good, Machine
<1>12. UNCHANGED <<speed, run, focus>>
  BY DEF GuestSelects, Disk, Quietly, Guest, speedVars
<1> QED BY <1>9, <1>11, <1>12, Turns

\* A register of the speed changes: HALT_EVENT comes with it, or the speed is
\* the same.
LEMMA Switched ==
  ASSUME Inv, NEW s, NEW raise \in BOOLEAN, Switch(s, raise), focus' = focus, Switches(s),
         raise \/ SameSwitches([speed EXCEPT !.follow = run.follow], [s EXCEPT !.follow = run.follow])
  PROVE  Inv' /\ OnlyUnlocked
<1>1. /\ UNCHANGED <<iwm, emul, c031, drv, files, gone, run>> /\ speed' = s
      /\ halt' = (halt \/ raise)
  BY DEF Switch
<1>2. halt \in BOOLEAN
  BY DEF Inv, Good, Machine
<1>3. Good(Machine)'
  BY <1>1, <1>2 DEF Inv, Good, Machine, Rec
<1>4. Alone(drv)' /\ OnlyUnlocked
  BY <1>1 DEF Inv, OnlyUnlocked
<1>5. SpeedIsCurrent'
  <2> DEFINE t == [speed EXCEPT !.follow = run.follow]
             u == [s EXCEPT !.follow = run.follow]
  <2> SUFFICES ASSUME run.inside, ~halt, ~raise
               PROVE  run.mult = SpeedOf(Machine', u)
    BY <1>1 DEF SpeedIsCurrent
  <2>1. SamePace(Machine, Machine')
    BY <1>1 DEF SamePace, Machine, Sel35
  <2>2. t.limit \in 0 .. 3
    BY DEF Inv, Switches
  <2>3. SameSwitches(t, u)
    OBVIOUS
  <2>4. run.mult = SpeedOf(Machine, t)
    BY DEF Inv, SpeedIsCurrent
  <2> HIDE DEF t, u
  <2>5. SpeedOf(Machine', u) = SpeedOf(Machine, t)
    BY <2>1, <2>2, <2>3, SpeedDepends
  <2> QED BY <2>4, <2>5
<1> QED BY <1>1, <1>3, <1>4, <1>5 DEF Inv

\* Writes of c036 and of the Zip's registers.
LEMMA SpeedKeeps ==
  ASSUME Inv, GuestSpeed \/ GuestZip
  PROVE  Inv' /\ OnlyUnlocked
<1> DEFINE f == run.follow
           t == [speed EXCEPT !.follow = f]
<1>1. focus' = focus
  BY DEF GuestSpeed, GuestZip, Disk, Quietly
<1>2. Switches(speed)
  BY DEF Inv
<1>3. ASSUME NEW fast \in BOOLEAN, NEW detect, WriteC036(fast, detect)
      PROVE  Inv' /\ OnlyUnlocked
  <2> DEFINE s == [speed EXCEPT !.fast = fast, !.detect = detect]
             raise == fast # speed.fast \/ detect # speed.detect
  <2>1. Switch(s, raise)
    BY <1>3 DEF WriteC036
  <2>2. Switches(s)
    BY <1>2 DEF Switches
  <2>3. raise \/ SameSwitches(t, [s EXCEPT !.follow = f])
    BY <1>2 DEF Switches, SameSwitches
  <2>4. raise \in BOOLEAN
    OBVIOUS
  <2> HIDE DEF s, raise
  <2> QED BY <1>1, <2>1, <2>2, <2>3, <2>4, Switched
<1>4. ASSUME NEW s, Switches(s), Switch(s, FALSE), SameSwitches(t, [s EXCEPT !.follow = f])
      PROVE  Inv' /\ OnlyUnlocked
  BY <1>1, <1>4, Switched
<1>5. ASSUME NEW high, WriteC05a(high)
      PROVE  Inv' /\ OnlyUnlocked
  <2>1. CASE high = 5
    <3> DEFINE u == IF speed.unlock < ZipOn THEN speed.unlock + 1 ELSE speed.unlock
               s == [speed EXCEPT !.unlock = u]
    <3>1. Switch(s, FALSE)
      <4>1. high # 10 /\ high \in {5, 10}
        BY <2>1
      <4> QED BY <1>5, <2>1, <4>1, Zenon DEF WriteC05a
    <3>2. u \in Nat
      BY <1>2 DEF Switches
    <3> HIDE DEF u
    <3>3. Switches(s) /\ SameSwitches(t, [s EXCEPT !.follow = f])
      BY <1>2, <3>2 DEF Switches, SameSwitches
    <3> HIDE DEF s
    <3> QED BY <1>4, <3>1, <3>3
  <2>2. CASE high = 10
    <3> DEFINE s == [speed EXCEPT !.unlock = 0]
    <3>1. Switch(s, FALSE)
      <4>1. high # 5 /\ high \in {5, 10}
        BY <2>2
      <4> QED BY <1>5, <2>2, <4>1, Zenon DEF WriteC05a
    <3>2. Switches(s) /\ SameSwitches(t, [s EXCEPT !.follow = f])
      BY <1>2 DEF Switches, SameSwitches
    <3> HIDE DEF s
    <3> QED BY <1>4, <3>1, <3>2
  <2>3. CASE high \notin {5, 10}
    <3> DEFINE z == speed.zip_en /\ speed.unlock < ZipOn
               s == [speed EXCEPT !.zip_en = z]
               raise == speed.unlock >= ZipOn /\ speed.zip_en
    <3>1. Switch(s, raise)
      BY <1>2, <1>5, <2>3 DEF WriteC05a, Switches
    <3>2. z \in BOOLEAN /\ raise \in BOOLEAN
      OBVIOUS
    <3>3. raise \/ z = speed.zip_en
      BY <1>2 DEF Switches, ZipOn
    <3> HIDE DEF z, raise
    <3>4. Switches(s) /\ (raise \/ SameSwitches(t, [s EXCEPT !.follow = f]))
      BY <1>2, <3>2, <3>3 DEF Switches, SameSwitches
    <3> HIDE DEF s
    <3> QED BY <1>1, <3>1, <3>2, <3>4, Switched
  <2> QED BY <2>1, <2>2, <2>3
<1>6. ASSUME WriteC05b
      PROVE  Inv' /\ OnlyUnlocked
  <2> DEFINE s == [speed EXCEPT !.zip_en = TRUE]
             raise == ~speed.zip_en
  <2>1. Switch(s, raise)
    BY <1>6 DEF WriteC05b
  <2>2. raise \in BOOLEAN /\ (raise \/ speed.zip_en = TRUE)
    BY <1>2 DEF Switches
  <2> HIDE DEF raise
  <2>3. Switches(s) /\ (raise \/ SameSwitches(t, [s EXCEPT !.follow = f]))
    BY <1>2, <2>2 DEF Switches, SameSwitches
  <2> HIDE DEF s
  <2> QED BY <1>1, <2>1, <2>2, <2>3, Switched
<1>7. ASSUME NEW high, WriteC05d(high)
      PROVE  Inv' /\ OnlyUnlocked
  <2> DEFINE s == [speed EXCEPT !.zip = high]
             raise == high # speed.zip /\ speed.zip_en
  <2>1. Switch(s, raise)
    BY <1>7 DEF WriteC05d
  <2>2. Switches(s) /\ SameSwitches(t, [s EXCEPT !.follow = f])
    BY <1>2 DEF Switches, SameSwitches
  <2>3. raise \in BOOLEAN
    BY <1>2 DEF Switches
  <2> HIDE DEF s, raise
  <2> QED BY <1>1, <2>1, <2>2, <2>3, Switched
<1>8. ASSUME NEW follow \in BOOLEAN, WriteC059(follow)
      PROVE  Inv' /\ OnlyUnlocked
  <2> DEFINE s == [speed EXCEPT !.follow = follow]
  <2>1. Switch(s, FALSE)
    BY <1>8 DEF WriteC059
  <2>2. Switches(s) /\ SameSwitches(t, [s EXCEPT !.follow = f])
    BY <1>2 DEF Switches, SameSwitches
  <2> HIDE DEF s
  <2> QED BY <1>4, <2>1, <2>2
<1>9. \/ \E fast \in BOOLEAN : \E detect : WriteC036(fast, detect)
      \/ \E high : WriteC05a(high) \/ WriteC05d(high)
      \/ WriteC05b
      \/ \E follow \in BOOLEAN : WriteC059(follow)
  BY DEF GuestSpeed, GuestZip, Disk, Quietly
<1> QED BY <1>3, <1>5, <1>6, <1>7, <1>8, <1>9

\* The user's keys.
LEMMA UserSpeedKeeps ==
  ASSUME Inv, UserSpeed
  PROVE  Inv' /\ OnlyUnlocked
<1>1. CASE Between(ToggleFast)
  <2> DEFINE e == [emul EXCEPT !.fast = ~emul.fast]
  <2>1. ~run.inside /\ emul' = e /\ UNCHANGED <<iwm, c031, drv, files, halt, gone, speed, run>>
    BY <1>1 DEF Between, ToggleFast, speedVars
  <2>2. Paced(e)
    BY DEF Inv, Good, Machine, Paced
  <2> HIDE DEF e
  <2>3. Good(Machine)'
    BY <2>1, <2>2 DEF Inv, Good, Machine, Rec
  <2>4. focus' = focus
    BY DEF UserSpeed, Disk, Quietly
  <2> QED BY <2>1, <2>3, <2>4 DEF Inv, OnlyUnlocked, SpeedIsCurrent
<1>2. CASE adb_increment_speed
  <2> DEFINE l == IF speed.limit = 3 THEN 0 ELSE speed.limit + 1
             s == [speed EXCEPT !.limit = l]
  <2>1. ~run.inside /\ speed' = s /\ UNCHANGED <<iwm, emul, c031, drv, files, halt, gone, run>>
    BY <1>2 DEF adb_increment_speed, iwmVars, diskVars, Inv, Switches
  <2>2. l \in 0 .. 3
    BY DEF Inv, Switches
  <2> HIDE DEF l
  <2>3. Switches(s)
    BY <2>2 DEF Inv, Switches
  <2> HIDE DEF s
  <2>4. Good(Machine)'
    BY <2>1 DEF Inv, Machine
  <2>5. focus' = focus
    BY DEF UserSpeed, Disk, Quietly
  <2> QED BY <2>1, <2>3, <2>4, <2>5 DEF Inv, OnlyUnlocked, SpeedIsCurrent
<1> QED BY <1>1, <1>2 DEF UserSpeed, Disk, Quietly

LEMMA ResetKeeps ==
  ASSUME Inv, UserReset
  PROVE  Inv' /\ OnlyUnlocked
<1>1. ~run.inside /\ UNCHANGED <<speed, run, focus>>
  BY DEF UserReset, Disk, Quietly, Between, speedVars
<1>2. PICK n \in {iwm_reset(Machine)} : Becomes(n)
  BY DEF UserReset, Disk, Quietly, Between, Reset
<1>3. Good(n) /\ n.drv = drv /\ n.files = files
  BY <1>2, Resets DEF Inv, Good, Machine
<1>4. WritesThrough(Machine, n) /\ Alone(n.drv)
  BY <1>3 DEF WritesThrough, Machine, Inv
<1> QED BY <1>1, <1>2, <1>3, <1>4, Rests

\* The user's disks, the VBLs and the end.
LEMMA InsertsKeep ==
  ASSUME Inv, UserInserts
  PROVE  Inv' /\ OnlyUnlocked
<1>1. PICK i \in P.inserts : Disk(Between(Insert(i[1], i[2], i[4], i[3]) /\ UNCHANGED bus))
  BY DEF UserInserts
<1>2. ~run.inside /\ UNCHANGED <<speed, run, focus>>
  BY <1>1 DEF Disk, Quietly, Between, speedVars
<1>3. PICK g \in Garbage :
        \E m \in {insert_disk(Machine, i[1], i[2], i[4], i[3], g)} : Becomes(m)
  BY <1>1 DEF Disk, Quietly, Between, Insert
<1> DEFINE n == insert_disk(Machine, i[1], i[2], i[4], i[3], g)
<1>4. Becomes(n)
  BY <1>3
<1>5. i[1] \in Drives /\ i[4] \in BOOLEAN
  BY ProgramsAreLegal DEF Legal, Inv
<1>6. Alone(Machine.drv)
  BY DEF Inv, Machine
<1>7. Good(n) /\ WritesThrough(Machine, n) /\ Alone(n.drv)
  BY <1>5, <1>6, Inserts DEF Inv
<1> HIDE DEF n
<1> QED BY <1>2, <1>4, <1>7, Rests

LEMMA EjectsKeep ==
  ASSUME Inv, UserEjects
  PROVE  Inv' /\ OnlyUnlocked
<1>1. PICK d \in P.ejects : Eject(d)
  BY DEF UserEjects, Disk, Quietly, Between
<1>2. PICK g \in Garbage : \E m \in {eject_disk(Machine, d, g)} : Becomes(m)
  BY <1>1 DEF Eject
<1> DEFINE n == eject_disk(Machine, d, g)
<1>3. Becomes(n)
  BY <1>2
<1>4. d \in Drives
  BY ProgramsAreLegal DEF Legal, Inv
<1>5. Step(Machine, n)
  BY <1>4, Ejects DEF Inv
<1> HIDE DEF n
<1>6. UNCHANGED <<speed, run, focus>>
  BY DEF UserEjects, Disk, Quietly, Between, speedVars
<1> QED BY <1>3, <1>5, <1>6, Turns

LEMMA VblKeeps ==
  ASSUME Inv, VblPasses
  PROVE  Inv' /\ OnlyUnlocked
<1> DEFINE o == Later(Machine, MaxElapsed)
<1>1. PICK g \in Garbage : \E m \in {iwm_vbl_update(o, odd, g)} : Becomes(m)
  BY DEF VblPasses, Quietly, Between, Vbl
<1> DEFINE n == iwm_vbl_update(o, odd, g)
<1>2. Becomes(n)
  BY <1>1
<1>3. Step(Machine, o)
  BY LaterSteps DEF Inv
<1> HIDE DEF o
<1>4. Good(o)
  BY <1>3 DEF Step
<1>5. Step(o, n)
  BY <1>4, VblSteps
<1> HIDE DEF n
<1>6. Step(Machine, n)
  BY <1>3, <1>5, StepsCompose DEF Inv
<1>7. UNCHANGED <<speed, run, focus>>
  BY DEF VblPasses, Quietly, Between, speedVars
<1> QED BY <1>2, <1>6, <1>7, Turns

LEMMA EndKeeps ==
  ASSUME Inv, Ends
  PROVE  Inv' /\ OnlyUnlocked
<1>1. PICK g \in Garbage : \E m \in {iwm_shut(Machine, g)} : Becomes([m EXCEPT !.gone = TRUE])
  BY DEF Ends, Shut
<1> DEFINE o == iwm_shut(Machine, g)
           n == [o EXCEPT !.gone = TRUE]
<1>2. Becomes(n)
  BY <1>1
<1>3. Step(Machine, o)
  BY AllEject DEF Inv
<1> HIDE DEF o
<1>4. /\ Rec(n) /\ n.iwm = o.iwm /\ n.emul = o.emul /\ n.c031 = o.c031 /\ n.drv = o.drv
      /\ n.files = o.files /\ n.halt = o.halt
  BY <1>3 DEF Step, Good, Rec
<1> HIDE DEF n
<1>5. KeepsPace(o, n)
  BY <1>3, <1>4 DEF Step, KeepsPace, Sel35, Good
<1>6. Step(o, n)
  BY <1>3, <1>4, <1>5, RegistersStep DEF Step, Good
<1>7. Step(Machine, n)
  BY <1>3, <1>6, StepsCompose DEF Inv
<1>8. UNCHANGED <<speed, run, focus>>
  BY DEF Ends, speedVars
<1> QED BY <1>2, <1>7, <1>8, Turns

\* The SmartPort writes to a file of one of its units.
WritesTo(after) ==
  \/ after = files
  \/ \E unit \in 0 .. Units - 1 : \E blocks :
       LET k == drv[<<7, unit>>]
       IN  k.through /\ k.file # NoFile /\ after = [files EXCEPT ![k.file] = blocks]

LEMMA SmartPortWrites ==
  ASSUME NEW unit \in Int, unit # Units, NEW blk,
         NEW r, r = do_read_c7(unit, blk) \/ r = do_write_c7(unit, blk) \/ r = do_format_c7(unit)
  PROVE  WritesTo(r.files)
<1> DEFINE k == drv[<<7, unit>>]
           block == (Position(unit, blk) :> buffer) @@ files[k.file]
           whole == [b \in {k.start + b : b \in 0 .. (k.size \div BlockBytes) - 1} |-> Zero] @@ files[k.file]
<1>1. \/ r.files = files
      \/ /\ unit \in 0 .. Units - 1 /\ k.through /\ k.file # NoFile
         /\ r.files = [files EXCEPT ![k.file] = block] \/ r.files = [files EXCEPT ![k.file] = whole]
  <2> HIDE DEF k, block, whole
  <2>1. CASE r = do_read_c7(unit, blk)
    BY <2>1 DEF do_read_c7, Fails
  <2>2. CASE r = do_write_c7(unit, blk)
    BY <2>2, DisksAssumption DEF do_write_c7, Fails, k, block
  <2>3. CASE r = do_format_c7(unit)
    BY <2>3, DisksAssumption DEF do_format_c7, Fails, k, whole
  <2> QED BY <2>1, <2>2, <2>3
<1> HIDE DEF block, whole
<1> QED BY <1>1 DEF WritesTo

\* Such a step leaves the engine alone.
LEMMA SmartPortKeeps ==
  ASSUME Inv, WritesTo(files'), UNCHANGED <<iwm, emul, c031, drv, halt, speed, run, focus>>
  PROVE  Inv' /\ OnlyUnlocked
<1>1. DOMAIN files' = DOMAIN files
  BY DEF WritesTo
<1>2. Good(Machine)'
  BY <1>1 DEF Inv, Good, Machine, Rec
<1>3. WritesThrough(Machine, Machine')
  <2> SUFFICES ASSUME NEW f \in DOMAIN files, files'[f] # files[f]
               PROVE  \E d \in Drives : drv[d].file = f /\ drv[d].through
    BY <1>1 DEF WritesThrough, Machine
  <2>1. PICK unit \in 0 .. Units - 1 : drv[<<7, unit>>].through /\ drv[<<7, unit>>].file = f
    BY DEF WritesTo
  <2>2. <<7, unit>> \in Drives
    BY DEF Drives
  <2> QED BY <2>1, <2>2
<1>4. files' = Machine'.files
  BY DEF Machine
<1>5. OnlyUnlocked
  BY <1>3, <1>4, OnlyUnlockedFiles DEF Inv
<1>6. SpeedIsCurrent'
  <2>1. SamePace(Machine, Machine')
    BY DEF SamePace, Machine, Sel35
  <2> DEFINE s == [speed EXCEPT !.follow = run.follow]
  <2>2. s.limit \in 0 .. 3 /\ SameSwitches(s, s)
    BY DEF Inv, Switches, SameSwitches
  <2> HIDE DEF s
  <2>3. SpeedOf(Machine', s) = SpeedOf(Machine, s)
    BY <2>1, <2>2, SpeedDepends
  <2> QED BY <2>3 DEF Inv, SpeedIsCurrent, s
<1> QED BY <1>2, <1>5, <1>6 DEF Inv

LEMMA CallsWrite ==
  ASSUME NEW cmd \in {"status", "read", "write", "control", "other", "format"}, NEW params,
         NEW unit \in 0 .. Units + 1, NEW blk, do_c70d(cmd, params, unit, blk)
  PROVE  WritesTo(files') /\ UNCHANGED <<iwm, emul, c031, drv, halt>>
<1> DEFINE Quits == gone' = TRUE /\ UNCHANGED <<iwm, emul, c031, drv, files, halt, buffer, answer>>
           Stays == UNCHANGED diskVars
           Does(r) == \E x, y : Done(r, x, y)
           u == unit - 1
<1>1. ASSUME NEW r, Does(r), WritesTo(r.files)
      PROVE  WritesTo(files') /\ UNCHANGED <<iwm, emul, c031, drv, halt>>
  BY <1>1 DEF Done
<1>2. ASSUME NEW code, Does(Fails(code))
      PROVE  WritesTo(files') /\ UNCHANGED <<iwm, emul, c031, drv, halt>>
  <2>1. WritesTo(Fails(code).files)
    BY DEF Fails, WritesTo
  <2> HIDE DEF Does
  <2> QED BY <1>1, <1>2, <2>1
<1>3. ASSUME Quits \/ Stays
      PROVE  WritesTo(files') /\ UNCHANGED <<iwm, emul, c031, drv, halt>>
  BY <1>3 DEF diskVars, WritesTo
<1>4. ASSUME NEW code, Astray(code)
      PROVE  Quits \/ Does(Fails(code))
  BY <1>4 DEF Astray
<1>5. ASSUME u # Units, Does(do_read_c7(u, blk)) \/ Does(do_write_c7(u, blk)) \/ Does(do_format_c7(u))
      PROVE  WritesTo(files') /\ UNCHANGED <<iwm, emul, c031, drv, halt>>
  <2>1. u \in Int
    BY DisksAssumption
  <2> HIDE DEF Does, u
  <2>2. PICK r : Does(r) /\ (r = do_read_c7(u, blk) \/ r = do_write_c7(u, blk) \/ r = do_format_c7(u))
    BY <1>5
  <2>3. WritesTo(r.files)
    BY <1>5, <2>1, <2>2, SmartPortWrites
  <2> QED BY <1>1, <2>2, <2>3
<1>6. \/ Quits \/ Stays
      \/ \E code : Does(Fails(code)) \/ Astray(code)
      \/ u # Units /\ (Does(do_read_c7(u, blk)) \/ Does(do_write_c7(u, blk)) \/ Does(do_format_c7(u)))
  <2>1. CASE cmd = "status"
    BY <2>1 DEF do_c70d
  <2>2. CASE cmd = "read"
    BY <2>2 DEF do_c70d, Wild
  <2>3. CASE cmd = "write"
    BY <2>3 DEF do_c70d, Wild
  <2>4. CASE cmd = "format"
    BY <2>4 DEF do_c70d, Wild
  <2>5. CASE cmd = "control"
    BY <2>5 DEF do_c70d
  <2>6. CASE cmd = "other"
    BY <2>6 DEF do_c70d
  <2> QED BY <2>1, <2>2, <2>3, <2>4, <2>5, <2>6
<1> HIDE DEF Quits, Stays, Does, u
<1> QED BY <1>2, <1>3, <1>4, <1>5, <1>6

LEMMA ProDosCallsWrite ==
  ASSUME NEW cmd \in {"status", "read", "write", "format", "other"}, NEW number \in {112, 240, 64},
         NEW blk, do_c70a(cmd, number, blk)
  PROVE  WritesTo(files') /\ UNCHANGED <<iwm, emul, c031, drv, halt>>
<1> DEFINE unit == ProDosUnit(number)
           Does(r) == \E x, y : Done(r, x, y)
<1>1. unit \in 0 .. 2 /\ unit \in Int /\ unit # Units /\ unit # -1
  <2>1. unit \in 0 .. 2
    BY DEF ProDosUnit
  <2> QED BY <2>1, DisksAssumption
<1>2. ASSUME NEW r, Does(r), WritesTo(r.files)
      PROVE  WritesTo(files') /\ UNCHANGED <<iwm, emul, c031, drv, halt>>
  BY <1>2 DEF Done
<1>3. \/ \E code : Does(Fails(code))
      \/ Does(do_read_c7(unit, blk)) \/ Does(do_write_c7(unit, blk)) \/ Does(do_format_c7(unit))
  <2>1. CASE cmd = "status"
    BY <1>1, <2>1 DEF do_c70a
  <2>2. CASE cmd = "read"
    BY <1>1, <2>2 DEF do_c70a
  <2>3. CASE cmd = "write"
    BY <1>1, <2>3 DEF do_c70a
  <2>4. CASE cmd = "format"
    BY <1>1, <2>4 DEF do_c70a
  <2>5. CASE cmd = "other"
    BY <1>1, <2>5 DEF do_c70a
  <2> QED BY <2>1, <2>2, <2>3, <2>4, <2>5
<1> HIDE DEF unit, Does
<1>4. CASE \E code : Does(Fails(code))
  <2>1. PICK code : Does(Fails(code))
    BY <1>4
  <2>2. WritesTo(Fails(code).files)
    BY DEF Fails, WritesTo
  <2> QED BY <1>2, <2>1, <2>2
<1>5. CASE Does(do_read_c7(unit, blk)) \/ Does(do_write_c7(unit, blk)) \/ Does(do_format_c7(unit))
  <2>1. PICK r : /\ Does(r)
                 /\ r = do_read_c7(unit, blk) \/ r = do_write_c7(unit, blk) \/ r = do_format_c7(unit)
    BY <1>5
  <2>2. WritesTo(r.files)
    BY <1>1, <2>1, SmartPortWrites
  <2> QED BY <1>2, <2>1, <2>2
<1> QED BY <1>3, <1>4, <1>5

LEMMA SmartPortCallKeeps ==
  ASSUME Inv, SmartPortCall
  PROVE  Inv' /\ OnlyUnlocked
<1>1. UNCHANGED <<speed, run, focus>>
  BY DEF SmartPortCall, speedVars
<1>2. WritesTo(files') /\ UNCHANGED <<iwm, emul, c031, drv, halt>>
  <2>1. CASE \E call \in Calls, unit \in 0 .. Units + 1, blk \in {0, 2} :
               do_c70d(call[1], call[2], unit, blk)
    <3>1. PICK call \in Calls, unit \in 0 .. Units + 1, blk \in {0, 2} :
                 do_c70d(call[1], call[2], unit, blk)
      BY <2>1
    <3>2. call[1] \in {"status", "read", "write", "control", "other", "format"}
      BY DEF Calls
    <3> QED BY <3>1, <3>2, CallsWrite
  <2>2. CASE \E cmd \in {"status", "read", "write", "format", "other"}, number \in {112, 240, 64} :
               do_c70a(cmd, number, 1)
    BY <2>2, ProDosCallsWrite
  <2> QED BY <2>1, <2>2 DEF SmartPortCall
<1> QED BY <1>1, <1>2, SmartPortKeeps

\* What does not touch the drives.
LEMMA OthersKeep ==
  ASSUME Inv, Boots \/ GuestClock \/ UserBoots \/ ClockTicks \/ UNCHANGED vars
  PROVE  Inv' /\ OnlyUnlocked
<1>1. UNCHANGED <<diskVars, speedVars, focus>>
  <2>1. CASE Boots
    BY <2>1 DEF Boots, do_c700
  <2>2. CASE GuestClock
    BY <2>2 DEF GuestClock, iwmVars
  <2>3. CASE UserBoots \/ ClockTicks
    BY <2>3 DEF UserBoots, ClockTicks, allButClock, iwmVars
  <2>4. CASE UNCHANGED vars
    BY <2>4 DEF vars, iwmVars
  <2> QED BY <2>1, <2>2, <2>3, <2>4
<1> QED BY <1>1, Stands

\* run_prog tells the engine its speed, and looks again after the engine came back.
LEMMA EngineKeeps ==
  ASSUME Inv, Enters \/ Leaves
  PROVE  Inv' /\ OnlyUnlocked
<1>1. CASE Enters
  <2>1. /\ run' = [inside |-> TRUE, mult |-> SpeedOf(Machine, speed), follow |-> speed.follow]
        /\ UNCHANGED <<diskVars, speed, focus>>
    BY <1>1 DEF Enters, EnterEngine, iwmVars
  <2>2. Machine' = Machine
    BY <2>1 DEF diskVars, Machine
  <2> DEFINE s == [speed EXCEPT !.follow = speed.follow]
  <2>3. SameSwitches(speed, s) /\ speed.limit \in 0 .. 3 /\ SamePace(Machine, Machine)
    BY DEF Inv, Switches, SameSwitches, SamePace
  <2>4. run'.mult = SpeedOf(Machine, speed) /\ [speed EXCEPT !.follow = run'.follow] = s
    BY <2>1
  <2> HIDE DEF s
  <2>5. SpeedOf(Machine, s) = SpeedOf(Machine, speed)
    BY <2>3, SpeedDepends
  <2>6. SpeedIsCurrent'
    BY <2>1, <2>2, <2>4, <2>5 DEF SpeedIsCurrent
  <2> QED BY <2>1, <2>2, <2>6 DEF Inv, diskVars, OnlyUnlocked
<1>2. CASE Leaves
  <2>1. /\ run' = [run EXCEPT !.inside = FALSE] /\ halt' = FALSE
        /\ UNCHANGED <<iwm, emul, c031, drv, files, gone, speed, focus>>
    BY <1>2 DEF Leaves, LeaveEngine
  <2>2. Good(Machine)'
    BY <2>1 DEF Inv, Good, Machine, Rec
  <2>3. run'.inside = FALSE /\ DOMAIN run' = DOMAIN run
    BY <2>1 DEF Inv
  <2> QED BY <2>1, <2>2, <2>3 DEF Inv, OnlyUnlocked, SpeedIsCurrent
<1> QED BY <1>1, <1>2

LEMMA NextKeeps ==
  ASSUME Inv, [Next]_vars
  PROVE  Inv' /\ OnlyUnlocked
BY ReadsKeep, WritesKeep, SelectsKeep, SpeedKeeps, SmartPortCallKeeps, UserSpeedKeeps, ResetKeeps,
   InsertsKeep, EjectsKeep, VblKeeps, OthersKeep, EngineKeeps, EndKeeps DEF Next

LEMMA InitInv ==
  ASSUME Init
  PROVE  Inv
<1>1. focus \in Foci
  BY DEF Init
<1> DEFINE m == Empty(P.fast, Contents)
<1>2. PICK g \in Garbage :
     \E loaded \in {IF P.in = << >> THEN m ELSE insert_disk(m, P.in[1], P.in[2], FALSE, 0, g)} :
     \E dirty \in {IF P.wrote THEN Rewritten(loaded, P.in[1]) ELSE loaded} :
       \E s \in {Started(dirty)} :
         /\ iwm = s.iwm /\ emul = s.emul /\ c031 = s.c031 /\ drv = s.drv
         /\ files = s.files /\ halt = s.halt /\ gone = s.gone
  BY DEF Init
<1>3. Legal(P)
  BY <1>1, ProgramsAreLegal
<1>4. Good(m) /\ Alone(m.drv)
  BY EmptyIsGood
<1> HIDE DEF m
<1> DEFINE loaded == IF P.in = << >> THEN m ELSE insert_disk(m, P.in[1], P.in[2], FALSE, 0, g)
           dirty == IF P.wrote THEN Rewritten(loaded, P.in[1]) ELSE loaded
           s == Started(dirty)
<1>5. Good(loaded) /\ Alone(loaded.drv)
  <2>1. CASE P.in = << >>
    BY <1>4, <2>1
  <2>2. CASE P.in # << >>
    <3>1. loaded = insert_disk(m, P.in[1], P.in[2], FALSE, 0, g)
      BY <2>2
    <3>2. P.in[1] \in Drives
      BY <1>3, <2>2 DEF Legal
    <3> HIDE DEF loaded
    <3> QED BY <1>4, <3>1, <3>2, Inserts
  <2> QED BY <2>1, <2>2
<1>6. /\ iwm = s.iwm /\ emul = s.emul /\ c031 = s.c031 /\ drv = s.drv
      /\ files = s.files /\ halt = s.halt
  BY <1>2
<1> HIDE DEF loaded
<1>7. Step(loaded, dirty)
  <2>1. CASE P.wrote
    <3>1. dirty = Rewritten(loaded, P.in[1])
      BY <2>1
    <3>2. P.in[1] \in Drives /\ ~IsSmartPort(P.in[1])
      BY <1>3, <2>1 DEF Legal
    <3> HIDE DEF dirty
    <3> QED BY <1>5, <3>1, <3>2, Rewrites
  <2>2. CASE ~P.wrote
    <3>1. dirty = loaded
      BY <2>2
    <3> QED BY <1>5, <3>1, StepStutters
  <2> QED BY <2>1, <2>2
<1> HIDE DEF dirty
<1>8. Step(dirty, s)
  BY <1>3, <1>7, Starts DEF Step
<1> HIDE DEF s
<1>9. Good(s) /\ Alone(s.drv)
  BY <1>5, <1>7, <1>8, StepLeavesAlone DEF Step
<1>10. Good(Machine) /\ Alone(drv)
  BY <1>6, <1>9 DEF Good, Machine, Rec
<1>11. Switches(speed)
  BY DEF Init, speed_reset, Switches
<1>12. run.inside = FALSE /\ DOMAIN run = {"inside", "mult", "follow"}
  BY DEF Init
<1> QED BY <1>1, <1>10, <1>11, <1>12 DEF Inv, SpeedIsCurrent

-----------------------------------------------------------------------------
(* The theorems.                                                           *)

\* The engine, while it runs and was not told to come back, runs at the speed that
\* the switches, the disk and the user's limit ask for.
THEOREM DiskSpeed == Spec => []SpeedIsCurrent
<1>1. Init => Inv
  BY InitInv
<1>2. Inv /\ [Next]_vars => Inv'
  BY NextKeeps
<1>3. Inv => SpeedIsCurrent
  BY DEF Inv
<1> QED BY <1>1, <1>2, <1>3, PTL DEF Spec

\* A file of the host changes only if its image may be written: not by a write to
\* a locked disk, by writing back a dirty track, or by a block of the SmartPort.
THEOREM DiskLocked == Spec => LockedStaysAsItIs
<1>1. Init => Inv
  BY InitInv
<1>2. Inv /\ [Next]_vars => Inv'
  BY NextKeeps
<1>3. Inv /\ [Next]_vars =>
        [\A f \in DOMAIN files : files'[f] # files[f] =>
           \E d \in Drives : drv[d].file = f /\ CanWrite(d, Images[f])]_vars
  BY NextKeeps DEF OnlyUnlocked
<1> QED BY <1>1, <1>2, <1>3, PTL DEF Spec, LockedStaysAsItIs

\* The parts of DisksAreSound that are about where things are: the head of a drive
\* with a disk is on one of its tracks, a dirty track is on a disk that is marked,
\* and an image is in one drive.
THEOREM DiskDrives == Spec => [](HeadOnDisk /\ DirtyIsMarked /\ NoDiskTwice)
<1>1. Init => Inv
  BY InitInv
<1>2. Inv /\ [Next]_vars => Inv'
  BY NextKeeps
<1>3. Inv => HeadOnDisk /\ DirtyIsMarked /\ NoDiskTwice
  <2> SUFFICES ASSUME Inv PROVE HeadOnDisk /\ DirtyIsMarked /\ NoDiskTwice
    OBVIOUS
  <2>1. \A d \in Drives : Fit(drv[d], d)
    BY DEF Inv, Good, DrivesFit, Machine
  <2>2. HeadOnDisk
    <3> SUFFICES ASSUME NEW d \in Drives, drv[d].trks # << >>
                 PROVE  drv[d].track \in DOMAIN drv[d].trks
      BY DEF HeadOnDisk
    <3> QED BY <2>1, LastTrackFits DEF Fit, Tracked, Laden
  <2>3. DirtyIsMarked
    BY <2>1 DEF DirtyIsMarked, Fit, Marked
  <2>4. NoDiskTwice
    BY DEF Inv, Alone, NoDiskTwice
  <2> QED BY <2>2, <2>3, <2>4
<1> QED BY <1>1, <1>2, <1>3, PTL DEF Spec
-----------------------------------------------------------------------------
(* The clock chip and the battery RAM.                                     *)

Digit(u) == u \in Nat /\ u < 16
Flip(u) == u = 0 \/ u = 1

BitsOf(u, w, x, y, z) ==
  /\ u = w + 2 * x + 4 * y + 8 * z
  /\ (u \div 1) % 2 = w /\ (u \div 2) % 2 = x /\ (u \div 4) % 2 = y /\ (u \div 8) % 2 = z
  /\ u % 2 = w
LEMMA FourBits ==
  ASSUME NEW u, Digit(u)
  PROVE  \E w, x, y, z : Flip(w) /\ Flip(x) /\ Flip(y) /\ Flip(z) /\ BitsOf(u, w, x, y, z)
<1> DEFINE w == (u \div 1) % 2
           x == (u \div 2) % 2
           y == (u \div 4) % 2
           z == (u \div 8) % 2
<1>1. Flip(w) /\ Flip(x) /\ Flip(y) /\ Flip(z)
  BY DEF Digit, Flip
<1>2. u = w + 2 * x + 4 * y + 8 * z /\ u % 2 = w
  BY SMTT(30) DEF Digit
<1>3. BitsOf(u, w, x, y, z)
  BY <1>2 DEF BitsOf
<1> HIDE DEF w, x, y, z
<1> QED BY <1>1, <1>3, Zenon

LEMMA BitsTimes ==
  ASSUME NEW x, NEW y, Flip(x), Flip(y)
  PROVE  \E z : Flip(z) /\ x * y = z /\ z <= x /\ z <= y /\ Flip(x + y - 2 * z)
<1>1. CASE x = 0 \/ y = 0
  BY <1>1 DEF Flip
<1>2. CASE x = 1 /\ y = 1
  BY <1>2 DEF Flip
<1> QED BY <1>1, <1>2 DEF Flip

\* Digits in the base of 16: what they have in common, and where they differ.
Differ(u, v, c) ==
  /\ And4[<<u, v>>] = c /\ c \in Int /\ Digit(u + v - 2 * c)
  /\ u = 0 \/ (u % 2 = 0 /\ v <= 1) => c = 0
LEMMA DigitsAnd ==
  ASSUME NEW u, NEW v, Digit(u), Digit(v)
  PROVE  \E c : Differ(u, v, c)
<1>1. PICK a1, a2, a4, a8 : Flip(a1) /\ Flip(a2) /\ Flip(a4) /\ Flip(a8) /\ BitsOf(u, a1, a2, a4, a8)
  BY FourBits
<1>2. PICK b1, b2, b4, b8 : Flip(b1) /\ Flip(b2) /\ Flip(b4) /\ Flip(b8) /\ BitsOf(v, b1, b2, b4, b8)
  BY FourBits
<1>3. And4[<<u, v>>] = a1 * b1 + 2 * (a2 * b2) + 4 * (a4 * b4) + 8 * (a8 * b8)
  <2>1. u \in 0 .. 15 /\ v \in 0 .. 15
    BY DEF Digit
  <2>2. And4[<<u, v>>] = InBoth(<<u, v>>, 1) + 2 * InBoth(<<u, v>>, 2) + 4 * InBoth(<<u, v>>, 4)
                         + 8 * InBoth(<<u, v>>, 8)
    BY <2>1, Zenon DEF And4
  <2> QED BY <1>1, <1>2, <2>2 DEF InBoth, BitsOf
<1>5. PICK c1 : Flip(c1) /\ a1 * b1 = c1 /\ c1 <= a1 /\ c1 <= b1 /\ Flip(a1 + b1 - 2 * c1)
  BY <1>1, <1>2, BitsTimes
<1>6. PICK c2 : Flip(c2) /\ a2 * b2 = c2 /\ c2 <= a2 /\ c2 <= b2 /\ Flip(a2 + b2 - 2 * c2)
  BY <1>1, <1>2, BitsTimes
<1>7. PICK c4 : Flip(c4) /\ a4 * b4 = c4 /\ c4 <= a4 /\ c4 <= b4 /\ Flip(a4 + b4 - 2 * c4)
  BY <1>1, <1>2, BitsTimes
<1>8. PICK c8 : Flip(c8) /\ a8 * b8 = c8 /\ c8 <= a8 /\ c8 <= b8 /\ Flip(a8 + b8 - 2 * c8)
  BY <1>1, <1>2, BitsTimes
<1> DEFINE c == c1 + 2 * c2 + 4 * c4 + 8 * c8
<1>9. And4[<<u, v>>] = c
  BY <1>3, <1>5, <1>6, <1>7, <1>8
<1>10. c \in Int /\ Digit(u + v - 2 * c)
  <2>1. u = a1 + 2 * a2 + 4 * a4 + 8 * a8 /\ v = b1 + 2 * b2 + 4 * b4 + 8 * b8
    BY <1>1, <1>2 DEF BitsOf
  <2>2. u + v - 2 * c = (a1 + b1 - 2 * c1) + 2 * (a2 + b2 - 2 * c2) + 4 * (a4 + b4 - 2 * c4)
                        + 8 * (a8 + b8 - 2 * c8)
    BY <1>1, <1>2, <1>5, <1>6, <1>7, <1>8, <2>1, SMT DEF Flip
  <2>3. \A w, x, y, z : Flip(w) /\ Flip(x) /\ Flip(y) /\ Flip(z) => Digit(w + 2 * x + 4 * y + 8 * z)
    BY DEF Flip, Digit
  <2>4. c \in Int
    BY <1>5, <1>6, <1>7, <1>8 DEF Flip
  <2> QED BY <1>5, <1>6, <1>7, <1>8, <2>2, <2>3, <2>4
<1>11. u = 0 \/ (u % 2 = 0 /\ v <= 1) => c = 0
  <2>1. /\ u = a1 + 2 * a2 + 4 * a4 + 8 * a8 /\ u % 2 = a1
        /\ v = b1 + 2 * b2 + 4 * b4 + 8 * b8
    BY <1>1, <1>2 DEF BitsOf
  <2>2. u = 0 => a1 = 0 /\ a2 = 0 /\ a4 = 0 /\ a8 = 0
    BY <1>1, <2>1 DEF Flip
  <2>3. v <= 1 => b2 = 0 /\ b4 = 0 /\ b8 = 0
    BY <1>2, <2>1 DEF Flip
  <2>4. /\ a1 = 0 => c1 = 0
        /\ a2 = 0 \/ b2 = 0 => c2 = 0
        /\ a4 = 0 \/ b4 = 0 => c4 = 0
        /\ a8 = 0 \/ b8 = 0 => c8 = 0
    BY <1>5, <1>6, <1>7, <1>8 DEF Flip
  <2> QED BY <2>1, <2>2, <2>3, <2>4
<1> HIDE DEF c
<1>12. Differ(u, v, c)
  BY <1>9, <1>10, <1>11 DEF Differ
<1> QED BY <1>12

IsWord(a) == a \in Nat /\ a < 65536
DigitsOf(a, w, x, y, z) ==
  /\ a = w + 16 * x + 256 * y + 4096 * z
  /\ a % 16 = w /\ (a \div 16) % 16 = x /\ (a \div 256) % 16 = y /\ (a \div 4096) % 16 = z

LEMMA FourDigits ==
  ASSUME NEW a, IsWord(a)
  PROVE  \E w, x, y, z : Digit(w) /\ Digit(x) /\ Digit(y) /\ Digit(z) /\ DigitsOf(a, w, x, y, z)
<1> DEFINE w == a % 16
           x == (a \div 16) % 16
           y == (a \div 256) % 16
           z == (a \div 4096) % 16
<1>1. Digit(w) /\ Digit(x) /\ Digit(y) /\ Digit(z)
  BY SMT DEF Digit, IsWord
<1>2. a = w + 16 * x + 256 * y + 4096 * z
  BY SMTT(30) DEF IsWord
<1>3. DigitsOf(a, w, x, y, z)
  BY <1>2 DEF DigitsOf
<1> HIDE DEF w, x, y, z
<1> QED BY <1>1, <1>3, Zenon

\* The words of a checksum.
LEMMA XorIsWord ==
  ASSUME NEW a, IsWord(a), NEW b, IsWord(b)
  PROVE  IsWord(BitXor(a, b))
<1>1. PICK a1, a2, a3, a4 :
        Digit(a1) /\ Digit(a2) /\ Digit(a3) /\ Digit(a4) /\ DigitsOf(a, a1, a2, a3, a4)
  BY FourDigits
<1>2. PICK b1, b2, b3, b4 :
        Digit(b1) /\ Digit(b2) /\ Digit(b3) /\ Digit(b4) /\ DigitsOf(b, b1, b2, b3, b4)
  BY FourDigits
<1>4. PICK c1 : Differ(a1, b1, c1)
  BY <1>1, <1>2, DigitsAnd
<1>5. PICK c2 : Differ(a2, b2, c2)
  BY <1>1, <1>2, DigitsAnd
<1>6. PICK c3 : Differ(a3, b3, c3)
  BY <1>1, <1>2, DigitsAnd
<1>7. PICK c4 : Differ(a4, b4, c4)
  BY <1>1, <1>2, DigitsAnd
<1>8. BitAnd(a, b) = c1 + 16 * c2 + 256 * c3 + 4096 * c4
  <2>1. /\ a % 16 = a1 /\ (a \div 16) % 16 = a2 /\ (a \div 256) % 16 = a3 /\ (a \div 4096) % 16 = a4
        /\ b % 16 = b1 /\ (b \div 16) % 16 = b2 /\ (b \div 256) % 16 = b3 /\ (b \div 4096) % 16 = b4
    BY <1>1, <1>2 DEF DigitsOf
  <2>2. BitAnd(a, b) = And4[<<a1, b1>>] + 16 * And4[<<a2, b2>>]
                       + 256 * And4[<<a3, b3>>] + 4096 * And4[<<a4, b4>>]
    BY <2>1, SMT DEF BitAnd
  <2>3. /\ And4[<<a1, b1>>] = c1 /\ And4[<<a2, b2>>] = c2
        /\ And4[<<a3, b3>>] = c3 /\ And4[<<a4, b4>>] = c4
    BY <1>4, <1>5, <1>6, <1>7 DEF Differ
  <2> QED BY <2>2, <2>3, SMT
<1>9. a = a1 + 16 * a2 + 256 * a3 + 4096 * a4 /\ b = b1 + 16 * b2 + 256 * b3 + 4096 * b4
  BY <1>1, <1>2 DEF DigitsOf
<1>10. BitXor(a, b) = a + b - 2 * (c1 + 16 * c2 + 256 * c3 + 4096 * c4)
  BY <1>8 DEF BitXor
<1>11. /\ c1 \in Int /\ Digit(a1 + b1 - 2 * c1) /\ c2 \in Int /\ Digit(a2 + b2 - 2 * c2)
       /\ c3 \in Int /\ Digit(a3 + b3 - 2 * c3) /\ c4 \in Int /\ Digit(a4 + b4 - 2 * c4)
  BY <1>4, <1>5, <1>6, <1>7 DEF Differ
<1>12. BitXor(a, b) = (a1 + b1 - 2 * c1) + 16 * (a2 + b2 - 2 * c2) + 256 * (a3 + b3 - 2 * c3)
                      + 4096 * (a4 + b4 - 2 * c4)
  BY <1>1, <1>2, <1>9, <1>10, <1>11, SMT DEF Digit
<1>13. \A w, x, y, z : Digit(w) /\ Digit(x) /\ Digit(y) /\ Digit(z)
                      => IsWord(w + 16 * x + 256 * y + 4096 * z)
  BY SMT DEF Digit, IsWord
<1> QED BY <1>11, <1>12, <1>13

\* The bits of an extended address lie apart.
LEMMA AddressJoins ==
  ASSUME NEW hi \in Nat, hi < 8, NEW lo \in Nat, lo < 32
  PROVE  BitOr(32 * hi, lo) = 32 * hi + lo
<1> DEFINE a == 32 * hi
           u == (a \div 16) % 16
           v == (lo \div 16) % 16
           w == lo % 16
<1>1. Digit(u) /\ Digit(v) /\ u % 2 = 0 /\ v <= 1 /\ Digit(w) /\ Digit(0)
  BY SMTT(30) DEF Digit
<1>3. /\ a % 16 = 0 /\ (a \div 256) % 16 = 0 /\ (lo \div 256) % 16 = 0
      /\ (a \div 4096) % 16 = 0 /\ (lo \div 4096) % 16 = 0 /\ a \in Int
  BY SMTT(30)
<1>2. BitAnd(a, lo) = And4[<<a % 16, w>>] + 16 * And4[<<u, v>>]
                      + 256 * And4[<<(a \div 256) % 16, (lo \div 256) % 16>>]
                      + 4096 * And4[<<(a \div 4096) % 16, (lo \div 4096) % 16>>]
  BY DEF BitAnd
<1> HIDE DEF a, u, v, w
<1>4. And4[<<u, v>>] = 0
  <2>1. PICK c : Differ(u, v, c)
    BY <1>1, DigitsAnd
  <2> QED BY <1>1, <2>1 DEF Differ
<1>5. And4[<<0, w>>] = 0 /\ And4[<<0, 0>>] = 0
  <2>1. PICK c : Differ(0, w, c)
    BY <1>1, DigitsAnd
  <2>2. PICK e : Differ(0, 0, e)
    BY <1>1, DigitsAnd
  <2> QED BY <2>1, <2>2 DEF Differ
<1>6. BitAnd(a, lo) = 0
  BY <1>2, <1>3, <1>4, <1>5
<1>7. BitOr(a, lo) = a + lo
  BY <1>3, <1>6 DEF BitOr
<1> QED BY <1>7 DEF a

LEMMA ByteIs == \A x : x \in Byte <=> x \in Nat /\ x < 256
BY SMT DEF Byte

\* The sum is a number, though it is taken from the last byte down.
LEMMA SumIsNumber ==
  ASSUME NEW b, b \in [0 .. BramLen - 1 -> Byte]
  PROVE  IsWord(BramChecksum(b))
<1> DEFINE Doubled(n) == 2 * (n % 65536)
           Added(i, n) == (Doubled(n) % 65536) + b[i] + 256 * b[i + 1] + Doubled(n) \div 65536
           Sums(f) == f = [i \in 0 .. MarkByte |-> IF i = MarkByte THEN 0 ELSE Added(i, f[i + 1])]
           sum == CHOOSE f : Sums(f)
<1>1. BramChecksum(b) = sum[0] % 65536
  BY DEF BramChecksum
<1>2. MarkByte \in Nat /\ BramLen = MarkByte + 5
  BY ClockAssumption
<1>3. ASSUME NEW i \in 0 .. MarkByte, NEW n \in Nat PROVE Added(i, n) \in Nat
  <2>1. i \in 0 .. BramLen - 1 /\ i + 1 \in 0 .. BramLen - 1
    BY <1>2
  <2>2. b[i] \in Nat /\ b[i + 1] \in Nat
    BY <2>1, ByteIs
  <2>3. Doubled(n) \in Nat /\ Doubled(n) % 65536 \in Nat /\ Doubled(n) \div 65536 \in Nat
    BY SMT
  <2>4. BramLen \in Int
    BY <1>2
  <2> HIDE DEF Doubled
  <2>5. (Doubled(n) % 65536) + b[i] + 256 * b[i + 1] + Doubled(n) \div 65536 \in Nat
    <3> DEFINE p == Doubled(n) % 65536
               q == Doubled(n) \div 65536
    <3>1. p \in Nat /\ q \in Nat
      BY <2>3
    <3> HIDE DEF p, q
    <3>2. p + b[i] + 256 * b[i + 1] + q \in Nat
      BY <2>2, <3>1
    <3> QED BY <3>2 DEF p, q
  <2> QED BY <2>5
<1> HIDE DEF Doubled, Added
\* From below the mark, the sums of the last j bytes.
<1> DEFINE Downto(f, j) == /\ f \in [MarkByte - j .. MarkByte -> Nat]
                           /\ \A i \in MarkByte - j .. MarkByte :
                                f[i] = IF i = MarkByte THEN 0 ELSE Added(i, f[i + 1])
           S == {j \in Nat : j <= MarkByte => \E f : Downto(f, j)}
<1>4. 0 \in S
  <2>1. Downto([i \in MarkByte .. MarkByte |-> 0], 0)
    BY <1>2
  <2> HIDE DEF Downto
  <2> QED BY <2>1
<1>5. ASSUME NEW j \in Nat, j \in S PROVE j + 1 \in S
  <2> SUFFICES ASSUME j + 1 <= MarkByte PROVE \E f : Downto(f, j + 1)
    OBVIOUS
  <2>1. PICK f : Downto(f, j)
    BY <1>2, <1>5
  <2> DEFINE k == MarkByte - (j + 1)
             g == [i \in k .. MarkByte |-> IF i = k THEN Added(k, f[k + 1]) ELSE f[i]]
  <2>2. /\ k \in 0 .. MarkByte /\ k + 1 = MarkByte - j /\ k + 1 \in MarkByte - j .. MarkByte
        /\ k # MarkByte /\ k \in k .. MarkByte
    BY <1>2
  <2>3. Added(k, f[k + 1]) \in Nat
    BY <1>3, <2>1, <2>2
  <2>4. \A i \in k .. MarkByte : i = k \/ i \in MarkByte - j .. MarkByte
    BY <1>2
  <2>5. \A i \in k .. MarkByte : i # MarkByte => i + 1 \in MarkByte - j .. MarkByte /\ i + 1 # k
    BY <1>2
  <2> HIDE DEF k
  <2>6. g \in [k .. MarkByte -> Nat]
    BY <2>1, <2>3, <2>4
  <2>7. ASSUME NEW i \in k .. MarkByte
        PROVE  g[i] = IF i = MarkByte THEN 0 ELSE Added(i, g[i + 1])
    <3>1. CASE i = k
      <4>1. g[i] = Added(k, f[k + 1]) /\ i # MarkByte
        BY <2>2, <3>1
      <4>2. i + 1 \in k .. MarkByte /\ i + 1 # k
        BY <1>2, <2>2, <3>1
      <4>3. g[i + 1] = f[i + 1]
        BY <4>2
      <4> QED BY <3>1, <4>1, <4>3
    <3>2. CASE i # k
      <4>1. i \in MarkByte - j .. MarkByte /\ g[i] = f[i]
        BY <2>4, <3>2
      <4>2. CASE i = MarkByte
        BY <2>1, <4>1, <4>2
      <4>3. CASE i # MarkByte
        <5>1. i + 1 \in k .. MarkByte /\ i + 1 # k
          BY <1>2, <2>2, <2>5, <4>3
        <5>2. g[i + 1] = f[i + 1]
          BY <5>1
        <5> QED BY <2>1, <4>1, <4>3, <5>2
      <4> QED BY <4>2, <4>3
    <3> QED BY <3>1, <3>2
  <2> HIDE DEF g
  <2>8. Downto(g, j + 1)
    BY <2>6, <2>7 DEF k
  <2> HIDE DEF Downto
  <2> QED BY <2>8
<1> HIDE DEF S
<1>6. MarkByte \in S
  BY <1>2, <1>4, <1>5, SetInduction
<1>7. PICK f : Downto(f, MarkByte)
  BY <1>2, <1>6 DEF S
<1>8. MarkByte - MarkByte = 0
  BY <1>2
<1>9. Sums(f)
  BY <1>7, <1>8
<1>10. Sums(sum)
  <2> HIDE DEF Sums
  <2> QED BY <1>9
<1> HIDE DEF sum
\* The sums are the only ones.
<1> DEFINE R == {j \in Nat : j <= MarkByte => sum[MarkByte - j] \in Nat}
<1>11. 0 \in R
  BY <1>2, <1>10
<1>12. ASSUME NEW j \in Nat, j \in R PROVE j + 1 \in R
  <2> SUFFICES ASSUME j + 1 <= MarkByte PROVE sum[MarkByte - (j + 1)] \in Nat
    OBVIOUS
  <2> DEFINE k == MarkByte - (j + 1)
  <2>1. k \in 0 .. MarkByte /\ k # MarkByte /\ k + 1 = MarkByte - j /\ j <= MarkByte
    BY <1>2
  <2>2. sum[k + 1] \in Nat
    BY <1>12, <2>1
  <2> HIDE DEF k
  <2>3. sum[k] = Added(k, sum[k + 1])
    BY <1>10, <2>1
  <2>4. sum[k] \in Nat
    BY <1>3, <2>1, <2>2, <2>3
  <2> QED BY <2>4 DEF k
<1> HIDE DEF R
<1>13. MarkByte \in R
  BY <1>2, <1>11, <1>12, SetInduction
<1>14. sum[0] \in Nat
  BY <1>2, <1>8, <1>13 DEF R
<1> QED BY <1>1, <1>14 DEF IsWord

LEMMA ChecksumKeepsBytes ==
  ASSUME NEW b, b \in [0 .. BramLen - 1 -> Byte]
  PROVE  clk_calculate_bram_checksum(b) \in [0 .. BramLen - 1 -> Byte]
<1> DEFINE sum == BramChecksum(b)
           inverse == BitXor(sum, 43690)
<1>1. clk_calculate_bram_checksum(b) \in
        {b, [b EXCEPT ![MarkByte + 1] = sum % 256, ![MarkByte + 2] = sum \div 256,
                      ![MarkByte + 3] = inverse % 256, ![MarkByte + 4] = inverse \div 256]}
  BY DEF clk_calculate_bram_checksum
<1>2. IsWord(sum) /\ IsWord(inverse)
  <2>1. IsWord(43690)
    BY DEF IsWord
  <2> QED BY <2>1, SumIsNumber, XorIsWord
<1> HIDE DEF sum, inverse
<1>3. \A w : IsWord(w) => w % 256 \in Nat /\ w % 256 < 256 /\ w \div 256 \in Nat /\ w \div 256 < 256
  BY SMT DEF IsWord
<1>4. sum % 256 \in Byte /\ sum \div 256 \in Byte /\ inverse % 256 \in Byte /\ inverse \div 256 \in Byte
  BY <1>2, <1>3, ByteIs
<1> QED BY <1>1, <1>4

LEMMA ByteSet ==
  ASSUME NEW b, b \in [0 .. BramLen - 1 -> Byte], NEW reg, NEW v \in Byte
  PROVE  [b EXCEPT ![reg] = v] \in [0 .. BramLen - 1 -> Byte]
OBVIOUS

\* The registers: the mode the chip is in has an index that fits.
Registers(c) ==
  /\ DOMAIN c = {"mode", "reg", "read"}
  /\ c.mode \in Modes /\ c.read \in BOOLEAN
  /\ c.reg \in Nat /\ c.reg < 256
  /\ c.mode = "TIME" => c.reg < 4
  /\ c.mode = "BRAM2" => \E hi \in Nat : hi < 8 /\ c.reg = 32 * hi

Remembers ==
  /\ bram \in [0 .. BramLen - 1 -> Byte]
  /\ DOMAIN boot = {"temp", "orig"} /\ boot.temp \in Byte /\ boot.orig \in Byte
  /\ DOMAIN time = {"sec", "age"} /\ time.sec \in [0 .. 3 -> Byte]
  /\ cfg \in BOOLEAN

\* What the accesses so far have made of the chip.
Extended(b) == b \in Byte /\ b \div 8 = 23
Accesses == BOOLEAN \X Byte
Opens(h) == ~h[1] /\ Extended(h[2])
Addressed ==
  /\ hist \in Seq(Accesses)
  /\ \/ clk.mode = "IDLE" \/ Len(hist) = 0
     \/ /\ Len(hist) = 1 /\ Opens(hist[1])
        /\ clk.mode = "BRAM2" /\ clk.reg = 32 * (hist[1][2] % 8) /\ clk.read
     \/ /\ Len(hist) = 2 /\ Opens(hist[1]) /\ ~hist[2][1] /\ hist[2][2] \in Byte
        /\ clk.mode = "BRAM1" /\ clk.read
        /\ clk.reg = 32 * (hist[1][2] % 8) + ((hist[2][2] \div 4) % 32)

Chip == Registers(clk) /\ c033 \in Byte /\ c034 \in 0 .. 127
ClockInv == Chip /\ Remembers /\ Addressed

\* Every command names a register of its mode.
LEMMA CommandFits ==
  ASSUME NEW data \in Byte, NEW read \in BOOLEAN
  PROVE  /\ Registers([mode |-> Command(data)[1], reg |-> Command(data)[2], read |-> read])
         /\ Extended(data) => /\ Command(data)[1] = "BRAM2" /\ Command(data)[2] = 32 * (data % 8)
                              /\ data >= 128
<1> DEFINE op == (data \div 16) % 8
           reg == (data \div 4) % 4
           c == Command(data)
<1>1. /\ op \in Nat /\ op < 8 /\ reg \in Nat /\ reg < 4 /\ data \in Nat /\ data < 256
      /\ data % 8 \in Nat /\ data % 8 < 8 /\ (data \div 4) % 16 \in Nat /\ (data \div 4) % 16 < 16
  BY ByteIs, SMT
<1>2. Extended(data) => op = 3 /\ reg >= 2 /\ data >= 128
  BY ByteIs, SMT DEF Extended
<1>3. c = CASE op = 0 -> <<"TIME", reg>>
            [] op = 3 /\ reg < 2 -> <<"INTERNAL", reg>>
            [] op = 3 /\ reg >= 2 -> <<"BRAM2", 32 * (data % 8)>>
            [] op = 2 -> <<"BRAM1", reg + 16>>
            [] op >= 4 -> <<"BRAM1", (data \div 4) % 16>>
            [] op = 1 -> <<"IDLE", reg>>
  BY DEF Command
<1> HIDE DEF op, reg, c
<1>4. \/ op = 0 /\ c = <<"TIME", reg>>
      \/ op = 3 /\ reg < 2 /\ c = <<"INTERNAL", reg>>
      \/ op = 3 /\ reg >= 2 /\ c = <<"BRAM2", 32 * (data % 8)>>
      \/ op = 2 /\ c = <<"BRAM1", reg + 16>>
      \/ op >= 4 /\ c = <<"BRAM1", (data \div 4) % 16>>
      \/ op = 1 /\ c = <<"IDLE", reg>>
  BY <1>1, <1>3
<1>5. /\ c[1] \in Modes /\ c[2] \in Nat /\ c[2] < 256
      /\ c[1] = "TIME" => c[2] < 4
      /\ c[1] = "BRAM2" => c[2] = 32 * (data % 8)
  BY <1>1, <1>4 DEF Modes
<1>6. Registers([mode |-> c[1], reg |-> c[2], read |-> read])
  BY <1>1, <1>5 DEF Registers
<1>7. Extended(data) => c[1] = "BRAM2"
  BY <1>1, <1>2, <1>4
<1> QED BY <1>2, <1>5, <1>6, <1>7 DEF c

\* The mode after an access.
LEMMA NextModeFits ==
  ASSUME Registers(clk), c033 \in Byte, NEW read \in BOOLEAN, NEW c, c = NextMode(read)
  PROVE  /\ Registers(c)
         /\ clk.mode = "IDLE" /\ ~read /\ Extended(c033) =>
              c.mode = "BRAM2" /\ c.reg = 32 * (c033 % 8) /\ c.read
         /\ clk.mode = "BRAM2" => \/ c.mode = "IDLE"
                                  \/ /\ ~read /\ c.mode = "BRAM1" /\ c.read = clk.read
                                     /\ c.reg = clk.reg + ((c033 \div 4) % 32)
         /\ clk.mode \notin {"IDLE", "BRAM2"} => c.mode = "IDLE"
<1>1. CASE clk.mode = "IDLE" /\ read
  <2>1. c = [clk EXCEPT !.reg = (c033 \div 4) % 4, !.read = (c033 >= 128)]
    BY <1>1 DEF NextMode
  <2>2. (c033 \div 4) % 4 \in Nat /\ (c033 \div 4) % 4 < 256 /\ (c033 >= 128) \in BOOLEAN
    BY ByteIs, SMT
  <2>3. DOMAIN c = DOMAIN clk /\ c.mode = "IDLE" /\ c.reg = (c033 \div 4) % 4 /\ c.read = (c033 >= 128)
    BY <1>1, <2>1 DEF Registers
  <2> QED BY <1>1, <2>2, <2>3 DEF Registers
<1>2. CASE clk.mode = "IDLE" /\ ~read
  <2> DEFINE late == c033 >= 128
  <2>1. c = [mode |-> Command(c033)[1], reg |-> Command(c033)[2], read |-> late]
    BY <1>2 DEF NextMode
  <2>2. late \in BOOLEAN
    OBVIOUS
  <2>3. Extended(c033) => late = TRUE
    BY CommandFits
  <2> HIDE DEF late
  <2>4. Registers(c)
    BY <2>1, <2>2, CommandFits
  <2>5. Extended(c033) => Command(c033)[1] = "BRAM2" /\ Command(c033)[2] = 32 * (c033 % 8)
    BY CommandFits
  <2>6. c.mode = Command(c033)[1] /\ c.reg = Command(c033)[2] /\ c.read = late
    BY <2>1
  <2> QED BY <1>2, <2>3, <2>4, <2>5, <2>6
<1>3. CASE clk.mode = "BRAM2" /\ ~read /\ BitAnd(c033, 131) = 0
  <2>lo. PICK lo : lo = (c033 \div 4) % 32
    OBVIOUS
  <2>1. c = [clk EXCEPT !.mode = "BRAM1", !.reg = BitOr(clk.reg, lo)]
    BY <1>3, <2>lo DEF NextMode
  <2>2. PICK hi \in Nat : hi < 8 /\ clk.reg = 32 * hi
    BY <1>3 DEF Registers
  <2>3. lo \in Nat /\ lo < 32
    BY <2>lo, ByteIs, SMT
  <2>4. BitOr(32 * hi, lo) = 32 * hi + lo
    BY <2>2, <2>3, AddressJoins
  <2>5. /\ DOMAIN c = DOMAIN clk /\ c.mode = "BRAM1" /\ c.read = clk.read
        /\ c.reg = BitOr(clk.reg, lo)
    BY <2>1 DEF Registers
  <2>6. c.reg = 32 * hi + lo
    BY <2>2, <2>4, <2>5
  <2>7. c.reg \in Nat /\ c.reg < 256 /\ c.reg = clk.reg + lo
    BY <2>2, <2>3, <2>6
  <2>8. Registers(c)
    BY <1>3, <2>5, <2>7 DEF Registers, Modes
  <2>9. c.reg = clk.reg + ((c033 \div 4) % 32)
    BY <2>lo, <2>7
  <2> QED BY <1>3, <2>5, <2>8, <2>9
<1>4. CASE clk.mode # "IDLE" /\ ~(clk.mode = "BRAM2" /\ ~read /\ BitAnd(c033, 131) = 0)
  <2>1. c = [clk EXCEPT !.mode = "IDLE"]
    BY <1>4 DEF NextMode
  <2>2. DOMAIN c = DOMAIN clk /\ c.mode = "IDLE" /\ c.read = clk.read /\ c.reg = clk.reg
    BY <2>1 DEF Registers
  <2> QED BY <1>4, <2>2 DEF Registers, Modes
<1> QED BY <1>1, <1>2, <1>3, <1>4

\* An access of the chip keeps bytes bytes.
LEMMA AccessFits ==
  ASSUME BramLen >= 256, Chip, Remembers, NEW read \in BOOLEAN, do_clock_data(read)
  PROVE  Registers(clk') /\ c033' \in Byte /\ Remembers'
<1>1. clk.reg \in 0 .. BramLen - 1
  BY ClockAssumption DEF Chip, Registers
<1>2. Registers(clk')
  BY NextModeFits DEF do_clock_data, Chip
<1>3. boot' = boot /\ BootByte \in 0 .. BramLen - 1
  BY ClockAssumption DEF do_clock_data
<1>4. c033' \in Byte /\ bram' \in [0 .. BramLen - 1 -> Byte] /\ cfg' \in BOOLEAN
  <2>1. CASE clk.mode = "BRAM1"
    <3>1. Bram1(read)
      BY <2>1 DEF do_clock_data
    <3> DEFINE temp == clk.reg = BootByte /\ boot.temp # NoTempSlot
               with == [bram EXCEPT ![clk.reg] = boot.temp]
               other == [bram EXCEPT ![clk.reg] = c033]
    <3>2. /\ c033 \in Byte /\ boot.temp \in Byte /\ bram[clk.reg] \in Byte
          /\ bram \in [0 .. BramLen - 1 -> Byte] /\ cfg \in BOOLEAN
      BY <1>1 DEF Chip, Remembers
    <3>3. with \in [0 .. BramLen - 1 -> Byte] /\ other \in [0 .. BramLen - 1 -> Byte]
      BY <3>2, ByteSet
    <3>4. /\ c033' \in {c033, boot.temp, bram[clk.reg]}
          /\ bram' \in {bram, clk_calculate_bram_checksum(bram), clk_calculate_bram_checksum(with), other}
          /\ cfg' \in {cfg, TRUE}
      <4>1. CASE read /\ clk.read
        BY <3>1, <4>1 DEF Bram1
      <4>2. CASE ~read /\ ~clk.read
        BY <3>1, <4>2 DEF Bram1
      <4>3. CASE read # clk.read
        BY <3>1, <4>3 DEF Bram1
      <4> QED BY <4>1, <4>2, <4>3 DEF Chip, Registers
    <3> HIDE DEF with, other
    <3>5. clk_calculate_bram_checksum(bram) \in [0 .. BramLen - 1 -> Byte]
          /\ clk_calculate_bram_checksum(with) \in [0 .. BramLen - 1 -> Byte]
      BY <3>2, <3>3, ChecksumKeepsBytes
    <3>6. bram' \in [0 .. BramLen - 1 -> Byte]
      BY <3>2, <3>3, <3>4, <3>5
    <3>7. c033' \in Byte /\ cfg' \in BOOLEAN
      BY <3>2, <3>4
    <3> QED BY <3>6, <3>7
  <2>2. CASE clk.mode # "BRAM1"
    <3>1. /\ UNCHANGED <<bram, cfg>>
          /\ c033' = IF clk.mode = "TIME" /\ read THEN time.sec[clk.reg] ELSE c033
      BY <2>2 DEF do_clock_data
    <3>2. clk.mode = "TIME" => time.sec[clk.reg] \in Byte
      BY DEF Chip, Registers, Remembers
    <3> QED BY <3>1, <3>2 DEF Chip, Remembers
  <2> QED BY <2>1, <2>2
<1>5. DOMAIN time' = {"sec", "age"} /\ time'.sec \in [0 .. 3 -> Byte]
  <2>1. \/ time' = time \/ time' \in clock_update_if_needed(time)
        \/ time' = [time EXCEPT !.sec[clk.reg] = c033]
    BY DEF do_clock_data
  <2>2. CASE time' = [time EXCEPT !.sec[clk.reg] = c033]
    BY <2>2 DEF Remembers, Chip
  <2>3. CASE time' \in clock_update_if_needed(time)
    BY <2>3, ClockAssumption DEF clock_update_if_needed, Remembers
  <2> QED BY <2>1, <2>2, <2>3 DEF Remembers
<1> QED BY <1>2, <1>3, <1>4, <1>5 DEF Remembers

\* A sequence with one more element.
LEMMA OneMore ==
  ASSUME NEW S, NEW s \in Seq(S), NEW h \in S
  PROVE  /\ s \o <<h>> \in Seq(S) /\ Len(s \o <<h>>) = Len(s) + 1
         /\ \A i \in 1 .. Len(s) : (s \o <<h>>)[i] = s[i]
         /\ (s \o <<h>>)[Len(s) + 1] = h
<1> DEFINE t == <<h>>
<1>1. t \in Seq(S) /\ Len(t) = 1 /\ t[1] = h
  OBVIOUS
<1>2. Len(s) \in Nat
  OBVIOUS
<1> HIDE DEF t
<1>3. /\ s \o t \in Seq(S) /\ Len(s \o t) = Len(s) + 1
      /\ \A i \in 1 .. Len(s) : (s \o t)[i] = s[i]
      /\ \A i \in 1 .. Len(t) : (s \o t)[Len(s) + i] = t[i]
  BY <1>1, ConcatProperties
<1>4. (s \o t)[Len(s) + 1] = h
  BY <1>1, <1>3
<1> QED BY <1>3, <1>4 DEF t

LEMMA AccessIs ==
  ASSUME NEW read \in BOOLEAN, NEW data \in Byte
  PROVE  <<read, data>> \in Accesses /\ <<read, data>>[1] = read /\ <<read, data>>[2] = data
BY DEF Accesses

\* What Access makes of the accesses so far.
LEMMA AccessJoins ==
  ASSUME hist \in Seq(Accesses), c033 \in Byte, NEW read \in BOOLEAN, NEW s, s = Access(read)
  PROVE  /\ s \in Seq(Accesses)
         /\ \/ Len(s) = 0
            \/ /\ clk.mode = "IDLE" /\ ~read /\ Extended(c033)
               /\ Len(s) = 1 /\ ~s[1][1] /\ s[1][2] = c033
            \/ /\ clk.mode # "IDLE" /\ Len(hist) # 0 /\ Len(s) = Len(hist) + 1
               /\ \A i \in 1 .. Len(hist) : s[i] = hist[i]
               /\ s[Len(s)][1] = read /\ s[Len(s)][2] = c033
<1> DEFINE h == <<read, c033>>
<1>1. h \in Accesses /\ h[1] = read /\ h[2] = c033
  BY AccessIs
<1>2. << >> \in Seq(Accesses) /\ Len(<< >>) = 0
  BY EmptySeq
<1>3. CASE s = << >>
  BY <1>2, <1>3
<1>4. CASE clk.mode = "IDLE" /\ s # << >>
  <2>1. ~read /\ c033 \div 8 = 23 /\ s = <<h>>
    BY <1>4 DEF Access
  <2> HIDE DEF h
  <2>2. <<h>> \in Seq(Accesses) /\ Len(<<h>>) = 1 /\ <<h>>[1] = h
    BY <1>1
  <2>3. Extended(c033)
    BY <2>1 DEF Extended
  <2> QED BY <1>1, <1>4, <2>1, <2>2, <2>3
<1>5. CASE clk.mode # "IDLE" /\ s # << >>
  <2>1. hist # << >> /\ s = hist \o <<h>>
    BY <1>5 DEF Access
  <2> HIDE DEF h
  <2>2. Len(hist) # 0 /\ Len(hist) \in Nat
    BY <2>1, EmptySeq
  <2>3. /\ s \in Seq(Accesses) /\ Len(s) = Len(hist) + 1
        /\ \A i \in 1 .. Len(hist) : s[i] = hist[i]
        /\ s[Len(hist) + 1] = h
    BY <1>1, <2>1, OneMore
  <2>4. s[Len(s)] = h
    BY <2>3
  <2> QED BY <1>1, <1>5, <2>2, <2>3, <2>4
<1> QED BY <1>3, <1>4, <1>5

\* An access, as the focus on the clock chip follows it.
LEMMA AccessFollows ==
  ASSUME Chip, Addressed, NEW read \in BOOLEAN, clk' = NextMode(read), hist' = Access(read)
  PROVE  Addressed'
<1>1. /\ clk.mode = "IDLE" /\ ~read /\ Extended(c033) =>
           clk'.mode = "BRAM2" /\ clk'.reg = 32 * (c033 % 8) /\ clk'.read
      /\ clk.mode = "BRAM2" => \/ clk'.mode = "IDLE"
                               \/ /\ ~read /\ clk'.mode = "BRAM1" /\ clk'.read = clk.read
                                  /\ clk'.reg = clk.reg + ((c033 \div 4) % 32)
      /\ clk.mode \notin {"IDLE", "BRAM2"} => clk'.mode = "IDLE"
  BY NextModeFits DEF Chip
<1>2. /\ hist' \in Seq(Accesses)
      /\ \/ Len(hist') = 0
         \/ /\ clk.mode = "IDLE" /\ ~read /\ Extended(c033)
            /\ Len(hist') = 1 /\ ~hist'[1][1] /\ hist'[1][2] = c033
         \/ /\ clk.mode # "IDLE" /\ Len(hist) # 0 /\ Len(hist') = Len(hist) + 1
            /\ \A i \in 1 .. Len(hist) : hist'[i] = hist[i]
            /\ hist'[Len(hist')][1] = read /\ hist'[Len(hist')][2] = c033
  BY AccessJoins DEF Chip, Addressed
<1>3. CASE clk'.mode = "IDLE" \/ Len(hist') = 0
  BY <1>2, <1>3 DEF Addressed
<1>4. CASE /\ clk.mode = "IDLE" /\ ~read /\ Extended(c033)
           /\ Len(hist') = 1 /\ ~hist'[1][1] /\ hist'[1][2] = c033
  BY <1>1, <1>2, <1>4 DEF Addressed, Opens
<1>5. CASE /\ clk'.mode # "IDLE"
           /\ clk.mode # "IDLE" /\ Len(hist) # 0 /\ Len(hist') = Len(hist) + 1
           /\ \A i \in 1 .. Len(hist) : hist'[i] = hist[i]
           /\ hist'[Len(hist')][1] = read /\ hist'[Len(hist')][2] = c033
  <2>1. clk.mode = "BRAM2"
    BY <1>1, <1>5
  <2>2. Len(hist) = 1 /\ Opens(hist[1]) /\ clk.reg = 32 * (hist[1][2] % 8) /\ clk.read
    BY <1>5, <2>1 DEF Addressed
  <2>3. Len(hist') = 2 /\ hist'[1] = hist[1] /\ hist'[2][1] = read /\ hist'[2][2] = c033
    BY <1>5, <2>2
  <2>4. /\ ~read /\ clk'.mode = "BRAM1" /\ clk'.read
        /\ clk'.reg = 32 * (hist[1][2] % 8) + ((c033 \div 4) % 32)
    BY <1>1, <1>5, <2>1, <2>2
  <2>5. Opens(hist'[1]) /\ clk'.reg = 32 * (hist'[1][2] % 8) + ((hist'[2][2] \div 4) % 32)
    BY <2>2, <2>3, <2>4
  <2> QED BY <1>2, <2>3, <2>4, <2>5 DEF Addressed, Chip
<1> QED BY <1>2, <1>3, <1>4, <1>5

\* A third access that reads gives the byte the first two name.
Names(h) ==
  LET hi == h[1][2] % 8
      lo == (h[2][2] \div 4) % 32
  IN  Len(h) = 3 /\ hist # h /\ ~h[1][1] /\ ~h[2][1] /\ h[3][1]
      /\ h[1][2] \div 8 = 23 /\ clk.mode = "BRAM1" =>
        c033' = IF 32 * hi + lo = BootByte /\ boot.temp # NoTempSlot THEN boot.temp
                ELSE bram[32 * hi + lo]

LEMMA AccessNames ==
  ASSUME Chip, Addressed, NEW read \in BOOLEAN, do_clock_data(read), hist' = Access(read)
  PROVE  Names(hist')
<1> DEFINE hi == hist'[1][2] % 8
           lo == (hist'[2][2] \div 4) % 32
<1> DEFINE reads == hist'[3][1]
<1> SUFFICES ASSUME Len(hist') = 3, reads, clk.mode = "BRAM1"
             PROVE  c033' = IF 32 * hi + lo = BootByte /\ boot.temp # NoTempSlot THEN boot.temp
                            ELSE bram[32 * hi + lo]
  BY DEF Names
<1> HIDE DEF hi, lo, reads
<1>1. /\ hist \in Seq(Accesses) /\ Len(hist) \in Nat
      /\ hist' \in Seq(Accesses)
      /\ \/ Len(hist') = 0
         \/ Len(hist') = 1
         \/ /\ Len(hist') = Len(hist) + 1
            /\ \A i \in 1 .. Len(hist) : hist'[i] = hist[i]
            /\ hist'[Len(hist')][1] = read
  <2>1. hist \in Seq(Accesses) /\ Len(hist) \in Nat
    BY DEF Addressed
  <2>2. c033 \in Byte
    BY DEF Chip
  <2> QED BY <2>1, <2>2, AccessJoins
<1>2. Len(hist) = 2 /\ hist'[1] = hist[1] /\ hist'[2] = hist[2] /\ read
  <2>1. Len(hist') # 0 /\ Len(hist') # 1
    OBVIOUS
  <2>2. /\ Len(hist') = Len(hist) + 1
        /\ \A i \in 1 .. Len(hist) : hist'[i] = hist[i]
        /\ hist'[Len(hist')][1] = read
    BY <1>1, <2>1, Zenon
  <2>3. Len(hist) + 1 = 3 /\ Len(hist) \in Nat
    BY <1>1, <2>2, Zenon
  <2>4. Len(hist) = 2
    <3>1. \A n \in Nat : n + 1 = 3 => n = 2
      OBVIOUS
    <3> QED BY <2>3, <3>1, Zenon
  <2>5. hist'[1] = hist[1] /\ hist'[2] = hist[2]
    BY <2>2, <2>4
  <2>6. hist'[3][1] = read
    BY <2>2, Zenon
  <2> QED BY <2>4, <2>5, <2>6, Zenon DEF reads
<1>3. /\ clk.read
      /\ clk.reg = 32 * (hist[1][2] % 8) + ((hist[2][2] \div 4) % 32)
  BY <1>2 DEF Addressed
<1>4. clk.reg = 32 * hi + lo
  <2>1. hi = hist[1][2] % 8 /\ lo = (hist[2][2] \div 4) % 32
    BY <1>2 DEF hi, lo
  <2> QED BY <1>3, <2>1
<1>5. Bram1(read)
  BY DEF do_clock_data
<1>6. c033' = IF clk.reg = BootByte /\ boot.temp # NoTempSlot THEN boot.temp ELSE bram[clk.reg]
  BY <1>2, <1>3, <1>5 DEF Bram1
<1> QED BY <1>4, <1>6

\* What is left alone stays as it was.
LEMMA ClockStays ==
  ASSUME ClockInv, UNCHANGED <<clockVars, hist>>
  PROVE  ClockInv'
BY Zenon DEF ClockInv, Chip, Remembers, Addressed, clockVars

LEMMA ChipStays ==
  ASSUME ClockInv, UNCHANGED <<clk, c033, c034, hist>>, Remembers'
  PROVE  ClockInv'
BY Zenon DEF ClockInv, Chip, Addressed

LEMMA DropKeeps ==
  ASSUME Remembers, DropTempSlot, time' = time
  PROVE  Remembers'
<1>1. CASE boot.temp = NoTempSlot
  BY <1>1 DEF DropTempSlot, Remembers
<1>2. CASE boot.temp # NoTempSlot
  <2> DEFINE b == [bram EXCEPT ![BootByte] = boot.orig]
  <2>1. b \in [0 .. BramLen - 1 -> Byte]
    BY ByteSet DEF Remembers
  <2>2. boot' = [boot EXCEPT !.temp = NoTempSlot] /\ bram' = clk_calculate_bram_checksum(b) /\ cfg' = TRUE
    BY <1>2 DEF DropTempSlot
  <2> HIDE DEF b
  <2>3. bram' \in [0 .. BramLen - 1 -> Byte]
    BY <2>1, <2>2, ChecksumKeepsBytes
  <2>4. NoTempSlot \in Byte
    BY ByteIs DEF NoTempSlot
  <2>5. DOMAIN boot' = {"temp", "orig"} /\ boot'.temp \in Byte /\ boot'.orig \in Byte
    BY <2>2, <2>4 DEF Remembers
  <2> QED BY <2>2, <2>3, <2>5 DEF Remembers
<1> QED BY <1>1, <1>2

LEMMA CommandsAreBytes ==
  ASSUME NEW val \in ClockCommands
  PROVE  val \in Byte
BY ByteIs DEF ClockCommands

\* What the guest writes to c034: it starts an access, with the direction it says.
LEMMA AccessStarts ==
  ASSUME NEW read \in BOOLEAN, clock_write_c034(IF read THEN 192 ELSE 128)
  PROVE  do_clock_data(read) /\ c034' \in 0 .. 127
<1>1. 192 % 128 \in 0 .. 127 /\ 128 % 128 \in 0 .. 127 /\ BitOf(192, 6) = 1 /\ BitOf(128, 6) = 0
  BY SMT DEF BitOf
<1>2. CASE read = TRUE
  <2>1. clock_write_c034(192)
    BY <1>2
  <2>2. c034' = 192 % 128 /\ do_clock_data(BitOf(192, 6) = 1)
    BY <2>1 DEF clock_write_c034
  <2>3. (BitOf(192, 6) = 1) = read
    BY <1>1, <1>2
  <2>4. do_clock_data(read)
    BY <2>2, <2>3, Zenon
  <2> QED BY <1>1, <2>2, <2>4
<1>3. CASE read = FALSE
  <2>1. clock_write_c034(128)
    BY <1>3
  <2> QED BY <1>1, <1>3, <2>1 DEF clock_write_c034
<1> QED BY <1>2, <1>3

LEMMA GuestClockKeeps ==
  ASSUME BramLen >= 256, ClockInv, GuestClock
  PROVE  ClockInv' /\ Names(hist')
<1>1. CASE \E val \in ClockCommands : write_c033(val) /\ UNCHANGED <<hist, writes>>
  <2>1. PICK val \in ClockCommands : write_c033(val) /\ UNCHANGED <<hist, writes>>
    BY <1>1
  <2>2. val \in Byte
    BY CommandsAreBytes
  <2>3. Chip' /\ Remembers' /\ Addressed'
    BY <2>1, <2>2 DEF ClockInv, Chip, Remembers, Addressed, write_c033
  <2>4. Names(hist')
    BY <2>1 DEF Names
  <2> QED BY <2>3, <2>4 DEF ClockInv
<1>2. CASE \E read \in BOOLEAN : clock_write_c034(IF read THEN 192 ELSE 128) /\ hist' = Access(read)
  <2>1. PICK read \in BOOLEAN : clock_write_c034(IF read THEN 192 ELSE 128) /\ hist' = Access(read)
    BY <1>2
  <2>2. do_clock_data(read) /\ c034' \in 0 .. 127
    BY <2>1, AccessStarts
  <2>3. Registers(clk') /\ c033' \in Byte /\ Remembers'
    BY <2>2, AccessFits DEF ClockInv
  <2>4. clk' = NextMode(read)
    BY <2>2 DEF do_clock_data
  <2>5. Addressed'
    BY <2>1, <2>4, AccessFollows DEF ClockInv
  <2>6. Names(hist')
    BY <2>1, <2>2, AccessNames DEF ClockInv
  <2>7. Chip'
    BY <2>2, <2>3 DEF Chip, Registers
  <2> QED BY <2>3, <2>5, <2>6, <2>7 DEF ClockInv
<1> QED BY <1>1, <1>2 DEF GuestClock

\* The clock beside what the other actions do.
LEMMA OthersKeepClock ==
  ASSUME BramLen >= 256, ClockInv,
         Next, ~GuestClock
  PROVE  ClockInv' /\ hist' = hist
<1>1. CASE \/ GuestReads \/ GuestWrites \/ GuestSelects \/ GuestSpeed \/ GuestZip
           \/ UserSpeed \/ UserReset \/ UserEjects
  <2>1. UNCHANGED <<clk, c033, c034, time, hist>> /\ KeepsSlot
    BY <1>1 DEF GuestReads, GuestWrites, GuestSelects, GuestSpeed, GuestZip,
                UserSpeed, UserReset, UserEjects, Disk, Quietly
  <2>2. UNCHANGED <<clockVars, hist>>
    BY <2>1 DEF KeepsSlot, clockVars
  <2> QED BY <2>2, ClockStays
<1>2. CASE SmartPortCall \/ Enters \/ Leaves \/ Ends
  <2>1. UNCHANGED <<clockVars, hist>>
    BY <1>2 DEF SmartPortCall, Enters, Leaves, Ends
  <2> QED BY <2>1, ClockStays
<1>3. CASE UserInserts
  <2>1. UNCHANGED <<clk, c033, c034, time, boot, bram, hist>> /\ cfg' = TRUE
    BY <1>3 DEF UserInserts, Disk, Quietly
  <2>2. Remembers'
    BY <2>1 DEF ClockInv, Remembers
  <2> QED BY <2>1, <2>2, ChipStays
<1>4. CASE VblPasses
  <2>1. UNCHANGED <<clk, c033, c034, time, hist>> /\ (DropTempSlot \/ KeepsSlot)
    BY <1>4 DEF VblPasses, Quietly
  <2>2. CASE KeepsSlot
    <3>1. UNCHANGED <<clockVars, hist>>
      BY <2>1, <2>2 DEF KeepsSlot, clockVars
    <3> QED BY <3>1, ClockStays
  <2>3. CASE DropTempSlot
    BY <2>1, <2>3, DropKeeps, ChipStays DEF ClockInv
  <2> QED BY <2>1, <2>2, <2>3
<1>5. CASE Boots
  <2>1. UNCHANGED <<clk, c033, c034, time, hist>> /\ DropTempSlot
    BY <1>5 DEF Boots
  <2> QED BY <2>1, DropKeeps, ChipStays DEF ClockInv
<1>6. CASE UserBoots
  <2>1. PICK slot \in {6, 7} : BootFrom(slot)
    BY <1>6 DEF UserBoots
  <2>2. UNCHANGED <<clk, c033, c034, time, bram, hist>> /\ cfg' = TRUE
        /\ boot' = [boot EXCEPT !.temp = slot]
    BY <1>6, <2>1 DEF UserBoots, BootFrom
  <2>3. slot \in Byte
    BY ByteIs
  <2>4. DOMAIN boot' = {"temp", "orig"} /\ boot'.temp \in Byte /\ boot'.orig \in Byte
    BY <2>2, <2>3 DEF ClockInv, Remembers
  <2>5. Remembers'
    BY <2>2, <2>4 DEF ClockInv, Remembers
  <2> QED BY <2>2, <2>5, ChipStays
<1>7. CASE ClockTicks
  <2>1. UNCHANGED <<clk, c033, c034, bram, boot, hist>> /\ cfg' = FALSE
        /\ time' = [time EXCEPT !.age = IF time.age > ClockAge THEN time.age ELSE @ + 1]
    BY <1>7 DEF ClockTicks, ClockVbl, config_vbl_update
  <2>2. DOMAIN time' = {"sec", "age"} /\ time'.sec \in [0 .. 3 -> Byte]
    BY <2>1 DEF ClockInv, Remembers
  <2>3. Remembers'
    BY <2>1, <2>2 DEF ClockInv, Remembers
  <2> QED BY <2>1, <2>3, ChipStays
<1> QED BY <1>1, <1>2, <1>3, <1>4, <1>5, <1>6, <1>7 DEF Next

LEMMA ClockNext ==
  ASSUME BramLen >= 256, ClockInv, [Next]_vars
  PROVE  ClockInv' /\ (hist' = hist \/ Names(hist'))
<1>1. CASE GuestClock
  BY <1>1, GuestClockKeeps
<1>2. CASE Next /\ ~GuestClock
  BY <1>2, OthersKeepClock
<1>3. CASE UNCHANGED vars
  BY <1>3, ClockStays DEF vars
<1> QED BY <1>1, <1>2, <1>3

LEMMA ClockStarts ==
  ASSUME Init
  PROVE  ClockInv
<1> DEFINE blank == [i \in 0 .. BramLen - 1 |-> IF i = MarkByte /\ TRUE THEN 255
                                                ELSE IF i = BootByte THEN 5 ELSE 0]
<1>1. /\ clk = [mode |-> "IDLE", reg |-> 0, read |-> FALSE] /\ c033 = 0 /\ c034 = 0
      /\ bram = clk_calculate_bram_checksum(blank)
      /\ boot = [temp |-> NoTempSlot, orig |-> 0]
      /\ time = [sec |-> [n \in 0 .. 3 |-> IF n = 3 THEN 160 ELSE 0], age |-> ClockAge]
      /\ cfg = FALSE /\ hist = << >>
  BY DEF Init, ClockInit
<1>2. 0 \in Byte /\ 5 \in Byte /\ 255 \in Byte /\ 160 \in Byte /\ NoTempSlot \in Byte
  BY ByteIs DEF NoTempSlot
<1>3. blank \in [0 .. BramLen - 1 -> Byte]
  BY <1>2
<1> HIDE DEF blank
<1>4. bram \in [0 .. BramLen - 1 -> Byte]
  BY <1>1, <1>3, ChecksumKeepsBytes
<1>5. Remembers
  BY <1>1, <1>2, <1>4 DEF Remembers
<1>6. clk.mode = "IDLE" /\ Registers(clk)
  BY <1>1 DEF Registers, Modes
<1>7. Chip
  BY <1>1, <1>2, <1>6 DEF Chip
<1>8. Addressed
  BY <1>1, <1>6, EmptySeq DEF Addressed
<1> QED BY <1>5, <1>7, <1>8 DEF ClockInv

\* The registers of the clock chip and the bytes of the battery RAM keep their
\* shapes: no command, however it goes on, names a byte that is not there.
THEOREM DiskClockTypes ==
  ASSUME BramLen >= 256
  PROVE  Spec => []ClockTypeOK
<1>1. Init => ClockInv
  BY ClockStarts
<1>2. ClockInv /\ [Next]_vars => ClockInv'
  BY ClockNext
<1>3. ClockInv => ClockTypeOK
  BY ClockAssumption DEF ClockInv, Chip, Registers, Remembers, ClockTypeOK
<1> QED BY <1>1, <1>2, <1>3, PTL DEF Spec

\* Three accesses that give an address name the byte that is then read: what
\* came before, even a command given up half-way, does not show in it.
THEOREM DiskCommand ==
  ASSUME BramLen >= 256
  PROVE  Spec => CommandNamesTheByte
<1>1. Init => ClockInv
  BY ClockStarts
<1>2. ClockInv /\ [Next]_vars => ClockInv'
  BY ClockNext
<1>3. ClockInv /\ [Next]_vars => [Names(hist')]_vars
  BY ClockNext DEF Names
<1> QED BY <1>1, <1>2, <1>3, PTL DEF Spec, CommandNamesTheByte, Names
=============================================================================
