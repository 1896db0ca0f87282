------------------------------- MODULE Disks -------------------------------
(***************************************************************************)
(* The drives and what is in them (config.c, iwm.c): inserting an image,   *)
(* ejecting it, writing dirty tracks back to the host's file, and moving   *)
(* the head, on which all of that leans.                                   *)
(*                                                                         *)
(* A drive is <<slot, number>>: slot 5 are the 3.5" drives, slot 6 the     *)
(* 5.25" ones, slot 7 the units of the SmartPort.  A file of the host is a *)
(* function from its units to their contents: a unit is a track's sectors  *)
(* for a floppy image and a block for a SmartPort one; a header is a unit  *)
(* too.  Handlers are operators on the machine m, a record of all the      *)
(* variables they change.                                                  *)
(***************************************************************************)
EXTENDS Nibble

CONSTANTS Units,       \* MAX_C7_DISKS: 32
          Tracks525,   \* 35
          Cylinders35, \* 80
          Sectors35,   \* <<12, 11, 10, 9, 8>>: sectors on the tracks of each zone
          ZoneTracks,  \* 32: tracks in a zone
          NibLen525,   \* NIB_LEN_525, 0x1900: nibbles on a 5.25" track
          SectorNibs35,\* 816: nibbles for each sector of a 3.5" track
          Images       \* what the host can open under each name; refuses: it opens
                       \* the file for writing, but its disk is full

ASSUME DisksAssumption ==
  /\ Units \in Nat /\ Units > 2
  /\ Tracks525 \in Nat \ {0} /\ Cylinders35 \in Nat \ {0}

NoFile == "none"
Drives == {<<6, 0>>, <<6, 1>>, <<5, 0>>, <<5, 1>>} \cup {<<7, u>> : u \in 0 .. Units - 1}
Is525(d) == d[1] = 6
IsSmartPort(d) == d[1] = 7

VARIABLES iwm,   \* the registers of the disk controller
          emul,  \* how the emulation is paced: motor, fast and slow modes
          c031,  \* g_c031_disk35: bit 6 selects the 3.5" drives, bit 7 their side
          drv,   \* the Disk record of each drive
          files, \* the host's files
          halt,  \* HALT_EVENT is pending: the engine returns to run_prog
          gone   \* the program has called exit()
diskVars == <<iwm, emul, c031, drv, files, halt, gone>>

\* iwm_init_drive.
iwm_init_drive ==
  [file |-> NoFile, name |-> NoFile, part |-> 0, start |-> 0, size |-> 0, track |-> 0,
   type |-> "prodos", vol |-> 254, prot |-> TRUE, through |-> FALSE, dirty |-> FALSE,
   ejected |-> FALSE, pos |-> 0, trks |-> << >>, elapsed |-> 0]

\* num_tracks, and a track that was given nibbles.
NumTracks(k) == Cardinality(DOMAIN k.trks)
NoTrack == [nib |-> << >>, overflow |-> 0, dirty |-> FALSE, pos |-> 0, at |-> -1]
HasTrack(k, q) == q \in DOMAIN k.trks /\ TrackLen(k.trks[q]) # 0

(* A head sent off its disk stops at the last track, on the side that is   *)
(* selected; without a disk it goes to track 0.                            *)
iwm_move_to_track(m, d, new) ==
  LET n == NumTracks(m.drv[d])
      last == IF Is525(d) THEN n - 4 ELSE n - 2 + m.iwm.head35
      to == IF new < 0 THEN 0 ELSE IF new >= n THEN last ELSE new
  IN  [m EXCEPT !.drv[d].track = IF to < 0 THEN 0 ELSE to]

-----------------------------------------------------------------------------
(* Writing back.                                                           *)

Sectors(q) == Sectors35[1 + q \div ZoneTracks]

\* The sectors of track q of a drive, and whether they could all be read.
Denib(k, d, q, garbage) ==
  IF Is525(d)
  THEN IF k.type = "nib" THEN [ok |-> TRUE, bytes |-> [i \in DOMAIN k.trks[q].nib |->
                                                          k.trks[q].nib[i][2]]]
       ELSE iwm_denib_track525(k.trks[q], q \div 4, k.type = "dos33", garbage)
  ELSE iwm_denib_track35(k.trks[q], q \div 2, q % 2, Sectors(q), garbage)

\* Reading a track back leaves no half-written nibble and no half-read one.
AfterReading(m) ==
  [m EXCEPT !.iwm = [m.iwm EXCEPT !.previous_write_bits = 0], !.emul = [m.emul EXCEPT !.fake = FALSE]]

\* A mutant: a track goes to where it would be in an image without a header.
Misplaced(m, d, q, garbage) ==
  LET k == m.drv[d]
      after == AfterReading([m EXCEPT !.drv[d].trks[q].dirty = FALSE])
      give(read) ==
        IF ~read.ok THEN [after EXCEPT !.drv[d].through = FALSE]
        ELSE [after EXCEPT !.files[k.file] = (k.trks[q].at - k.start :> read.bytes) @@ @]
  IN  IF ~HasTrack(k, q) \/ ~k.trks[q].dirty THEN m ELSE give(Denib(k, d, q, garbage))

\* disk_track_to_unix and the write of what it read: what is wrong is given up,
\* and the image is not written through any more.  What the host refuses to write
\* is given up too, but with a message only: the track is clean from then on.
disk_track_to_unix(m, d, q, garbage) ==
  LET k == m.drv[d]
      clean == [m EXCEPT !.drv[d].trks[q].dirty = FALSE]
      give(after, read) ==
        IF ~read.ok THEN [after EXCEPT !.drv[d].through = FALSE]
        ELSE IF Images[k.file].refuses THEN after
        ELSE [after EXCEPT !.files[k.file] = (k.trks[q].at :> read.bytes) @@ @]
  IN  IF ~HasTrack(k, q) \/ ~k.trks[q].dirty THEN m
      ELSE IF Is525(d) /\ q % 4 # 0 THEN [clean EXCEPT !.drv[d].through = FALSE]
      ELSE give(IF k.type = "nib" /\ Is525(d) THEN clean ELSE AfterReading(clean),
                Denib(k, d, q, garbage))

\* A mutant: the dirty mark of the disk is taken off before the motor is looked at.
ForgetDirty(m, d, garbage) ==
  [m EXCEPT !.drv[d].dirty = FALSE]

(* Every dirty track, until one cannot be read.                            *)
FlushTrack(m, d, q, garbage) ==
  IF m.drv[d].through THEN disk_track_to_unix(m, d, q, garbage) ELSE m
iwm_flush_disk_to_unix(m, d, garbage) ==
  LET n == NumTracks(m.drv[d])
      after[q \in 0 .. n] == IF q = 0 THEN [m EXCEPT !.drv[d].dirty = FALSE]
                             ELSE FlushTrack(after[q - 1], d, q - 1, garbage)
  IN  IF ~m.drv[d].dirty \/ ~m.drv[d].through THEN m ELSE after[n]

TakenOut(m, d) ==
  [m EXCEPT !.drv[d] = [@ EXCEPT
     !.trks = << >>, !.start = 0, !.size = 0, !.pos = 0, !.dirty = FALSE,
     !.through = FALSE, !.prot = TRUE, !.file = NoFile, !.ejected = TRUE]]
eject_disk(m, d, garbage) ==
  IF m.drv[d].file = NoFile THEN m ELSE TakenOut(iwm_flush_disk_to_unix(m, d, garbage), d)

\* The same image must not be in two drives, unless as two partitions.
eject_named_disk(m, d, name, part, garbage) ==
  LET k == m.drv[d]
  IN  IF k.file # NoFile /\ k.name = name /\ (part = 0 \/ k.part = 0 \/ k.part = part)
      THEN eject_disk(m, d, garbage) ELSE m

-----------------------------------------------------------------------------
(* Inserting.                                                              *)

(* What the header and the name of an image say of it.                     *)
ImageType(d, img) ==
  CASE img.header = "2img" -> IF img.dosOrder THEN "dos33" ELSE "prodos"
    [] img.header = "diskcopy" -> "prodos"
    [] img.header = "none" /\ ~Is525(d) -> "prodos"
    [] img.header = "none" /\ Is525(d) ->
         CASE img.ext = "po" -> "prodos" [] img.ext = "nib" -> "nib" [] OTHER -> "dos33"

CanWrite(d, img) ==
  /\ ~img.gz /\ img.writable
  /\ ~(img.header = "2img" /\ img.locked)
  /\ ImageType(d, img) # "nib"

Unit(file, u, zero) == IF u \in DOMAIN file THEN file[u] ELSE zero
ZeroTrack(sectors, bytes) == [s \in 0 .. sectors - 1 |-> [i \in 0 .. bytes - 1 |-> 0]]

\* disk_unix_to_nib for track q of a drive, whose data is unit u of its file.
Nibblized(k, d, file, q, u) ==
  IF ~Is525(d)
  THEN iwm_nibblize_track_35(Sectors(q) * SectorNibs35,
         Unit(file, u, ZeroTrack(Sectors(q), Bytes35)), q \div 2, q % 2, Sectors(q))
  ELSE IF k.type = "nib" THEN iwm_nibblize_track_nib525(Unit(file, u, << >>))
  ELSE iwm_nibblize_track_525(NibLen525,
         Unit(file, u, ZeroTrack(Sectors525, Bytes525)), k.vol, q \div 4, k.type = "dos33")
disk_unix_to_nib(k, d, file, q, u) == [Nibblized(k, d, file, q, u) EXCEPT !.at = u]

AllTracks(k, d, file) ==
  LET each == IF Is525(d) THEN 4 ELSE 1
      last == IF Is525(d) THEN 4 * Tracks525 - 1 ELSE 2 * Cylinders35 - 1
  IN  IF IsSmartPort(d) THEN << >>
      ELSE [q \in 0 .. last |->
              IF q % each = 0 THEN disk_unix_to_nib(k, d, file, q, k.start + q \div each)
              ELSE NoTrack]

\* The start and the size of an image, or of one of its partitions.
Extent(img, part) ==
  IF part = 0 THEN [start |-> img.start, size |-> img.size]
  ELSE IF part \in DOMAIN img.parts THEN img.parts[part] ELSE [start |-> -1, size |-> 0]

(* insert_disk.  The drive is ejected first only if it holds no file, which *)
(* changes nothing; its name is taken from it also when the file cannot be  *)
(* opened.                                                                  *)
Named(k, name, ejected, part) ==
  [k EXCEPT !.ejected = IF ejected THEN FALSE ELSE @, !.name = name, !.part = part, !.file = NoFile]

Identified(k, d, name, img, where) ==
  [k EXCEPT !.file = name, !.prot = ~CanWrite(d, img), !.through = CanWrite(d, img),
            !.type = ImageType(d, img),
            !.vol = IF img.header = "2img" /\ img.volSet /\ img.dosOrder THEN img.vol ELSE @,
            !.start = where.start, !.size = where.size,
            !.dirty = FALSE, !.pos = 0, !.trks = << >>]

Loaded(m, d, k) ==
  iwm_move_to_track([m EXCEPT !.drv[d] = [k EXCEPT !.trks = AllTracks(k, d, m.files[k.file])]],
                    d, k.track)

Opened(m, d, k, img, where) ==
  IF where.start < 0
  THEN [m EXCEPT !.drv[d] = [Identified(k, d, k.name, img, where) EXCEPT
                               !.file = NoFile, !.start = img.start, !.size = img.size]]
  ELSE Loaded(m, d, Identified(k, d, k.name, img, where))

PutIn(m, d, name, ejected, part, img) ==
  LET k == Named(m.drv[d], name, ejected, part)
  IN  IF ejected \/ ~img.opens THEN [m EXCEPT !.drv[d] = k]
      ELSE Opened(m, d, k, img, Extent(img, part))

\* The drives in the order in which they are gone through.
Drive(i) == IF i <= 4 THEN <<<<6, 0>>, <<5, 0>>, <<6, 1>>, <<5, 1>>>>[i] ELSE <<7, i - 5>>
EjectNamed(m, name, part, garbage) ==
  LET after[i \in 0 .. Units + 4] ==
        IF i = 0 THEN m ELSE eject_named_disk(after[i - 1], Drive(i), name, part, garbage)
  IN  after[Units + 4]
insert_disk(m, d, name, ejected, part, garbage) ==
  PutIn(IF ejected THEN m
        ELSE EjectNamed([m EXCEPT !.drv[d].ejected = FALSE], name, part, garbage),
        d, name, ejected, part, Images[name])

-----------------------------------------------------------------------------
Machine ==
  [iwm |-> iwm, emul |-> emul, c031 |-> c031, drv |-> drv, files |-> files,
   halt |-> halt, gone |-> gone]
Becomes(m) ==
  /\ iwm' = m.iwm /\ emul' = m.emul /\ c031' = m.c031 /\ drv' = m.drv
  /\ files' = m.files /\ halt' = m.halt /\ gone' = m.gone

\* The configuration panel, or the host dropping a file, between two runs of
\* the engine: it may go anywhere a disk of that kind fits.
Insert(d, name, ejected, part) ==
  /\ ~gone
  /\ \E g \in Garbage : \E m \in {insert_disk(Machine, d, name, ejected, part, g)} : Becomes(m)
Eject(d) ==
  /\ ~gone /\ drv[d].file # NoFile
  /\ \E g \in Garbage : \E m \in {eject_disk(Machine, d, g)} : Becomes(m)
=============================================================================
