------------------------------- MODULE Nibble -------------------------------
(***************************************************************************)
(* How a floppy track is put on the surface and read back (iwm.c and       *)
(* iwm_35_525.h): disk_nib_out, which lays nibbles down one at a time, the *)
(* 6-and-2 code of the 5.25" sectors, the three-checksum code of the 3.5"  *)
(* ones, and the two routines that turn a written track back into sectors. *)
(*                                                                         *)
(* A surface is the nibble area of a track: a sequence of pairs            *)
(* <<bits, value>> (a place of 0 bits is skipped), how many bits too many  *)
(* it holds (overflow_size), whether it was written since (track_dirty),   *)
(* nib_pos, the place under the head, counted from 0, and the unit of the  *)
(* image the track is of (at).                                             *)
(***************************************************************************)
EXTENDS CpuAlu, SequencesExt

CONSTANTS AuxLen,     \* 0x56: the two low bits of three bytes share a nibble of the first AuxLen
          Sectors525, \* 16: sectors on a 5.25" track
          Sync525,    \* <<70, 14>>: sync nibbles before the first and before any other sector
          Groups35,   \* 0xab: groups of three bytes in a 3.5" sector, the last one byte short
          Tags35,     \* 4: groups of zeroes before them
          Sync35,     \* <<400, 54>>: as Sync525
          Garbage     \* what a buffer on the stack may hold before it is written

ASSUME NibbleAssumption ==
  /\ AuxLen \in Nat \ {0} /\ Sectors525 \in 1 .. 16
  /\ Groups35 \in Nat \ {0} /\ Tags35 \in Nat

\* Bytes of a sector: 256 and 512 with the numbers of the code.
Bytes525 == 3 * AuxLen - 2
Bytes35 == 3 * Groups35 - 1

NIBS_FROM_ADDR_TO_DATA == 20

phys_to_dos_sec ==
  <<0, 7, 14, 6, 13, 5, 12, 4, 11, 3, 10, 2, 9, 1, 8, 15>>
phys_to_prodos_sec ==
  <<0, 8, 1, 9, 2, 10, 3, 11, 4, 12, 5, 13, 6, 14, 7, 15>>

\* Where the tables send a physical sector, among the sectors there are.
LogSec(dos33, phys) ==
  LET table == IF dos33 THEN phys_to_dos_sec ELSE phys_to_prodos_sec
  IN  Cardinality({p \in 1 .. Sectors525 : table[p] < table[phys + 1]})

to_disk_byte ==
  <<150, 151, 154, 155, 157, 158, 159, 166, 167, 171, 172, 173, 174, 175, 178, 179,
    180, 181, 182, 183, 185, 186, 187, 188, 189, 190, 191, 203, 205, 206, 207, 211,
    214, 215, 217, 218, 219, 220, 221, 222, 223, 229, 230, 231, 233, 234, 235, 236,
    237, 238, 239, 242, 243, 244, 245, 246, 247, 249, 250, 251, 252, 253, 254, 255>>

\* Each value as the nibble of its low six bits.
Coded(vals) == [i \in DOMAIN vals |-> to_disk_byte[1 + (vals[i] % 64)]]
from_disk_byte == [b \in Byte |-> Max({-1} \cup {i \in 0 .. 63 : to_disk_byte[1 + i] = b})]

-----------------------------------------------------------------------------
(* Laying nibbles down. *)

TrackLen(t) == Len(t.nib)
Wrap(t, pos) == IF pos >= TrackLen(t) THEN 0 ELSE pos
Bits(t, pos) == t.nib[1 + pos][1]

\* The bits of the k places from pos on.
BitsOver(t, pos, k) ==
  FoldLeft(LAMBDA sum, i : sum + Bits(t, (pos + i) % TrackLen(t)), 0, [i \in 1 .. k |-> i - 1])

(* A nibble that was long in coming passes over what was under the head;   *)
(* once the track holds more than 8 bits too many a long nibble also takes *)
(* the place after it.                                                     *)
Laid(t, pos1, pos2, over, bits, val) ==
  LET written == [t.nib EXCEPT ![1 + pos1] = <<bits, IF val < 128 THEN val + 128 ELSE val>>]
  IN  IF over > 8 /\ bits > 8
      THEN [t EXCEPT !.nib = [written EXCEPT ![1 + pos2] = <<0, 0>>], !.dirty = TRUE,
                     !.overflow = over - Bits(t, pos2), !.pos = (pos2 + 1) % TrackLen(t)]
      ELSE [t EXCEPT !.nib = written, !.dirty = TRUE, !.overflow = over, !.pos = pos2]
LaidAt(t, pos, bits, val) ==
  Laid(t, pos, (pos + 1) % TrackLen(t), t.overflow + bits - Bits(t, pos), bits, val)
LaidAfter(t, pos, left, val) == LaidAt(t, pos, IF left > 10 THEN 10 ELSE left, val)
disk_nib_out(t, val, size) ==
  LET pos0 == Wrap(t, t.pos)
      left(k) == size - BitsOver(t, pos0, k)
      fits(k) == left(k) < 10 + Bits(t, (pos0 + k) % TrackLen(t))
      passed == CHOOSE k \in 0 .. size + TrackLen(t) : fits(k) /\ \A j \in 0 .. k - 1 : ~fits(j)
  IN  LaidAfter(t, (pos0 + passed) % TrackLen(t), left(passed), val)

\* A blank track of n nibbles, and one with the nibbles of out laid on it.
BlankTrack(n) ==
  [nib |-> [i \in 1 .. n |-> <<8, 255>>], overflow |-> 0, dirty |-> FALSE, pos |-> 0, at |-> -1]
disk_nib_end_track(t) ==
  [nib |-> t.nib, overflow |-> t.overflow, dirty |-> FALSE, pos |-> 0, at |-> t.at]
\* (The one element of a set, so that TLC has t before it goes into the operator.)
LayTrack(n, out) ==
  disk_nib_end_track(FoldLeft(LAMBDA t, o : CHOOSE u \in {disk_nib_out(v, o[1], o[2]) : v \in {t}} : TRUE,
                              BlankTrack(n), out))

Repeat(n, val, size) == [i \in 1 .. n |-> <<val, size>>]
Eights(vals) == [i \in DOMAIN vals |-> <<vals[i], 8>>]
disk_4x4_nib_out(val) == Eights(<<BitOr(170, val \div 2), BitOr(170, val)>>)

-----------------------------------------------------------------------------
(* 5.25" sectors. *)

\* A sector's bytes (from 0) as AuxLen nibbles of low bits, then the high bits.
sector_to_partial_nib(in) ==
  LET low(i) == IF i >= Bytes525 THEN 0 ELSE 2 * (in[i] % 2) + ((in[i] \div 2) % 2)
      aux(x) == (16 * low(x + 2 * AuxLen)) + (4 * low(x + AuxLen)) + low(x)
  IN  [i \in 0 .. AuxLen + Bytes525 - 1 |->
         IF i < AuxLen THEN aux(i) ELSE in[i - AuxLen] \div 4]

\* The nibbles of one physical sector: its address, then its data.
Sector525(buf, vol, track, dos33, phys) ==
  LET part == sector_to_partial_nib(buf[LogSec(dos33, phys)])
      last == AuxLen + Bytes525 - 1
      before(i) == IF i = 0 THEN 0 ELSE part[i - 1]
  IN  Repeat(Sync525[IF phys = 0 THEN 1 ELSE 2], 255, 10)
      \o <<<<213, 10>>>> \o Eights(<<170, 150>>)
      \o disk_4x4_nib_out(vol) \o disk_4x4_nib_out(track) \o disk_4x4_nib_out(phys)
      \o disk_4x4_nib_out(BitXor(BitXor(vol, track), phys))
      \o Eights(<<222, 170, 235, 255>>) \o Repeat(5, 255, 10)
      \o <<<<213, 10>>>> \o Eights(<<170, 173>>)
      \o Eights(Coded(Append([i \in 1 .. last + 1 |-> BitXor(before(i - 1), part[i - 1])],
                             part[last])))
      \o Eights(<<222, 170, 235, 255>>) \o Repeat(6, 255, 10)

iwm_nibblize_track_525(n, buf, vol, track, dos33) ==
  LayTrack(n, FlattenSeq([p \in 1 .. Sectors525 |-> Sector525(buf, vol, track, dos33, p - 1)]))

\* A .nib image holds the nibbles themselves.
iwm_nibblize_track_nib525(nibs) ==
  [nib |-> [i \in DOMAIN nibs |-> <<8, nibs[i]>>], overflow |-> 0, dirty |-> FALSE, pos |-> 0, at |-> -1]

-----------------------------------------------------------------------------
(* Reading a whole track back.  The read routine is called with the head   *)
(* at place 0 and in its fast mode, so the n-th call (from 0) returns the  *)
(* n-th nibble that has bits, around and around.                           *)

Readable(t) == SelectSeq(t.nib, LAMBDA nb : nb[1] # 0)
NthNib(r, n) == r[1 + (n % Len(r))][2]
Dec(r, n) == from_disk_byte[NthNib(r, n)]

\* BitAnd of (val1 << 1) + 1 and val2.
disk_unnib_4x4(r, n) == BitAnd((2 * NthNib(r, n) + 1) % 65536, NthNib(r, n + 1))

\* A loop that reads count nibbles and adds each to a running exclusive or;
\* a byte that is no nibble ends the loop, and only the loop.
ReadRun(r, n, count, prev) ==
  LET good == Min({i \in 0 .. count - 1 : Dec(r, n + i) < 0} \cup {count})
      sum[i \in -1 .. good - 1] == IF i = -1 THEN prev ELSE BitXor(sum[i - 1], Dec(r, n + i))
  IN  [got |-> [i \in 0 .. good - 1 |-> sum[i]], prev |-> sum[good - 1],
       n |-> n + (IF good = count THEN count ELSE good + 1)]

\* The address of a sector ends at n; where its data begins, or -1.
DataAt(r, n) ==
  LET seek(s, i) ==
        IF s.found THEN s
        ELSE IF s.val # 213 THEN [s EXCEPT !.val = NthNib(r, s.n), !.n = s.n + 1]
        ELSE IF NthNib(r, s.n) # 170 THEN [s EXCEPT !.val = NthNib(r, s.n), !.n = s.n + 1]
        ELSE IF NthNib(r, s.n + 1) # 173 THEN [s EXCEPT !.val = NthNib(r, s.n + 1), !.n = s.n + 2]
        ELSE [s EXCEPT !.n = s.n + 2, !.found = TRUE]
      last == FoldLeft(seek, [n |-> n, val |-> 0, found |-> FALSE],
                       [i \in 1 .. NIBS_FROM_ADDR_TO_DATA - 1 |-> i])
  IN  IF last.found THEN last.n ELSE -1

\* One sector from its data on: its low bits, then its high bits.  It is good only
\* if the nibbles add up; the places of the buffer that were not read hold what was
\* there.
Sum525(r, low, high, garbage) ==
  LET aux(k) == IF k \in DOMAIN low.got THEN low.got[k] ELSE garbage
      top(i) == IF i \in DOMAIN high.got THEN high.got[i] ELSE garbage
      two(i) == (aux(i % AuxLen) \div 4^(i \div AuxLen)) % 4
  IN  [ok |-> Dec(r, high.n) = high.prev,
       n |-> high.n + 1,
       bytes |-> [i \in 0 .. Bytes525 - 1 |->
                    (4 * top(i) + 2 * (two(i) % 2) + two(i) \div 2) % 256]]
HighBits(r, low, garbage) == Sum525(r, low, ReadRun(r, low.n, Bytes525, low.prev), garbage)
ReadSector525(r, n, garbage) == HighBits(r, ReadRun(r, n, AuxLen, 0), garbage)

\* A sector that is good goes into the place of its number.
Stop(s) == [s EXCEPT !.stop = TRUE]
Got(s, number, place, sector) ==
  IF sector.ok
  THEN [s EXCEPT !.n = sector.n, !.done = s.done \cup {number},
                 !.out = [s.out EXCEPT ![place] = sector.bytes]]
  ELSE Stop(s)

\* What follows d5 aa 96: the address is checked against itself, the track and
\* the sectors there were, then the data is read.
CheckAddress(r, at, vol, trk, phys, cksum, track, dos33, s, garbage) ==
  IF \/ phys >= Sectors525
     \/ BitXor(BitXor(vol, trk), BitXor(phys, cksum)) # 0
     \/ trk # track
     \/ phys \in s.done
     \/ at = -1
  THEN Stop(s)
  ELSE Got(s, phys, LogSec(dos33, phys), ReadSector525(r, at, garbage))
AddressFound(r, n, track, dos33, s, garbage) ==
  CheckAddress(r, DataAt(r, n + 8), disk_unnib_4x4(r, n), disk_unnib_4x4(r, n + 2),
               disk_unnib_4x4(r, n + 4), disk_unnib_4x4(r, n + 6), track, dos33, s, garbage)

\* Where the first d5 aa 96 from the n-th nibble on ends, or -1: a loop of twice
\* the nibble area finds it in one turn or never.
NextMark(r, n) ==
  LET at == {k \in 0 .. Len(r) - 1 : /\ NthNib(r, n + k) = 213
                                     /\ NthNib(r, n + k + 1) = 170
                                     /\ NthNib(r, n + k + 2) = 150}
  IN  IF at = {} THEN -1 ELSE n + (CHOOSE k \in at : \A j \in at : k <= j) + 3

\* A track is read at every mark until something is wrong.
NothingRead(sectors, bytes, garbage) ==
  [n |-> 0, done |-> {}, stop |-> FALSE,
   out |-> [p \in 0 .. sectors - 1 |-> [i \in 0 .. bytes - 1 |-> garbage]]]
AllRead(s, sectors) == [ok |-> Cardinality(s.done) = sectors, bytes |-> s.out]

(* The sectors of a track, and whether all of them were found.             *)
NextSector525(r, n, track, dos33, s, garbage) ==
  IF s.stop \/ n = -1 THEN Stop(s) ELSE AddressFound(r, n, track, dos33, s, garbage)
iwm_denib_track525(t, track, dos33, garbage) ==
  LET r == Readable(t)
  IN  AllRead(FoldLeft(LAMBDA s, i : NextSector525(r, NextMark(r, s.n), track, dos33, s, garbage),
                       NothingRead(Sectors525, Bytes525, garbage), [i \in 1 .. Sectors525 |-> i]),
              Sectors525)

-----------------------------------------------------------------------------
(* 3.5" sectors.  tmp_5c, tmp_5d and tmp_5e are three running checksums,   *)
(* each fed by the carry of the one before it.                             *)

\* What is above the low byte of an unsigned sum.
CarryOf(sum) == (sum \div 256) % 16777216
Zeroes == [c5 |-> 0, d5 |-> 0, e5 |-> 0]
\* tmp_5c turned left; its carry starts a group.
Turned(k) == (2 * k.c5 + (2 * k.c5) \div 256) % 256

\* The checksums after the bytes v0, v1 and, unless the group is the short one,
\* v2; and what each byte is scrambled with.
Group35(k, v0, v1, v2, short) ==
  LET c5 == Turned(k)
      e5 == v0 + k.e5 + (2 * k.c5) \div 256
      d5 == v1 + k.d5 + CarryOf(e5)
      third == IF short THEN c5 ELSE v2 + c5 + CarryOf(d5)
  IN  [sums |-> [c5 |-> third % 256, d5 |-> d5 % 256, e5 |-> e5 % 256],
       keys |-> <<c5, e5 % 256, d5 % 256>>]

\* tmp_5f: the two high bits of each checksum.
TopBits(k) == 16 * (k.e5 \div 64) + 4 * (k.d5 \div 64) + (k.c5 \div 64)

\* A group as nibbles: the high bits of all three, then the low six of each.
Nibs35(c, d, e) ==
  <<16 * (c \div 64) + 4 * (d \div 64) + (e \div 64), c, d, e>>

\* A sector's bytes (from 0): groups of zeroes, the groups, the last without
\* its third byte, then the checksums.
PutGroup(s, grp, v0, v1, v2, short) ==
  [sums |-> grp.sums,
   out |-> s.out \o Nibs35(BitXor(v0, grp.keys[1]), BitXor(v1, grp.keys[2]),
                           IF short THEN 0 ELSE BitXor(v2, grp.keys[3]))]
NextGroup(s, v0, v1, v2, short) ==
  PutGroup(s, Group35(s.sums, v0, v1, v2, short), v0, v1, v2, short)
PutSums(out, k) == Front(out) \o <<TopBits(k), k.e5, k.d5, k.c5>>
EndGroups(s) == PutSums(s.out, s.sums)
Data35(in) ==
  LET byte(i) == IF i < Bytes35 THEN in[i] ELSE 0
  IN  EndGroups(FoldLeft(LAMBDA s, g : NextGroup(s, byte(3 * g), byte(3 * g + 1),
                                                 byte(3 * g + 2), g = Groups35 - 1),
                         [sums |-> Zeroes,
                          out |-> FlattenSeq([i \in 1 .. Tags35 |-> Nibs35(0, 0, 0)])],
                         [g \in 1 .. Groups35 |-> g - 1]))

\* The interleave of two: where each logical sector goes on the track.
PhysToLog(sectors) ==
  LET place(s, log) ==
        LET free == CHOOSE p \in 0 .. sectors - 1 :
                      /\ s.map[p] = -1
                      /\ \A q \in 0 .. sectors - 1 :
                           s.map[q] = -1 => (p - s.at) % sectors <= (q - s.at) % sectors
        IN  [map |-> [s.map EXCEPT ![free] = log], at |-> (free + 2) % sectors]
  IN  FoldLeft(place, [map |-> [p \in 0 .. sectors - 1 |-> -1], at |-> 0],
               [i \in 1 .. sectors |-> i - 1]).map

Sector35(buf, track, side, log, phys) ==
  LET trk == track % 64
      sides == 32 * side + track \div 64
  IN  Repeat(Sync35[IF phys = 0 THEN 1 ELSE 2], 255, 10)
      \o <<<<213, 10>>>> \o Eights(<<170, 150>>)
      \o Eights(Coded(<<trk, log, sides, 34, BitXor(BitXor(trk, log), BitXor(sides, 34))>>))
      \o Eights(<<222, 170>>)
      \o Repeat(5, 255, 10) \o <<<<213, 10>>>> \o Eights(<<170, 173>>)
      \o Eights(Coded(<<log>> \o Data35(buf[log]))) \o Eights(<<222, 170, 255>>)

iwm_nibblize_track_35(n, buf, track, side, sectors) ==
  LET map == PhysToLog(sectors)
  IN  LayTrack(n, FlattenSeq([p \in 1 .. sectors |->
                                Sector35(buf, track, side, map[p - 1], p - 1)]))

\* a ^ b of a byte b with a word a, which is negative when a nibble was none.
WordXor(a, b) == 256 * (a \div 256) + BitXor(a % 256, b)

\* Group35 and Nibs35 undone: the checksums after the bytes that come out of
\* three nibbles and the nibble of their high bits.
Ungrouped(c0, e5, d0, d5, e0, key0, short) ==
  [sums |-> [c5 |-> (IF short THEN key0 ELSE e0 + key0 + CarryOf(d5)) % 256,
             d5 |-> d5 % 256, e5 |-> e5 % 256],
   bytes |-> <<c0 % 256, d0 % 256, e0 % 256>>]
Third(k, c0, e5, d0, d5, hi, c, short) ==
  Ungrouped(c0, e5, d0, d5, WordXor(c + 64 * (hi % 4), d5 % 256), Turned(k), short)
Second(k, c0, e5, d0, hi, c, short) ==
  Third(k, c0, e5, d0, d0 + k.d5 + CarryOf(e5), hi, c, short)
First(k, c0, e5, hi, b, c, short) ==
  Second(k, c0, e5, WordXor(b + 64 * ((hi \div 4) % 4), e5 % 256), hi, c, short)
Byte0(k, c0, hi, b, c, short) == First(k, c0, c0 + k.e5 + (2 * k.c5) \div 256, hi, b, c, short)
Ungroup35(k, hi, a, b, c, short) ==
  Byte0(k, WordXor(a + 64 * ((hi \div 16) % 4), Turned(k)), hi, b, c, short)

\* The data of a sector from n on: the groups undone, then the checksums and
\* the two nibbles that end it.
KeepGroup(s, g, u, last) ==
  [s EXCEPT !.sums = u.sums,
            !.out = [i \in DOMAIN s.out |->
                       IF i \div 3 = g /\ ~(g = last /\ i % 3 = 2)
                       THEN u.bytes[1 + (i % 3)] ELSE s.out[i]]]
ReadGroup(r, s, g, at, last) ==
  IF s.n # -1 THEN s
  ELSE IF Dec(r, at) < 0 THEN [s EXCEPT !.n = at + 1]
  ELSE IF Dec(r, at + 1) < 0
  THEN [s EXCEPT !.n = at + 2, !.sums = [s.sums EXCEPT !.c5 = Turned(s.sums)]]
  ELSE KeepGroup(s, g, Ungroup35(s.sums, Dec(r, at), Dec(r, at + 1), Dec(r, at + 2),
                                 Dec(r, at + 3), g = last), last)
CheckSums(r, k, out, end) ==
  LET top == Dec(r, end)
  IN  [ok |-> /\ k.e5 = Dec(r, end + 1) + 64 * ((top \div 16) % 4)
              /\ k.d5 = Dec(r, end + 2) + 64 * ((top \div 4) % 4)
              /\ k.c5 = Dec(r, end + 3) + 64 * (top % 4)
              /\ NthNib(r, end + 4) = 222 /\ NthNib(r, end + 5) = 170,
       n |-> end + 6,
       bytes |-> [i \in 0 .. Bytes35 - 1 |-> out[3 * Tags35 + i]]]
EndSector35(r, s, end) == CheckSums(r, s.sums, s.out, IF s.n = -1 THEN end ELSE s.n)
ReadSector35(r, n, garbage) ==
  LET last == Groups35 + Tags35 - 1
  IN  EndSector35(r, FoldLeft(LAMBDA s, g : ReadGroup(r, s, g, n + 4 * g, last),
                              [sums |-> Zeroes, n |-> -1,
                               out |-> [i \in 0 .. 3 * last + 2 |-> garbage]],
                              [g \in 1 .. last + 1 |-> g - 1]),
                  n + 4 * last + 3)

\* What follows d5 aa 96 on a 3.5" track.  A capacity that is no nibble is -1
\* in the checksum of the address.
AddressOK35(r, n, track, side, trk, log, sides, cap) ==
  LET three == BitXor(BitXor(trk, log), sides)
  IN  /\ trk = track % 64
      /\ sides = 32 * side + track \div 64
      /\ Dec(r, n + 4) = IF cap < 0 THEN -1 - three ELSE BitXor(three, cap)
DataFound35(r, data, log, s, garbage) ==
  IF NthNib(r, data) = 170 /\ NthNib(r, data + 1) = 173 /\ Dec(r, data + 2) = log
  THEN Got(s, log, log, ReadSector35(r, data + 3, garbage)) ELSE Stop(s)
AddressFound35(r, n, track, side, sectors, s, garbage) ==
  LET log == Dec(r, n + 1)
      mark == {i \in 0 .. 37 : NthNib(r, n + 5 + i) = 213}
  IN  IF /\ AddressOK35(r, n, track, side, Dec(r, n), log, Dec(r, n + 2), Dec(r, n + 3))
         /\ log \in 0 .. sectors - 1 /\ log \notin s.done
         /\ mark # {}
      THEN DataFound35(r, n + 6 + Min(mark), log, s, garbage) ELSE Stop(s)

NextSector35(r, n, track, side, sectors, s, garbage) ==
  IF s.stop \/ n = -1 THEN Stop(s) ELSE AddressFound35(r, n, track, side, sectors, s, garbage)
iwm_denib_track35(t, track, side, sectors, garbage) ==
  LET r == Readable(t)
  IN  AllRead(FoldLeft(LAMBDA s, i : NextSector35(r, NextMark(r, s.n), track, side, sectors, s, garbage),
                       NothingRead(sectors, Bytes35, garbage), [i \in 1 .. sectors |-> i]),
              sectors)
=============================================================================
