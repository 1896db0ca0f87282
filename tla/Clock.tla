------------------------------- MODULE Clock -------------------------------
(***************************************************************************)
(* The clock chip behind c033 and c034 and the battery RAM it guards       *)
(* (clock.c).  A command takes two or three accesses of c034, each with a  *)
(* byte in c033; g_clk_mode says which access is next.  The boot slot a    *)
(* dropped image asks for (config.c) is kept beside the battery RAM until  *)
(* the machine has booted.                                                 *)
(*                                                                         *)
(* Time is counted in vertical blanks: how many are left until the cached  *)
(* time is too old, and the host's time, are what an update reads.         *)
(***************************************************************************)
EXTENDS CpuAlu, FiniteSets

CONSTANTS BramLen,      \* 256: bytes of battery RAM
          BootByte,     \* 0x28: the boot slot
          MarkByte,     \* 251: 0xff once the firmware has filled the RAM
          HostTimes,    \* times the host may tell: seconds since 1904, four bytes
          ClockAge      \* 5: VBLs for which a time read is good

ASSUME ClockAssumption ==
  /\ MarkByte \in Nat /\ BramLen = MarkByte + 5
  /\ BootByte \in 0 .. MarkByte - 1
  /\ HostTimes \subseteq [0 .. 3 -> Byte]

NoTempSlot == 254

VARIABLES clk,        \* g_clk_mode, g_clk_read and g_clk_reg1
          c033, c034, \* g_c033_data, g_c034_val
          bram,       \* g_bram[0], which g_bram_ptr points to
          boot,       \* g_temp_boot_slot and g_orig_boot_slot
          time,       \* g_clk_cur_time, and how old it is in VBLs
          cfg         \* g_config_gsport_update_needed
clockVars == <<clk, c033, c034, bram, boot, time, cfg>>

Modes == {"IDLE", "TIME", "INTERNAL", "BRAM1", "BRAM2"}

\* The words added from the last byte down to the first, the sum turned left
\* before each addition.
BramChecksum(b) ==
  LET sum[i \in 0 .. MarkByte] ==
        IF i = MarkByte THEN 0
        ELSE LET turned == 2 * (sum[i + 1] % 65536)
             IN  (turned % 65536) + b[i] + 256 * b[i + 1] + turned \div 65536
  IN  sum[0] % 65536

\* The checksum and its complement of a kind, once there is something to sum.
clk_calculate_bram_checksum(b) ==
  IF b[MarkByte] # 255 THEN b
  ELSE LET sum == BramChecksum(b)
           inverse == BitXor(sum, 43690)
       IN  [b EXCEPT ![MarkByte + 1] = sum % 256, ![MarkByte + 2] = sum \div 256,
                     ![MarkByte + 3] = inverse % 256, ![MarkByte + 4] = inverse \div 256]

\* clock_update_if_needed: the host is asked again when the time is old.
clock_update_if_needed(t) ==
  IF t.age > ClockAge THEN {[sec |-> h, age |-> 0] : h \in HostTimes} ELSE {t}

\* The write of a command byte while the chip is idle: the mode it leads to and
\* the register it names.
Command(data) ==
  LET op == (data \div 16) % 8
      reg == (data \div 4) % 4
  IN  CASE op = 0 -> <<"TIME", reg>>
        [] op = 3 /\ reg < 2 -> <<"INTERNAL", reg>>
        [] op = 3 /\ reg >= 2 -> <<"BRAM2", 32 * (data % 8)>>
        [] op = 2 -> <<"BRAM1", reg + 16>>
        [] op >= 4 -> <<"BRAM1", (data \div 4) % 16>>
        [] op = 1 -> <<"IDLE", reg>>

\* A mutant: the high bits of an extended address stay out.
ShortAddress(read) ==
  IF clk.mode # "IDLE" \/ read
  THEN IF clk.mode = "BRAM2" /\ ~read /\ BitAnd(c033, 131) = 0
       THEN [clk EXCEPT !.mode = "BRAM1", !.reg = (c033 \div 4) % 32]
       ELSE [clk EXCEPT !.mode = "IDLE"]
  ELSE [mode |-> Command(c033)[1], reg |-> Command(c033)[2], read |-> c033 >= 128]

\* do_clock_data, as far as the mode goes: an idle chip takes a command, an
\* extended one takes more of its address, all others end.
NextMode(read) ==
  IF clk.mode = "IDLE"
  THEN IF read THEN [clk EXCEPT !.reg = (c033 \div 4) % 4, !.read = (c033 >= 128)]
       ELSE [mode |-> Command(c033)[1], reg |-> Command(c033)[2], read |-> c033 >= 128]
  ELSE IF clk.mode = "BRAM2" /\ ~read /\ BitAnd(c033, 131) = 0
       THEN [clk EXCEPT !.mode = "BRAM1", !.reg = BitOr(clk.reg, (c033 \div 4) % 32)]
       ELSE [clk EXCEPT !.mode = "IDLE"]

\* The byte of battery RAM that clk.reg names is read into c033, or written.
Bram1(read) ==
  LET temp == clk.reg = BootByte /\ boot.temp # NoTempSlot
  IN  CASE read /\ clk.read ->
             /\ c033' = IF temp THEN boot.temp ELSE bram[clk.reg]
             /\ bram' = IF temp THEN clk_calculate_bram_checksum(bram) ELSE bram
             /\ cfg' = cfg
        [] ~read /\ ~clk.read ->
             /\ bram' = IF temp
                        THEN clk_calculate_bram_checksum([bram EXCEPT ![clk.reg] = boot.temp])
                        ELSE [bram EXCEPT ![clk.reg] = c033]
             /\ cfg' = TRUE
             /\ c033' = c033
        [] read # clk.read -> UNCHANGED <<c033, bram, cfg>>

do_clock_data(read) ==
  /\ clk' = NextMode(read)
  /\ IF clk.mode = "BRAM1" THEN Bram1(read)
     ELSE /\ UNCHANGED <<bram, cfg>>
          /\ c033' = IF clk.mode = "TIME" /\ read THEN time.sec[clk.reg] ELSE c033
  /\ CASE clk.mode = "IDLE" /\ ~read /\ Command(c033)[1] = "TIME" ->
            time' \in clock_update_if_needed(time)
       [] clk.mode = "TIME" /\ ~read ->
            time' = [time EXCEPT !.sec[clk.reg] = c033]
       [] OTHER -> time' = time
  /\ boot' = boot

\* A write of c034: bit 7 starts an access, bit 6 says that it reads.
clock_write_c034(val) ==
  /\ c034' = val % 128
  /\ IF val >= 128 THEN do_clock_data(BitOf(val, 6) = 1)
     ELSE UNCHANGED <<clk, c033, bram, boot, time, cfg>>

write_c033(val) ==
  /\ c033' = val
  /\ UNCHANGED <<clk, c034, bram, boot, time, cfg>>

-----------------------------------------------------------------------------
(* The boot slot of one boot.                                              *)

\* cfg_inspect_maybe_insert_file: the slot of the image just inserted.
BootFrom(slot) ==
  /\ boot' = [boot EXCEPT !.temp = slot]
  /\ UNCHANGED <<clk, c033, c034, bram, time>>

\* What iwm_vbl_update does when the drive stops and do_c700 when slot 7 boots.
DropTempSlot ==
  IF boot.temp = NoTempSlot THEN UNCHANGED <<boot, bram, cfg>>
  ELSE /\ boot' = [boot EXCEPT !.temp = NoTempSlot]
       /\ bram' = clk_calculate_bram_checksum([bram EXCEPT ![BootByte] = boot.orig])
       /\ cfg' = TRUE

\* A VBL: the time gets older, and with auto-update on the configuration file
\* is written three times a second.
ClockVbl == time' = [time EXCEPT !.age = IF time.age > ClockAge THEN time.age ELSE @ + 1]
config_vbl_update == cfg' = FALSE

ClockInit(firmware, slot) ==
  /\ clk = [mode |-> "IDLE", reg |-> 0, read |-> FALSE]
  /\ c033 = 0 /\ c034 = 0
  /\ bram = clk_calculate_bram_checksum(
              [i \in 0 .. BramLen - 1 |-> IF i = MarkByte /\ firmware THEN 255
                                          ELSE IF i = BootByte THEN slot ELSE 0])
  /\ boot = [temp |-> NoTempSlot, orig |-> 0]
  /\ time = [sec |-> [n \in 0 .. 3 |-> IF n = 3 THEN 160 ELSE 0], age |-> ClockAge]
  /\ cfg = FALSE

ClockTypeOK ==
  /\ clk.mode \in Modes /\ clk.read \in BOOLEAN /\ clk.reg \in 0 .. BramLen - 1
  /\ c033 \in Byte /\ c034 \in 0 .. 127
  /\ bram \in [0 .. BramLen - 1 -> Byte]
  /\ boot.temp \in Byte /\ boot.orig \in Byte /\ cfg \in BOOLEAN
=============================================================================
