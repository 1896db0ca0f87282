----------------------------- MODULE SmartPort -----------------------------
(***************************************************************************)
(* The block devices of slot 7 (smartport.c): a program calls the firmware *)
(* at c70d (SmartPort) or c70a (ProDOS), or boots at c700; the engine      *)
(* traps the address and the handler reads or writes a block of the image. *)
(* A block's contents are a model value, the buffer holds one block, and   *)
(* sizes are in bytes, a block of which has BlockBytes.                    *)
(***************************************************************************)
EXTENDS Disks

CONSTANTS BlockBytes, \* 0x200
          Zero        \* a block of zeroes

VARIABLES buffer,  \* the guest's memory where a call has its block
          answer   \* what a call leaves: accumulator, carry, X and Y, where it goes on
smartVars == <<buffer, answer>>

Blocks(size) == (size + BlockBytes - 1) \div BlockBytes

\* The record of a unit.  One past the last is the controller's own fields, the
\* file pointer of which is its phases.
Wild(unit) == unit = Units
WildFile == \E p \in 2 .. 3 : iwm.phase[p] # 0

\* The block of unit's image; the check lets the one after its last through.
Position(unit, blk) == drv[<<7, unit>>].start + blk
InImage(unit, blk) == blk * BlockBytes <= drv[<<7, unit>>].size

Fails(code) == [code |-> code, buffer |-> buffer, files |-> files]

do_read_c7(unit, blk) ==
  LET k == drv[<<7, unit>>]
  IN  IF unit < 0 \/ unit > Units THEN Fails(40)
      ELSE IF k.file = NoFile THEN Fails(47)
      ELSE IF ~InImage(unit, blk) THEN Fails(39)
      ELSE IF Position(unit, blk) \notin DOMAIN files[k.file] THEN Fails(39)
      ELSE [code |-> 0, buffer |-> files[k.file][Position(unit, blk)], files |-> files]

\* A mutant: the write protection of an image is not looked at.
UnlockedWrite(unit, blk) ==
  LET k == drv[<<7, unit>>]
  IN  IF unit < 0 \/ unit > Units \/ k.file = NoFile THEN Fails(40)
      ELSE IF ~InImage(unit, blk) THEN Fails(39)
      ELSE [code |-> 0, buffer |-> buffer,
            files |-> [files EXCEPT ![k.file] = (Position(unit, blk) :> buffer) @@ files[k.file]]]

do_write_c7(unit, blk) ==
  LET k == drv[<<7, unit>>]
  IN  IF unit < 0 \/ unit > Units \/ k.file = NoFile THEN Fails(40)
      ELSE IF ~InImage(unit, blk) THEN Fails(39)
      ELSE IF k.prot THEN Fails(43)
      ELSE IF ~k.through THEN Fails(0)
      ELSE [code |-> 0, buffer |-> buffer,
            files |-> [files EXCEPT ![k.file] = (Position(unit, blk) :> buffer) @@ files[k.file]]]

\* Zeroes from the start of the image to its end.
do_format_c7(unit) ==
  LET k == drv[<<7, unit>>]
      whole == {k.start + b : b \in 0 .. (k.size \div BlockBytes) - 1}
  IN  IF unit < 0 \/ unit > Units \/ k.file = NoFile THEN Fails(40)
      ELSE IF k.prot THEN Fails(43)
      ELSE IF ~k.through THEN Fails(0)
      ELSE [code |-> 0, buffer |-> buffer,
            files |-> [files EXCEPT ![k.file] = [b \in whole |-> Zero] @@ files[k.file]]]

\* A call's outcome: into memory and the file, and the registers.
Done(r, x, y) ==
  /\ buffer' = r.buffer /\ files' = r.files
  /\ answer' = [acc |-> r.code, carry |-> r.code # 0, x |-> x, y |-> y, to |-> "caller"]
  /\ UNCHANGED <<iwm, emul, c031, drv, halt, gone>>

\* A unit past the end of the array: no file while both phases are off, else
\* whatever is found at such an address.
Astray(absent) ==
  IF WildFile THEN gone' = TRUE /\ UNCHANGED <<iwm, emul, c031, drv, files, halt, buffer, answer>>
  ELSE Done(Fails(absent), 0, 2)

\* c70d: a call with the right number of parameters, 3 or for a format 1; with a
\* wrong one a status call ends the program and others stop it.
do_c70d(cmd, params, unit, blk) ==
  /\ ~gone
  /\ CASE cmd = "status" /\ params # 3 ->
            /\ gone' = TRUE
            /\ UNCHANGED <<iwm, emul, c031, drv, files, halt, buffer, answer>>
       [] cmd \in {"read", "write"} /\ params # 3 -> UNCHANGED <<diskVars, buffer, answer>>
       [] cmd = "format" /\ params # 1 -> UNCHANGED <<diskVars, buffer, answer>>
       [] cmd = "status" /\ params = 3 ->
            LET there == unit \in 1 .. Units /\ drv[<<7, unit - 1>>].file # NoFile
            IN  IF unit = 0
                THEN /\ answer' = [acc |-> 0, carry |-> FALSE, x |-> 8, y |-> 0, to |-> "caller"]
                     /\ buffer' = <<255, 2>>
                     /\ UNCHANGED diskVars
                ELSE /\ answer' = [acc |-> 0, carry |-> FALSE, x |-> 4, y |-> 0, to |-> "caller"]
                     /\ buffer' = <<IF there THEN 248 ELSE 128,
                                    IF there THEN Blocks(drv[<<7, unit - 1>>].size) ELSE 0>>
                     /\ UNCHANGED diskVars
       [] cmd = "read" /\ params = 3 ->
            IF Wild(unit - 1) THEN Astray(47) ELSE Done(do_read_c7(unit - 1, blk), 0, 2)
       [] cmd = "write" /\ params = 3 ->
            IF Wild(unit - 1) THEN Astray(40) ELSE Done(do_write_c7(unit - 1, blk), 0, 2)
       [] cmd = "format" /\ params = 1 ->
            IF Wild(unit - 1) THEN Astray(40) ELSE Done(do_format_c7(unit - 1), 0, 2)
       [] cmd = "control" /\ params = 3 -> Done(Fails(0), 0, 2)
       [] cmd = "control" /\ params # 3 -> UNCHANGED <<diskVars, buffer, answer>>
       [] cmd = "other" -> Done(Fails(1), 0, 0)

\* The ProDOS unit number: slot 7 drives 1 and 2, slot 4 for two more.
ProDosUnit(number) ==
  CASE number % 128 = 112 -> number \div 128
    [] number % 128 = 64 -> 2 + number \div 128
    [] number % 128 \notin {64, 112} -> -1

do_c70a(cmd, number, blk) ==
  LET unit == ProDosUnit(number)
      size == Blocks(drv[<<7, unit>>].size)
  IN  /\ ~gone
      /\ IF unit = -1 THEN UNCHANGED <<diskVars, buffer, answer>>
         ELSE CASE cmd = "status" -> Done(Fails(0), size % 256, size \div 256)
                [] cmd = "read" -> Done(do_read_c7(unit, blk), answer.x, answer.y)
                [] cmd = "write" -> Done(do_write_c7(unit, blk), answer.x, answer.y)
                [] cmd = "format" -> Done(do_format_c7(unit), answer.x, answer.y)
                [] cmd = "other" -> Done(Fails(39), answer.x, answer.y)

\* c700: the first block of the first unit, and on to it or to the monitor.
do_c700 ==
  LET r == do_read_c7(0, 0)
  IN  /\ ~gone
      /\ buffer' = r.buffer
      /\ answer' = [answer EXCEPT !.x = 112, !.to = IF r.code = 0 THEN "boot" ELSE "monitor"]
      /\ UNCHANGED diskVars
=============================================================================
