------------------------------ MODULE CpuModes ------------------------------
(***************************************************************************)
(* Memory, stack and operand access of the 65816 engine: the macros of     *)
(* engine_c.c, op_routs.h and the first half of defs_instr.h.              *)
(*                                                                         *)
(* An operator takes the engine's locals as one record c and returns it    *)
(* changed.  The registers are those of enter_engine; neg and zero are the *)
(* two flags it keeps outside psr (zero is 0 when the last result was 0);  *)
(* acc8 is the loop it runs in; opnd holds the bytes behind the opcode;    *)
(* arg, addr_latch and tmp are the locals of an instruction; ret is the    *)
(* reason it leaves the engine, or "none".  Memory is a function with the  *)
(* bytes that were written; the others are 0.  Cycles are not counted.     *)
(***************************************************************************)
EXTENDS CpuAlu

Bank(a) == (a \div 65536) * 65536

INC_KPC(c, n) == [c EXCEPT !.kpc = Bank(c.kpc) + ((c.kpc + n) % 65536)]

GET_1BYTE_ARG(c) == c.opnd % 256
GET_2BYTE_ARG(c) == c.opnd % 65536
GET_3BYTE_ARG(c) == c.opnd

(* Memory.  A word or long whose bytes are in one bank (in_bank) wraps at   *)
(* the end of it; the others go on into the next bank.                      *)
InBank == TRUE
Linear == FALSE
NextByte(a, in_bank) == IF in_bank THEN Bank(a) + ((a + 1) % 65536) ELSE a + 1

GET_MEMORY8(c, addr) ==
  LET a == addr % 16777216 IN IF a \in DOMAIN c.mem THEN c.mem[a] ELSE 0

GET_MEMORY16(c, addr, in_bank) ==
  GET_MEMORY8(c, addr) + 256 * GET_MEMORY8(c, NextByte(addr, in_bank))

GET_MEMORY24(c, addr, in_bank) ==
  GET_MEMORY16(c, addr, in_bank)
  + 65536 * GET_MEMORY8(c, NextByte(NextByte(addr, in_bank), in_bank))

Poke(f, a, v) == [b \in DOMAIN f \cup {a} |-> IF b = a THEN v ELSE f[b]]
SET_MEMORY8(c, addr, val) == [c EXCEPT !.mem = Poke(c.mem, addr % 16777216, val % 256)]

SET_MEMORY16(c, addr, val, in_bank) ==
  SET_MEMORY8(SET_MEMORY8(c, addr, val), NextByte(addr, in_bank), val \div 256)

SET_MEMORY24(c, addr, val, in_bank) ==
  SET_MEMORY8(SET_MEMORY16(c, addr, val, in_bank),
              NextByte(NextByte(addr, in_bank), in_bank), val \div 65536)

\* A pointer in the direct page: in emulation, with the page aligned, neither
\* the pointer nor its second byte leaves the page.
GET_MEMORY_DIRECT_PAGE16(c, addr) ==
  LET aligned == c.psr.e = 1 /\ c.direct % 256 = 0
      fold(a) == IF aligned THEN (a % 256) + c.direct ELSE a
      first == fold(addr)
  IN  IF c.psr.e = 1 /\ addr % 256 = 255
      THEN GET_MEMORY8(c, first) + 256 * GET_MEMORY8(c, fold((first + 1) % 65536))
      ELSE GET_MEMORY16(c, first, InBank)

(* The stack.  In emulation it stays in page 1; the UNSAFE forms, used by   *)
(* the instructions the 65816 added, fix the register only afterwards.      *)
InPage(c, s) == IF c.psr.e = 1 THEN 256 + (s % 256) ELSE s % 65536

PUSH8(c, val) ==
  LET stored == SET_MEMORY8(c, c.stack, val)
  IN  [stored EXCEPT !.stack = InPage(c, c.stack - 1)]

\* Byte by byte where the page may end, in one piece elsewhere.
PushBytes(c, val) == PUSH8(PUSH8(c, val \div 256), val)
PushWord(c, s, val) == SET_MEMORY16([c EXCEPT !.stack = s], s + 1, val, InBank)
PUSH16(c, val) ==
  IF c.stack % 256 \in {0, 1} THEN PushBytes(c, val)
  ELSE PushWord(c, (c.stack - 2) % 65536, val)

PUSH16_UNSAFE(c, val) ==
  SET_MEMORY16([c EXCEPT !.stack = InPage(c, c.stack - 2)],
               (c.stack - 1) % 65536, val, InBank)

PUSH24_UNSAFE(c, val) ==
  SET_MEMORY24([c EXCEPT !.stack = InPage(c, c.stack - 3)],
               (c.stack - 2) % 65536, val, InBank)

\* The pulls leave the value they read in arg.
PULL8(c) ==
  LET s == InPage(c, c.stack + 1)
  IN  [c EXCEPT !.stack = s, !.arg = GET_MEMORY8(c, s)]

\* A mutant: the two bytes are read together even across the end of the page.
UncrossedPull(c) ==
  [c EXCEPT !.stack = InPage(c, (c.stack + 2) % 65536),
            !.arg = GET_MEMORY16(c, c.stack + 1, InBank)]

AndHigh(c) == [PULL8(c) EXCEPT !.arg = c.arg + 256 * @]
AndBank(c) == [PULL8(c) EXCEPT !.arg = c.arg + 65536 * @]

PullWord(c) == [c EXCEPT !.stack = InPage(c, (c.stack + 2) % 65536),
                         !.arg = GET_MEMORY16(c, c.stack + 1, InBank)]
PULL16(c) == IF c.stack % 256 \in {254, 255} THEN AndHigh(PULL8(c)) ELSE PullWord(c)

PULL16_UNSAFE(c) ==
  LET s == InPage(c, (c.stack + 1) % 65536)
  IN  [c EXCEPT !.stack = InPage(c, (s + 1) % 65536), !.arg = GET_MEMORY16(c, s, InBank)]

PullLong(c) == [c EXCEPT !.stack = InPage(c, (c.stack + 3) % 65536),
                         !.arg = GET_MEMORY24(c, c.stack + 1, InBank)]
PULL24(c) == IF c.stack % 256 >= 252 THEN AndBank(AndHigh(PULL8(c))) ELSE PullLong(c)

(* Effective addresses, left in arg.                                        *)
At(c, addr, size) == INC_KPC([c EXCEPT !.arg = addr], size)
Direct(c) == (c.direct + GET_1BYTE_ARG(c)) % 65536
DataBank(c) == c.dbank * 65536

GET_DLOC_X_IND_ADDR(c) ==
  At(c, DataBank(c) + GET_MEMORY_DIRECT_PAGE16(c, (Direct(c) + c.xreg) % 65536), 2)
GET_DISP8_S_ADDR(c) == At(c, (GET_1BYTE_ARG(c) + c.stack) % 65536, 2)
GET_DLOC_ADDR(c) == At(c, Direct(c), 2)
GET_DLOC_L_IND_ADDR(c) == At(c, GET_MEMORY24(c, Direct(c), InBank), 2)
GET_DLOC_IND_Y_ADDR_FOR_WR(c) ==
  At(c, GET_MEMORY_DIRECT_PAGE16(c, Direct(c)) + DataBank(c) + c.yreg, 2)
GET_DLOC_IND_ADDR(c) == At(c, DataBank(c) + GET_MEMORY_DIRECT_PAGE16(c, Direct(c)), 2)
GET_DLOC_INDEX_WR(c, index_reg) ==
  LET a == GET_1BYTE_ARG(c) + index_reg
      folded == IF c.psr.e = 1 /\ c.direct % 256 = 0 THEN a % 256 ELSE a
  IN  At(c, (folded + c.direct) % 65536, 2)
GET_DISP8_S_IND_Y_ADDR(c) ==
  LET p == (c.stack + GET_1BYTE_ARG(c)) % 65536
  IN  At(c, (GET_MEMORY16(c, p, InBank) + DataBank(c) + c.yreg) % 16777216, 2)
GET_DLOC_L_IND_Y_ADDR(c) ==
  At(c, (GET_MEMORY24(c, Direct(c), InBank) + c.yreg) % 16777216, 2)
GET_ABS_ADDR(c) == At(c, GET_2BYTE_ARG(c) + DataBank(c), 3)
GET_LONG_ADDR(c) == At(c, GET_3BYTE_ARG(c), 4)
GET_ABS_INDEX_ADDR_FOR_WR(c, index_reg) ==
  At(c, (GET_2BYTE_ARG(c) + DataBank(c) + index_reg) % 16777216, 3)
GET_LONG_X_ADDR_FOR_WR(c) == At(c, (GET_3BYTE_ARG(c) + c.xreg) % 16777216, 4)

(* Operands of the accumulator's width, left in arg; addr_latch keeps the   *)
(* address for the store of a read-modify-write instruction.                *)
Load(c, in_bank) ==
  [c EXCEPT !.addr_latch = c.arg,
            !.arg = IF c.acc8 = 1 THEN GET_MEMORY8(c, c.arg)
                                  ELSE GET_MEMORY16(c, c.arg, in_bank)]

GET_DLOC_X_IND_RD(c) == Load(GET_DLOC_X_IND_ADDR(c), Linear)
GET_DISP8_S_RD(c) == Load(GET_DISP8_S_ADDR(c), Linear)
GET_DLOC_RD(c) == Load(GET_DLOC_ADDR(c), InBank)
GET_DLOC_L_IND_RD(c) == Load(GET_DLOC_L_IND_ADDR(c), Linear)
GET_IMM_MEM(c) ==
  IF c.acc8 = 1 THEN At(c, GET_1BYTE_ARG(c), 2) ELSE At(c, GET_2BYTE_ARG(c), 3)
GET_ABS_RD(c) == Load(GET_ABS_ADDR(c), Linear)
GET_LONG_RD(c) == Load(GET_LONG_ADDR(c), Linear)
GET_DLOC_IND_Y_RD(c) == Load(GET_DLOC_IND_Y_ADDR_FOR_WR(c), Linear)
GET_DLOC_IND_RD(c) == Load(GET_DLOC_IND_ADDR(c), Linear)
GET_DLOC_X_RD(c) == Load(GET_DLOC_INDEX_WR(c, c.xreg), InBank)
GET_DISP8_S_IND_Y_RD(c) == Load(GET_DISP8_S_IND_Y_ADDR(c), Linear)
GET_DLOC_L_IND_Y_RD(c) == Load(GET_DLOC_L_IND_Y_ADDR(c), Linear)
GET_ABS_INDEX_ADDR_FOR_RD(c, index_reg) ==
  At(c, GET_2BYTE_ARG(c) + DataBank(c) + index_reg, 3)
GET_ABS_Y_RD(c) == Load(GET_ABS_INDEX_ADDR_FOR_RD(c, c.yreg), Linear)
GET_ABS_X_RD(c) == Load(GET_ABS_INDEX_ADDR_FOR_RD(c, c.xreg), Linear)
\* The form of the read-modify-write instructions stays in the data bank.
GET_ABS_X_RD_WR(c) ==
  Load(At(c, DataBank(c) + ((GET_2BYTE_ARG(c) + c.xreg) % 65536), 3), Linear)
GET_LONG_X_RD(c) == Load(GET_LONG_X_ADDR_FOR_WR(c), Linear)
=============================================================================
