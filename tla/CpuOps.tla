------------------------------- MODULE CpuOps -------------------------------
(***************************************************************************)
(* The instructions of the 65816 engine: the second half of defs_instr.h   *)
(* and the 256 entries of instable.h, one operator per row of sixteen      *)
(* opcodes.  The engine compiles the table twice, for the 8-bit and the    *)
(* 16-bit accumulator; acc8 says which copy runs.                          *)
(***************************************************************************)
EXTENDS CpuModes

FINISH(c, why) == [c EXCEPT !.ret = why]

\* A mutant: entering emulation leaves the widths and the stack alone.
LooseUpdate(c, old) ==
  IF c.psr.i = 0 /\ c.irq THEN FINISH(c, "irq") ELSE [c EXCEPT !.acc8 = c.psr.m]

\* What every change of psr goes through: emulation forces 8-bit registers and
\* a stack in page 1, 8-bit index registers lose their high bytes, an interrupt
\* that may now be taken ends the run, and a new width changes the loop.
Fits(p) == IF p.e = 1 THEN [p EXCEPT !.m = 1, !.x = 1] ELSE p
Narrow(reg, old, p) == IF old.x = 0 /\ p.x = 1 THEN reg % 256 ELSE reg
NewPsr(c, old, p) ==
  [c EXCEPT !.psr = p,
            !.stack = IF p.e = 1 THEN InPage(c, c.stack) ELSE c.stack,
            !.xreg = Narrow(c.xreg, old, p), !.yreg = Narrow(c.yreg, old, p)]
Continue(c) == IF c.psr.i = 0 /\ c.irq THEN FINISH(c, "irq") ELSE [c EXCEPT !.acc8 = c.psr.m]
UPDATE_PSR(c, old) == Continue(NewPsr(c, old, Fits(c.psr)))

(* Widths and flags.                                                        *)
AccSize(c) == IF c.acc8 = 1 THEN 8 ELSE 16
IndexSize(c) == IF c.psr.x = 1 THEN 8 ELSE 16
Acc(c) == c.acc % 2^AccSize(c)

SET_NEG_ZERO(c, val, size) ==
  [c EXCEPT !.neg = val \div 2^(size - 1), !.zero = IF val = 0 THEN 0 ELSE 1]

SET_CARRY(c, val) == [c EXCEPT !.psr.c = val % 2]

\* psr with the two flags that are kept outside of it.
Folded(c) == [c.psr EXCEPT !.n = c.neg % 2, !.z = 1 - c.zero]
\* A whole new psr, and the two flags taken out of it again.
WithPsr(c, p) == [c EXCEPT !.psr = p, !.zero = 1 - p.z, !.neg = p.n]

WithAcc(c, v) ==
  SET_NEG_ZERO([c EXCEPT !.acc = (c.acc - Acc(c)) + v], v, AccSize(c))
SetAcc(c, val) == WithAcc(c, val % 2^AccSize(c))

WithIndex(c, v, dest) ==
  SET_NEG_ZERO(IF dest = "x" THEN [c EXCEPT !.xreg = v] ELSE [c EXCEPT !.yreg = v],
               v, IndexSize(c))
SET_INDEX_REG(c, src, dest) == WithIndex(c, src % 2^IndexSize(c), dest)

IndexLoad(c, in_bank) ==
  IF c.psr.x = 1 THEN GET_MEMORY8(c, c.arg) ELSE GET_MEMORY16(c, c.arg, in_bank)
LDX_INST(c, in_bank) == SET_INDEX_REG(c, IndexLoad(c, in_bank), "x")
LDY_INST(c, in_bank) == SET_INDEX_REG(c, IndexLoad(c, in_bank), "y")

(* Instructions on the accumulator and on memory.                           *)
ORA_INST(c) == SetAcc(c, BitOr(Acc(c), c.arg))
AND_INST(c) == SetAcc(c, BitAnd(Acc(c), c.arg))
EOR_INST(c) == SetAcc(c, BitXor(Acc(c), c.arg))
LDA_INST(c) == SetAcc(c, c.arg)

Summed(c, r) == WithPsr(SetAcc(c, r.val), r.psr)
Adder(c, sub) ==
  Summed(c, IF c.acc8 = 1 THEN do_adc_sbc8(Acc(c), c.arg, c.psr, sub)
                          ELSE do_adc_sbc16(Acc(c), c.arg, c.psr, sub))
ADC_INST(c) == Adder(c, FALSE)
SBC_INST(c) == Adder(c, TRUE)

\* reg - arg, for its flags only.
Difference(c, diff, size) ==
  SET_NEG_ZERO(SET_CARRY(c, diff \div 2^size), diff % 2^size, size)
Compare(c, reg, size) == Difference(c, reg + (2^size - c.arg), size)
CMP_INST(c) == Compare(c, Acc(c), AccSize(c))

BIT_INST(c) ==
  [c EXCEPT !.neg = BitOf(c.arg, AccSize(c) - 1),
            !.zero = IF BitAnd(Acc(c), c.arg) = 0 THEN 0 ELSE 1,
            !.psr.v = BitOf(c.arg, AccSize(c) - 2)]

Store(c, addr, val, in_bank) ==
  IF c.acc8 = 1 THEN SET_MEMORY8(c, addr, val) ELSE SET_MEMORY16(c, addr, val, in_bank)
STA_INST(c, in_bank) == Store(c, c.arg, c.acc, in_bank)
STZ_INST(c, in_bank) == Store(c, c.arg, 0, in_bank)

\* Read-modify-write: the result goes back to the latched address.
Modify(c, val, in_bank) ==
  SET_NEG_ZERO(Store(c, c.addr_latch, val, in_bank), val, AccSize(c))
TestBits(c, val, in_bank) ==
  [Store(c, c.addr_latch, val, in_bank) EXCEPT
     !.zero = IF BitAnd(c.arg, c.acc) = 0 THEN 0 ELSE 1]
TSB_INST(c, in_bank) == TestBits(c, BitOr(c.arg, Acc(c)), in_bank)
TRB_INST(c, in_bank) == TestBits(c, c.arg - BitAnd(c.arg, Acc(c)), in_bank)
\* The shifts, of a value of the accumulator's width, carry in and out of psr.
ShiftLeft(c, val, in) == (2 * val + in) % 2^AccSize(c)
ShiftRight(c, val, in) == (val \div 2) + in * 2^(AccSize(c) - 1)
HighBit(c, val) == BitOf(val, AccSize(c) - 1)
ASL_INST(c, in_bank) ==
  Modify(SET_CARRY(c, HighBit(c, c.arg)), ShiftLeft(c, c.arg, 0), in_bank)
ROL_INST(c, in_bank) ==
  Modify(SET_CARRY(c, HighBit(c, c.arg)), ShiftLeft(c, c.arg, c.psr.c), in_bank)
LSR_INST(c, in_bank) == Modify(SET_CARRY(c, c.arg), ShiftRight(c, c.arg, 0), in_bank)
ROR_INST(c, in_bank) == Modify(SET_CARRY(c, c.arg), ShiftRight(c, c.arg, c.psr.c), in_bank)
DEC_INST(c, in_bank) == Modify(c, (c.arg - 1) % 2^AccSize(c), in_bank)
INC_INST(c, in_bank) == Modify(c, (c.arg + 1) % 2^AccSize(c), in_bank)

BRANCH_DISP8(c, cond) ==
  LET disp == GET_1BYTE_ARG(c)
      off == IF disp >= 128 THEN disp - 256 ELSE disp
  IN  INC_KPC(c, IF cond THEN 2 + off ELSE 2)
BRA(c) == BRANCH_DISP8(c, TRUE)

IndexStore(c, reg, in_bank) ==
  IF c.psr.x = 1 THEN SET_MEMORY8(c, c.arg, reg) ELSE SET_MEMORY16(c, c.arg, reg, in_bank)
STY_INST(c, in_bank) == IndexStore(c, c.yreg, in_bank)
STX_INST(c, in_bank) == IndexStore(c, c.xreg, in_bank)

C_LDX_ABS_Y(c) == LDX_INST(GET_ABS_INDEX_ADDR_FOR_RD(c, c.yreg), Linear)
C_LDY_ABS_X(c) == LDY_INST(GET_ABS_INDEX_ADDR_FOR_RD(c, c.xreg), Linear)
C_LDX_ABS(c) == LDX_INST(GET_ABS_ADDR(c), Linear)
C_LDY_ABS(c) == LDY_INST(GET_ABS_ADDR(c), Linear)
C_LDX_DLOC(c) == LDX_INST(GET_DLOC_ADDR(c), InBank)
C_LDY_DLOC(c) == LDY_INST(GET_DLOC_ADDR(c), InBank)
C_LDY_DLOC_X(c) == LDY_INST(GET_DLOC_INDEX_WR(c, c.xreg), InBank)
C_LDX_DLOC_Y(c) == LDX_INST(GET_DLOC_INDEX_WR(c, c.yreg), InBank)

CP_INDEX_VAL(c, index_reg) == Compare(c, index_reg, IndexSize(c))
CP_INDEX_LOAD(c, index_reg, in_bank) ==
  CP_INDEX_VAL([c EXCEPT !.arg = IndexLoad(c, in_bank)], index_reg)
\* #imm of an index register's width.
IndexImm(c) ==
  IF c.psr.x = 1 THEN At(c, GET_1BYTE_ARG(c), 2) ELSE At(c, GET_2BYTE_ARG(c), 3)
C_CPX_IMM(c) == CP_INDEX_VAL(IndexImm(c), c.xreg)
C_CPY_IMM(c) == CP_INDEX_VAL(IndexImm(c), c.yreg)
C_CPX_DLOC(c) == CP_INDEX_LOAD(GET_DLOC_ADDR(c), c.xreg, InBank)
C_CPY_DLOC(c) == CP_INDEX_LOAD(GET_DLOC_ADDR(c), c.yreg, InBank)
C_CPX_ABS(c) == CP_INDEX_LOAD(GET_ABS_ADDR(c), c.xreg, Linear)
C_CPY_ABS(c) == CP_INDEX_LOAD(GET_ABS_ADDR(c), c.yreg, Linear)

(* Instructions with an entry of their own in the table.                    *)
\* BRK and COP push psr as it is: the flags kept outside it are not folded in.
PushBank(c) == IF c.psr.e = 1 THEN c ELSE PUSH8(c, c.kpc \div 65536)
PushReturn(c) == PUSH8(PUSH16(PushBank(c), c.kpc), PsrByte(c.psr))
Vectored(c, vector) ==
  [c EXCEPT !.kpc = GET_MEMORY16(c, vector, Linear),
            !.dbank = IF c.psr.e = 1 THEN 0 ELSE c.dbank,
            !.psr.i = 1, !.psr.d = 0]
SoftwareInterrupt(c, emulVector, nativeVector) ==
  Vectored(PushReturn(INC_KPC(c, 2)), IF c.psr.e = 1 THEN emulVector ELSE nativeVector)
BRK(c) == SoftwareInterrupt(c, 65534, 65510)
COP(c) == SoftwareInterrupt(c, 65524, 65508)

PushPsr(c) == PUSH8(c, PsrByte(c.psr))
PHP(c) == PushPsr(INC_KPC([c EXCEPT !.psr = Folded(c)], 1))
\* psr becomes byte b, and the change is looked at.
SetPsr(c, b, emul) == UPDATE_PSR(WithPsr(c, PsrOf(b, emul)), c.psr)
PulledPsr(c) == SetPsr(c, c.arg, c.psr.e)
PLP(c) == PulledPsr(INC_KPC(PULL8(c), 1))
REP(c) ==
  SetPsr(INC_KPC(c, 2), BitAnd(PsrByte(Folded(c)), 255 - GET_1BYTE_ARG(c)), c.psr.e)
SEP(c) == SetPsr(INC_KPC(c, 2), BitOr(PsrByte(Folded(c)), GET_1BYTE_ARG(c)), c.psr.e)
XCE(c) == UPDATE_PSR([INC_KPC(c, 1) EXCEPT !.psr.e = c.psr.c, !.psr.c = c.psr.e], c.psr)
\* A mutant: CLI only clears the flag.
QuietCli(c) == [INC_KPC(c, 1) EXCEPT !.psr.i = 0]

Allowed(c) == IF c.irq THEN FINISH(c, "irq") ELSE c
CLI(c) == Allowed([INC_KPC(c, 1) EXCEPT !.psr.i = 0])
\* The three bytes emulation pulls: psr, and the offset in the bank.
EmulReturn(c) == SetPsr([c EXCEPT !.kpc = Bank(c.kpc) + (c.arg \div 256)], c.arg % 256, 1)
NativePsr(c) == WithPsr(c, PsrOf(c.arg, 0))
NativeReturn(c, old) == UPDATE_PSR([c EXCEPT !.kpc = c.arg], old)
RTI(c) ==
  IF c.psr.e = 1 THEN EmulReturn(PULL24(c)) ELSE NativeReturn(PULL24(NativePsr(PULL8(c))), c.psr)

JSR(c) ==
  [PUSH16(INC_KPC(c, 2), (c.kpc + 2) % 65536) EXCEPT !.kpc = Bank(c.kpc) + GET_2BYTE_ARG(c)]
PushLong(c) == PUSH24_UNSAFE(c, c.kpc)
JSL(c) == [PushLong(INC_KPC(c, 3)) EXCEPT !.kpc = GET_3BYTE_ARG(c)]
ToBehind(c, bank) == [c EXCEPT !.kpc = bank + ((c.arg + 1) % 65536)]
RTS(c) == ToBehind(PULL16(c), Bank(c.kpc))
ReturnLong(c) == ToBehind(c, Bank(c.arg))
RTL(c) == ReturnLong(PULL24(c))
JumpTo(c, offset) == [c EXCEPT !.kpc = Bank(c.kpc) + offset]
\* The operand of JMP (abs,X) and JSR (abs,X): always in the program bank.
KBankX(c) == Bank(c.kpc) + ((c.xreg + GET_2BYTE_ARG(c)) % 65536)
\* The operand of BRL and PER counts from the next instruction.
RelAddr(c) == c.kpc + 3 + GET_2BYTE_ARG(c)
BRL(c) == JumpTo(c, RelAddr(c) % 65536)
PER(c) == PUSH16_UNSAFE(INC_KPC(c, 3), RelAddr(c))
JSR_ABS_X(c) ==
  PUSH16_UNSAFE(JumpTo(c, GET_MEMORY16(c, KBankX(c), InBank)), INC_KPC(c, 2).kpc)

PushReg(c, reg, narrow) ==
  IF narrow THEN PUSH8(INC_KPC(c, 1), reg) ELSE PUSH16(INC_KPC(c, 1), reg)
Pull(c, narrow) == INC_KPC(IF narrow THEN PULL8(c) ELSE PULL16(c), 1)
ArgToIndex(c, dest) == SET_INDEX_REG(c, c.arg, dest)
ArgToAcc(c) == SetAcc(c, c.arg)
ArgToDirect(c) == SET_NEG_ZERO([c EXCEPT !.direct = c.arg], c.arg, 16)
ArgToBank(c) == SET_NEG_ZERO([c EXCEPT !.dbank = c.arg], c.arg, 8)
PullIndex(c, dest) == ArgToIndex(Pull(c, c.psr.x = 1), dest)
PLA(c) == ArgToAcc(Pull(c, c.acc8 = 1))
PLD(c) == ArgToDirect(INC_KPC(PULL16_UNSAFE(c), 1))
PLB(c) == ArgToBank(INC_KPC(PULL8(c), 1))

\* The accumulator forms of the shifts, INC and DEC.
OnAcc(c, val, carry) == SetAcc(SET_CARRY(INC_KPC(c, 1), carry), val)
\* Transfers of 16 bits whatever the widths.
WholeAcc(c, val) == SET_NEG_ZERO([INC_KPC(c, 1) EXCEPT !.acc = val], val, 16)
TCD(c) == SET_NEG_ZERO([INC_KPC(c, 1) EXCEPT !.direct = c.acc], c.acc, 16)
ToStack(c, val) == [INC_KPC(c, 1) EXCEPT !.stack = InPage(c, val)]
XBA(c) ==
  SET_NEG_ZERO([INC_KPC(c, 1) EXCEPT !.acc = (c.acc % 256) * 256 + (c.acc \div 256)],
               c.acc \div 256, 8)

\* A mutant: the instruction is left as soon as the cycles are up.
CutMove(c, step) ==
  [INC_KPC(SET_MEMORY8(c, GET_1BYTE_ARG(c) * 65536 + c.yreg,
                       GET_MEMORY8(c, (GET_2BYTE_ARG(c) \div 256) * 65536 + c.xreg)), 3) EXCEPT
     !.xreg = (c.xreg + step) % 65536, !.yreg = (c.yreg + step) % 65536,
     !.acc = (c.acc - 1) % 65536]

\* MVN and MVP move at most burst bytes before the run's cycles are over; the
\* instruction is left only after its last byte, so that it is met again.
MoveByte(c, src, step) ==
  [SET_MEMORY8(c, c.dbank * 65536 + c.yreg, GET_MEMORY8(c, src + c.xreg)) EXCEPT
     !.xreg = (c.xreg + step) % 65536, !.yreg = (c.yreg + step) % 65536,
     !.acc = (c.acc - 1) % 65536]
MoveBytes(c, src, step, bytes) ==
  LET moved[n \in 0 .. bytes] == IF n = 0 THEN c ELSE MoveByte(moved[n - 1], src, step)
  IN  moved[bytes]
MoveOver(c) == IF c.acc = 65535 THEN INC_KPC(c, 3) ELSE c
BlockMove(c, step) ==
  IF c.psr.e = 1 \/ c.psr.x = 1 THEN c
  ELSE MoveOver(MoveBytes([c EXCEPT !.dbank = GET_1BYTE_ARG(c)],
                          (GET_2BYTE_ARG(c) \div 256) * 65536, step,
                          IF c.acc < c.burst THEN c.acc + 1 ELSE c.burst))

BitImm(c) == [c EXCEPT !.zero = IF BitAnd(Acc(c), c.arg) = 0 THEN 0 ELSE 1]
PEI(c) == PUSH16_UNSAFE(c, GET_MEMORY16(c, c.arg, InBank))

WAI(c) ==
  IF c.irq THEN INC_KPC([c EXCEPT !.wait = FALSE], 1) ELSE [c EXCEPT !.wait = TRUE]

(* The table, a row of sixteen opcodes at a time.                           *)
Row0(c, k) ==
  CASE k = 0 -> BRK(c)
    [] k = 1 -> ORA_INST(GET_DLOC_X_IND_RD(c))
    [] k = 2 -> COP(c)
    [] k = 3 -> ORA_INST(GET_DISP8_S_RD(c))
    [] k = 4 -> TSB_INST(GET_DLOC_RD(c), InBank)
    [] k = 5 -> ORA_INST(GET_DLOC_RD(c))
    [] k = 6 -> ASL_INST(GET_DLOC_RD(c), InBank)
    [] k = 7 -> ORA_INST(GET_DLOC_L_IND_RD(c))
    [] k = 8 -> PHP(c)
    [] k = 9 -> ORA_INST(GET_IMM_MEM(c))
    [] k = 10 -> OnAcc(c, 2 * Acc(c), HighBit(c, Acc(c)))
    [] k = 11 -> PUSH16_UNSAFE(INC_KPC(c, 1), c.direct)
    [] k = 12 -> TSB_INST(GET_ABS_RD(c), Linear)
    [] k = 13 -> ORA_INST(GET_ABS_RD(c))
    [] k = 14 -> ASL_INST(GET_ABS_RD(c), Linear)
    [] k = 15 -> ORA_INST(GET_LONG_RD(c))

Row1(c, k) ==
  CASE k = 0 -> BRANCH_DISP8(c, c.neg = 0)
    [] k = 1 -> ORA_INST(GET_DLOC_IND_Y_RD(c))
    [] k = 2 -> ORA_INST(GET_DLOC_IND_RD(c))
    [] k = 3 -> ORA_INST(GET_DISP8_S_IND_Y_RD(c))
    [] k = 4 -> TRB_INST(GET_DLOC_RD(c), InBank)
    [] k = 5 -> ORA_INST(GET_DLOC_X_RD(c))
    [] k = 6 -> ASL_INST(GET_DLOC_X_RD(c), InBank)
    [] k = 7 -> ORA_INST(GET_DLOC_L_IND_Y_RD(c))
    [] k = 8 -> SET_CARRY(INC_KPC(c, 1), 0)
    [] k = 9 -> ORA_INST(GET_ABS_Y_RD(c))
    [] k = 10 -> OnAcc(c, Acc(c) + 1, c.psr.c)
    [] k = 11 -> ToStack(c, c.acc)
    [] k = 12 -> TRB_INST(GET_ABS_RD(c), Linear)
    [] k = 13 -> ORA_INST(GET_ABS_X_RD(c))
    [] k = 14 -> ASL_INST(GET_ABS_X_RD_WR(c), Linear)
    [] k = 15 -> ORA_INST(GET_LONG_X_RD(c))

Row2(c, k) ==
  CASE k = 0 -> JSR(c)
    [] k = 1 -> AND_INST(GET_DLOC_X_IND_RD(c))
    [] k = 2 -> JSL(c)
    [] k = 3 -> AND_INST(GET_DISP8_S_RD(c))
    [] k = 4 -> BIT_INST(GET_DLOC_RD(c))
    [] k = 5 -> AND_INST(GET_DLOC_RD(c))
    [] k = 6 -> ROL_INST(GET_DLOC_RD(c), InBank)
    [] k = 7 -> AND_INST(GET_DLOC_L_IND_RD(c))
    [] k = 8 -> PLP(c)
    [] k = 9 -> AND_INST(GET_IMM_MEM(c))
    [] k = 10 -> OnAcc(c, 2 * Acc(c) + c.psr.c, HighBit(c, Acc(c)))
    [] k = 11 -> PLD(c)
    [] k = 12 -> BIT_INST(GET_ABS_RD(c))
    [] k = 13 -> AND_INST(GET_ABS_RD(c))
    [] k = 14 -> ROL_INST(GET_ABS_RD(c), Linear)
    [] k = 15 -> AND_INST(GET_LONG_RD(c))

Row3(c, k) ==
  CASE k = 0 -> BRANCH_DISP8(c, c.neg = 1)
    [] k = 1 -> AND_INST(GET_DLOC_IND_Y_RD(c))
    [] k = 2 -> AND_INST(GET_DLOC_IND_RD(c))
    [] k = 3 -> AND_INST(GET_DISP8_S_IND_Y_RD(c))
    [] k = 4 -> BIT_INST(GET_DLOC_X_RD(c))
    [] k = 5 -> AND_INST(GET_DLOC_X_RD(c))
    [] k = 6 -> ROL_INST(GET_DLOC_X_RD(c), InBank)
    [] k = 7 -> AND_INST(GET_DLOC_L_IND_Y_RD(c))
    [] k = 8 -> SET_CARRY(INC_KPC(c, 1), 1)
    [] k = 9 -> AND_INST(GET_ABS_Y_RD(c))
    [] k = 10 -> OnAcc(c, Acc(c) - 1, c.psr.c)
    [] k = 11 -> WholeAcc(c, c.stack)
    [] k = 12 -> BIT_INST(GET_ABS_X_RD(c))
    [] k = 13 -> AND_INST(GET_ABS_X_RD(c))
    [] k = 14 -> ROL_INST(GET_ABS_X_RD_WR(c), Linear)
    [] k = 15 -> AND_INST(GET_LONG_X_RD(c))

Row4(c, k) ==
  CASE k = 0 -> RTI(c)
    [] k = 1 -> EOR_INST(GET_DLOC_X_IND_RD(c))
    [] k = 2 -> FINISH(INC_KPC(c, 2), "wdm")
    [] k = 3 -> EOR_INST(GET_DISP8_S_RD(c))
    [] k = 4 -> BlockMove(c, -1)
    [] k = 5 -> EOR_INST(GET_DLOC_RD(c))
    [] k = 6 -> LSR_INST(GET_DLOC_RD(c), InBank)
    [] k = 7 -> EOR_INST(GET_DLOC_L_IND_RD(c))
    [] k = 8 -> PushReg(c, c.acc, c.acc8 = 1)
    [] k = 9 -> EOR_INST(GET_IMM_MEM(c))
    [] k = 10 -> OnAcc(c, ShiftRight(c, Acc(c), 0), Acc(c))
    [] k = 11 -> INC_KPC(PUSH8(c, c.kpc \div 65536), 1)
    [] k = 12 -> JumpTo(c, GET_2BYTE_ARG(c))
    [] k = 13 -> EOR_INST(GET_ABS_RD(c))
    [] k = 14 -> LSR_INST(GET_ABS_RD(c), Linear)
    [] k = 15 -> EOR_INST(GET_LONG_RD(c))

Row5(c, k) ==
  CASE k = 0 -> BRANCH_DISP8(c, c.psr.v = 0)
    [] k = 1 -> EOR_INST(GET_DLOC_IND_Y_RD(c))
    [] k = 2 -> EOR_INST(GET_DLOC_IND_RD(c))
    [] k = 3 -> EOR_INST(GET_DISP8_S_IND_Y_RD(c))
    [] k = 4 -> BlockMove(c, 1)
    [] k = 5 -> EOR_INST(GET_DLOC_X_RD(c))
    [] k = 6 -> LSR_INST(GET_DLOC_X_RD(c), InBank)
    [] k = 7 -> EOR_INST(GET_DLOC_L_IND_Y_RD(c))
    [] k = 8 -> CLI(c)
    [] k = 9 -> EOR_INST(GET_ABS_Y_RD(c))
    [] k = 10 -> PushReg(c, c.yreg, c.psr.x = 1)
    [] k = 11 -> TCD(c)
    [] k = 12 -> [c EXCEPT !.kpc = GET_3BYTE_ARG(c)]
    [] k = 13 -> EOR_INST(GET_ABS_X_RD(c))
    [] k = 14 -> LSR_INST(GET_ABS_X_RD_WR(c), Linear)
    [] k = 15 -> EOR_INST(GET_LONG_X_RD(c))

Row6(c, k) ==
  CASE k = 0 -> RTS(c)
    [] k = 1 -> ADC_INST(GET_DLOC_X_IND_RD(c))
    [] k = 2 -> PER(c)
    [] k = 3 -> ADC_INST(GET_DISP8_S_RD(c))
    [] k = 4 -> STZ_INST(GET_DLOC_ADDR(c), InBank)
    [] k = 5 -> ADC_INST(GET_DLOC_RD(c))
    [] k = 6 -> ROR_INST(GET_DLOC_RD(c), InBank)
    [] k = 7 -> ADC_INST(GET_DLOC_L_IND_RD(c))
    [] k = 8 -> PLA(c)
    [] k = 9 -> ADC_INST(GET_IMM_MEM(c))
    [] k = 10 -> OnAcc(c, ShiftRight(c, Acc(c), c.psr.c), Acc(c))
    [] k = 11 -> RTL(c)
    [] k = 12 -> JumpTo(c, GET_MEMORY16(c, GET_2BYTE_ARG(c), InBank))
    [] k = 13 -> ADC_INST(GET_ABS_RD(c))
    [] k = 14 -> ROR_INST(GET_ABS_RD(c), Linear)
    [] k = 15 -> ADC_INST(GET_LONG_RD(c))

Row7(c, k) ==
  CASE k = 0 -> BRANCH_DISP8(c, c.psr.v = 1)
    [] k = 1 -> ADC_INST(GET_DLOC_IND_Y_RD(c))
    [] k = 2 -> ADC_INST(GET_DLOC_IND_RD(c))
    [] k = 3 -> ADC_INST(GET_DISP8_S_IND_Y_RD(c))
    [] k = 4 -> STZ_INST(GET_DLOC_INDEX_WR(c, c.xreg), InBank)
    [] k = 5 -> ADC_INST(GET_DLOC_X_RD(c))
    [] k = 6 -> ROR_INST(GET_DLOC_X_RD(c), InBank)
    [] k = 7 -> ADC_INST(GET_DLOC_L_IND_Y_RD(c))
    [] k = 8 -> [INC_KPC(c, 1) EXCEPT !.psr.i = 1]
    [] k = 9 -> ADC_INST(GET_ABS_Y_RD(c))
    [] k = 10 -> PullIndex(c, "y")
    [] k = 11 -> WholeAcc(c, c.direct)
    [] k = 12 -> JumpTo(c, GET_MEMORY16(c, KBankX(c), InBank))
    [] k = 13 -> ADC_INST(GET_ABS_X_RD(c))
    [] k = 14 -> ROR_INST(GET_ABS_X_RD_WR(c), Linear)
    [] k = 15 -> ADC_INST(GET_LONG_X_RD(c))

Row8(c, k) ==
  CASE k = 0 -> BRA(c)
    [] k = 1 -> STA_INST(GET_DLOC_X_IND_ADDR(c), Linear)
    [] k = 2 -> BRL(c)
    [] k = 3 -> STA_INST(GET_DISP8_S_ADDR(c), InBank)
    [] k = 4 -> STY_INST(GET_DLOC_ADDR(c), InBank)
    [] k = 5 -> STA_INST(GET_DLOC_ADDR(c), InBank)
    [] k = 6 -> STX_INST(GET_DLOC_ADDR(c), InBank)
    [] k = 7 -> STA_INST(GET_DLOC_L_IND_ADDR(c), Linear)
    [] k = 8 -> SET_INDEX_REG(INC_KPC(c, 1), c.yreg - 1, "y")
    [] k = 9 -> BitImm(GET_IMM_MEM(c))
    [] k = 10 -> SetAcc(INC_KPC(c, 1), c.xreg)
    [] k = 11 -> PUSH8(INC_KPC(c, 1), c.dbank)
    [] k = 12 -> STY_INST(GET_ABS_ADDR(c), Linear)
    [] k = 13 -> STA_INST(GET_ABS_ADDR(c), Linear)
    [] k = 14 -> STX_INST(GET_ABS_ADDR(c), Linear)
    [] k = 15 -> STA_INST(GET_LONG_ADDR(c), Linear)

Row9(c, k) ==
  CASE k = 0 -> BRANCH_DISP8(c, c.psr.c = 0)
    [] k = 1 -> STA_INST(GET_DLOC_IND_Y_ADDR_FOR_WR(c), Linear)
    [] k = 2 -> STA_INST(GET_DLOC_IND_ADDR(c), Linear)
    [] k = 3 -> STA_INST(GET_DISP8_S_IND_Y_ADDR(c), Linear)
    [] k = 4 -> STY_INST(GET_DLOC_INDEX_WR(c, c.xreg), InBank)
    [] k = 5 -> STA_INST(GET_DLOC_INDEX_WR(c, c.xreg), InBank)
    [] k = 6 -> STX_INST(GET_DLOC_INDEX_WR(c, c.yreg), InBank)
    [] k = 7 -> STA_INST(GET_DLOC_L_IND_Y_ADDR(c), Linear)
    [] k = 8 -> SetAcc(INC_KPC(c, 1), c.yreg)
    [] k = 9 -> STA_INST(GET_ABS_INDEX_ADDR_FOR_WR(c, c.yreg), Linear)
    [] k = 10 -> ToStack(c, c.xreg)
    [] k = 11 -> SET_INDEX_REG(INC_KPC(c, 1), c.xreg, "y")
    [] k = 12 -> STZ_INST(GET_ABS_ADDR(c), Linear)
    [] k = 13 -> STA_INST(GET_ABS_INDEX_ADDR_FOR_WR(c, c.xreg), Linear)
    [] k = 14 -> STZ_INST(GET_ABS_INDEX_ADDR_FOR_WR(c, c.xreg), Linear)
    [] k = 15 -> STA_INST(GET_LONG_X_ADDR_FOR_WR(c), Linear)

RowA(c, k) ==
  CASE k = 0 -> ArgToIndex(IndexImm(c), "y")
    [] k = 1 -> LDA_INST(GET_DLOC_X_IND_RD(c))
    [] k = 2 -> ArgToIndex(IndexImm(c), "x")
    [] k = 3 -> LDA_INST(GET_DISP8_S_RD(c))
    [] k = 4 -> C_LDY_DLOC(c)
    [] k = 5 -> LDA_INST(GET_DLOC_RD(c))
    [] k = 6 -> C_LDX_DLOC(c)
    [] k = 7 -> LDA_INST(GET_DLOC_L_IND_RD(c))
    [] k = 8 -> SET_INDEX_REG(INC_KPC(c, 1), c.acc, "y")
    [] k = 9 -> LDA_INST(GET_IMM_MEM(c))
    [] k = 10 -> SET_INDEX_REG(INC_KPC(c, 1), c.acc, "x")
    [] k = 11 -> PLB(c)
    [] k = 12 -> C_LDY_ABS(c)
    [] k = 13 -> LDA_INST(GET_ABS_RD(c))
    [] k = 14 -> C_LDX_ABS(c)
    [] k = 15 -> LDA_INST(GET_LONG_RD(c))

RowB(c, k) ==
  CASE k = 0 -> BRANCH_DISP8(c, c.psr.c = 1)
    [] k = 1 -> LDA_INST(GET_DLOC_IND_Y_RD(c))
    [] k = 2 -> LDA_INST(GET_DLOC_IND_RD(c))
    [] k = 3 -> LDA_INST(GET_DISP8_S_IND_Y_RD(c))
    [] k = 4 -> C_LDY_DLOC_X(c)
    [] k = 5 -> LDA_INST(GET_DLOC_X_RD(c))
    [] k = 6 -> C_LDX_DLOC_Y(c)
    [] k = 7 -> LDA_INST(GET_DLOC_L_IND_Y_RD(c))
    [] k = 8 -> [INC_KPC(c, 1) EXCEPT !.psr.v = 0]
    [] k = 9 -> LDA_INST(GET_ABS_Y_RD(c))
    [] k = 10 -> SET_INDEX_REG(INC_KPC(c, 1), c.stack, "x")
    [] k = 11 -> SET_INDEX_REG(INC_KPC(c, 1), c.yreg, "x")
    [] k = 12 -> C_LDY_ABS_X(c)
    [] k = 13 -> LDA_INST(GET_ABS_X_RD(c))
    [] k = 14 -> C_LDX_ABS_Y(c)
    [] k = 15 -> LDA_INST(GET_LONG_X_RD(c))

RowC(c, k) ==
  CASE k = 0 -> C_CPY_IMM(c)
    [] k = 1 -> CMP_INST(GET_DLOC_X_IND_RD(c))
    [] k = 2 -> REP(c)
    [] k = 3 -> CMP_INST(GET_DISP8_S_RD(c))
    [] k = 4 -> C_CPY_DLOC(c)
    [] k = 5 -> CMP_INST(GET_DLOC_RD(c))
    [] k = 6 -> DEC_INST(GET_DLOC_RD(c), InBank)
    [] k = 7 -> CMP_INST(GET_DLOC_L_IND_RD(c))
    [] k = 8 -> SET_INDEX_REG(INC_KPC(c, 1), c.yreg + 1, "y")
    [] k = 9 -> CMP_INST(GET_IMM_MEM(c))
    [] k = 10 -> SET_INDEX_REG(INC_KPC(c, 1), c.xreg - 1, "x")
    [] k = 11 -> WAI(c)
    [] k = 12 -> C_CPY_ABS(c)
    [] k = 13 -> CMP_INST(GET_ABS_RD(c))
    [] k = 14 -> DEC_INST(GET_ABS_RD(c), Linear)
    [] k = 15 -> CMP_INST(GET_LONG_RD(c))

RowD(c, k) ==
  CASE k = 0 -> BRANCH_DISP8(c, c.zero # 0)
    [] k = 1 -> CMP_INST(GET_DLOC_IND_Y_RD(c))
    [] k = 2 -> CMP_INST(GET_DLOC_IND_RD(c))
    [] k = 3 -> CMP_INST(GET_DISP8_S_IND_Y_RD(c))
    [] k = 4 -> PEI(GET_DLOC_ADDR(c))
    [] k = 5 -> CMP_INST(GET_DLOC_X_RD(c))
    [] k = 6 -> DEC_INST(GET_DLOC_X_RD(c), InBank)
    [] k = 7 -> CMP_INST(GET_DLOC_L_IND_Y_RD(c))
    [] k = 8 -> [INC_KPC(c, 1) EXCEPT !.psr.d = 0]
    [] k = 9 -> CMP_INST(GET_ABS_Y_RD(c))
    [] k = 10 -> PushReg(c, c.xreg, c.psr.x = 1)
    [] k = 11 -> FINISH(c, "stp")
    [] k = 12 -> [c EXCEPT !.kpc = GET_MEMORY24(c, GET_2BYTE_ARG(c), InBank)]
    [] k = 13 -> CMP_INST(GET_ABS_X_RD(c))
    [] k = 14 -> DEC_INST(GET_ABS_X_RD_WR(c), Linear)
    [] k = 15 -> CMP_INST(GET_LONG_X_RD(c))

RowE(c, k) ==
  CASE k = 0 -> C_CPX_IMM(c)
    [] k = 1 -> SBC_INST(GET_DLOC_X_IND_RD(c))
    [] k = 2 -> SEP(c)
    [] k = 3 -> SBC_INST(GET_DISP8_S_RD(c))
    [] k = 4 -> C_CPX_DLOC(c)
    [] k = 5 -> SBC_INST(GET_DLOC_RD(c))
    [] k = 6 -> INC_INST(GET_DLOC_RD(c), InBank)
    [] k = 7 -> SBC_INST(GET_DLOC_L_IND_RD(c))
    [] k = 8 -> SET_INDEX_REG(INC_KPC(c, 1), c.xreg + 1, "x")
    [] k = 9 -> SBC_INST(GET_IMM_MEM(c))
    [] k = 10 -> INC_KPC(c, 1)
    [] k = 11 -> XBA(c)
    [] k = 12 -> C_CPX_ABS(c)
    [] k = 13 -> SBC_INST(GET_ABS_RD(c))
    [] k = 14 -> INC_INST(GET_ABS_RD(c), Linear)
    [] k = 15 -> SBC_INST(GET_LONG_RD(c))

RowF(c, k) ==
  CASE k = 0 -> BRANCH_DISP8(c, c.zero = 0)
    [] k = 1 -> SBC_INST(GET_DLOC_IND_Y_RD(c))
    [] k = 2 -> SBC_INST(GET_DLOC_IND_RD(c))
    [] k = 3 -> SBC_INST(GET_DISP8_S_IND_Y_RD(c))
    [] k = 4 -> PUSH16_UNSAFE(INC_KPC(c, 3), GET_2BYTE_ARG(c))
    [] k = 5 -> SBC_INST(GET_DLOC_X_RD(c))
    [] k = 6 -> INC_INST(GET_DLOC_X_RD(c), InBank)
    [] k = 7 -> SBC_INST(GET_DLOC_L_IND_Y_RD(c))
    [] k = 8 -> [INC_KPC(c, 1) EXCEPT !.psr.d = 1]
    [] k = 9 -> SBC_INST(GET_ABS_Y_RD(c))
    [] k = 10 -> PullIndex(c, "x")
    [] k = 11 -> XCE(c)
    [] k = 12 -> JSR_ABS_X(c)
    [] k = 13 -> SBC_INST(GET_ABS_X_RD(c))
    [] k = 14 -> INC_INST(GET_ABS_X_RD_WR(c), Linear)
    [] k = 15 -> SBC_INST(GET_LONG_X_RD(c))

\* switch(opcode) of enter_engine.
Instruction(c, opcode) ==
  LET k == opcode % 16
      row == opcode \div 16
  IN  CASE row = 0 -> Row0(c, k) [] row = 1 -> Row1(c, k) [] row = 2 -> Row2(c, k)
        [] row = 3 -> Row3(c, k) [] row = 4 -> Row4(c, k) [] row = 5 -> Row5(c, k)
        [] row = 6 -> Row6(c, k) [] row = 7 -> Row7(c, k) [] row = 8 -> Row8(c, k)
        [] row = 9 -> Row9(c, k) [] row = 10 -> RowA(c, k) [] row = 11 -> RowB(c, k)
        [] row = 12 -> RowC(c, k) [] row = 13 -> RowD(c, k) [] row = 14 -> RowE(c, k)
        [] row = 15 -> RowF(c, k)
=============================================================================
