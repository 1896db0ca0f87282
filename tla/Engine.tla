------------------------------- MODULE Engine -------------------------------
(***************************************************************************)
(* The processor as run_prog drives it: enter_engine and its loop          *)
(* (engine_c.c), the interrupt sequence, the actions the engine asks for   *)
(* when it comes back, and the reset (sim65816.c).                         *)
(*                                                                         *)
(* The engine runs until its cycles are up, until an instruction leaves it *)
(* (FINISH), or until something a device did sets g_fcycles_stop to 0.     *)
(* The number of cycles of an instruction is left out: the cycles may be   *)
(* up after any instruction, and after any byte of a block move.           *)
(***************************************************************************)
EXTENDS CpuOps, Sequences

CONSTANTS
  InitCpu,    \* the states run_prog starts from, [cpu |-> .., mem |-> .., left |-> ..]
  IrqInRam,   \* bit 6 of the shadow register: vectors are read from bank 0
  Bursts      \* how many bytes a block move may do before the cycles are up

Registers ==
  [kpc : 0 .. 2^24 - 1, acc : Word, xreg : Word, yreg : Word, stack : Word, dbank : Byte,
   direct : Word, psr : Flags, neg : Bit, zero : Bit, acc8 : Bit]

\* The registers keep their widths: 8-bit index registers have no high byte,
\* emulation has 8-bit registers and a stack in page 1.
Fitting(r) ==
  /\ r \in Registers
  /\ r.psr.x = 1 => r.xreg < 256 /\ r.yreg < 256
  /\ r.psr.e = 1 => r.psr.m = 1 /\ r.psr.x = 1 /\ r.stack \in 256 .. 511

\* Outside of the engine psr has the flags that are kept beside it inside.
Gathered(r) == r.psr.n = r.neg /\ r.psr.z = 1 - r.zero

ASSUME EngineAssumption ==
  /\ IrqInRam \in BOOLEAN
  /\ Bursts \subseteq Nat \ {0}
  /\ \A s \in InitCpu :
       Fitting(s.cpu) /\ Gathered(s.cpu) /\ \A a \in DOMAIN s.mem : s.mem[a] \in Byte

VARIABLES
  cpu,      \* the registers: engine, and the locals of enter_engine while inside
  mem,      \* the bytes of memory that were written
  irq,      \* g_irq_pending # 0
  wait,     \* g_wait_pending
  stp,      \* g_stp_pending
  inside,   \* the program is in enter_engine
  stop,     \* fcycles is past g_fcycles_stop
  left      \* bound: instructions that may still be executed

vars == <<cpu, mem, irq, wait, stp, inside, stop, left>>

LowOpcodes == <<
  <<1, 1, 1, 1, 1, 1, 1, 1, 0, 4, 0, 0, 2, 2, 2, 3>>,
  <<1, 1, 1, 1, 1, 1, 1, 1, 0, 2, 0, 0, 2, 2, 2, 3>>,
  <<2, 1, 3, 1, 1, 1, 1, 1, 0, 4, 0, 0, 2, 2, 2, 3>>,
  <<1, 1, 1, 1, 1, 1, 1, 1, 0, 2, 0, 0, 2, 2, 2, 3>>,
  <<0, 1, 1, 1, 2, 1, 1, 1, 0, 4, 0, 0, 2, 2, 2, 3>>,
  <<1, 1, 1, 1, 2, 1, 1, 1, 0, 2, 0, 0, 3, 2, 2, 3>>,
  <<0, 1, 2, 1, 1, 1, 1, 1, 0, 4, 0, 0, 2, 2, 2, 3>>,
  <<1, 1, 1, 1, 1, 1, 1, 1, 0, 2, 0, 0, 2, 2, 2, 3>> >>

HighOpcodes == <<
  <<1, 1, 2, 1, 1, 1, 1, 1, 0, 4, 0, 0, 2, 2, 2, 3>>,
  <<1, 1, 1, 1, 1, 1, 1, 1, 0, 2, 0, 0, 2, 2, 2, 3>>,
  <<5, 1, 5, 1, 1, 1, 1, 1, 0, 4, 0, 0, 2, 2, 2, 3>>,
  <<1, 1, 1, 1, 1, 1, 1, 1, 0, 2, 0, 0, 2, 2, 2, 3>>,
  <<5, 1, 1, 1, 1, 1, 1, 1, 0, 4, 0, 0, 2, 2, 2, 3>>,
  <<1, 1, 1, 1, 1, 1, 1, 1, 0, 2, 0, 0, 2, 2, 2, 3>>,
  <<5, 1, 1, 1, 1, 1, 1, 1, 0, 4, 0, 0, 2, 2, 2, 3>>,
  <<1, 1, 1, 1, 2, 1, 1, 1, 0, 2, 0, 0, 2, 2, 2, 3>> >>

\* Operand bytes by opcode; 4 and 5 depend on the width of accumulator and index.
size_tab == LowOpcodes \o HighOpcodes

\* The record the instructions work on.
Locals(burst) ==
  [kpc |-> cpu.kpc, acc |-> cpu.acc, xreg |-> cpu.xreg, yreg |-> cpu.yreg,
   stack |-> cpu.stack, dbank |-> cpu.dbank, direct |-> cpu.direct, psr |-> cpu.psr,
   neg |-> cpu.neg, zero |-> cpu.zero, acc8 |-> cpu.acc8,
   mem |-> mem, irq |-> irq, wait |-> wait, opnd |-> 0, arg |-> 0,
   addr_latch |-> 0, burst |-> burst, ret |-> "none"]

Regs(c) ==
  [kpc |-> c.kpc, acc |-> c.acc, xreg |-> c.xreg, yreg |-> c.yreg, stack |-> c.stack,
   dbank |-> c.dbank, direct |-> c.direct, psr |-> c.psr, neg |-> c.neg, zero |-> c.zero,
   acc8 |-> c.acc8]

\* A mutant: the immediates of the index registers are read with the width of
\* the accumulator.
MixedWidths(c, opcode) ==
  LET a == INC_KPC(c, 1).kpc
      size == size_tab[1 + (opcode \div 16)][1 + (opcode % 16)]
      narrow == size = 1 \/ (size \in {4, 5} /\ c.psr.m = 1)
  IN  CASE size = 0 -> 0
        [] narrow -> GET_MEMORY8(c, a)
        [] size = 3 -> GET_MEMORY24(c, a, InBank)
        [] OTHER -> GET_MEMORY16(c, a, InBank)

\* The operand bytes of an instruction read one by one, as many as the table says.
get_remaining_operands(c, opcode) ==
  LET a == INC_KPC(c, 1).kpc
      size == size_tab[1 + (opcode \div 16)][1 + (opcode % 16)]
      narrow == size = 1 \/ (size = 4 /\ c.psr.m = 1) \/ (size = 5 /\ c.psr.x = 1)
  IN  CASE size = 0 -> 0
        [] narrow -> GET_MEMORY8(c, a)
        [] size = 3 -> GET_MEMORY24(c, a, InBank)
        [] OTHER -> GET_MEMORY16(c, a, InBank)

Opcode(c) == GET_MEMORY8(c, c.kpc)

\* Away from the end of a page the operands are the bytes behind the opcode.
FETCH_OPCODE(c) ==
  [c EXCEPT !.opnd = IF c.kpc % 256 > 252
                     THEN get_remaining_operands(c, Opcode(c))
                     ELSE GET_MEMORY24(c, c.kpc + 1, InBank)]

Dispatch(c) == Instruction(c, Opcode(c))
Execute(c) == Dispatch(FETCH_OPCODE(c))

\* The end of enter_engine: the two flags go back into psr.
Finish(c) == [c EXCEPT !.psr = Folded(c)]

\* The bytes the interrupt sequence pushes, and the vector it reads.
IrqPush(c, val) == [SET_MEMORY8(c, c.stack, val) EXCEPT !.stack = InPage(c, c.stack - 1)]
IrqBank(c, pc) == IF c.psr.e = 1 THEN c ELSE IrqPush(c, pc \div 65536)
IrqPsr(c) == IF c.psr.e = 1 THEN PsrByte([c.psr EXCEPT !.x = 0]) ELSE PsrByte(c.psr)
IrqVector(c) ==
  (IF c.psr.e = 1 THEN 65534 ELSE 65518) + (IF IrqInRam THEN 0 ELSE 16711680)
EnterHandler(c) ==
  [c EXCEPT !.wait = FALSE, !.psr.i = 1, !.psr.d = 0,
            !.kpc = GET_MEMORY16(c, IrqVector(c), Linear)]

InterruptAt(c, pc) ==
  EnterHandler(IrqPush(IrqPush(IrqPush(IrqBank(c, pc), pc \div 256), pc), IrqPsr(c)))
take_irq(c) == InterruptAt(c, IF c.wait THEN c.kpc + 1 ELSE c.kpc)

Init ==
  /\ \E s \in InitCpu : cpu = s.cpu /\ mem = s.mem /\ left = s.left
  /\ irq = FALSE
  /\ wait = FALSE /\ stp = FALSE /\ inside = FALSE /\ stop = FALSE

\* The top of run_prog's loop, up to the first instruction.
run_prog ==
  /\ ~inside
  /\ \E c \in {IF irq /\ cpu.psr.i = 0 THEN take_irq(Locals(1)) ELSE Locals(1)} :
       /\ cpu' = [Regs(c) EXCEPT !.acc8 = c.psr.m, !.zero = 1 - c.psr.z, !.neg = c.psr.n]
       /\ mem' = c.mem
       /\ wait' = c.wait
  /\ inside' = TRUE /\ stop' = FALSE
  /\ UNCHANGED <<irq, stp, left>>

\* One turn of the engine's loop, with handle_action when it leaves.
Instr ==
  /\ inside /\ ~stop /\ left > 0
  /\ \E burst \in Bursts :
       \E c \in {Execute(Locals(burst))} :
         /\ mem' = c.mem
         /\ wait' = c.wait
         /\ IF c.ret = "none"
            THEN /\ cpu' = Regs(c)
                 /\ inside' = TRUE
                 /\ \E cut \in BOOLEAN :
                      stop' = (cut /\ c.kpc = cpu.kpc /\ Opcode(c) \in {68, 84})
            ELSE /\ cpu' = Regs(Finish(c))
                 /\ inside' = FALSE /\ stop' = FALSE
         /\ stp' = (stp \/ c.ret = "stp")
  /\ left' = left - 1
  /\ UNCHANGED irq

\* The time of the next event has come.
CyclesUp ==
  /\ inside /\ ~stop
  /\ stop' = TRUE
  /\ UNCHANGED <<cpu, mem, irq, wait, stp, inside, left>>

LeaveEngine ==
  /\ inside /\ stop
  /\ cpu' = Finish(cpu)
  /\ inside' = FALSE /\ stop' = FALSE
  /\ UNCHANGED <<mem, irq, wait, stp, left>>

\* A device reached by an access of the last instruction, or, outside the
\* engine, by an event: add_irq stops the run, remove_irq does not.
add_irq ==
  /\ ~irq
  /\ irq' = TRUE
  /\ stop' = inside
  /\ UNCHANGED <<cpu, mem, wait, stp, inside, left>>

remove_irq ==
  /\ irq
  /\ irq' = FALSE
  /\ UNCHANGED <<cpu, mem, wait, stp, inside, stop, left>>

\* do_reset, from the keyboard: as far as the processor goes.
do_reset ==
  /\ ~inside
  /\ cpu' = [cpu EXCEPT
               !.psr.e = 1, !.psr.m = 1, !.psr.x = 1, !.psr.i = 1, !.psr.d = 0,
               !.stack = 256 + (cpu.stack % 256), !.dbank = 0, !.direct = 0,
               !.xreg = cpu.xreg % 256, !.yreg = cpu.yreg % 256,
               !.kpc = GET_MEMORY16(Locals(1), 65532, Linear)]
  /\ wait' = FALSE /\ stp' = FALSE /\ irq' = FALSE
  /\ UNCHANGED <<mem, inside, stop, left>>

Next ==
  \/ run_prog \/ Instr \/ CyclesUp \/ LeaveEngine
  \/ add_irq \/ remove_irq \/ do_reset

Spec == Init /\ [][Next]_vars
-----------------------------------------------------------------------------
\* The registers keep their widths whatever program runs, N is a bit (PHP, and
\* the end of enter_engine, shift it into psr), and the copy of the loop that
\* runs is the one of the accumulator's width.
EngineShape ==
  /\ Fitting(cpu)
  /\ inside => cpu.acc8 = cpu.psr.m
  /\ ~inside => Gathered(cpu)

\* No instruction runs while an interrupt is pending and allowed: every way to
\* clear I (CLI, PLP, REP, RTI) leaves the engine, every way to raise an
\* interrupt stops it, and run_prog takes it before it enters again.
NoInstrOverIrq == (inside /\ ~stop /\ irq) => cpu.psr.i = 1

\* While the processor waits it is still at its WAI: an interrupt steps over
\* exactly that instruction, and nothing else runs meanwhile.
WaitsAtWai == wait => Opcode(Locals(1)) = 203
=============================================================================
