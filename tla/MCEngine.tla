------------------------------ MODULE MCEngine ------------------------------
(***************************************************************************)
(* Programs for the model checker, and what whole sequences of             *)
(* instructions must do from any state the engine reaches.                 *)
(***************************************************************************)
EXTENDS Engine, TLC

Status(e, m, x, d, c) ==
  [e |-> e, n |-> 0, v |-> 0, m |-> m, x |-> x, d |-> d, i |-> 1, z |-> 0, c |-> c]

\* Emulation, and the four pairs of widths of the native mode.
Modes == {<<1, 1, 1>>, <<0, 0, 0>>, <<0, 0, 1>>, <<0, 1, 0>>, <<0, 1, 1>>}

Start(kpc, mode, acc, x, y, s, dbank, direct, d, c) ==
  [kpc |-> kpc, acc |-> acc, dbank |-> dbank, direct |-> direct,
   xreg |-> IF mode[3] = 1 THEN x % 256 ELSE x, yreg |-> IF mode[3] = 1 THEN y % 256 ELSE y,
   stack |-> IF mode[1] = 1 THEN 256 + (s % 256) ELSE s,
   psr |-> Status(mode[1], mode[2], mode[3], d, c), neg |-> 0, zero |-> 1, acc8 |-> mode[2]]

\* Every vector leads to Handler, whose code is there; the code of the program
\* lies from kpc on, without leaving its bank.
Handler == 12288
Vectors == {65508, 65510, 65518, 65524, 65532, 65534} \cup {16777198, 16777214}
Code(at, bytes) ==
  [a \in {Bank(at) + ((at + k) % 65536) : k \in 0 .. Len(bytes) - 1} |->
     bytes[1 + ((a - at) % 65536)]]
Memory(kpc, bytes, handler) ==
  Code(kpc, bytes) @@ Code(Handler, handler)
  @@ [a \in {v + 1 : v \in Vectors} |-> Handler \div 256] @@ [v \in Vectors |-> Handler % 256]

RTIs == <<64>>

(* Every opcode, with operands at both ends of their ranges, in the middle  *)
(* of a page, at the end of it and at the end of a bank, with the stack at  *)
(* the edges of its page.                                                   *)
Every ==
  {[cpu |-> c, left |-> 1,
    mem |-> Memory(c.kpc, <<op>> \o args, RTIs)] :
     op \in 0 .. 255, args \in {<<16, 32, 0>>, <<255, 255, 1>>},
     c \in UNION {{Start(8192, m, 33023, 65535, 1, 256, 0, 0, 0, 1),
                   Start(8445, m, 4660, 511, 256, 511, 1, 255, 0, 0),
                   Start(131070, m, 39321, 2, 65535, 0, 255, 256, 1, 1)} : m \in Modes}}

(* Words over the instructions that change the modes, the stack and the     *)
(* registers whose width depends on them; the last one uses the stack.      *)
Changes ==
  {<<24, 251>>, <<56, 251>>, <<194, 48>>, <<226, 48>>, <<226, 16, 194, 32>>, <<8>>, <<40>>,
   <<27>>, <<154>>, <<162, 255, 255>>, <<234>>}
ModeChanges ==
  {[cpu |-> Start(8192, m, 65535, 65535, 32769, 256, 0, 0, 0, 0), left |-> 5,
    mem |-> Memory(8192, a \o b \o c, RTIs)] :
     m \in {<<1, 1, 1>>, <<0, 0, 0>>}, a \in Changes, b \in Changes,
     c \in {<<8>>, <<40>>, <<27>>, <<154>>}}

(* Programs an interrupt meets at any point: clearing and setting I, waiting,*)
(* moving a block forwards and backwards onto itself.                       *)
Interruptible ==
  {<<88, 203, 234, 120, 203, 234>>, <<88, 84, 0, 0, 88>>, <<88, 68, 0, 0>>,
   <<120, 194, 4, 226, 4>>, <<88, 8, 40, 203, 234>>}
Interrupted ==
  {[cpu |-> Start(8192, m, 2, 16384, 16385, 511, 0, 0, 0, 0), left |-> 6,
    mem |-> Memory(8192, p, RTIs) @@ (16384 :> 7) @@ (16385 :> 8) @@ (16383 :> 9)] :
     m \in {<<1, 1, 1>>, <<0, 0, 0>>, <<0, 1, 1>>}, p \in Interruptible}

(* ADC and SBC of every byte.                                               *)
Sums ==
  {[cpu |-> Start(8192, m, acc * 257, 0, 0, 511, 0, 0, 0, 0), left |-> 0,
    mem |-> Memory(8192, <<105, 1, 1>>, RTIs)] : m \in {<<0, 0, 0>>}, acc \in Byte}

MCInitCpu == Every \cup ModeChanges \cup Interrupted \cup Sums
-----------------------------------------------------------------------------
\* The size table agrees with what every instruction takes from behind its
\* opcode: read byte by byte at the end of a page, an instruction does what it
\* does in the middle of one.
Does(c, opnd) ==
  [Instruction([c EXCEPT !.opnd = opnd], Opcode(c)) EXCEPT !.opnd = 0, !.arg = 0, !.addr_latch = 0]
OperandsFit ==
  (inside /\ ~stop) =>
     \A c \in {Locals(1)} :
        Does(c, get_remaining_operands(c, Opcode(c)))
          = Does(c, GET_MEMORY24(c, INC_KPC(c, 1).kpc, InBank))

\* Registers but for the accumulated result flags.
Kept(c) == [Regs(c) EXCEPT !.psr.n = 0, !.psr.z = 0, !.neg = 0, !.zero = 0]
Moved(c, n) == Kept(INC_KPC(c, n))

\* What is pushed is what is pulled, with the stack anywhere in its page or at
\* either end of the bank, and a subroutine returns behind its call.  Only the
\* pushes the 65816 added leave page 1 in emulation, and are not undone there.
StackRoundTrip ==
  (inside /\ ~stop) =>
     \A l \in {[Locals(1) EXCEPT !.irq = FALSE]} :
       /\ Kept(RTS(JSR(l))) = Moved(l, 3)
       /\ Kept(PLA(PushReg(l, l.acc, l.acc8 = 1))) = Moved(l, 2)
       /\ Kept(PullIndex(PushReg(l, l.xreg, l.psr.x = 1), "x")) = Moved(l, 2)
       /\ Kept(PLB(PUSH8(INC_KPC(l, 1), l.dbank))) = Moved(l, 2)
       /\ Regs(Finish(PLP(PHP(l)))) = Regs(Finish(INC_KPC(l, 2)))
       /\ (cpu.psr.e = 0 \/ cpu.stack > 257) =>
             /\ Kept(RTL(JSL(l))) = Moved(l, 4)
             /\ Kept(RTS(JSR_ABS_X(l))) = Moved(l, 3)
             /\ Kept(PLD(PUSH16_UNSAFE(INC_KPC(l, 1), l.direct))) = Moved(l, 2)

\* The registers as an interrupt whose handler returns at once gives them back.
Served(c) == Finish(RTI([take_irq(c) EXCEPT !.irq = FALSE]))
Lasting(c) == [Regs(c) EXCEPT !.acc8 = 0]

\* An interrupt changes nothing for the program: with the stack anywhere, in
\* both modes and over a WAI, the return gives back every register and flag.
\* (The program bank is not pushed in emulation, and a WAI in the last byte of a
\* bank is left for the next bank.)
InterruptIsTransparent ==
  (~inside /\ (cpu.psr.e = 1 => cpu.kpc < 65536) /\ (wait => cpu.kpc % 65536 < 65535)) =>
     Lasting(Served(Locals(1))) = Lasting(IF wait THEN INC_KPC(Locals(1), 1) ELSE Locals(1))

\* A block move cut after any byte and interrupted there still moves acc + 1
\* bytes: it ends with the registers and the bytes of an undisturbed one.
MovesOn(part, rest, whole) ==
  /\ part.kpc = cpu.kpc
  /\ Lasting(Finish(rest)) = Lasting(Finish(whole))
  /\ \A a \in DOMAIN whole.mem : rest.mem[a] = whole.mem[a]
Resumed(part) == [Served(Finish(part)) EXCEPT !.burst = cpu.acc + 1, !.wait = FALSE]
ResumesUnder(Run(_)) ==
  \A whole \in {Run(Locals(cpu.acc + 1))} :
     /\ cpu.acc > 0 => whole.kpc = INC_KPC(Locals(1), 3).kpc
     /\ \A k \in 1 .. cpu.acc :
          \A part \in {Run(Locals(k))} : MovesOn(part, Run(Resumed(part)), whole)
BlockMoveResumes ==
  (inside /\ ~stop /\ Opcode(Locals(1)) \in {68, 84} /\ cpu.psr.x = 0 /\ cpu.acc < 4) =>
     ResumesUnder(Execute)

Signed(val, size) == IF BitOf(val, size - 1) = 1 THEN val - 2^size ELSE val
Digits(val, size) == {(val \div 16^k) % 16 : k \in 0 .. (size \div 4) - 1}
Decimal(val) ==
  (val % 16) + 10 * ((val \div 16) % 16) + 100 * ((val \div 256) % 16) + 1000 * (val \div 4096)

Borrow(p) == 1 - p.c
Exact(x, y, p, sub) == IF sub THEN x - y - Borrow(p) ELSE x + y + p.c
WithCarry(val, p, sub, base) == IF sub THEN val - base * Borrow(p) ELSE val + base * p.c

SumIsRight(a, b, p, sub, r, size) ==
  IF p.d = 0
  THEN /\ WithCarry(r.val, r.psr, sub, 2^size) = Exact(a, b, p, sub)
       /\ (r.psr.v = 1) = (Exact(Signed(a, size), Signed(b, size), p, sub) # Signed(r.val, size))
       /\ r.psr.n = BitOf(r.val, size - 1) /\ (r.psr.z = 1) = (r.val = 0)
  ELSE (\A n \in Digits(a, size) \cup Digits(b, size) : n < 10) =>
         /\ \A n \in Digits(r.val, size) : n < 10
         /\ WithCarry(Decimal(r.val), r.psr, sub, 10^(size \div 4))
              = Exact(Decimal(a), Decimal(b), p, sub)

\* The adder against its definition: in binary the sum or difference with its
\* carry, overflow, sign and zero; in decimal, of decimal operands, the decimal
\* one.  Every byte with every byte; words with the words at the carries.
AdderIsRight ==
  (~inside /\ left = 0 /\ cpu.kpc = 8192) =>
     \A c \in Bit, d \in Bit, sub \in BOOLEAN :
       LET p == Status(0, 0, 0, d, c)
       IN  /\ \A b \in Byte :
                SumIsRight(cpu.acc % 256, b, p, sub,
                           do_adc_sbc8(cpu.acc % 256, b, p, sub), 8)
           /\ \A b \in {0, 1, 153, 255, 2457, 4660, 32767, 32768, 39321, 65535} :
                SumIsRight(cpu.acc, b, p, sub, do_adc_sbc16(cpu.acc, b, p, sub), 16)
=============================================================================
