------------------------------- MODULE CpuAlu -------------------------------
(***************************************************************************)
(* The arithmetic of the 65816 engine (engine_c.c): bits of words, the     *)
(* processor status as a record of flags, and the adder of ADC and SBC in  *)
(* its binary and decimal, 8-bit and 16-bit forms.                         *)
(*                                                                         *)
(* psr is the engine's 9-bit word as a record: e is bit 8 (emulation), the *)
(* others are the eight flags of the processor.  Every flag is 0 or 1.     *)
(***************************************************************************)
EXTENDS Integers

Byte == 0 .. 255
Word == 0 .. 2^16 - 1
Bit == 0 .. 1

\* Bit k of w.
BitOf(w, k) == (w \div 2^k) % 2

\* The bits two digits have in common.
InBoth(p, k) == ((p[1] \div k) % 2) * ((p[2] \div k) % 2)
And4 == [p \in (0 .. 15) \X (0 .. 15) |->
           InBoth(p, 1) + 2 * InBoth(p, 2) + 4 * InBoth(p, 4) + 8 * InBoth(p, 8)]

BitAnd(a, b) ==
  And4[<<a % 16, b % 16>>] + 16 * And4[<<(a \div 16) % 16, (b \div 16) % 16>>]
  + 256 * And4[<<(a \div 256) % 16, (b \div 256) % 16>>]
  + 4096 * And4[<<(a \div 4096) % 16, (b \div 4096) % 16>>]
BitOr(a, b) == a + b - BitAnd(a, b)
BitXor(a, b) == a + b - 2 * BitAnd(a, b)

Flags == [e : Bit, n : Bit, v : Bit, m : Bit, x : Bit, d : Bit, i : Bit, z : Bit, c : Bit]

\* psr & 0xff, the byte that is pushed; and the byte taken back from it.
PsrByte(p) ==
  128 * p.n + 64 * p.v + 32 * p.m + 16 * p.x + 8 * p.d + 4 * p.i + 2 * p.z + p.c
PsrOf(b, emul) ==
  [e |-> emul, n |-> BitOf(b, 7), v |-> BitOf(b, 6), m |-> BitOf(b, 5), x |-> BitOf(b, 4),
   d |-> BitOf(b, 3), i |-> BitOf(b, 2), z |-> BitOf(b, 1), c |-> BitOf(b, 0)]

Flag(cond) == IF cond THEN 1 ELSE 0

\* The flags both adders leave: overflow is kept only when the signs of the
\* operands (in2 complemented for a subtraction) agree.
SumFlags(psr, sum, overflow, sameSign, size) ==
  [psr EXCEPT !.n = BitOf(sum, size - 1),
              !.v = IF sameSign THEN overflow ELSE 0,
              !.z = Flag(sum % 2^size = 0),
              !.c = Flag(sum >= 2^size)]

(* in2 as it is added, and the result of an addition: the sum may have a     *)
(* carry on top.                                                            *)
Addend(in2, sub, size) == IF sub THEN 2^size - 1 - in2 ELSE in2
Result(psr, in1, b, sum, overflow, size) ==
  [psr |-> SumFlags(psr, sum, overflow, BitOf(in1, size - 1) = BitOf(b, size - 1), size),
   val |-> sum % 2^size]
Binary(psr, in1, b, sum, size) ==
  Result(psr, in1, b, sum, Flag(BitOf(sum, size - 1) # BitOf(b, size - 1)), size)

\* A mutant: the sum is binary whatever the decimal flag says.
NoDecimal(in1, in2, psr, sub) ==
  Binary(psr, in1, Addend(in2, sub, 8), in1 + Addend(in2, sub, 8) + psr.c, 8)

\* The decimal corrections of the low digit and of the whole byte.
DigitFixed(digit, sub) ==
  IF sub THEN IF digit < 16 THEN (digit - 6) % 16 ELSE digit
  ELSE IF digit >= 10 THEN BitOr(digit - 10, 16) ELSE digit
BothFixed(both, sub) ==
  IF sub THEN IF both < 256 THEN (both + 160) % 256 ELSE both
  ELSE IF both >= 160 THEN both + 96 ELSE both
HighDigits(in1, b) == (in1 - (in1 % 16)) + (b - (b % 16))
Decimal8(psr, in1, b, both, sub) ==
  Result(psr, in1, b, BothFixed(both, sub), Flag(BitOf(both, 8) # BitOf(both, 7)), 8)

Add8(in1, b, psr, sub) ==
  IF psr.d = 0 THEN Binary(psr, in1, b, in1 + b + psr.c, 8)
  ELSE Decimal8(psr, in1, b,
                HighDigits(in1, b) + DigitFixed((in1 % 16) + (b % 16) + psr.c, sub), sub)
do_adc_sbc8(in1, in2, psr, sub) == Add8(in1, Addend(in2, sub, 8), psr, sub)

\* In decimal the low bytes are added first, and their carry goes to the high
\* ones through psr.
Joined(psr, in1, b, low, high) ==
  Result(psr, in1, b, high.val * 256 + low + 65536 * high.psr.c, high.psr.v, 16)
Decimal16(psr, in1, in2, low, sub) ==
  Joined(psr, in1, Addend(in2, sub, 16), low.val,
         do_adc_sbc8(in1 \div 256, in2 \div 256, low.psr, sub))

do_adc_sbc16(in1, in2, psr, sub) ==
  IF psr.d = 0
  THEN Binary(psr, in1, Addend(in2, sub, 16), in1 + Addend(in2, sub, 16) + psr.c, 16)
  ELSE Decimal16(psr, in1, in2, do_adc_sbc8(in1 % 256, in2 % 256, psr, sub), sub)
=============================================================================
