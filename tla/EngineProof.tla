----------------------------- MODULE EngineProof -----------------------------
(***************************************************************************)
(* The processor keeps its shape, sees its interrupts, gives back what an  *)
(* interrupt or the stack was given, adds, and fetches the operands its    *)
(* instructions take: proofs for every program and every memory.           *)
(*                                                                         *)
(* Sized gives the locals of the engine their ranges, Good adds what the   *)
(* widths demand of them.  Each operator of CpuModes and CpuOps is shown   *)
(* to be Quiet (psr and index registers stay, the stack stays in its page) *)
(* or Calm (the widths and I stay), or, for the few that change psr, to do *)
(* what Runs asks of a whole instruction; and to do the same with two      *)
(* states that are Alike, that is, differ in the fetched operands only.    *)
(***************************************************************************)
EXTENDS MCMachine, NatFacts, TLAPS

Address == 0 .. 2^24 - 1

Fields == {"kpc", "acc", "xreg", "yreg", "stack", "dbank", "direct", "psr", "neg", "zero",
           "acc8", "mem", "irq", "wait", "opnd", "arg", "addr_latch", "burst", "ret"}

\* The locals of enter_engine are in their ranges, memory holds bytes.
Sized(c) ==
  /\ DOMAIN c = Fields
  /\ c.kpc \in Address /\ c.acc \in Word /\ c.xreg \in Word /\ c.yreg \in Word
  /\ c.stack \in Word /\ c.dbank \in Byte /\ c.direct \in Word
  /\ c.psr \in Flags /\ c.neg \in Bit /\ c.zero \in Bit /\ c.acc8 \in Bit
  /\ \A a \in DOMAIN c.mem : c.mem[a] \in Byte
  /\ c.irq \in BOOLEAN /\ c.wait \in BOOLEAN
  /\ c.opnd \in Address /\ c.arg \in Int /\ c.addr_latch \in Int /\ c.burst \in Nat \ {0}

\* The index registers and the stack have the width psr says.
Shaped(c) ==
  /\ c.psr.x = 1 => c.xreg < 256 /\ c.yreg < 256
  /\ c.psr.e = 1 => c.psr.m = 1 /\ c.psr.x = 1 /\ c.stack \in 256 .. 511

Good(c) == Sized(c) /\ Shaped(c) /\ c.acc8 = c.psr.m

Quiet(c, d) ==
  /\ Sized(d)
  /\ d.psr = c.psr /\ d.xreg = c.xreg /\ d.yreg = c.yreg /\ d.acc8 = c.acc8
  /\ d.irq = c.irq /\ d.wait = c.wait /\ d.ret = c.ret
  /\ c.psr.e = 1 /\ c.stack \in 256 .. 511 => d.stack \in 256 .. 511

Calm(c, d) ==
  /\ Good(d)
  /\ d.psr.e = c.psr.e /\ d.psr.m = c.psr.m /\ d.psr.x = c.psr.x /\ d.psr.i = c.psr.i
  /\ d.irq = c.irq /\ d.wait = c.wait /\ d.ret = c.ret

\* arg has the width of the accumulator.
Ranged(c) == IF c.acc8 = 1 THEN c.arg \in Byte ELSE c.arg \in Word

-----------------------------------------------------------------------------
(* Ranges.                                                                 *)
LEMMA WordIs == \A w : w \in Word <=> w \in Int /\ 0 <= w /\ w < 65536
  BY SMT DEF Word
LEMMA ByteIs == \A w : w \in Byte <=> w \in Int /\ 0 <= w /\ w < 256
  BY SMT DEF Byte
LEMMA BitIs == \A w : w \in Bit <=> w \in Int /\ 0 <= w /\ w < 2
  BY SMT DEF Bit
LEMMA AddressIs == \A w : w \in Address <=> w \in Int /\ 0 <= w /\ w < 16777216
  BY SMT DEF Address
LEMMA PageIs == \A w : w \in 256 .. 511 <=> w \in Int /\ 256 <= w /\ w < 512
  BY SMT

LEMMA Wraps ==
  ASSUME NEW v \in Int
  PROVE  v % 256 \in Byte /\ v % 65536 \in Word /\ v % 16777216 \in Address
         /\ v % 2 \in Bit /\ 256 + (v % 256) \in 256 .. 511 /\ 256 + (v % 256) \in Word
  BY SMT, ByteIs, WordIs, AddressIs, BitIs, PageIs

LEMMA Parts ==
  /\ \A w \in Word : w \div 256 \in Byte /\ w % 256 \in Byte /\ w \in Int
  /\ \A a \in Address : a \div 65536 \in Byte /\ a % 65536 \in Word /\ a \div 256 \in Word
                        /\ a \in Int
  /\ \A b \in Byte : b \in Word /\ b \in Address /\ b \in Int
  /\ \A w \in Word : w \in Address
  /\ \A b \in Bit : b \in Int
  BY SMT, ByteIs, WordIs, AddressIs, BitIs

LEMMA Numbers ==
  /\ \A w \in Word : w \in Int
  /\ \A b \in Byte : b \in Int
  /\ \A b \in Bit : b \in Int
  /\ \A a \in Address : a \in Int
  BY SMT, ByteIs, WordIs, AddressIs, BitIs

LEMMA SizedNumbers ==
  ASSUME NEW c, Sized(c)
  PROVE  /\ c.kpc \in Int /\ c.acc \in Int /\ c.xreg \in Int /\ c.yreg \in Int
         /\ c.stack \in Int /\ c.dbank \in Int /\ c.direct \in Int /\ c.opnd \in Int
         /\ c.arg \in Int /\ c.addr_latch \in Int
  BY Numbers DEF Sized

LEMMA WordsAre ==
  ASSUME NEW c, Sized(c)
  PROVE  c.acc \in Word /\ c.xreg \in Word /\ c.stack \in Word /\ c.direct \in Word
  BY DEF Sized

LEMMA Joins ==
  /\ \A a, b \in Byte : a + 256 * b \in Word
  /\ \A w \in Word, b \in Byte : w + 65536 * b \in Address /\ b * 65536 + w \in Address
  BY SMT, ByteIs, WordIs, AddressIs

LEMMA BankIs ==
  ASSUME NEW a \in Address
  PROVE  Bank(a) \in Address /\ \A w \in Word : Bank(a) + w \in Address
  BY SMT, WordIs, AddressIs DEF Bank

LEMMA QuietTrans ==
  ASSUME NEW c, NEW d, NEW e, Quiet(c, d), Quiet(d, e)
  PROVE  Quiet(c, e)
  BY DEF Quiet

LEMMA QuietSized == ASSUME NEW c, NEW d, Quiet(c, d) PROVE Sized(d)
  BY DEF Quiet

LEMMA QuietSelf == ASSUME NEW c, Sized(c) PROVE Quiet(c, c)
  BY DEF Quiet

LEMMA CalmTrans ==
  ASSUME NEW c, NEW d, NEW e, Calm(c, d), Calm(d, e)
  PROVE  Calm(c, e)
  BY DEF Calm

LEMMA QuietIsCalm ==
  ASSUME NEW c, NEW d, Good(c), Quiet(c, d)
  PROVE  Calm(c, d)
  BY DEF Quiet, Calm, Good, Shaped

-----------------------------------------------------------------------------
(* Memory.                                                                 *)
LEMMA ReadByte ==
  ASSUME NEW c, Sized(c), NEW a \in Int
  PROVE  GET_MEMORY8(c, a) \in Byte
  BY SMT, ByteIs DEF Sized, GET_MEMORY8

LEMMA NextIs == ASSUME NEW a \in Int, NEW b PROVE NextByte(a, b) \in Int
  BY SMT DEF NextByte, Bank

LEMMA ReadWord ==
  ASSUME NEW c, Sized(c), NEW a \in Int, NEW b
  PROVE  GET_MEMORY16(c, a, b) \in Word
  BY ReadByte, NextIs, Joins DEF GET_MEMORY16

LEMMA ReadLong ==
  ASSUME NEW c, Sized(c), NEW a \in Int, NEW b
  PROVE  GET_MEMORY24(c, a, b) \in Address
  BY ReadByte, ReadWord, NextIs, Joins DEF GET_MEMORY24

LEMMA WriteByte ==
  ASSUME NEW c, Sized(c), NEW a \in Int, NEW v \in Int
  PROVE  Quiet(c, SET_MEMORY8(c, a, v)) /\ SET_MEMORY8(c, a, v).stack = c.stack
<1> DEFINE b == a % 16777216
           n == Poke(c.mem, b, v % 256)
<1>1. v % 256 \in Byte
  BY Wraps
<1>2. \A x \in DOMAIN n : n[x] \in Byte
  <2> HIDE DEF b
  <2> QED BY <1>1, ZenonT(20) DEF Sized, Poke
<1> HIDE DEF n
<1>3. SET_MEMORY8(c, a, v) = [c EXCEPT !.mem = n]
  BY DEF SET_MEMORY8, n, b
<1> QED BY <1>2, <1>3 DEF Sized, Quiet, Fields

\* Words and longs are two and three bytes.
LEMMA WriteWord ==
  ASSUME NEW c, Sized(c), NEW a \in Int, NEW v \in Int, NEW b
  PROVE  Quiet(c, SET_MEMORY16(c, a, v, b)) /\ SET_MEMORY16(c, a, v, b).stack = c.stack
<1> DEFINE d == SET_MEMORY8(c, a, v)
<1>1. Quiet(c, d) /\ d.stack = c.stack
  BY WriteByte
<1>2. NextByte(a, b) \in Int /\ v \div 256 \in Int
  BY NextIs
<1>3. Sized(d)
  BY <1>1 DEF Quiet
<1> HIDE DEF d
<1>4. Quiet(d, SET_MEMORY8(d, NextByte(a, b), v \div 256))
      /\ SET_MEMORY8(d, NextByte(a, b), v \div 256).stack = d.stack
  BY <1>2, <1>3, WriteByte
<1> QED BY <1>1, <1>4, QuietTrans DEF SET_MEMORY16, d

LEMMA WriteLong ==
  ASSUME NEW c, Sized(c), NEW a \in Int, NEW v \in Int, NEW b
  PROVE  Quiet(c, SET_MEMORY24(c, a, v, b)) /\ SET_MEMORY24(c, a, v, b).stack = c.stack
<1> DEFINE d == SET_MEMORY16(c, a, v, b)
           third == NextByte(NextByte(a, b), b)
<1>1. Quiet(c, d) /\ d.stack = c.stack
  BY WriteWord
<1>2. third \in Int /\ v \div 65536 \in Int
  BY NextIs
<1>3. Sized(d)
  BY <1>1 DEF Quiet
<1> HIDE DEF d, third
<1>4. Quiet(d, SET_MEMORY8(d, third, v \div 65536))
      /\ SET_MEMORY8(d, third, v \div 65536).stack = d.stack
  BY <1>2, <1>3, WriteByte
<1> QED BY <1>1, <1>4, QuietTrans DEF SET_MEMORY24, d, third

-----------------------------------------------------------------------------
(* Single registers.                                                       *)
SetKpc(c, v) == [c EXCEPT !.kpc = v]
SetReg(c, v) == [c EXCEPT !.acc = v]
SetArg(c, v) == [c EXCEPT !.arg = v]
SetBank(c, v) == [c EXCEPT !.dbank = v]
SetDirect(c, v) == [c EXCEPT !.direct = v]
SetOpnd(c, v) == [c EXCEPT !.opnd = v]
SetStack(c, v) == [c EXCEPT !.stack = v]
SetZero(c, v) == [c EXCEPT !.zero = v]
SetBoth(c, v, w) == [c EXCEPT !.neg = v, !.zero = w]

LEMMA Updates ==
  ASSUME NEW c, Sized(c)
  PROVE  /\ \A v \in Address : Quiet(c, SetKpc(c, v)) /\ SetKpc(c, v).kpc = v
         /\ \A v \in Word : Quiet(c, SetReg(c, v))
         /\ \A v \in Int : Quiet(c, SetArg(c, v)) /\ SetArg(c, v).arg = v
         /\ \A v \in Byte : Quiet(c, SetBank(c, v))
         /\ \A v \in Word : Quiet(c, SetDirect(c, v))
         /\ \A v \in Address : Quiet(c, SetOpnd(c, v))
         /\ \A v \in Bit : Quiet(c, SetZero(c, v))
         /\ \A v, w \in Bit : Quiet(c, SetBoth(c, v, w))
<1>1. \A v \in Address : Quiet(c, SetKpc(c, v)) /\ SetKpc(c, v).kpc = v
  BY DEF Sized, Quiet, Fields, SetKpc
<1>2. \A v \in Word : Quiet(c, SetReg(c, v))
  BY DEF Sized, Quiet, Fields, SetReg
<1>3. \A v \in Int : Quiet(c, SetArg(c, v)) /\ SetArg(c, v).arg = v
  BY DEF Sized, Quiet, Fields, SetArg
<1>4. \A v \in Byte : Quiet(c, SetBank(c, v))
  BY DEF Sized, Quiet, Fields, SetBank
<1>5. \A v \in Word : Quiet(c, SetDirect(c, v))
  BY DEF Sized, Quiet, Fields, SetDirect
<1>6. \A v \in Address : Quiet(c, SetOpnd(c, v))
  BY DEF Sized, Quiet, Fields, SetOpnd
<1>7. \A v \in Bit : Quiet(c, SetZero(c, v))
  BY DEF Sized, Quiet, Fields, SetZero
<1>8. \A v, w \in Bit : Quiet(c, SetBoth(c, v, w))
  BY DEF Sized, Quiet, Fields, SetBoth
<1> QED BY <1>1, <1>2, <1>3, <1>4, <1>5, <1>6, <1>7, <1>8

LEMMA Steps ==
  ASSUME NEW c, Sized(c), NEW n \in Int
  PROVE  Quiet(c, INC_KPC(c, n)) /\ INC_KPC(c, n).arg = c.arg
<1> DEFINE v == Bank(c.kpc) + ((c.kpc + n) % 65536)
<1>1. c.kpc \in Address /\ c.kpc + n \in Int
  BY SizedNumbers DEF Sized
<1>2. v \in Address
  BY <1>1, BankIs, Wraps
<1>3. INC_KPC(c, n) = SetKpc(c, v)
  BY DEF INC_KPC, SetKpc
<1>4. SetKpc(c, v).arg = c.arg
  BY DEF SetKpc, Sized, Fields
<1> HIDE DEF v
<1> QED BY <1>2, <1>3, <1>4, Updates

LEMMA Stepped ==
  ASSUME NEW c, NEW d, Quiet(c, d), NEW n \in Int
  PROVE  Quiet(c, INC_KPC(d, n)) /\ INC_KPC(d, n).arg = d.arg /\ Sized(INC_KPC(d, n))
<1>1. Sized(d)
  BY QuietSized
<1>2. Quiet(d, INC_KPC(d, n)) /\ INC_KPC(d, n).arg = d.arg
  BY <1>1, Steps
<1> QED BY <1>2, QuietTrans, QuietSized

LEMMA PageKept ==
  ASSUME NEW c, Sized(c), NEW s \in Int
  PROVE  /\ InPage(c, s) \in Word
         /\ c.psr.e = 1 => InPage(c, s) \in 256 .. 511
  BY Wraps DEF InPage

LEMMA Restacked ==
  ASSUME NEW c, Sized(c), NEW s \in Word, c.psr.e = 1 /\ c.stack \in 256 .. 511 => s \in 256 .. 511
  PROVE  Quiet(c, SetStack(c, s))
  BY DEF Sized, Quiet, Fields, SetStack

-----------------------------------------------------------------------------
(* The stack.                                                              *)
LEMMA Pushes ==
  ASSUME NEW c, Sized(c), NEW v \in Int
  PROVE  Quiet(c, PUSH8(c, v))
<1> DEFINE d == SET_MEMORY8(c, c.stack, v)
           s == InPage(c, c.stack - 1)
<1>1. c.stack \in Int /\ c.stack - 1 \in Int
  BY SizedNumbers
<1>2. Quiet(c, d) /\ d.stack = c.stack
  BY <1>1, WriteByte
<1>3. s \in Word /\ (c.psr.e = 1 => s \in 256 .. 511)
  BY <1>1, PageKept
<1> HIDE DEF d, s
<1>4. Quiet(d, SetStack(d, s))
  BY <1>2, <1>3, Restacked DEF Quiet
<1>5. PUSH8(c, v) = SetStack(d, s)
  BY DEF PUSH8, SetStack, d, s
<1> QED BY <1>2, <1>4, <1>5, QuietTrans

LEMMA PushesWord ==
  ASSUME NEW c, Sized(c), NEW v \in Int
  PROVE  Quiet(c, PUSH16(c, v))
<1>1. v \div 256 \in Int /\ c.stack \in Int
  BY SizedNumbers
<1>2. Quiet(c, PushBytes(c, v))
  <2> DEFINE d == PUSH8(c, v \div 256)
  <2>1. Quiet(c, d)
    BY <1>1, Pushes
  <2> HIDE DEF d
  <2>2. Quiet(d, PUSH8(d, v))
    BY <2>1, Pushes DEF Quiet
  <2>3. PushBytes(c, v) = PUSH8(d, v)
    BY DEF PushBytes, d
  <2> QED BY <2>1, <2>2, <2>3, QuietTrans
<1>3. ASSUME c.stack % 256 \notin {0, 1}
      PROVE  Quiet(c, PushWord(c, (c.stack - 2) % 65536, v))
  <2> DEFINE s == (c.stack - 2) % 65536
             d == SetStack(c, s)
  <2>0. c.stack - 2 \in Int
    BY <1>1
  <2>1. s \in Word
    BY <2>0, Wraps
  <2>2. c.stack \in 256 .. 511 => s \in 256 .. 511
    BY <1>1, <1>3, PageIs, SMT
  <2> HIDE DEF s
  <2>3. Quiet(c, d)
    BY <2>1, <2>2, Restacked
  <2> HIDE DEF d
  <2>7. Sized(d) /\ s + 1 \in Int
    BY <2>1, <2>3, Numbers DEF Quiet
  <2>4. Quiet(d, SET_MEMORY16(d, s + 1, v, InBank))
    BY <2>7, WriteWord
  <2>5. PushWord(c, s, v) = SET_MEMORY16(d, s + 1, v, InBank)
    BY DEF PushWord, SetStack, d
  <2>6. Quiet(c, PushWord(c, s, v))
    BY <2>3, <2>4, <2>5, QuietTrans
  <2> QED BY <2>6 DEF s
<1> DEFINE near == c.stack % 256 \in {0, 1}
           s == (c.stack - 2) % 65536
<1>4. PUSH16(c, v) = IF near THEN PushBytes(c, v) ELSE PushWord(c, s, v)
  BY DEF PUSH16
<1>5. ~near => Quiet(c, PushWord(c, s, v))
  BY <1>3
<1> HIDE DEF near, s
<1> QED BY <1>2, <1>4, <1>5

LEMMA PushesUnsafe ==
  ASSUME NEW c, Sized(c), NEW v \in Int
  PROVE  Quiet(c, PUSH16_UNSAFE(c, v)) /\ Quiet(c, PUSH24_UNSAFE(c, v))
<1>1. c.stack \in Int /\ c.stack - 2 \in Int /\ c.stack - 3 \in Int
  BY SizedNumbers
<1>2. ASSUME NEW n \in Int
      PROVE  LET d == SetStack(c, InPage(c, n))
             IN  Quiet(c, d) /\ Sized(d)
  <2> DEFINE s == InPage(c, n)
  <2>1. s \in Word /\ (c.psr.e = 1 => s \in 256 .. 511)
    BY PageKept
  <2> HIDE DEF s
  <2>2. Quiet(c, SetStack(c, s))
    BY <2>1, Restacked
  <2> QED BY <2>2 DEF Quiet, s
<1> DEFINE d == SetStack(c, InPage(c, c.stack - 2))
           e == SetStack(c, InPage(c, c.stack - 3))
<1>3. Quiet(c, d) /\ Sized(d) /\ Quiet(c, e) /\ Sized(e)
  BY <1>1, <1>2
<1> DEFINE p == (c.stack - 1) % 65536
           q == (c.stack - 2) % 65536
<1>4. p \in Int /\ q \in Int
  BY <1>1
<1>6. PUSH16_UNSAFE(c, v) = SET_MEMORY16(d, p, v, InBank)
  BY DEF PUSH16_UNSAFE, SetStack
<1>7. PUSH24_UNSAFE(c, v) = SET_MEMORY24(e, q, v, InBank)
  BY DEF PUSH24_UNSAFE, SetStack
<1> HIDE DEF d, e, p, q
<1>5. Quiet(d, SET_MEMORY16(d, p, v, InBank)) /\ Quiet(e, SET_MEMORY24(e, q, v, InBank))
  BY <1>3, <1>4, WriteWord, WriteLong
<1> QED BY <1>3, <1>5, <1>6, <1>7, QuietTrans

\* A pull moves the stack and leaves what it read in arg.
SetPull(c, s, v) == [c EXCEPT !.stack = s, !.arg = v]
LEMMA Pulled ==
  ASSUME NEW c, Sized(c), NEW s \in Word, NEW v \in Int,
         c.psr.e = 1 /\ c.stack \in 256 .. 511 => s \in 256 .. 511
  PROVE  Quiet(c, SetPull(c, s, v)) /\ SetPull(c, s, v).arg = v
  BY DEF Sized, Quiet, Fields, SetPull

LEMMA PullsByte ==
  ASSUME NEW c, Sized(c)
  PROVE  Quiet(c, PULL8(c)) /\ PULL8(c).arg \in Byte
<1> DEFINE s == InPage(c, c.stack + 1)
           v == GET_MEMORY8(c, s)
<1>1. c.stack + 1 \in Int
  BY SizedNumbers
<1>2. s \in Word /\ (c.psr.e = 1 => s \in 256 .. 511)
  BY <1>1, PageKept
<1>3. v \in Byte /\ v \in Int
  BY <1>2, Numbers, ReadByte
<1>4. PULL8(c) = SetPull(c, s, v)
  BY DEF PULL8, SetPull
<1> HIDE DEF s, v
<1> QED BY <1>2, <1>3, <1>4, Pulled

\* The second byte of a word, the third of a long.
LEMMA PullsMore ==
  ASSUME NEW c, Sized(c)
  PROVE  /\ Quiet(c, AndHigh(c)) /\ Quiet(c, AndBank(c))
         /\ c.arg \in Byte => AndHigh(c).arg \in Word
         /\ c.arg \in Word => AndBank(c).arg \in Address
<1> DEFINE d == PULL8(c)
           v == c.arg + 256 * d.arg
           w == c.arg + 65536 * d.arg
<1>1. Quiet(c, d) /\ d.arg \in Byte
  BY PullsByte
<1>2. AndHigh(c) = SetArg(d, v) /\ AndBank(c) = SetArg(d, w)
  BY DEF AndHigh, AndBank, SetArg
<1>3. v \in Int /\ w \in Int
  BY <1>1, Numbers, SizedNumbers
<1>4. (c.arg \in Byte => v \in Word) /\ (c.arg \in Word => w \in Address)
  BY <1>1, Joins
<1>5. Sized(d)
  BY <1>1 DEF Quiet
<1> HIDE DEF d, v, w
<1>6. Quiet(d, SetArg(d, v)) /\ SetArg(d, v).arg = v /\ Quiet(d, SetArg(d, w)) /\ SetArg(d, w).arg = w
  BY <1>3, <1>5, Updates
<1> QED BY <1>1, <1>2, <1>4, <1>6, QuietTrans

LEMMA PullsWhole ==
  ASSUME NEW c, Sized(c)
  PROVE  /\ Quiet(c, PullWord(c)) /\ PullWord(c).arg \in Word
         /\ Quiet(c, PullLong(c)) /\ PullLong(c).arg \in Address
         /\ Quiet(c, PULL16_UNSAFE(c)) /\ PULL16_UNSAFE(c).arg \in Word
<1> DEFINE r == (c.stack + 2) % 65536
           t == (c.stack + 3) % 65536
           u == (c.stack + 1) % 65536
           uu == InPage(c, u)
           uv == (uu + 1) % 65536
           p == c.stack + 1
           vr == GET_MEMORY16(c, p, InBank)
           vt == GET_MEMORY24(c, p, InBank)
           vu == GET_MEMORY16(c, uu, InBank)
<1>1. p \in Int /\ r \in Int /\ t \in Int /\ u \in Int
  BY SizedNumbers
<1>2. uu \in Int
  BY <1>1, PageKept, Numbers
<1>3. uv \in Int
  BY <1>2
<1>4. vr \in Word /\ vt \in Address /\ vu \in Word
  <2> HIDE DEF p, uu, r, t, u, uv
  <2>1. vr \in Word
    BY <1>1, ReadWord
  <2>2. vt \in Address
    BY <1>1, ReadLong
  <2>3. vu \in Word
    BY <1>2, ReadWord
  <2> QED BY <2>1, <2>2, <2>3
<1>5. PullWord(c) = SetPull(c, InPage(c, r), vr)
  BY DEF PullWord, SetPull
<1>6. PullLong(c) = SetPull(c, InPage(c, t), vt)
  BY DEF PullLong, SetPull
<1>7. PULL16_UNSAFE(c) = SetPull(c, InPage(c, uv), vu)
  BY DEF PULL16_UNSAFE, SetPull
<1> HIDE DEF p, r, t, u, uu, uv, vr, vt, vu
<1>8. \A n \in Int : InPage(c, n) \in Word /\ (c.psr.e = 1 => InPage(c, n) \in 256 .. 511)
  BY PageKept
<1>9. vr \in Int /\ vt \in Int /\ vu \in Int
  BY <1>4, Numbers
<1>10. \A n \in Int, v \in Int : Quiet(c, SetPull(c, InPage(c, n), v))
                               /\ SetPull(c, InPage(c, n), v).arg = v
  BY <1>8, Pulled
<1> QED BY <1>1, <1>3, <1>4, <1>5, <1>6, <1>7, <1>9, <1>10

LEMMA PullsWord ==
  ASSUME NEW c, Sized(c)
  PROVE  Quiet(c, PULL16(c)) /\ PULL16(c).arg \in Word
<1> DEFINE near == c.stack % 256 \in {254, 255}
           d == PULL8(c)
<1>1. PULL16(c) = IF near THEN AndHigh(d) ELSE PullWord(c)
  BY DEF PULL16
<1>2. Quiet(c, d) /\ d.arg \in Byte /\ Sized(d)
  BY PullsByte DEF Quiet
<1> HIDE DEF near, d
<1>3. Quiet(c, AndHigh(d)) /\ AndHigh(d).arg \in Word
  BY <1>2, PullsMore, QuietTrans
<1> QED BY <1>1, <1>3, PullsWhole

LEMMA PullsLong ==
  ASSUME NEW c, Sized(c)
  PROVE  Quiet(c, PULL24(c)) /\ PULL24(c).arg \in Address
<1> DEFINE near == c.stack % 256 >= 252
           d == PULL8(c)
           e == AndHigh(d)
<1>1. PULL24(c) = IF near THEN AndBank(e) ELSE PullLong(c)
  BY DEF PULL24
<1>2. Quiet(c, d) /\ d.arg \in Byte /\ Sized(d)
  BY PullsByte DEF Quiet
<1> HIDE DEF near, d
<1>3. Quiet(c, e) /\ e.arg \in Word /\ Sized(e)
  BY <1>2, PullsMore, QuietTrans DEF Quiet
<1> HIDE DEF e
<1>4. Quiet(c, AndBank(e)) /\ AndBank(e).arg \in Address
  BY <1>3, PullsMore, QuietTrans
<1> QED BY <1>1, <1>4, PullsWhole

-----------------------------------------------------------------------------
(* Effective addresses and operands.                                       *)
LEMMA Located ==
  ASSUME NEW c, Sized(c), NEW a \in Int, NEW n \in Int
  PROVE  Quiet(c, At(c, a, n)) /\ At(c, a, n).arg = a
<1> DEFINE d == SetArg(c, a)
<1>1. Quiet(c, d) /\ d.arg = a /\ Sized(d)
  BY Updates DEF Quiet
<1>2. At(c, a, n) = INC_KPC(d, n)
  BY DEF At, SetArg
<1> HIDE DEF d
<1> QED BY <1>1, <1>2, Steps, QuietTrans

LEMMA DirectWord ==
  ASSUME NEW c, Sized(c), NEW a \in Int
  PROVE  GET_MEMORY_DIRECT_PAGE16(c, a) \in Word
<1> DEFINE aligned == c.psr.e = 1 /\ c.direct % 256 = 0
           fold(x) == IF aligned THEN (x % 256) + c.direct ELSE x
           first == fold(a)
           second == fold((first + 1) % 65536)
           cross == c.psr.e = 1 /\ a % 256 = 255
<1>1. ASSUME NEW x \in Int PROVE fold(x) \in Int
  BY SizedNumbers
<1>2. first \in Int
  BY <1>1
<1>3. (first + 1) % 65536 \in Int
  <2> HIDE DEF first
  <2> QED BY <1>2
<1>4. second \in Int
  BY <1>1, <1>3
<1>5. GET_MEMORY_DIRECT_PAGE16(c, a) =
        IF cross THEN GET_MEMORY8(c, first) + 256 * GET_MEMORY8(c, second)
        ELSE GET_MEMORY16(c, first, InBank)
  BY DEF GET_MEMORY_DIRECT_PAGE16
<1> HIDE DEF first, second, cross
<1>6. GET_MEMORY8(c, first) \in Byte /\ GET_MEMORY8(c, second) \in Byte
      /\ GET_MEMORY16(c, first, InBank) \in Word
  BY <1>2, <1>4, ReadByte, ReadWord
<1>7. GET_MEMORY8(c, first) + 256 * GET_MEMORY8(c, second) \in Word
  BY <1>6, Joins
<1> QED BY <1>5, <1>6, <1>7

\* Operand bytes are a part of what is behind the opcode.
LEMMA ArgsAre ==
  ASSUME NEW c, Sized(c)
  PROVE  /\ GET_1BYTE_ARG(c) \in Byte /\ GET_1BYTE_ARG(c) \in Int
         /\ GET_2BYTE_ARG(c) \in Word /\ GET_2BYTE_ARG(c) \in Int
         /\ GET_3BYTE_ARG(c) \in Address /\ GET_3BYTE_ARG(c) \in Int
         /\ Direct(c) \in Int /\ DataBank(c) \in Int
<1>1. c.opnd \in Int /\ c.direct \in Int /\ c.dbank \in Int
  BY SizedNumbers
<1>2. GET_1BYTE_ARG(c) \in Byte /\ GET_2BYTE_ARG(c) \in Word
  BY <1>1, Wraps DEF GET_1BYTE_ARG, GET_2BYTE_ARG
<1>3. GET_3BYTE_ARG(c) \in Address
  BY DEF GET_3BYTE_ARG, Sized
<1>4. GET_1BYTE_ARG(c) \in Int /\ GET_2BYTE_ARG(c) \in Int /\ GET_3BYTE_ARG(c) \in Int
  BY <1>2, <1>3, Numbers
<1>5. Direct(c) \in Int /\ DataBank(c) \in Int
  BY <1>1, <1>4 DEF Direct, DataBank
<1> QED BY <1>2, <1>3, <1>4, <1>5

\* d is c at an operand's address.
Points(c, d) == Quiet(c, d) /\ d.arg \in Int

LEMMA Pointed ==
  ASSUME NEW c, Sized(c), NEW a \in Int, NEW n \in {2, 3, 4}
  PROVE  Points(c, At(c, a, n))
  BY Located DEF Points

LEMMA PlainModes ==
  ASSUME NEW c, Sized(c)
  PROVE  /\ Points(c, GET_DISP8_S_ADDR(c))
         /\ Points(c, GET_DLOC_ADDR(c))
         /\ Points(c, GET_DLOC_L_IND_ADDR(c))
         /\ Points(c, GET_DLOC_IND_ADDR(c))
         /\ Points(c, GET_ABS_ADDR(c))
         /\ Points(c, GET_LONG_ADDR(c))
         /\ Points(c, GET_DLOC_IND_Y_ADDR_FOR_WR(c))
         /\ Points(c, GET_LONG_X_ADDR_FOR_WR(c))
         /\ Points(c, GET_DLOC_L_IND_Y_ADDR(c))
<1>1. c.xreg \in Int /\ c.yreg \in Int /\ c.stack \in Int
  BY SizedNumbers
<1>2. Direct(c) \in Int /\ DataBank(c) \in Int /\ GET_1BYTE_ARG(c) \in Int
      /\ GET_2BYTE_ARG(c) \in Int /\ GET_3BYTE_ARG(c) \in Int
  BY ArgsAre
<1>3. GET_MEMORY24(c, Direct(c), InBank) \in Address
  BY <1>2, ReadLong
<1>4. GET_MEMORY_DIRECT_PAGE16(c, Direct(c)) \in Word
  BY <1>2, DirectWord
<1>5. GET_MEMORY24(c, Direct(c), InBank) \in Int /\ GET_MEMORY_DIRECT_PAGE16(c, Direct(c)) \in Int
  BY <1>3, <1>4, Numbers
<1>6. Points(c, GET_DISP8_S_ADDR(c))
  <2> DEFINE a == (GET_1BYTE_ARG(c) + c.stack) % 65536
  <2>1. a \in Int
    BY <1>1, <1>2, <1>5
  <2>2. GET_DISP8_S_ADDR(c) = At(c, a, 2)
    BY DEF GET_DISP8_S_ADDR
  <2> HIDE DEF a
  <2> QED BY <2>1, <2>2, Pointed
<1>7. Points(c, GET_DLOC_ADDR(c))
  <2> DEFINE a == Direct(c)
  <2>1. a \in Int
    BY <1>1, <1>2, <1>5
  <2>2. GET_DLOC_ADDR(c) = At(c, a, 2)
    BY DEF GET_DLOC_ADDR
  <2> HIDE DEF a
  <2> QED BY <2>1, <2>2, Pointed
<1>8. Points(c, GET_DLOC_L_IND_ADDR(c))
  <2> DEFINE a == GET_MEMORY24(c, Direct(c), InBank)
  <2>1. a \in Int
    BY <1>1, <1>2, <1>5
  <2>2. GET_DLOC_L_IND_ADDR(c) = At(c, a, 2)
    BY DEF GET_DLOC_L_IND_ADDR
  <2> HIDE DEF a
  <2> QED BY <2>1, <2>2, Pointed
<1>9. Points(c, GET_DLOC_IND_ADDR(c))
  <2> DEFINE a == DataBank(c) + GET_MEMORY_DIRECT_PAGE16(c, Direct(c))
  <2>1. a \in Int
    BY <1>1, <1>2, <1>5
  <2>2. GET_DLOC_IND_ADDR(c) = At(c, a, 2)
    BY DEF GET_DLOC_IND_ADDR
  <2> HIDE DEF a
  <2> QED BY <2>1, <2>2, Pointed
<1>10. Points(c, GET_ABS_ADDR(c))
  <2> DEFINE a == GET_2BYTE_ARG(c) + DataBank(c)
  <2>1. a \in Int
    BY <1>1, <1>2, <1>5
  <2>2. GET_ABS_ADDR(c) = At(c, a, 3)
    BY DEF GET_ABS_ADDR
  <2> HIDE DEF a
  <2> QED BY <2>1, <2>2, Pointed
<1>11. Points(c, GET_LONG_ADDR(c))
  <2> DEFINE a == GET_3BYTE_ARG(c)
  <2>1. a \in Int
    BY <1>1, <1>2, <1>5
  <2>2. GET_LONG_ADDR(c) = At(c, a, 4)
    BY DEF GET_LONG_ADDR
  <2> HIDE DEF a
  <2> QED BY <2>1, <2>2, Pointed
<1>12. Points(c, GET_DLOC_IND_Y_ADDR_FOR_WR(c))
  <2> DEFINE a == GET_MEMORY_DIRECT_PAGE16(c, Direct(c)) + DataBank(c) + c.yreg
  <2>1. a \in Int
    BY <1>1, <1>2, <1>5
  <2>2. GET_DLOC_IND_Y_ADDR_FOR_WR(c) = At(c, a, 2)
    BY DEF GET_DLOC_IND_Y_ADDR_FOR_WR
  <2> HIDE DEF a
  <2> QED BY <2>1, <2>2, Pointed
<1>13. Points(c, GET_LONG_X_ADDR_FOR_WR(c))
  <2> DEFINE a == (GET_3BYTE_ARG(c) + c.xreg) % 16777216
  <2>1. a \in Int
    BY <1>1, <1>2, <1>5
  <2>2. GET_LONG_X_ADDR_FOR_WR(c) = At(c, a, 4)
    BY DEF GET_LONG_X_ADDR_FOR_WR
  <2> HIDE DEF a
  <2> QED BY <2>1, <2>2, Pointed
<1>14. Points(c, GET_DLOC_L_IND_Y_ADDR(c))
  <2> DEFINE m == GET_MEMORY24(c, Direct(c), InBank)
             w == m + c.yreg
             a == w % 16777216
  <2>0. w \in Int
    <3>1. m \in Int
      BY <1>5
    <3> HIDE DEF m
    <3> QED BY <1>1, <3>1
  <2>1. a \in Int
    <3> HIDE DEF w
    <3> QED BY <2>0, Wraps, Numbers
  <2>2. GET_DLOC_L_IND_Y_ADDR(c) = At(c, a, 2)
    BY DEF GET_DLOC_L_IND_Y_ADDR
  <2> HIDE DEF a
  <2> QED BY <2>1, <2>2, Pointed
<1> QED BY <1>6, <1>7, <1>8, <1>9, <1>10, <1>11, <1>12, <1>13, <1>14

LEMMA IndexedModes ==
  ASSUME NEW c, Sized(c), NEW r \in Int
  PROVE  /\ Points(c, GET_DLOC_INDEX_WR(c, r))
         /\ Points(c, GET_ABS_INDEX_ADDR_FOR_WR(c, r))
         /\ Points(c, GET_ABS_INDEX_ADDR_FOR_RD(c, r))
<1>1. c.direct \in Int /\ DataBank(c) \in Int /\ GET_1BYTE_ARG(c) \in Int
      /\ GET_2BYTE_ARG(c) \in Int
  BY ArgsAre, SizedNumbers
<1>2. Points(c, GET_DLOC_INDEX_WR(c, r))
  <2> DEFINE a == GET_1BYTE_ARG(c) + r
             folded == IF c.psr.e = 1 /\ c.direct % 256 = 0 THEN a % 256 ELSE a
             at == (folded + c.direct) % 65536
  <2>1. a \in Int
    BY <1>1
  <2>2. folded \in Int
    <3> HIDE DEF a
    <3> QED BY <2>1
  <2>3. at \in Int
    <3> HIDE DEF folded
    <3> QED BY <1>1, <2>2
  <2>4. GET_DLOC_INDEX_WR(c, r) = At(c, at, 2)
    BY DEF GET_DLOC_INDEX_WR
  <2> HIDE DEF at
  <2> QED BY <2>3, <2>4, Pointed
<1>3. Points(c, GET_ABS_INDEX_ADDR_FOR_WR(c, r))
  <2> DEFINE a == (GET_2BYTE_ARG(c) + DataBank(c) + r) % 16777216
  <2>1. a \in Int
    BY <1>1
  <2>2. GET_ABS_INDEX_ADDR_FOR_WR(c, r) = At(c, a, 3)
    BY DEF GET_ABS_INDEX_ADDR_FOR_WR
  <2> HIDE DEF a
  <2> QED BY <2>1, <2>2, Pointed
<1>4. Points(c, GET_ABS_INDEX_ADDR_FOR_RD(c, r))
  <2> DEFINE a == GET_2BYTE_ARG(c) + DataBank(c) + r
  <2>1. a \in Int
    BY <1>1
  <2>2. GET_ABS_INDEX_ADDR_FOR_RD(c, r) = At(c, a, 3)
    BY DEF GET_ABS_INDEX_ADDR_FOR_RD
  <2> HIDE DEF a
  <2> QED BY <2>1, <2>2, Pointed
<1> QED BY <1>2, <1>3, <1>4

LEMMA IndirectModes ==
  ASSUME NEW c, Sized(c)
  PROVE  /\ Points(c, GET_DLOC_X_IND_ADDR(c)) /\ Points(c, GET_DISP8_S_IND_Y_ADDR(c))
         /\ Points(c, At(c, DataBank(c) + ((GET_2BYTE_ARG(c) + c.xreg) % 65536), 3))
<1>1. c.xreg \in Int /\ c.yreg \in Int /\ c.stack \in Int /\ Direct(c) \in Int
      /\ DataBank(c) \in Int /\ GET_1BYTE_ARG(c) \in Int /\ GET_2BYTE_ARG(c) \in Int
  BY ArgsAre, SizedNumbers
<1>2. Points(c, GET_DLOC_X_IND_ADDR(c))
  <2> DEFINE p == (Direct(c) + c.xreg) % 65536
             w == GET_MEMORY_DIRECT_PAGE16(c, p)
             a == DataBank(c) + w
  <2>1. p \in Int
    BY <1>1
  <2>2. w \in Int
    <3> HIDE DEF p
    <3> QED BY <2>1, DirectWord, Numbers
  <2>3. a \in Int
    <3> HIDE DEF w
    <3> QED BY <1>1, <2>2
  <2>4. GET_DLOC_X_IND_ADDR(c) = At(c, a, 2)
    BY DEF GET_DLOC_X_IND_ADDR
  <2> HIDE DEF a
  <2> QED BY <2>3, <2>4, Pointed
<1>3. Points(c, GET_DISP8_S_IND_Y_ADDR(c))
  <2> DEFINE p == (c.stack + GET_1BYTE_ARG(c)) % 65536
             w == GET_MEMORY16(c, p, InBank)
             a == (w + DataBank(c) + c.yreg) % 16777216
  <2>1. p \in Int
    BY <1>1
  <2>2. w \in Int
    <3> HIDE DEF p
    <3> QED BY <2>1, ReadWord, Numbers
  <2>3. a \in Int
    <3> HIDE DEF w
    <3> QED BY <1>1, <2>2
  <2>4. GET_DISP8_S_IND_Y_ADDR(c) = At(c, a, 2)
    BY DEF GET_DISP8_S_IND_Y_ADDR
  <2> HIDE DEF a
  <2> QED BY <2>3, <2>4, Pointed
<1>4. Points(c, At(c, DataBank(c) + ((GET_2BYTE_ARG(c) + c.xreg) % 65536), 3))
  <2> DEFINE a == DataBank(c) + ((GET_2BYTE_ARG(c) + c.xreg) % 65536)
  <2>1. a \in Int
    BY <1>1
  <2> HIDE DEF a
  <2>2. Points(c, At(c, a, 3))
    BY <2>1, Pointed
  <2> QED BY <2>2 DEF a
<1> QED BY <1>2, <1>3, <1>4

\* What is loaded from there has the accumulator's width.
Holds(c, d) == Quiet(c, d) /\ Ranged(d)

SetLoad(c, v) == [c EXCEPT !.addr_latch = c.arg, !.arg = v]
LEMMA Loads ==
  ASSUME NEW c, NEW d, Points(c, d)
  PROVE  Holds(c, Load(d, Linear)) /\ Holds(c, Load(d, InBank))
<1> SUFFICES ASSUME NEW b PROVE Holds(c, Load(d, b))
  OBVIOUS
<1> DEFINE v == IF d.acc8 = 1 THEN GET_MEMORY8(d, d.arg) ELSE GET_MEMORY16(d, d.arg, b)
<1>1. Sized(d) /\ d.arg \in Int /\ Quiet(c, d)
  BY DEF Points, Quiet
<1>2. GET_MEMORY8(d, d.arg) \in Byte /\ GET_MEMORY16(d, d.arg, b) \in Word
  BY <1>1, ReadByte, ReadWord
<1>3. v \in Int /\ IF d.acc8 = 1 THEN v \in Byte ELSE v \in Word
  BY <1>2, Numbers
<1>4. Load(d, b) = SetLoad(d, v)
  BY DEF Load, SetLoad
<1> HIDE DEF v
<1>5. Quiet(d, SetLoad(d, v)) /\ SetLoad(d, v).arg = v /\ SetLoad(d, v).acc8 = d.acc8
  BY <1>1, <1>3 DEF Sized, Quiet, Fields, SetLoad
<1> QED BY <1>1, <1>3, <1>4, <1>5, QuietTrans DEF Holds, Ranged

LEMMA Operands ==
  ASSUME NEW c, Sized(c)
  PROVE  /\ Holds(c, GET_DISP8_S_RD(c))
         /\ Holds(c, GET_DLOC_RD(c))
         /\ Holds(c, GET_DLOC_L_IND_RD(c))
         /\ Holds(c, GET_ABS_RD(c))
         /\ Holds(c, GET_LONG_RD(c))
         /\ Holds(c, GET_DLOC_IND_Y_RD(c))
         /\ Holds(c, GET_DLOC_IND_RD(c))
         /\ Holds(c, GET_DLOC_L_IND_Y_RD(c))
         /\ Holds(c, GET_LONG_X_RD(c))
         /\ Holds(c, GET_DLOC_X_RD(c))
         /\ Holds(c, GET_ABS_Y_RD(c))
         /\ Holds(c, GET_ABS_X_RD(c))
         /\ Holds(c, GET_DLOC_X_IND_RD(c))
         /\ Holds(c, GET_DISP8_S_IND_Y_RD(c))
         /\ Holds(c, GET_ABS_X_RD_WR(c))
         /\ Holds(c, GET_IMM_MEM(c))
<1>1. c.xreg \in Int /\ c.yreg \in Int
  BY SizedNumbers
<1>2. Holds(c, GET_DISP8_S_RD(c))
  <2>1. Points(c, GET_DISP8_S_ADDR(c))
    BY PlainModes
  <2> QED BY <2>1, Loads DEF GET_DISP8_S_RD
<1>3. Holds(c, GET_DLOC_RD(c))
  <2>1. Points(c, GET_DLOC_ADDR(c))
    BY PlainModes
  <2> QED BY <2>1, Loads DEF GET_DLOC_RD
<1>4. Holds(c, GET_DLOC_L_IND_RD(c))
  <2>1. Points(c, GET_DLOC_L_IND_ADDR(c))
    BY PlainModes
  <2> QED BY <2>1, Loads DEF GET_DLOC_L_IND_RD
<1>5. Holds(c, GET_ABS_RD(c))
  <2>1. Points(c, GET_ABS_ADDR(c))
    BY PlainModes
  <2> QED BY <2>1, Loads DEF GET_ABS_RD
<1>6. Holds(c, GET_LONG_RD(c))
  <2>1. Points(c, GET_LONG_ADDR(c))
    BY PlainModes
  <2> QED BY <2>1, Loads DEF GET_LONG_RD
<1>7. Holds(c, GET_DLOC_IND_Y_RD(c))
  <2>1. Points(c, GET_DLOC_IND_Y_ADDR_FOR_WR(c))
    BY PlainModes
  <2> QED BY <2>1, Loads DEF GET_DLOC_IND_Y_RD
<1>8. Holds(c, GET_DLOC_IND_RD(c))
  <2>1. Points(c, GET_DLOC_IND_ADDR(c))
    BY PlainModes
  <2> QED BY <2>1, Loads DEF GET_DLOC_IND_RD
<1>9. Holds(c, GET_DLOC_L_IND_Y_RD(c))
  <2>1. Points(c, GET_DLOC_L_IND_Y_ADDR(c))
    BY PlainModes
  <2> QED BY <2>1, Loads DEF GET_DLOC_L_IND_Y_RD
<1>10. Holds(c, GET_LONG_X_RD(c))
  <2>1. Points(c, GET_LONG_X_ADDR_FOR_WR(c))
    BY PlainModes
  <2> QED BY <2>1, Loads DEF GET_LONG_X_RD
<1>11. Holds(c, GET_DLOC_X_RD(c))
  <2>1. Points(c, GET_DLOC_INDEX_WR(c, c.xreg))
    BY <1>1, IndexedModes
  <2> QED BY <2>1, Loads DEF GET_DLOC_X_RD
<1>12. Holds(c, GET_ABS_Y_RD(c))
  <2>1. Points(c, GET_ABS_INDEX_ADDR_FOR_RD(c, c.yreg))
    BY <1>1, IndexedModes
  <2> QED BY <2>1, Loads DEF GET_ABS_Y_RD
<1>13. Holds(c, GET_ABS_X_RD(c))
  <2>1. Points(c, GET_ABS_INDEX_ADDR_FOR_RD(c, c.xreg))
    BY <1>1, IndexedModes
  <2> QED BY <2>1, Loads DEF GET_ABS_X_RD
<1>14. Holds(c, GET_DLOC_X_IND_RD(c))
  <2>1. Points(c, GET_DLOC_X_IND_ADDR(c))
    BY IndirectModes
  <2> QED BY <2>1, Loads DEF GET_DLOC_X_IND_RD
<1>15. Holds(c, GET_DISP8_S_IND_Y_RD(c))
  <2>1. Points(c, GET_DISP8_S_IND_Y_ADDR(c))
    BY IndirectModes
  <2> QED BY <2>1, Loads DEF GET_DISP8_S_IND_Y_RD
<1>16. Holds(c, GET_ABS_X_RD_WR(c))
  <2> DEFINE d == At(c, DataBank(c) + ((GET_2BYTE_ARG(c) + c.xreg) % 65536), 3)
  <2>1. Points(c, d)
    BY IndirectModes
  <2>2. GET_ABS_X_RD_WR(c) = Load(d, Linear)
    BY DEF GET_ABS_X_RD_WR
  <2> HIDE DEF d
  <2> QED BY <2>1, <2>2, Loads
<1>17. Holds(c, GET_IMM_MEM(c))
  <2>1. Holds(c, At(c, GET_1BYTE_ARG(c), 2)) \/ c.acc8 # 1
    <3>1. Quiet(c, At(c, GET_1BYTE_ARG(c), 2)) /\ At(c, GET_1BYTE_ARG(c), 2).arg \in Byte
      BY ArgsAre, Located
    <3> QED BY <3>1 DEF Holds, Ranged, Quiet
  <2>2. Holds(c, At(c, GET_2BYTE_ARG(c), 3)) \/ c.acc8 = 1
    <3>1. Quiet(c, At(c, GET_2BYTE_ARG(c), 3)) /\ At(c, GET_2BYTE_ARG(c), 3).arg \in Word
      BY ArgsAre, Located
    <3> QED BY <3>1 DEF Holds, Ranged, Quiet
  <2> QED BY <2>1, <2>2 DEF GET_IMM_MEM
<1> QED BY <1>2, <1>3, <1>4, <1>5, <1>6, <1>7, <1>8, <1>9, <1>10, <1>11, <1>12, <1>13, <1>14, <1>15, <1>16, <1>17

-----------------------------------------------------------------------------
(* Flags and results.                                                      *)

\* q is psr p with other result flags.
SameModes(p, q) ==
  /\ q \in Flags
  /\ q.e = p.e /\ q.m = p.m /\ q.x = p.x /\ q.i = p.i

\* v fits in size bits.
Fills(v, size) == IF size = 8 THEN v \in Byte ELSE v \in Word

LEMMA Powers ==
  /\ 2^0 = 1 /\ 2^1 = 2 /\ 2^2 = 4 /\ 2^3 = 8 /\ 2^4 = 16 /\ 2^5 = 32 /\ 2^6 = 64
  /\ 2^7 = 128 /\ 2^8 = 256 /\ 2^14 = 16384 /\ 2^15 = 32768 /\ 2^16 = 65536
  BY SMT

LEMMA BitsAre ==
  ASSUME NEW v \in Int, NEW k \in {0, 1, 2, 3, 4, 5, 6, 7, 8, 14, 15}
  PROVE  BitOf(v, k) \in Bit
<1>1. 2^k \in Nat \ {0}
  <2>0. CASE k = 0
    BY <2>0, Powers, SMT
  <2>1. CASE k = 1
    BY <2>1, Powers, SMT
  <2>2. CASE k = 2
    BY <2>2, Powers, SMT
  <2>3. CASE k = 3
    BY <2>3, Powers, SMT
  <2>4. CASE k = 4
    BY <2>4, Powers, SMT
  <2>5. CASE k = 5
    BY <2>5, Powers, SMT
  <2>6. CASE k = 6
    BY <2>6, Powers, SMT
  <2>7. CASE k = 7
    BY <2>7, Powers, SMT
  <2>8. CASE k = 8
    BY <2>8, Powers, SMT
  <2>14. CASE k = 14
    BY <2>14, Powers, SMT
  <2>15. CASE k = 15
    BY <2>15, Powers, SMT
  <2> QED BY <2>0, <2>1, <2>2, <2>3, <2>4, <2>5, <2>6, <2>7, <2>8, <2>14, <2>15
<1> DEFINE w == v \div 2^k
<1>2. w \in Int
  BY <1>1, SMT
<1> HIDE DEF w
<1>3. w % 2 \in Bit
  BY <1>2, Wraps
<1> QED BY <1>3 DEF BitOf, w

LEMMA CutToSize ==
  ASSUME NEW v \in Int, NEW size \in {8, 16}
  PROVE  Fills(v % 2^size, size) /\ v % 2^size \in Int
<1>1. CASE size = 8
  BY <1>1, Powers, Wraps, Numbers DEF Fills
<1>2. CASE size = 16
  BY <1>2, Powers, Wraps, Numbers DEF Fills
<1> QED BY <1>1, <1>2

LEMMA TopBit ==
  ASSUME NEW size \in {8, 16}, NEW v, Fills(v, size)
  PROVE  v \div 2^(size - 1) \in Bit /\ v \in Int
<1>1. CASE size = 8
  <2>1. 2^(size - 1) = 128 /\ v \in Byte
    BY <1>1, Powers DEF Fills
  <2> QED BY <2>1, ByteIs, BitIs, SMT
<1>2. CASE size = 16
  <2>1. 2^(size - 1) = 32768 /\ v \in Word
    BY <1>2, Powers DEF Fills
  <2> QED BY <2>1, WordIs, BitIs, SMT
<1> QED BY <1>1, <1>2

LEMMA NegZero ==
  ASSUME NEW c, Sized(c), NEW size \in {8, 16}, NEW v, Fills(v, size)
  PROVE  Quiet(c, SET_NEG_ZERO(c, v, size))
<1> DEFINE n == v \div 2^(size - 1)
           z == IF v = 0 THEN 0 ELSE 1
<1>0. n \in Bit
  BY TopBit
<1>1. n \in Bit /\ z \in Bit
  <2> HIDE DEF n
  <2> QED BY <1>0, BitIs
<1>2. SET_NEG_ZERO(c, v, size) = SetBoth(c, n, z)
  BY DEF SET_NEG_ZERO, SetBoth
<1> HIDE DEF n, z
<1> QED BY <1>1, <1>2, Updates

LEMMA SizesAre ==
  ASSUME NEW c
  PROVE  /\ AccSize(c) \in {8, 16} /\ IndexSize(c) \in {8, 16}
         /\ AccSize(c) = 8 <=> c.acc8 = 1
         /\ IndexSize(c) = 8 <=> c.psr.x = 1
  BY DEF AccSize, IndexSize

LEMMA AccIs ==
  ASSUME NEW c, Sized(c)
  PROVE  Fills(Acc(c), AccSize(c)) /\ Acc(c) \in Int
  BY SizesAre, SizedNumbers, CutToSize DEF Acc

LEMMA IntoAcc ==
  ASSUME NEW c, Sized(c), NEW v \in Int
  PROVE  Quiet(c, SetAcc(c, v))
<1> DEFINE size == AccSize(c)
           w == v % 2^size
           a == (c.acc - Acc(c)) + w
           d == SetReg(c, a)
<1>1. size \in {8, 16}
  BY SizesAre
<1>2. Fills(w, size) /\ w \in Int
  BY <1>1, CutToSize
<1>3. a \in Word
  <2>1. CASE size = 8
    <3>1. Acc(c) = c.acc % 256
      BY <2>1, Powers DEF Acc
    <3>2. c.acc \in Word /\ w \in Byte
      BY <1>2, <2>1 DEF Sized, Fills
    <3> HIDE DEF w
    <3> QED BY <3>1, <3>2, WordIs, ByteIs, SMT
  <2>2. CASE size = 16
    <3>1. Acc(c) = c.acc % 65536
      BY <2>2, Powers DEF Acc
    <3>2. c.acc \in Word /\ w \in Word
      BY <1>2, <2>2 DEF Sized, Fills
    <3> HIDE DEF w
    <3> QED BY <3>1, <3>2, WordIs, SMT
  <2> QED BY <1>1, <2>1, <2>2
<1>4. SetAcc(c, v) = SET_NEG_ZERO(d, w, size)
  BY DEF SetAcc, WithAcc, SetReg
<1> HIDE DEF size, w, a
<1>5. Quiet(c, d) /\ Sized(d)
  BY <1>3, Updates DEF Quiet
<1> HIDE DEF d
<1> QED BY <1>1, <1>2, <1>4, <1>5, NegZero, QuietTrans

SetFlags(c, p) == [c EXCEPT !.psr = p]
LEMMA Flagged ==
  ASSUME NEW c, Good(c), NEW p, SameModes(c.psr, p)
  PROVE  Calm(c, SetFlags(c, p))
  BY DEF Good, Sized, Shaped, Calm, Fields, SameModes, SetFlags

LEMMA FlagsAre ==
  ASSUME NEW p \in Flags, NEW v \in Bit
  PROVE  /\ SameModes(p, [p EXCEPT !.c = v]) /\ SameModes(p, [p EXCEPT !.v = v])
         /\ SameModes(p, [p EXCEPT !.d = v])
  BY DEF Flags, SameModes

LEMMA Carries ==
  ASSUME NEW c, Good(c), NEW v \in Int
  PROVE  Calm(c, SET_CARRY(c, v))
<1> DEFINE p == [c.psr EXCEPT !.c = v % 2]
<1>0. v % 2 \in Bit /\ c.psr \in Flags
  <2>1. v % 2 \in Bit
    BY Wraps
  <2> QED BY <2>1 DEF Good, Sized
<1>1. SameModes(c.psr, p)
  BY <1>0, FlagsAre
<1>2. SET_CARRY(c, v) = SetFlags(c, p)
  BY DEF SET_CARRY, SetFlags
<1> HIDE DEF p
<1> QED BY <1>1, <1>2, Flagged

LEMMA FlagsBack ==
  ASSUME NEW c, Good(c), NEW p, SameModes(c.psr, p)
  PROVE  Calm(c, WithPsr(c, p))
<1>1. p.z \in Bit /\ p.n \in Bit
  BY DEF SameModes, Flags
<1>2. 1 - p.z \in Bit
  BY <1>1, BitIs
<1> DEFINE d == SetFlags(c, p)
           e == SetBoth(d, p.n, 1 - p.z)
<1>3. Calm(c, d)
  BY Flagged
<1>4. WithPsr(c, p) = e
  BY DEF WithPsr, SetFlags, SetBoth
<1> HIDE DEF d
<1>5. Quiet(d, e)
  BY <1>1, <1>2, <1>3, Updates DEF Calm, Good
<1> QED BY <1>3, <1>4, <1>5, QuietIsCalm, CalmTrans DEF Calm

-----------------------------------------------------------------------------
(* The adder.                                                              *)
LEMMA AndIs ==
  ASSUME NEW a \in Int, NEW b \in Int
  PROVE  BitAnd(a, b) \in Int /\ BitOr(a, b) \in Int /\ BitXor(a, b) \in Int
<1>1. ASSUME NEW p \in (0 .. 15) \X (0 .. 15), NEW k \in {1, 2, 4, 8}
      PROVE  InBoth(p, k) \in Int
  <2>1. (p[1] \div k) % 2 \in Bit /\ (p[2] \div k) % 2 \in Bit
    BY BitIs, SMT
  <2>2. \A u, v \in Bit : u * v \in Int
    BY BitIs, SMT
  <2> QED BY <2>1, <2>2 DEF InBoth
<1>2. \A p \in (0 .. 15) \X (0 .. 15) : And4[p] \in Int
  BY <1>1 DEF And4
<1>3. ASSUME NEW u \in Int, NEW v \in Int
      PROVE  And4[<<u % 16, v % 16>>] \in Int
  <2>1. u % 16 \in 0 .. 15 /\ v % 16 \in 0 .. 15
    BY SMT
  <2>2. <<u % 16, v % 16>> \in (0 .. 15) \X (0 .. 15)
    BY <2>1
  <2> QED BY <1>2, <2>2
<1>4. \A k \in {16, 256, 4096} : a \div k \in Int /\ b \div k \in Int
  OBVIOUS
<1>5. And4[<<(a \div 16) % 16, (b \div 16) % 16>>] \in Int
      /\ And4[<<(a \div 256) % 16, (b \div 256) % 16>>] \in Int
      /\ And4[<<(a \div 4096) % 16, (b \div 4096) % 16>>] \in Int
      /\ And4[<<a % 16, b % 16>>] \in Int
  BY <1>3, <1>4
<1>6. BitAnd(a, b) \in Int
  BY <1>5 DEF BitAnd
<1> QED BY <1>6 DEF BitOr, BitXor

\* A result: its flags are psr's but for N, V, Z and C.
Totals(p, r) == SameModes(p, r.psr) /\ r.val \in Int

LEMMA ResultIs ==
  ASSUME NEW p \in Flags, NEW a, NEW b, NEW sum \in Int, NEW v \in Bit, NEW size \in {8, 16}
  PROVE  Totals(p, Result(p, a, b, sum, v, size))
<1> DEFINE same == BitOf(a, size - 1) = BitOf(b, size - 1)
           nn == BitOf(sum, size - 1)
           vv == IF same THEN v ELSE 0
           zz == Flag(sum % 2^size = 0)
           cc == Flag(sum >= 2^size)
<1>1. nn \in Bit
  <2>1. size - 1 \in {7, 15}
    BY SMT
  <2> QED BY <2>1, BitsAre
<1>2. vv \in Bit /\ zz \in Bit /\ cc \in Bit
  BY BitIs DEF Flag
<1>3. sum % 2^size \in Int
  BY CutToSize
<1>4. Result(p, a, b, sum, v, size)
        = [psr |-> [p EXCEPT !.n = nn, !.v = vv, !.z = zz, !.c = cc], val |-> sum % 2^size]
  BY DEF Result, SumFlags
<1> HIDE DEF same, nn, vv, zz, cc
<1>5. SameModes(p, [p EXCEPT !.n = nn, !.v = vv, !.z = zz, !.c = cc])
  BY <1>1, <1>2 DEF SameModes, Flags
<1> QED BY <1>3, <1>4, <1>5 DEF Totals

LEMMA AddendIs ==
  ASSUME NEW v \in Int, NEW sub \in BOOLEAN, NEW size \in {8, 16}
  PROVE  Addend(v, sub, size) \in Int
  BY Powers DEF Addend

LEMMA BinaryIs ==
  ASSUME NEW p \in Flags, NEW a, NEW b, NEW sum \in Int, NEW size \in {8, 16}
  PROVE  Totals(p, Binary(p, a, b, sum, size))
<1>1. Flag(BitOf(sum, size - 1) # BitOf(b, size - 1)) \in Bit
  BY BitIs DEF Flag
<1> QED BY <1>1, ResultIs DEF Binary

\* Eight bits, in decimal and in binary.
LEMMA AddsBytes ==
  ASSUME NEW p \in Flags, NEW a \in Int, NEW v \in Int, NEW sub \in BOOLEAN
  PROVE  Totals(p, do_adc_sbc8(a, v, p, sub))
<1> DEFINE b == Addend(v, sub, 8)
           digit == (a % 16) + (b % 16) + p.c
           both == HighDigits(a, b) + DigitFixed(digit, sub)
<1>1. b \in Int /\ p.c \in Int
  BY AddendIs, Numbers DEF Flags
<1>2. do_adc_sbc8(a, v, p, sub)
        = IF p.d = 0 THEN Binary(p, a, b, a + b + p.c, 8) ELSE Decimal8(p, a, b, both, sub)
  BY DEF do_adc_sbc8, Add8
<1> HIDE DEF b
<1>3. digit \in Int
  BY <1>1
<1>4. HighDigits(a, b) \in Int
  BY <1>1 DEF HighDigits
<1> HIDE DEF digit
<1>5. DigitFixed(digit, sub) \in Int
  <2>1. (digit - 6) % 16 \in Int /\ digit - 10 \in Int
    BY <1>3
  <2>2. BitOr(digit - 10, 16) \in Int
    BY <2>1, AndIs
  <2> QED BY <1>3, <2>1, <2>2 DEF DigitFixed
<1>6. both \in Int
  BY <1>4, <1>5
<1> HIDE DEF both
<1>7. BothFixed(both, sub) \in Int
  BY <1>6 DEF BothFixed
<1>8. Flag(BitOf(both, 8) # BitOf(both, 7)) \in Bit
  BY BitIs DEF Flag
<1>9. Totals(p, Decimal8(p, a, b, both, sub))
  BY <1>7, <1>8, ResultIs DEF Decimal8
<1>10. a + b + p.c \in Int
  BY <1>1
<1>11. Totals(p, Binary(p, a, b, a + b + p.c, 8))
  BY <1>10, BinaryIs
<1> QED BY <1>2, <1>9, <1>11

\* Sixteen bits.
LEMMA AddsWords ==
  ASSUME NEW p \in Flags, NEW a \in Int, NEW v \in Int, NEW sub \in BOOLEAN
  PROVE  Totals(p, do_adc_sbc16(a, v, p, sub))
<1> DEFINE b == Addend(v, sub, 16)
           low == do_adc_sbc8(a % 256, v % 256, p, sub)
           high == do_adc_sbc8(a \div 256, v \div 256, low.psr, sub)
           sum == high.val * 256 + low.val + 65536 * high.psr.c
<1>1. b \in Int /\ p.c \in Int
  BY AddendIs, Numbers DEF Flags
<1>2. a + b + p.c \in Int
  BY <1>1
<1>3. a % 256 \in Int /\ v % 256 \in Int /\ a \div 256 \in Int /\ v \div 256 \in Int
  OBVIOUS
<1>4. do_adc_sbc16(a, v, p, sub)
        = IF p.d = 0 THEN Binary(p, a, b, a + b + p.c, 16)
          ELSE Result(p, a, b, sum, high.psr.v, 16)
  BY DEF do_adc_sbc16, Decimal16, Joined
<1>5. Totals(p, low)
  BY <1>3, AddsBytes
<1> HIDE DEF low
<1>6. low.psr \in Flags /\ low.val \in Int
  BY <1>5 DEF Totals, SameModes
<1>7. Totals(low.psr, high)
  BY <1>3, <1>6, AddsBytes
<1> HIDE DEF high
<1>8. high.psr.v \in Bit /\ high.psr.c \in Int /\ high.val \in Int
  BY <1>7, Numbers DEF Totals, SameModes, Flags
<1>9. sum \in Int
  BY <1>6, <1>8
<1> HIDE DEF b, sum
<1>10. Totals(p, Binary(p, a, b, a + b + p.c, 16))
  BY <1>2, BinaryIs
<1>11. Totals(p, Result(p, a, b, sum, high.psr.v, 16))
  BY <1>8, <1>9, ResultIs
<1> QED BY <1>4, <1>10, <1>11

LEMMA SumCalm ==
  ASSUME NEW c, Good(c), NEW r, Totals(c.psr, r)
  PROVE  Calm(c, Summed(c, r))
<1> DEFINE d == SetAcc(c, r.val)
<1>1. Quiet(c, d)
  BY IntoAcc DEF Good, Totals
<1>2. Calm(c, d) /\ d.psr = c.psr
  BY <1>1, QuietIsCalm DEF Quiet
<1> HIDE DEF d
<1>3. Calm(d, WithPsr(d, r.psr))
  BY <1>2, FlagsBack DEF Totals, Calm
<1> QED BY <1>2, <1>3, CalmTrans DEF Summed, d

LEMMA AdderCalm ==
  ASSUME NEW c, Good(c), NEW sub \in BOOLEAN
  PROVE  Calm(c, Adder(c, sub))
<1>1. c.psr \in Flags /\ c.arg \in Int /\ Acc(c) \in Int
  BY AccIs, SizedNumbers DEF Good, Sized
<1>2. Totals(c.psr, do_adc_sbc8(Acc(c), c.arg, c.psr, sub))
      /\ Totals(c.psr, do_adc_sbc16(Acc(c), c.arg, c.psr, sub))
  BY <1>1, AddsBytes, AddsWords
<1>3. Calm(c, Summed(c, do_adc_sbc8(Acc(c), c.arg, c.psr, sub)))
      /\ Calm(c, Summed(c, do_adc_sbc16(Acc(c), c.arg, c.psr, sub)))
  BY <1>2, SumCalm
<1> QED BY <1>3 DEF Adder

-----------------------------------------------------------------------------
(* Instructions on an operand, which has the accumulator's width.          *)
LEMMA QuietGood ==
  ASSUME NEW c, NEW d, Good(c), Quiet(c, d)
  PROVE  Good(d) /\ Sized(d)
  BY QuietIsCalm DEF Calm, Good

LEMMA CalmGood ==
  ASSUME NEW c, NEW d, Good(c), Calm(c, d)
  PROVE  Good(d) /\ Sized(d) /\ AccSize(d) = AccSize(c)
  BY DEF Calm, Good, AccSize

LEMMA AccInst ==
  ASSUME NEW c, Good(c)
  PROVE  /\ Calm(c, ORA_INST(c)) /\ Calm(c, AND_INST(c)) /\ Calm(c, EOR_INST(c))
         /\ Calm(c, LDA_INST(c)) /\ Calm(c, ADC_INST(c)) /\ Calm(c, SBC_INST(c))
<1>1. Sized(c) /\ c.arg \in Int /\ Acc(c) \in Int
  BY AccIs, SizedNumbers DEF Good
<1>2. BitOr(Acc(c), c.arg) \in Int /\ BitAnd(Acc(c), c.arg) \in Int
      /\ BitXor(Acc(c), c.arg) \in Int
  BY <1>1, AndIs
<1>3. \A v \in Int : Calm(c, SetAcc(c, v))
  BY <1>1, IntoAcc, QuietIsCalm
<1>4. Calm(c, ADC_INST(c)) /\ Calm(c, SBC_INST(c))
  BY AdderCalm DEF ADC_INST, SBC_INST
<1> QED BY <1>1, <1>2, <1>3, <1>4 DEF ORA_INST, AND_INST, EOR_INST, LDA_INST

LEMMA Compares ==
  ASSUME NEW c, Good(c), NEW r \in Int, NEW size \in {8, 16}
  PROVE  Calm(c, Compare(c, r, size))
<1> DEFINE diff == r + (2^size - c.arg)
           top == diff \div 2^size
           rest == diff % 2^size
           d == SET_CARRY(c, top)
<1>1. 2^size \in Nat \ {0}
  <2>1. CASE size = 8
    BY <2>1, Powers
  <2>2. CASE size = 16
    BY <2>2, Powers
  <2> QED BY <2>1, <2>2
<1>2. c.arg \in Int
  BY SizedNumbers DEF Good
<1>3. diff \in Int
  BY <1>1, <1>2
<1>4. Compare(c, r, size) = SET_NEG_ZERO(d, rest, size)
  BY DEF Compare, Difference
<1> HIDE DEF diff
<1>5. top \in Int
  BY <1>1, <1>3
<1>6. Fills(rest, size)
  BY <1>3, CutToSize
<1> HIDE DEF top, rest
<1>7. Calm(c, d)
  BY <1>5, Carries
<1> HIDE DEF d
<1>8. Quiet(d, SET_NEG_ZERO(d, rest, size)) /\ Good(d)
  BY <1>6, <1>7, NegZero DEF Calm, Good
<1> QED BY <1>4, <1>7, <1>8, QuietIsCalm, CalmTrans

LEMMA TestInst ==
  ASSUME NEW c, Good(c)
  PROVE  Calm(c, CMP_INST(c)) /\ Calm(c, BIT_INST(c)) /\ Calm(c, BitImm(c))
<1>1. Sized(c) /\ c.arg \in Int /\ Acc(c) \in Int /\ c.psr \in Flags
  BY AccIs, SizedNumbers DEF Good, Sized
<1>2. AccSize(c) \in {8, 16}
  BY SizesAre
<1>3. Calm(c, CMP_INST(c))
  BY <1>1, <1>2, Compares DEF CMP_INST
<1> DEFINE z == IF BitAnd(Acc(c), c.arg) = 0 THEN 0 ELSE 1
           n == BitOf(c.arg, AccSize(c) - 1)
           v == BitOf(c.arg, AccSize(c) - 2)
<1>4. z \in Bit
  BY BitIs
<1>5. n \in Bit /\ v \in Bit
  <2>1. AccSize(c) - 1 \in {7, 15} /\ AccSize(c) - 2 \in {6, 14}
    BY <1>2
  <2> QED BY <1>1, <2>1, BitsAre
<1>6. BitImm(c) = SetZero(c, z)
  BY DEF BitImm, SetZero
<1>7. BIT_INST(c) = SetFlags(SetBoth(c, n, z), [c.psr EXCEPT !.v = v])
  <2>1. BIT_INST(c) = [c EXCEPT !.neg = n, !.zero = z, !.psr.v = v]
    BY DEF BIT_INST
  <2>2. DOMAIN c = Fields
    BY <1>1 DEF Sized
  <2> HIDE DEF n, z, v
  <2> QED BY <2>1, <2>2 DEF SetFlags, SetBoth, Fields
<1> HIDE DEF n, z, v
<1>8. Quiet(c, SetZero(c, z)) /\ Quiet(c, SetBoth(c, n, z))
  BY <1>1, <1>4, <1>5, Updates
<1>9. Calm(c, SetBoth(c, n, z)) /\ SetBoth(c, n, z).psr = c.psr
  BY <1>8, QuietIsCalm DEF Quiet
<1>10. SameModes(c.psr, [c.psr EXCEPT !.v = v])
  BY <1>1, <1>5, FlagsAre
<1>11. Calm(SetBoth(c, n, z), SetFlags(SetBoth(c, n, z), [c.psr EXCEPT !.v = v]))
  BY <1>9, <1>10, Flagged DEF Calm
<1> QED BY <1>3, <1>6, <1>7, <1>8, <1>9, <1>11, QuietIsCalm, CalmTrans

LEMMA Stores ==
  ASSUME NEW c, Sized(c), NEW b
  PROVE  /\ \A a, v \in Int : Quiet(c, Store(c, a, v, b))
         /\ \A v \in Int : Quiet(c, IndexStore(c, v, b))
<1>1. \A a, v \in Int : Quiet(c, Store(c, a, v, b))
  BY WriteByte, WriteWord DEF Store
<1>2. c.arg \in Int
  BY SizedNumbers
<1> QED BY <1>1, <1>2, WriteByte, WriteWord DEF IndexStore

LEMMA StoreInst ==
  ASSUME NEW c, Sized(c), NEW b
  PROVE  /\ Quiet(c, STA_INST(c, b)) /\ Quiet(c, STZ_INST(c, b))
         /\ Quiet(c, STX_INST(c, b)) /\ Quiet(c, STY_INST(c, b))
<1>1. c.arg \in Int /\ c.acc \in Int /\ c.xreg \in Int /\ c.yreg \in Int
  BY SizedNumbers
<1>2. 0 \in Int
  OBVIOUS
<1> QED BY <1>1, <1>2, Stores DEF STA_INST, STZ_INST, STX_INST, STY_INST

\* A value of the accumulator's width goes back to where it came from.
LEMMA Modifies ==
  ASSUME NEW c, Good(c), NEW v, Fills(v, AccSize(c)), NEW b
  PROVE  Calm(c, Modify(c, v, b))
<1> DEFINE d == Store(c, c.addr_latch, v, b)
<1>1. Sized(c) /\ c.addr_latch \in Int /\ AccSize(c) \in {8, 16}
  BY SizedNumbers, SizesAre DEF Good
<1>2. v \in Int
  BY <1>1, TopBit
<1>3. Quiet(c, d)
  BY <1>1, <1>2, Stores
<1>4. Modify(c, v, b) = SET_NEG_ZERO(d, v, AccSize(c))
  BY DEF Modify
<1> HIDE DEF d
<1>5. Sized(d)
  BY <1>3 DEF Quiet
<1>6. Quiet(d, SET_NEG_ZERO(d, v, AccSize(c)))
  BY <1>1, <1>5, NegZero
<1> QED BY <1>3, <1>4, <1>6, QuietTrans, QuietIsCalm

LEMMA ShiftsFill ==
  ASSUME NEW c, NEW v, Fills(v, AccSize(c)), NEW in \in Bit
  PROVE  /\ Fills(ShiftLeft(c, v, in), AccSize(c)) /\ Fills(ShiftRight(c, v, in), AccSize(c))
         /\ HighBit(c, v) \in Int /\ v \in Int
<1> DEFINE size == AccSize(c)
<1>1. size \in {8, 16} /\ in \in Int
  BY SizesAre, Numbers
<1>2. v \in Int
  BY <1>1, TopBit
<1>3. 2 * v + in \in Int
  BY <1>1, <1>2
<1>4. Fills(ShiftLeft(c, v, in), size)
  BY <1>1, <1>3, CutToSize DEF ShiftLeft
<1>5. HighBit(c, v) \in Int
  <2>1. size - 1 \in {7, 15}
    BY <1>1
  <2> QED BY <1>2, <2>1, BitsAre, Numbers DEF HighBit
<1>6. Fills(ShiftRight(c, v, in), size)
  <2>1. CASE size = 8
    <3>1. v \in Byte /\ 2^(size - 1) = 128
      BY <2>1, Powers DEF Fills
    <3>2. (v \div 2) + in * 128 \in Byte
      BY <3>1, ByteIs, BitIs, SMT
    <3> QED BY <2>1, <3>1, <3>2 DEF ShiftRight, Fills
  <2>2. CASE size = 16
    <3>1. v \in Word /\ 2^(size - 1) = 32768
      BY <2>2, Powers DEF Fills
    <3>2. (v \div 2) + in * 32768 \in Word
      BY <3>1, WordIs, BitIs, SMT
    <3> QED BY <2>2, <3>1, <3>2 DEF ShiftRight, Fills
  <2> QED BY <1>1, <2>1, <2>2
<1> QED BY <1>2, <1>4, <1>5, <1>6

\* Carry out, and the shifted value back.
LEMMA Shifted ==
  ASSUME NEW c, Good(c), NEW k \in Int, NEW v, NEW b
  PROVE  LET d == SET_CARRY(c, k) IN Fills(v, AccSize(c)) => Calm(c, Modify(d, v, b))
<1> DEFINE d == SET_CARRY(c, k)
<1>1. Calm(c, d) /\ Good(d) /\ AccSize(d) = AccSize(c)
  BY Carries, CalmGood
<1> HIDE DEF d
<1>2. Fills(v, AccSize(c)) => Calm(c, Modify(d, v, b))
  BY <1>1, Modifies, CalmTrans
<1> QED BY <1>2 DEF d

LEMMA FillsArg ==
  ASSUME NEW c, Ranged(c)
  PROVE  Fills(c.arg, AccSize(c))
  BY SizesAre DEF Ranged, Fills

LEMMA ShiftInst ==
  ASSUME NEW c, Good(c), Ranged(c), NEW b
  PROVE  /\ Calm(c, ASL_INST(c, b)) /\ Calm(c, ROL_INST(c, b))
         /\ Calm(c, LSR_INST(c, b)) /\ Calm(c, ROR_INST(c, b))
<1>1. Fills(c.arg, AccSize(c))
  BY FillsArg
<1>2. c.psr.c \in Bit /\ 0 \in Bit
  BY BitIs DEF Good, Sized, Flags
<1>3. c.arg \in Int /\ HighBit(c, c.arg) \in Int
  BY <1>1, <1>2, ShiftsFill
<1>4. \A in \in Bit : Fills(ShiftLeft(c, c.arg, in), AccSize(c))
                      /\ Fills(ShiftRight(c, c.arg, in), AccSize(c))
  BY <1>1, ShiftsFill
<1>5. \A in \in Bit : Calm(c, Modify(SET_CARRY(c, HighBit(c, c.arg)), ShiftLeft(c, c.arg, in), b))
  BY <1>3, <1>4, Shifted
<1>6. \A in \in Bit : Calm(c, Modify(SET_CARRY(c, c.arg), ShiftRight(c, c.arg, in), b))
  BY <1>3, <1>4, Shifted
<1> QED BY <1>2, <1>5, <1>6 DEF ASL_INST, ROL_INST, LSR_INST, ROR_INST

LEMMA StepInst ==
  ASSUME NEW c, Good(c), NEW b
  PROVE  Calm(c, DEC_INST(c, b)) /\ Calm(c, INC_INST(c, b))
<1>1. AccSize(c) \in {8, 16} /\ c.arg \in Int
  BY SizesAre, SizedNumbers DEF Good
<1>2. c.arg - 1 \in Int /\ c.arg + 1 \in Int
  BY <1>1
<1>3. \A v \in Int : Fills(v % 2^AccSize(c), AccSize(c))
  BY <1>1, CutToSize
<1>4. \A v \in Int : Calm(c, Modify(c, v % 2^AccSize(c), b))
  BY <1>3, Modifies
<1> QED BY <1>2, <1>4 DEF DEC_INST, INC_INST

LEMMA BitsInst ==
  ASSUME NEW c, Good(c), NEW b
  PROVE  Calm(c, TSB_INST(c, b)) /\ Calm(c, TRB_INST(c, b))
<1>1. Sized(c) /\ c.arg \in Int /\ c.addr_latch \in Int /\ Acc(c) \in Int
  BY AccIs, SizedNumbers DEF Good
<1>2. BitOr(c.arg, Acc(c)) \in Int /\ BitAnd(c.arg, Acc(c)) \in Int
  BY <1>1, AndIs
<1>3. c.arg - BitAnd(c.arg, Acc(c)) \in Int
  BY <1>1, <1>2
<1>4. ASSUME NEW v \in Int PROVE Calm(c, TestBits(c, v, b))
  <2> DEFINE d == Store(c, c.addr_latch, v, b)
             z == IF BitAnd(c.arg, c.acc) = 0 THEN 0 ELSE 1
  <2>1. Quiet(c, d)
    BY <1>1, Stores
  <2>2. z \in Bit
    BY BitIs
  <2>3. TestBits(c, v, b) = SetZero(d, z)
    BY DEF TestBits, SetZero
  <2> HIDE DEF d, z
  <2>4. Quiet(d, SetZero(d, z))
    BY <2>1, <2>2, Updates DEF Quiet
  <2> QED BY <2>1, <2>3, <2>4, QuietTrans, QuietIsCalm
<1> QED BY <1>2, <1>3, <1>4 DEF TSB_INST, TRB_INST

\* The same on an operand that was just loaded.
LEMMA Follows ==
  ASSUME NEW c, NEW d, Good(c), Quiet(c, d), NEW e, Calm(d, e)
  PROVE  Calm(c, e)
  BY QuietIsCalm, CalmTrans

LEMMA OnOperand ==
  ASSUME NEW c, Good(c), NEW d, Holds(c, d)
  PROVE  /\ Calm(c, ORA_INST(d)) /\ Calm(c, AND_INST(d)) /\ Calm(c, EOR_INST(d))
         /\ Calm(c, LDA_INST(d)) /\ Calm(c, ADC_INST(d)) /\ Calm(c, SBC_INST(d))
         /\ Calm(c, CMP_INST(d)) /\ Calm(c, BIT_INST(d)) /\ Calm(c, BitImm(d))
<1>1. Quiet(c, d) /\ Good(d)
  BY QuietGood DEF Holds
<1>2. \A e : Calm(d, e) => Calm(c, e)
  BY <1>1, Follows
<1> QED BY <1>1, <1>2, AccInst, TestInst

LEMMA OnCell ==
  ASSUME NEW c, Good(c), NEW d, Holds(c, d), NEW b
  PROVE  /\ Calm(c, ASL_INST(d, b)) /\ Calm(c, ROL_INST(d, b))
         /\ Calm(c, LSR_INST(d, b)) /\ Calm(c, ROR_INST(d, b))
         /\ Calm(c, DEC_INST(d, b)) /\ Calm(c, INC_INST(d, b))
         /\ Calm(c, TSB_INST(d, b)) /\ Calm(c, TRB_INST(d, b))
<1>1. Quiet(c, d) /\ Good(d) /\ Ranged(d)
  BY QuietGood DEF Holds
<1>2. \A e : Calm(d, e) => Calm(c, e)
  BY <1>1, Follows
<1> QED BY <1>1, <1>2, ShiftInst, StepInst, BitsInst

(* The index registers.                                                    *)
SetX(c, v) == [c EXCEPT !.xreg = v]
SetY(c, v) == [c EXCEPT !.yreg = v]

LEMMA Indexed ==
  ASSUME NEW c, Good(c), NEW v, Fills(v, IndexSize(c))
  PROVE  Calm(c, SetX(c, v)) /\ Calm(c, SetY(c, v))
<1>1. v \in Word /\ (c.psr.x = 1 => v < 256)
  BY SizesAre, ByteIs, WordIs DEF Fills
<1>2. Calm(c, SetX(c, v))
  BY <1>1 DEF Good, Sized, Shaped, Calm, Fields, SetX
<1>3. Calm(c, SetY(c, v))
  BY <1>1 DEF Good, Sized, Shaped, Calm, Fields, SetY
<1> QED BY <1>2, <1>3

LEMMA IntoIndex ==
  ASSUME NEW c, Good(c), NEW v \in Int
  PROVE  Calm(c, SET_INDEX_REG(c, v, "x")) /\ Calm(c, SET_INDEX_REG(c, v, "y"))
<1> DEFINE size == IndexSize(c)
           w == v % 2^size
<1>1. size \in {8, 16}
  BY SizesAre
<1>2. Fills(w, size)
  BY <1>1, CutToSize
<1>3. SET_INDEX_REG(c, v, "x") = SET_NEG_ZERO(SetX(c, w), w, size)
      /\ SET_INDEX_REG(c, v, "y") = SET_NEG_ZERO(SetY(c, w), w, size)
  BY DEF SET_INDEX_REG, WithIndex, SetX, SetY
<1> HIDE DEF w
<1>4. Calm(c, SetX(c, w)) /\ Calm(c, SetY(c, w))
  BY <1>2, Indexed
<1> HIDE DEF size
<1>5. ASSUME NEW d, Calm(c, d)
      PROVE  Calm(c, SET_NEG_ZERO(d, w, size))
  <2>1. Good(d) /\ Sized(d)
    BY <1>5 DEF Calm, Good
  <2>2. Quiet(d, SET_NEG_ZERO(d, w, size))
    BY <1>1, <1>2, <2>1, NegZero
  <2> QED BY <1>5, <2>1, <2>2, QuietIsCalm, CalmTrans
<1> QED BY <1>3, <1>4, <1>5

LEMMA IndexLoads ==
  ASSUME NEW c, Sized(c), NEW b
  PROVE  IndexLoad(c, b) \in Int
  BY SizedNumbers, ReadByte, ReadWord, Numbers DEF IndexLoad

LEMMA OnIndex ==
  ASSUME NEW c, Good(c), NEW d, Points(c, d), NEW b
  PROVE  /\ Calm(c, LDX_INST(d, b)) /\ Calm(c, LDY_INST(d, b))
         /\ \A r \in Int : Calm(c, CP_INDEX_LOAD(d, r, b))
<1>1. Quiet(c, d) /\ Good(d) /\ Sized(d)
  BY QuietGood DEF Points
<1>2. \A e : Calm(d, e) => Calm(c, e)
  BY <1>1, Follows
<1> DEFINE v == IndexLoad(d, b)
           f == SetArg(d, v)
<1>3. v \in Int
  BY <1>1, IndexLoads
<1>4. Calm(d, LDX_INST(d, b)) /\ Calm(d, LDY_INST(d, b))
  BY <1>1, <1>3, IntoIndex DEF LDX_INST, LDY_INST
<1>5. \A r : CP_INDEX_LOAD(d, r, b) = Compare(f, r, IndexSize(f))
  BY DEF CP_INDEX_LOAD, CP_INDEX_VAL, SetArg
<1> HIDE DEF v
<1>6. Quiet(d, f)
  BY <1>1, <1>3, Updates
<1> HIDE DEF f
<1>7. Good(f) /\ IndexSize(f) \in {8, 16}
  BY <1>1, <1>6, QuietGood, SizesAre
<1>8. \A r \in Int : Calm(d, Compare(f, r, IndexSize(f)))
  BY <1>1, <1>6, <1>7, Compares, Follows
<1> QED BY <1>2, <1>4, <1>5, <1>8

LEMMA IndexAddressed ==
  ASSUME NEW c, Good(c)
  PROVE  /\ Calm(c, C_LDX_ABS_Y(c)) /\ Calm(c, C_LDY_ABS_X(c)) /\ Calm(c, C_LDX_ABS(c))
         /\ Calm(c, C_LDY_ABS(c)) /\ Calm(c, C_LDX_DLOC(c)) /\ Calm(c, C_LDY_DLOC(c))
         /\ Calm(c, C_LDY_DLOC_X(c)) /\ Calm(c, C_LDX_DLOC_Y(c))
         /\ Calm(c, C_CPX_DLOC(c)) /\ Calm(c, C_CPY_DLOC(c))
         /\ Calm(c, C_CPX_ABS(c)) /\ Calm(c, C_CPY_ABS(c))
<1>1. Sized(c) /\ c.xreg \in Int /\ c.yreg \in Int
  BY SizedNumbers DEF Good
<1>2. Points(c, GET_ABS_ADDR(c)) /\ Points(c, GET_DLOC_ADDR(c))
  BY <1>1, PlainModes
<1>3. Points(c, GET_ABS_INDEX_ADDR_FOR_RD(c, c.yreg))
      /\ Points(c, GET_ABS_INDEX_ADDR_FOR_RD(c, c.xreg))
      /\ Points(c, GET_DLOC_INDEX_WR(c, c.xreg)) /\ Points(c, GET_DLOC_INDEX_WR(c, c.yreg))
  BY <1>1, IndexedModes
<1>4. \A d, b : Points(c, d) => Calm(c, LDX_INST(d, b)) /\ Calm(c, LDY_INST(d, b))
  BY OnIndex
<1>5. \A d, b : \A r \in Int : Points(c, d) => Calm(c, CP_INDEX_LOAD(d, r, b))
  BY OnIndex
<1>6. Calm(c, C_LDX_ABS_Y(c)) /\ Calm(c, C_LDY_ABS_X(c)) /\ Calm(c, C_LDX_ABS(c))
      /\ Calm(c, C_LDY_ABS(c))
  BY <1>2, <1>3, <1>4, Zenon DEF C_LDX_ABS_Y, C_LDY_ABS_X, C_LDX_ABS, C_LDY_ABS
<1>7. Calm(c, C_LDX_DLOC(c)) /\ Calm(c, C_LDY_DLOC(c))
      /\ Calm(c, C_LDY_DLOC_X(c)) /\ Calm(c, C_LDX_DLOC_Y(c))
  BY <1>2, <1>3, <1>4, Zenon DEF C_LDX_DLOC, C_LDY_DLOC, C_LDY_DLOC_X, C_LDX_DLOC_Y
<1>8. Calm(c, C_CPX_DLOC(c)) /\ Calm(c, C_CPY_DLOC(c))
      /\ Calm(c, C_CPX_ABS(c)) /\ Calm(c, C_CPY_ABS(c))
  BY <1>1, <1>2, <1>5, Zenon DEF C_CPX_DLOC, C_CPY_DLOC, C_CPX_ABS, C_CPY_ABS
<1> QED BY <1>6, <1>7, <1>8

LEMMA IndexImmediate ==
  ASSUME NEW c, Good(c)
  PROVE  /\ Calm(c, C_CPX_IMM(c)) /\ Calm(c, C_CPY_IMM(c))
         /\ Calm(c, ArgToIndex(IndexImm(c), "x")) /\ Calm(c, ArgToIndex(IndexImm(c), "y"))
<1> DEFINE d == IndexImm(c)
<1>1. Sized(c) /\ c.xreg \in Int /\ c.yreg \in Int
  BY SizedNumbers DEF Good
<1>2. Quiet(c, d)
  BY <1>1, ArgsAre, Located DEF IndexImm
<1> HIDE DEF d
<1>3. Good(d) /\ d.arg \in Int /\ IndexSize(d) \in {8, 16}
  BY <1>2, QuietGood, SizedNumbers, SizesAre
<1>4. Calm(d, Compare(d, c.xreg, IndexSize(d))) /\ Calm(d, Compare(d, c.yreg, IndexSize(d)))
  BY <1>1, <1>3, Compares
<1>5. Calm(d, SET_INDEX_REG(d, d.arg, "x")) /\ Calm(d, SET_INDEX_REG(d, d.arg, "y"))
  BY <1>3, IntoIndex
<1>6. C_CPX_IMM(c) = Compare(d, c.xreg, IndexSize(d)) /\ C_CPY_IMM(c) = Compare(d, c.yreg, IndexSize(d))
      /\ ArgToIndex(IndexImm(c), "x") = SET_INDEX_REG(d, d.arg, "x")
      /\ ArgToIndex(IndexImm(c), "y") = SET_INDEX_REG(d, d.arg, "y")
  BY DEF C_CPX_IMM, C_CPY_IMM, CP_INDEX_VAL, ArgToIndex, d
<1> QED BY <1>2, <1>4, <1>5, <1>6, Follows

\* Register to index register, and the index registers up and down.
LEMMA IndexTransfers ==
  ASSUME NEW c, Good(c), NEW v \in Int
  PROVE  LET d == INC_KPC(c, 1)
         IN  /\ Calm(c, SET_INDEX_REG(d, v, "x")) /\ Calm(c, SET_INDEX_REG(d, v, "y"))
             /\ Calm(c, SetAcc(d, v))
<1> DEFINE d == INC_KPC(c, 1)
<1>1. Quiet(c, d)
  BY Steps DEF Good
<1> HIDE DEF d
<1>2. Good(d) /\ Sized(d)
  BY <1>1, QuietGood
<1>3. Calm(d, SET_INDEX_REG(d, v, "x")) /\ Calm(d, SET_INDEX_REG(d, v, "y"))
  BY <1>2, IntoIndex
<1>4. Calm(d, SetAcc(d, v))
  BY <1>2, IntoAcc, QuietIsCalm
<1>5. Calm(c, SET_INDEX_REG(d, v, "x")) /\ Calm(c, SET_INDEX_REG(d, v, "y")) /\ Calm(c, SetAcc(d, v))
  BY <1>1, <1>3, <1>4, Follows
<1> QED BY <1>5 DEF d

-----------------------------------------------------------------------------
(* Jumps, and what goes through the stack.                                 *)
LEMMA Branches ==
  ASSUME NEW c, Sized(c), NEW cond
  PROVE  Quiet(c, BRANCH_DISP8(c, cond)) /\ Quiet(c, BRA(c))
<1> SUFFICES ASSUME NEW b PROVE Quiet(c, BRANCH_DISP8(c, b))
  BY DEF BRA
<1> DEFINE disp == GET_1BYTE_ARG(c)
           off == IF disp >= 128 THEN disp - 256 ELSE disp
           n == IF b THEN 2 + off ELSE 2
<1>1. disp \in Int
  BY ArgsAre
<1> HIDE DEF disp
<1>2. off \in Int
  BY <1>1
<1> HIDE DEF off
<1>3. n \in Int
  BY <1>2
<1>4. BRANCH_DISP8(c, b) = INC_KPC(c, n)
  BY DEF BRANCH_DISP8, n, off, disp
<1> HIDE DEF n
<1> QED BY <1>3, <1>4, Steps

\* d with another program counter.
LEMMA Goes ==
  ASSUME NEW c, NEW d, Quiet(c, d), NEW a \in Address
  PROVE  Quiet(c, [d EXCEPT !.kpc = a])
<1>1. Quiet(d, SetKpc(d, a))
  BY Updates, SMTT(20) DEF Quiet
<1> QED BY <1>1, QuietTrans DEF SetKpc

LEMMA JumpIs ==
  ASSUME NEW c, Sized(c), NEW w \in Word
  PROVE  Quiet(c, JumpTo(c, w))
<1>1. Bank(c.kpc) + w \in Address
  BY BankIs DEF Sized
<1>2. Quiet(c, c)
  BY QuietSelf
<1> QED BY <1>1, <1>2, Goes DEF JumpTo

LEMMA Jumps ==
  ASSUME NEW c, Sized(c)
  PROVE  /\ Quiet(c, BRL(c)) /\ Quiet(c, PER(c))
         /\ Quiet(c, JumpTo(c, GET_2BYTE_ARG(c)))
         /\ Quiet(c, JumpTo(c, GET_MEMORY16(c, GET_2BYTE_ARG(c), InBank)))
         /\ Quiet(c, JumpTo(c, GET_MEMORY16(c, KBankX(c), InBank)))
         /\ Quiet(c, [c EXCEPT !.kpc = GET_3BYTE_ARG(c)])
         /\ Quiet(c, [c EXCEPT !.kpc = GET_MEMORY24(c, GET_2BYTE_ARG(c), InBank)])
<1>1. c.kpc \in Address /\ c.kpc \in Int /\ c.xreg \in Int
  BY SizedNumbers DEF Sized
<1>2. GET_2BYTE_ARG(c) \in Word /\ GET_2BYTE_ARG(c) \in Int /\ GET_3BYTE_ARG(c) \in Address
  BY ArgsAre
<1>3. RelAddr(c) \in Int /\ RelAddr(c) % 65536 \in Word
  <2>1. RelAddr(c) \in Int
    BY <1>1, <1>2 DEF RelAddr
  <2> QED BY <2>1, Wraps
<1>4. KBankX(c) \in Int
  <2> DEFINE n == c.xreg + GET_2BYTE_ARG(c)
             w == n % 65536
  <2>1. n \in Int
    BY <1>1, <1>2
  <2>2. KBankX(c) = Bank(c.kpc) + w
    BY DEF KBankX
  <2> HIDE DEF n
  <2>3. w \in Word
    BY <2>1, Wraps
  <2> HIDE DEF w
  <2>4. Bank(c.kpc) + w \in Address
    BY <1>1, <2>3, BankIs
  <2> QED BY <2>2, <2>4, Numbers
<1>5. GET_MEMORY16(c, GET_2BYTE_ARG(c), InBank) \in Word
      /\ GET_MEMORY16(c, KBankX(c), InBank) \in Word
      /\ GET_MEMORY24(c, GET_2BYTE_ARG(c), InBank) \in Address
  BY <1>2, <1>4, ReadWord, ReadLong
<1>6. Quiet(c, c)
  BY QuietSelf
<1>7. \A w \in Word : Quiet(c, JumpTo(c, w))
  BY JumpIs
<1>8. \A a \in Address : Quiet(c, [c EXCEPT !.kpc = a])
  BY <1>6, Goes
<1>9. Quiet(c, BRL(c))
  BY <1>3, <1>7 DEF BRL
<1>12. Quiet(c, PER(c))
  <2>1. Quiet(c, INC_KPC(c, 3))
    BY Steps
  <2>2. Sized(INC_KPC(c, 3))
    BY <2>1 DEF Quiet
  <2> QED BY <1>3, <2>1, <2>2, PushesUnsafe, QuietTrans DEF PER
<1>10. Quiet(c, JumpTo(c, GET_2BYTE_ARG(c)))
       /\ Quiet(c, JumpTo(c, GET_MEMORY16(c, GET_2BYTE_ARG(c), InBank)))
       /\ Quiet(c, JumpTo(c, GET_MEMORY16(c, KBankX(c), InBank)))
  BY <1>2, <1>5, <1>7, Zenon
<1>11. Quiet(c, [c EXCEPT !.kpc = GET_3BYTE_ARG(c)])
       /\ Quiet(c, [c EXCEPT !.kpc = GET_MEMORY24(c, GET_2BYTE_ARG(c), InBank)])
  BY <1>2, <1>5, <1>8, Zenon
<1> QED BY <1>9, <1>10, <1>11, <1>12

LEMMA Calls ==
  ASSUME NEW c, Sized(c)
  PROVE  Quiet(c, JSR(c)) /\ Quiet(c, JSL(c)) /\ Quiet(c, JSR_ABS_X(c))
<1>1. c.kpc \in Address /\ c.kpc \in Int
  BY SizedNumbers DEF Sized
<1>2. GET_2BYTE_ARG(c) \in Word /\ GET_3BYTE_ARG(c) \in Address
  BY ArgsAre
<1>3. Quiet(c, JSR(c))
  <2> DEFINE b == INC_KPC(c, 2)
             w == (c.kpc + 2) % 65536
             d == PUSH16(b, w)
             a == Bank(c.kpc) + GET_2BYTE_ARG(c)
  <2>1. Quiet(c, b) /\ Sized(b)
    BY Steps DEF Quiet
  <2>2. w \in Int
    BY <1>1
  <2>3. a \in Address
    BY <1>1, <1>2, BankIs
  <2>4. JSR(c) = [d EXCEPT !.kpc = a]
    BY DEF JSR
  <2> HIDE DEF b, w, a
  <2>5. Quiet(c, d)
    BY <2>1, <2>2, PushesWord, QuietTrans
  <2> HIDE DEF d
  <2> QED BY <2>3, <2>4, <2>5, Goes
<1>4. Quiet(c, JSL(c))
  <2> DEFINE b == INC_KPC(c, 3)
             d == PUSH24_UNSAFE(b, b.kpc)
  <2>1. Quiet(c, b) /\ Sized(b) /\ b.kpc \in Int
    BY Steps, SizedNumbers DEF Quiet
  <2>2. JSL(c) = [d EXCEPT !.kpc = GET_3BYTE_ARG(c)]
    BY DEF JSL, PushLong
  <2> HIDE DEF b
  <2>3. Quiet(c, d)
    BY <2>1, PushesUnsafe, QuietTrans
  <2> HIDE DEF d
  <2> QED BY <1>2, <2>2, <2>3, Goes
<1>5. Quiet(c, JSR_ABS_X(c))
  <2> DEFINE b == JumpTo(c, GET_MEMORY16(c, KBankX(c), InBank))
             v == INC_KPC(c, 2).kpc
  <2>0. Quiet(c, b)
    BY Jumps, Zenon
  <2>1. Quiet(c, b) /\ Sized(b)
    <3> HIDE DEF b
    <3> QED BY <2>0 DEF Quiet
  <2>2. v \in Int
    BY Steps, SizedNumbers DEF Quiet
  <2>3. JSR_ABS_X(c) = PUSH16_UNSAFE(b, v)
    BY DEF JSR_ABS_X
  <2> HIDE DEF b, v
  <2> QED BY <2>1, <2>2, <2>3, PushesUnsafe, QuietTrans
<1> QED BY <1>3, <1>4, <1>5

LEMMA Returns ==
  ASSUME NEW c, Sized(c)
  PROVE  Quiet(c, RTS(c)) /\ Quiet(c, RTL(c))
<1>1. ASSUME NEW d, Quiet(c, d), NEW k \in Address, d.arg \in Int
      PROVE  Quiet(c, ToBehind(d, Bank(k)))
  <2> DEFINE n == d.arg + 1
             w == n % 65536
  <2>1. n \in Int
    BY <1>1
  <2>2. ToBehind(d, Bank(k)) = [d EXCEPT !.kpc = Bank(k) + w]
    BY DEF ToBehind
  <2> HIDE DEF n
  <2>3. w \in Word
    BY <2>1, Wraps
  <2> HIDE DEF w
  <2>4. Bank(k) + w \in Address
    BY <2>3, BankIs
  <2> QED BY <1>1, <2>2, <2>4, Goes
<1>2. Quiet(c, PULL16(c)) /\ PULL16(c).arg \in Int
  BY PullsWord, Numbers
<1>3. Quiet(c, PULL24(c)) /\ PULL24(c).arg \in Address /\ PULL24(c).arg \in Int
  BY PullsLong, Numbers
<1>4. c.kpc \in Address
  BY DEF Sized
<1>5. RTS(c) = ToBehind(PULL16(c), Bank(c.kpc))
  BY DEF RTS
<1>6. RTL(c) = ToBehind(PULL24(c), Bank(PULL24(c).arg))
  BY DEF RTL, ReturnLong
<1> QED BY <1>1, <1>2, <1>3, <1>4, <1>5, <1>6

LEMMA PushInst ==
  ASSUME NEW c, Sized(c)
  PROVE  /\ Quiet(c, PUSH16_UNSAFE(INC_KPC(c, 1), c.direct))
         /\ Quiet(c, PUSH16_UNSAFE(INC_KPC(c, 3), GET_2BYTE_ARG(c)))
         /\ Quiet(c, PUSH8(INC_KPC(c, 1), c.dbank))
         /\ Quiet(c, INC_KPC(PUSH8(c, c.kpc \div 65536), 1))
         /\ \A narrow : \A v \in Int : Quiet(c, PushReg(c, v, narrow))
         /\ \A d : Points(c, d) => Quiet(c, PEI(d))
<1>1. Quiet(c, INC_KPC(c, 1)) /\ Quiet(c, INC_KPC(c, 3))
  BY Steps
<1>2. Sized(INC_KPC(c, 1)) /\ Sized(INC_KPC(c, 3))
  BY <1>1 DEF Quiet
<1>3. c.direct \in Int /\ c.dbank \in Int /\ c.kpc \in Int /\ GET_2BYTE_ARG(c) \in Int
  BY SizedNumbers, ArgsAre
<1>4. Quiet(c, PUSH16_UNSAFE(INC_KPC(c, 1), c.direct))
      /\ Quiet(c, PUSH16_UNSAFE(INC_KPC(c, 3), GET_2BYTE_ARG(c)))
  BY <1>1, <1>2, <1>3, PushesUnsafe, QuietTrans
<1>5. Quiet(c, PUSH8(INC_KPC(c, 1), c.dbank))
  BY <1>1, <1>2, <1>3, Pushes, QuietTrans
<1>6. Quiet(c, INC_KPC(PUSH8(c, c.kpc \div 65536), 1))
  <2> DEFINE v == c.kpc \div 65536
             d == PUSH8(c, v)
  <2>1. v \in Int
    BY <1>3
  <2> HIDE DEF v
  <2>2. Quiet(c, d)
    BY <2>1, Pushes
  <2> HIDE DEF d
  <2>3. Quiet(c, INC_KPC(d, 1))
    BY <2>2, Stepped
  <2> QED BY <2>3 DEF d, v
<1>7. \A narrow : \A v \in Int : Quiet(c, PushReg(c, v, narrow))
  BY <1>1, <1>2, Pushes, PushesWord, QuietTrans DEF PushReg
<1>8. ASSUME NEW d, Points(c, d) PROVE Quiet(c, PEI(d))
  <2>1. Quiet(c, d) /\ Sized(d) /\ d.arg \in Int
    BY <1>8 DEF Points, Quiet
  <2>2. GET_MEMORY16(d, d.arg, InBank) \in Int
    BY <2>1, ReadWord, Numbers
  <2> QED BY <2>1, <2>2, PushesUnsafe, QuietTrans DEF PEI
<1> QED BY <1>4, <1>5, <1>6, <1>7, <1>8

\* What is pulled is a byte or a word.
LEMMA Pulls ==
  ASSUME NEW c, Sized(c), NEW narrow
  PROVE  Quiet(c, Pull(c, narrow)) /\ Pull(c, narrow).arg \in Int
<1> DEFINE d == IF narrow THEN PULL8(c) ELSE PULL16(c)
<1>1. Quiet(c, d) /\ d.arg \in Int
  BY PullsByte, PullsWord, Numbers
<1>2. Pull(c, narrow) = INC_KPC(d, 1)
  BY DEF Pull
<1> HIDE DEF d
<1> QED BY <1>1, <1>2, Stepped

LEMMA PullInst ==
  ASSUME NEW c, Good(c)
  PROVE  /\ Calm(c, PLA(c)) /\ Calm(c, PullIndex(c, "x")) /\ Calm(c, PullIndex(c, "y"))
         /\ Calm(c, PLD(c)) /\ Calm(c, PLB(c))
<1>1. Sized(c)
  BY DEF Good
<1>2. Calm(c, PLA(c))
  <2> DEFINE d == Pull(c, c.acc8 = 1)
  <2>1. Quiet(c, d) /\ d.arg \in Int
    BY <1>1, Pulls
  <2> HIDE DEF d
  <2>2. Calm(d, SetAcc(d, d.arg))
    BY <2>1, QuietGood, IntoAcc, QuietIsCalm
  <2> QED BY <2>1, <2>2, Follows DEF PLA, ArgToAcc, d
<1>3. Calm(c, PullIndex(c, "x")) /\ Calm(c, PullIndex(c, "y"))
  <2> DEFINE d == Pull(c, c.psr.x = 1)
  <2>1. Quiet(c, d) /\ d.arg \in Int
    BY <1>1, Pulls
  <2> HIDE DEF d
  <2>2. Calm(d, SET_INDEX_REG(d, d.arg, "x")) /\ Calm(d, SET_INDEX_REG(d, d.arg, "y"))
    BY <2>1, QuietGood, IntoIndex
  <2> QED BY <2>1, <2>2, Follows DEF PullIndex, ArgToIndex, d
<1>4. Calm(c, PLD(c))
  <2> DEFINE b == PULL16_UNSAFE(c)
             d == INC_KPC(b, 1)
             e == SetDirect(d, d.arg)
  <2>1. Quiet(c, b) /\ b.arg \in Word /\ Sized(b)
    BY <1>1, PullsWhole DEF Quiet
  <2>2. PLD(c) = SET_NEG_ZERO(e, d.arg, 16)
    BY DEF PLD, ArgToDirect, SetDirect
  <2> HIDE DEF b
  <2>3. Quiet(c, d) /\ d.arg \in Word /\ Sized(d)
    BY <2>1, Stepped
  <2> HIDE DEF d
  <2>4. Quiet(d, e) /\ Sized(e)
    BY <2>3, Updates, QuietSized
  <2> HIDE DEF e
  <2>5. Fills(d.arg, 16)
    BY <2>3 DEF Fills
  <2>6. Quiet(e, SET_NEG_ZERO(e, d.arg, 16))
    BY <2>4, <2>5, NegZero
  <2> QED BY <2>2, <2>3, <2>4, <2>6, QuietTrans, QuietIsCalm
<1>5. Calm(c, PLB(c))
  <2> DEFINE b == PULL8(c)
             d == INC_KPC(b, 1)
             e == SetBank(d, d.arg)
  <2>1. Quiet(c, b) /\ b.arg \in Byte /\ Sized(b)
    BY <1>1, PullsByte DEF Quiet
  <2>2. PLB(c) = SET_NEG_ZERO(e, d.arg, 8)
    BY DEF PLB, ArgToBank, SetBank
  <2> HIDE DEF b
  <2>3. Quiet(c, d) /\ d.arg \in Byte /\ Sized(d)
    BY <2>1, Stepped
  <2> HIDE DEF d
  <2>4. Quiet(d, e) /\ Sized(e)
    BY <2>3, Updates, QuietSized
  <2> HIDE DEF e
  <2>5. Fills(d.arg, 8)
    BY <2>3 DEF Fills
  <2>6. Quiet(e, SET_NEG_ZERO(e, d.arg, 8))
    BY <2>4, <2>5, NegZero
  <2> QED BY <2>2, <2>3, <2>4, <2>6, QuietTrans, QuietIsCalm
<1> QED BY <1>2, <1>3, <1>4, <1>5

(* Transfers of whole registers.                                           *)
LEMMA Transfers ==
  ASSUME NEW c, Sized(c)
  PROVE  /\ \A v \in Word : Quiet(c, WholeAcc(c, v)) /\ Quiet(c, ToStack(c, v))
         /\ Quiet(c, TCD(c)) /\ Quiet(c, XBA(c))
<1> DEFINE d == INC_KPC(c, 1)
<1>1. Quiet(c, d) /\ Sized(d)
  BY Steps DEF Quiet
<1>2. \A v : /\ WholeAcc(c, v) = SET_NEG_ZERO(SetReg(d, v), v, 16)
             /\ ToStack(c, v) = SetStack(d, InPage(c, v))
  BY DEF WholeAcc, ToStack, SetReg, SetStack
<1>3. TCD(c) = SET_NEG_ZERO(SetDirect(d, c.acc), c.acc, 16)
  BY DEF TCD, SetDirect
<1> DEFINE low == c.acc % 256
           high == c.acc \div 256
           v == low * 256 + high
<1>4. XBA(c) = SET_NEG_ZERO(SetReg(d, v), high, 8)
  BY DEF XBA, SetReg
<1>5. c.acc \in Word /\ high \in Byte /\ low \in Byte
  <2>1. c.acc \in Word
    BY DEF Sized
  <2> QED BY <2>1, Parts
<1> HIDE DEF d, low, high
<1>6. v \in Word
  BY <1>5, WordIs, ByteIs, SMT
<1> HIDE DEF v
<1>7. ASSUME NEW w \in Word
      PROVE  Quiet(c, SET_NEG_ZERO(SetReg(d, w), w, 16)) /\ Quiet(c, SetStack(d, InPage(c, w)))
  <2>1. Quiet(d, SetReg(d, w)) /\ Sized(SetReg(d, w))
    BY <1>1, Updates, QuietSized
  <2>2. Fills(w, 16)
    BY DEF Fills
  <2>3. Quiet(SetReg(d, w), SET_NEG_ZERO(SetReg(d, w), w, 16))
    BY <2>1, <2>2, NegZero
  <2>4. InPage(c, w) \in Word /\ (c.psr.e = 1 => InPage(c, w) \in 256 .. 511)
    BY Numbers, PageKept
  <2>5. Quiet(d, SetStack(d, InPage(c, w)))
    BY <1>1, <2>4, Restacked DEF Quiet
  <2> QED BY <1>1, <2>1, <2>3, <2>5, QuietTrans
<1>8. Quiet(c, SET_NEG_ZERO(SetDirect(d, c.acc), c.acc, 16))
  <2>1. Quiet(d, SetDirect(d, c.acc)) /\ Sized(SetDirect(d, c.acc))
    BY <1>1, <1>5, Updates, QuietSized
  <2>2. Fills(c.acc, 16)
    BY <1>5 DEF Fills
  <2>3. Quiet(SetDirect(d, c.acc), SET_NEG_ZERO(SetDirect(d, c.acc), c.acc, 16))
    BY <2>1, <2>2, NegZero
  <2> QED BY <1>1, <2>1, <2>3, QuietTrans
<1>9. Quiet(c, SET_NEG_ZERO(SetReg(d, v), high, 8))
  <2>1. Quiet(d, SetReg(d, v)) /\ Sized(SetReg(d, v))
    BY <1>1, <1>6, Updates, QuietSized
  <2>2. Fills(high, 8)
    BY <1>5 DEF Fills
  <2>3. Quiet(SetReg(d, v), SET_NEG_ZERO(SetReg(d, v), high, 8))
    BY <2>1, <2>2, NegZero
  <2> QED BY <1>1, <2>1, <2>3, QuietTrans
<1> QED BY <1>2, <1>3, <1>4, <1>7, <1>8, <1>9

(* The accumulator's own shifts, and single flags.                         *)
LEMMA OnAccIs ==
  ASSUME NEW c, Good(c), NEW v \in Int, NEW k \in Int
  PROVE  Calm(c, OnAcc(c, v, k)) /\ Calm(c, SET_CARRY(INC_KPC(c, 1), k))
<1> DEFINE d == INC_KPC(c, 1)
           e == SET_CARRY(d, k)
<1>1. Quiet(c, d)
  BY Steps DEF Good
<1>2. OnAcc(c, v, k) = SetAcc(e, v)
  BY DEF OnAcc
<1> HIDE DEF d
<1>3. Calm(d, e)
  BY <1>1, QuietGood, Carries
<1>4. Calm(c, e) /\ Good(e) /\ Sized(e)
  BY <1>1, <1>3, QuietGood, CalmGood, Follows
<1> HIDE DEF e
<1>5. Calm(e, SetAcc(e, v))
  BY <1>4, IntoAcc, QuietIsCalm
<1> QED BY <1>2, <1>4, <1>5, CalmTrans DEF d, e

LEMMA AccForms ==
  ASSUME NEW c, Good(c)
  PROVE  /\ Calm(c, OnAcc(c, 2 * Acc(c), HighBit(c, Acc(c))))
         /\ Calm(c, OnAcc(c, 2 * Acc(c) + c.psr.c, HighBit(c, Acc(c))))
         /\ Calm(c, OnAcc(c, Acc(c) + 1, c.psr.c)) /\ Calm(c, OnAcc(c, Acc(c) - 1, c.psr.c))
         /\ Calm(c, OnAcc(c, ShiftRight(c, Acc(c), 0), Acc(c)))
         /\ Calm(c, OnAcc(c, ShiftRight(c, Acc(c), c.psr.c), Acc(c)))
<1>1. Fills(Acc(c), AccSize(c)) /\ Acc(c) \in Int /\ AccSize(c) \in {8, 16}
  BY AccIs, SizesAre DEF Good
<1>2. c.psr.c \in Bit /\ 0 \in Bit /\ c.psr.c \in Int
  BY BitIs DEF Good, Sized, Flags
<1>3. HighBit(c, Acc(c)) \in Int
  BY <1>1, <1>2, ShiftsFill
<1>4. \A in \in Bit : ShiftRight(c, Acc(c), in) \in Int
  BY <1>1, ShiftsFill, TopBit
<1>5. 2 * Acc(c) \in Int /\ 2 * Acc(c) + c.psr.c \in Int /\ Acc(c) + 1 \in Int /\ Acc(c) - 1 \in Int
  BY <1>1, <1>2
<1>6. \A v, k \in Int : Calm(c, OnAcc(c, v, k))
  BY OnAccIs
<1> QED BY <1>1, <1>2, <1>3, <1>4, <1>5, <1>6

LEMMA FlagForms ==
  ASSUME NEW c, Good(c)
  PROVE  /\ Calm(c, SET_CARRY(INC_KPC(c, 1), 0)) /\ Calm(c, SET_CARRY(INC_KPC(c, 1), 1))
         /\ Calm(c, [INC_KPC(c, 1) EXCEPT !.psr.d = 0])
         /\ Calm(c, [INC_KPC(c, 1) EXCEPT !.psr.d = 1])
         /\ Calm(c, [INC_KPC(c, 1) EXCEPT !.psr.v = 0])
<1> DEFINE d == INC_KPC(c, 1)
<1>1. Quiet(c, d)
  BY Steps DEF Good
<1>2. Calm(c, SET_CARRY(d, 0)) /\ Calm(c, SET_CARRY(d, 1))
  BY OnAccIs
<1> HIDE DEF d
<1>3. Good(d) /\ d.psr \in Flags /\ 0 \in Bit /\ 1 \in Bit
  BY <1>1, QuietGood, BitIs DEF Good, Sized
<1>4. \A v \in Bit : SameModes(d.psr, [d.psr EXCEPT !.d = v]) /\ SameModes(d.psr, [d.psr EXCEPT !.v = v])
  BY <1>3, FlagsAre
<1>5. \A v \in Bit : Calm(c, SetFlags(d, [d.psr EXCEPT !.d = v])) /\ Calm(c, SetFlags(d, [d.psr EXCEPT !.v = v]))
  BY <1>1, <1>3, <1>4, Flagged, Follows
<1>6. [d EXCEPT !.psr.d = 0] = SetFlags(d, [d.psr EXCEPT !.d = 0])
      /\ [d EXCEPT !.psr.d = 1] = SetFlags(d, [d.psr EXCEPT !.d = 1])
      /\ [d EXCEPT !.psr.v = 0] = SetFlags(d, [d.psr EXCEPT !.v = 0])
  BY DEF SetFlags
<1>7. Calm(c, [d EXCEPT !.psr.d = 0]) /\ Calm(c, [d EXCEPT !.psr.d = 1]) /\ Calm(c, [d EXCEPT !.psr.v = 0])
  BY <1>3, <1>5, <1>6
<1> QED BY <1>2, <1>7 DEF d

\* The flags kept beside psr go back into it.
LEMMA FoldedIs ==
  ASSUME NEW c, Sized(c)
  PROVE  SameModes(c.psr, Folded(c))
<1> DEFINE n == c.neg % 2
           z == 1 - c.zero
<1>1. n \in Bit /\ z \in Bit /\ c.psr \in Flags
  BY BitIs DEF Sized
<1>2. Folded(c) = [c.psr EXCEPT !.n = n, !.z = z]
  BY DEF Folded
<1> HIDE DEF n, z
<1> QED BY <1>1, <1>2 DEF SameModes, Flags

LEMMA PsrByteIs ==
  ASSUME NEW p \in Flags
  PROVE  PsrByte(p) \in Int
  BY BitIs DEF Flags, PsrByte

LEMMA PushesPsr ==
  ASSUME NEW c, Good(c)
  PROVE  Calm(c, PHP(c))
<1> DEFINE b == SetFlags(c, Folded(c))
           d == INC_KPC(b, 1)
<1>1. Calm(c, b) /\ Good(b) /\ Sized(b)
  BY FoldedIs, Flagged, CalmGood DEF Good
<1>2. PHP(c) = PUSH8(d, PsrByte(d.psr))
  BY DEF PHP, PushPsr, SetFlags
<1> HIDE DEF b
<1>3. Quiet(b, d) /\ Sized(d)
  BY <1>1, Steps, QuietSized
<1> HIDE DEF d
<1>4. PsrByte(d.psr) \in Int
  BY <1>3, PsrByteIs DEF Sized
<1>5. Quiet(b, PUSH8(d, PsrByte(d.psr)))
  BY <1>3, <1>4, Pushes, QuietTrans
<1> QED BY <1>1, <1>2, <1>5, QuietIsCalm, CalmTrans

-----------------------------------------------------------------------------
(* Instructions that change I or the widths.                               *)

\* What every instruction but WAI does: the widths are right again, or the
\* engine is left; and if it goes on, no pending interrupt was let in.
Runs(c, d) ==
  /\ Sized(d) /\ Shaped(d)
  /\ d.irq = c.irq /\ d.wait = c.wait
  /\ d.ret = "none" => d.acc8 = d.psr.m /\ (c.irq /\ c.psr.i = 1 => d.psr.i = 1)

LEMMA CalmRuns ==
  ASSUME NEW c, NEW d, Calm(c, d)
  PROVE  Runs(c, d)
  BY DEF Calm, Good, Runs

LEMMA QuietRuns ==
  ASSUME NEW c, NEW d, Good(c), Quiet(c, d)
  PROVE  Runs(c, d)
  BY QuietIsCalm, CalmRuns

\* e is c but for psr, the stack and what psr does not bind.
Before(c, e) ==
  /\ Sized(e)
  /\ e.xreg = c.xreg /\ e.yreg = c.yreg
  /\ e.irq = c.irq /\ e.wait = c.wait /\ e.ret = "none"

SetWidths(c, p, s, x, y) == [c EXCEPT !.psr = p, !.stack = s, !.xreg = x, !.yreg = y]
SetAcc8(c, v) == [c EXCEPT !.acc8 = v]
SetRet(c, v) == [c EXCEPT !.ret = v]

LEMMA FitsIs ==
  ASSUME NEW p \in Flags
  PROVE  /\ Fits(p) \in Flags /\ Fits(p).e = p.e /\ Fits(p).i = p.i
         /\ Fits(p).e = 1 => Fits(p).m = 1 /\ Fits(p).x = 1
<1>1. CASE p.e = 1
  BY <1>1, BitIs DEF Fits, Flags
<1>2. CASE p.e # 1
  BY <1>2 DEF Fits
<1> QED BY <1>1, <1>2

LEMMA UpdatesPsr ==
  ASSUME NEW c, Good(c), NEW e, Before(c, e)
  PROVE  Runs(c, UPDATE_PSR(e, c.psr))
<1> DEFINE p == Fits(e.psr)
           s == IF p.e = 1 THEN InPage(e, e.stack) ELSE e.stack
           x == Narrow(e.xreg, c.psr, p)
           y == Narrow(e.yreg, c.psr, p)
           d == SetWidths(e, p, s, x, y)
<1>1. Sized(e) /\ e.psr \in Flags /\ e.stack \in Word /\ e.stack \in Int
  BY SizedNumbers DEF Before, Sized
<1>2. p \in Flags /\ p.e = e.psr.e /\ (p.e = 1 => p.m = 1 /\ p.x = 1)
  BY <1>1, FitsIs
<1>3. s \in Word /\ (p.e = 1 => s \in 256 .. 511)
  BY <1>1, <1>2, PageKept
<1>4. x \in Word /\ y \in Word /\ (p.x = 1 => x < 256 /\ y < 256)
  <2>1. e.xreg \in Word /\ e.yreg \in Word /\ e.xreg = c.xreg /\ e.yreg = c.yreg
    BY DEF Before, Sized
  <2>2. c.psr.x \in {0, 1} /\ (c.psr.x = 1 => c.xreg < 256 /\ c.yreg < 256)
    BY BitIs DEF Good, Sized, Shaped, Flags
  <2> HIDE DEF p
  <2>3. ASSUME NEW r \in Word, c.psr.x = 1 => r < 256
        PROVE  Narrow(r, c.psr, p) \in Word /\ (p.x = 1 => Narrow(r, c.psr, p) < 256)
    BY <2>2, <2>3, WordIs, SMT DEF Narrow
  <2> QED BY <2>1, <2>2, <2>3
<1>5. UPDATE_PSR(e, c.psr) = Continue(d)
  BY DEF UPDATE_PSR, NewPsr, SetWidths
<1> HIDE DEF p, s, x, y
<1>6. Sized(d) /\ Shaped(d) /\ d.irq = c.irq /\ d.wait = c.wait /\ d.ret = "none" /\ d.psr = p
  <2>1. DOMAIN e = Fields /\ Sized(e)
    BY <1>1 DEF Sized
  <2>2. Sized(d) /\ d.irq = e.irq /\ d.wait = e.wait /\ d.ret = e.ret /\ d.psr = p
        /\ d.stack = s /\ d.xreg = x /\ d.yreg = y
    BY <1>2, <1>3, <1>4, <2>1 DEF Sized, SetWidths, Fields
  <2> QED BY <1>2, <1>3, <1>4, <2>2 DEF Before, Shaped
<1> HIDE DEF d
<1>7. CASE d.psr.i = 0 /\ d.irq
  <2>1. UPDATE_PSR(e, c.psr) = SetRet(d, "irq")
    BY <1>5, <1>7 DEF Continue, FINISH, SetRet
  <2>2. Runs(c, SetRet(d, "irq"))
    BY <1>6 DEF Runs, Sized, Shaped, Fields, SetRet
  <2> QED BY <2>1, <2>2
<1>8. CASE ~(d.psr.i = 0 /\ d.irq)
  <2>1. UPDATE_PSR(e, c.psr) = SetAcc8(d, d.psr.m)
    BY <1>5, <1>8 DEF Continue, SetAcc8
  <2>2. d.psr.i \in {0, 1} /\ d.psr.m \in Bit
    BY <1>6, BitIs DEF Sized, Flags
  <2>3. Runs(c, SetAcc8(d, d.psr.m))
    BY <1>6, <1>8, <2>2 DEF Runs, Sized, Shaped, Fields, SetAcc8
  <2> QED BY <2>1, <2>3
<1> QED BY <1>7, <1>8

LEMMA PsrOfIs ==
  ASSUME NEW b \in Int, NEW v \in Bit
  PROVE  PsrOf(b, v) \in Flags
  BY BitsAre DEF PsrOf, Flags

\* A whole new psr.
LEMMA TakesPsr ==
  ASSUME NEW c, NEW e, Before(c, e), NEW p \in Flags
  PROVE  Before(c, WithPsr(e, p))
<1> DEFINE d == SetFlags(e, p)
<1>1. p.n \in Bit /\ 1 - p.z \in Bit
  BY BitIs DEF Flags
<1>2. Before(c, d)
  BY DEF Before, Sized, Fields, SetFlags
<1>3. WithPsr(e, p) = SetBoth(d, p.n, 1 - p.z)
  BY DEF WithPsr, SetFlags, SetBoth
<1> HIDE DEF d
<1>4. Quiet(d, SetBoth(d, p.n, 1 - p.z))
  BY <1>1, <1>2, Updates DEF Before
<1> QED BY <1>2, <1>3, <1>4 DEF Before, Quiet

LEMMA SetsPsr ==
  ASSUME NEW c, Good(c), c.ret = "none", NEW e, Quiet(c, e), NEW b \in Int, NEW v \in Bit
  PROVE  Runs(c, SetPsr(e, b, v))
<1>1. Before(c, e) /\ e.psr = c.psr
  BY DEF Before, Quiet
<1>2. Before(c, WithPsr(e, PsrOf(b, v)))
  BY <1>1, PsrOfIs, TakesPsr
<1> QED BY <1>1, <1>2, UpdatesPsr DEF SetPsr

LEMMA PsrInst ==
  ASSUME NEW c, Good(c), c.ret = "none"
  PROVE  Runs(c, PLP(c)) /\ Runs(c, REP(c)) /\ Runs(c, SEP(c)) /\ Runs(c, XCE(c))
<1>1. Sized(c) /\ c.psr \in Flags /\ c.psr.e \in Bit /\ c.psr.c \in Bit
  BY DEF Good, Sized, Flags
<1>2. Runs(c, PLP(c))
  <2> DEFINE b == PULL8(c)
             d == INC_KPC(b, 1)
  <2>1. Quiet(c, b) /\ b.arg \in Int
    BY <1>1, PullsByte, Numbers
  <2>2. PLP(c) = SetPsr(d, d.arg, d.psr.e)
    BY DEF PLP, PulledPsr
  <2> HIDE DEF b
  <2>3. Quiet(c, d) /\ d.arg \in Int
    BY <2>1, Stepped
  <2> HIDE DEF d
  <2>4. d.psr.e \in Bit
    BY <1>1, <2>3 DEF Quiet
  <2> QED BY <2>2, <2>3, <2>4, SetsPsr
<1>3. Runs(c, REP(c)) /\ Runs(c, SEP(c))
  <2> DEFINE d == INC_KPC(c, 2)
             old == PsrByte(Folded(c))
             a == GET_1BYTE_ARG(c)
             cleared == 255 - a
  <2>1. Quiet(c, d)
    BY <1>1, Steps
  <2>2. old \in Int
    BY <1>1, FoldedIs, PsrByteIs DEF SameModes
  <2>3. a \in Int
    BY <1>1, ArgsAre
  <2>4. REP(c) = SetPsr(d, BitAnd(old, cleared), c.psr.e) /\ SEP(c) = SetPsr(d, BitOr(old, a), c.psr.e)
    BY DEF REP, SEP
  <2> HIDE DEF d, old, a
  <2>5. cleared \in Int
    BY <2>3
  <2>6. BitAnd(old, cleared) \in Int /\ BitOr(old, a) \in Int
    BY <2>2, <2>3, <2>5, AndIs
  <2> QED BY <1>1, <2>1, <2>4, <2>6, SetsPsr
<1>4. Runs(c, XCE(c))
  <2> DEFINE d == INC_KPC(c, 1)
             p == [d.psr EXCEPT !.e = c.psr.c, !.c = c.psr.e]
             e == SetFlags(d, p)
  <2>1. Quiet(c, d)
    BY <1>1, Steps
  <2>2. XCE(c) = UPDATE_PSR(e, c.psr)
    <3>1. [d EXCEPT !.psr.e = c.psr.c, !.psr.c = c.psr.e] = e
      <4>1. DOMAIN d = Fields /\ d.psr \in Flags
        BY <2>1 DEF Quiet, Sized
      <4> HIDE DEF d
      <4> QED BY <4>1 DEF SetFlags, Fields, Flags
    <3> QED BY <3>1 DEF XCE
  <2> HIDE DEF d
  <2>3. p \in Flags
    BY <1>1, <2>1 DEF Quiet, Flags
  <2> HIDE DEF p
  <2>4. Before(c, e)
    BY <2>1, <2>3 DEF Quiet, Before, Sized, Fields, SetFlags
  <2> QED BY <2>2, <2>4, UpdatesPsr
<1> QED BY <1>2, <1>3, <1>4

LEMMA EmulReturns ==
  ASSUME NEW c, Good(c), c.ret = "none"
  PROVE  Runs(c, EmulReturn(PULL24(c)))
<1> DEFINE b == PULL24(c)
           w == b.arg \div 256
           low == b.arg % 256
           a == Bank(b.kpc) + w
           d == [b EXCEPT !.kpc = a]
<1>1. Quiet(c, b) /\ b.arg \in Address
  BY PullsLong DEF Good
<1>2. b.kpc \in Address
  BY <1>1 DEF Quiet, Sized
<1>3. EmulReturn(PULL24(c)) = SetPsr(d, low, 1)
  BY DEF EmulReturn
<1> HIDE DEF b
<1>4. w \in Word
  BY <1>1, Parts
<1>5. low \in Int /\ 1 \in Bit
  BY <1>1, Numbers, BitIs
<1> HIDE DEF w, low
<1>6. a \in Address
  BY <1>2, <1>4, BankIs
<1> HIDE DEF a
<1>7. Quiet(c, d)
  BY <1>1, <1>6, Goes
<1> QED BY <1>3, <1>5, <1>7, SetsPsr

LEMMA NativeReturns ==
  ASSUME NEW c, Good(c), c.ret = "none"
  PROVE  Runs(c, NativeReturn(PULL24(NativePsr(PULL8(c))), c.psr))
<1> DEFINE b == PULL8(c)
           d == NativePsr(b)
           e == PULL24(d)
           f == SetKpc(e, e.arg)
<1>1. Quiet(c, b) /\ b.arg \in Int
  BY PullsByte, Numbers DEF Good
<1>2. NativeReturn(PULL24(NativePsr(PULL8(c))), c.psr) = UPDATE_PSR(f, c.psr)
  BY DEF NativeReturn, SetKpc
<1> HIDE DEF b
<1>3. PsrOf(b.arg, 0) \in Flags
  BY <1>1, PsrOfIs, BitIs
<1>4. Before(c, b)
  BY <1>1 DEF Quiet, Before
<1>5. Before(c, d)
  BY <1>3, <1>4, TakesPsr DEF NativePsr
<1> HIDE DEF d
<1>6. Quiet(d, e) /\ e.arg \in Address
  BY <1>5, PullsLong DEF Before
<1> HIDE DEF e
<1>7. Quiet(d, f)
  BY <1>6, Goes DEF SetKpc
<1>8. Before(c, f)
  BY <1>5, <1>7 DEF Before, Quiet
<1> QED BY <1>2, <1>8, UpdatesPsr

LEMMA ReturnInst ==
  ASSUME NEW c, Good(c), c.ret = "none"
  PROVE  Runs(c, RTI(c))
  BY EmulReturns, NativeReturns DEF RTI

\* CLI leaves the engine where it lets an interrupt in; SEI and the stops.
LEMMA LeaveInst ==
  ASSUME NEW c, Good(c), c.ret = "none"
  PROVE  /\ Runs(c, CLI(c)) /\ Runs(c, [INC_KPC(c, 1) EXCEPT !.psr.i = 1])
         /\ Runs(c, FINISH(INC_KPC(c, 2), "wdm")) /\ Runs(c, FINISH(c, "stp"))
<1> DEFINE d == INC_KPC(c, 1)
           e == INC_KPC(c, 2)
<1>1. Quiet(c, d) /\ Quiet(c, e) /\ Quiet(c, c)
  BY Steps, QuietSelf DEF Good
<1> HIDE DEF d, e
<1>2. Good(d) /\ d.irq = c.irq /\ d.wait = c.wait /\ d.ret = "none" /\ d.psr \in Flags
  BY <1>1, QuietGood DEF Quiet, Good, Sized
<1>3. \A v \in Bit : [d.psr EXCEPT !.i = v] \in Flags
  BY <1>2 DEF Flags
<1>4. ASSUME NEW v \in Bit
      PROVE  LET f == SetFlags(d, [d.psr EXCEPT !.i = v])
             IN  /\ Sized(f) /\ Shaped(f) /\ f.irq = c.irq /\ f.wait = c.wait
                 /\ f.ret = "none" /\ f.acc8 = f.psr.m /\ f.psr.i = v
  <2> DEFINE p == [d.psr EXCEPT !.i = v]
  <2>1. p \in Flags /\ p.e = d.psr.e /\ p.m = d.psr.m /\ p.x = d.psr.x /\ p.i = v
    BY <1>2 DEF Flags
  <2> HIDE DEF p
  <2>2. LET f == SetFlags(d, p)
        IN  /\ Sized(f) /\ Shaped(f) /\ f.irq = c.irq /\ f.wait = c.wait
            /\ f.ret = "none" /\ f.acc8 = f.psr.m /\ f.psr.i = v
    BY <1>2, <2>1 DEF Good, Sized, Shaped, Fields, SetFlags
  <2> QED BY <2>2 DEF p
<1>5. Runs(c, [d EXCEPT !.psr.i = 1])
  <2>1. [d EXCEPT !.psr.i = 1] = SetFlags(d, [d.psr EXCEPT !.i = 1]) /\ 1 \in Bit
    BY BitIs DEF SetFlags
  <2> DEFINE f == SetFlags(d, [d.psr EXCEPT !.i = 1])
  <2>2. /\ Sized(f) /\ Shaped(f) /\ f.irq = c.irq /\ f.wait = c.wait
        /\ f.ret = "none" /\ f.acc8 = f.psr.m /\ f.psr.i = 1
    BY <1>4, <2>1
  <2> HIDE DEF f
  <2>3. Runs(c, f)
    BY <2>2 DEF Runs
  <2> QED BY <2>1, <2>3 DEF f
<1>6. Runs(c, CLI(c))
  <2> DEFINE f == SetFlags(d, [d.psr EXCEPT !.i = 0])
  <2>1. CLI(c) = IF f.irq THEN SetRet(f, "irq") ELSE f
    BY DEF CLI, Allowed, FINISH, SetFlags, SetRet, d
  <2>2. 0 \in Bit
    BY BitIs
  <2>3. /\ Sized(f) /\ Shaped(f) /\ f.irq = c.irq /\ f.wait = c.wait
        /\ f.ret = "none" /\ f.acc8 = f.psr.m
    BY <1>4, <2>2
  <2> HIDE DEF f
  <2>4. CASE f.irq
    <3>1. CLI(c) = SetRet(f, "irq")
      BY <2>1, <2>4
    <3>2. Runs(c, SetRet(f, "irq"))
      BY <2>3 DEF Runs, Sized, Shaped, Fields, SetRet
    <3> QED BY <3>1, <3>2
  <2>5. CASE ~f.irq
    <3>1. ~c.irq
      BY <2>3, <2>5
    <3> QED BY <2>1, <2>3, <2>5, <3>1 DEF Runs
  <2> QED BY <2>4, <2>5
<1>7. \A f, v : Quiet(c, f) /\ v # "none" => Runs(c, SetRet(f, v))
  BY DEF Good, Quiet, Runs, Sized, Shaped, Fields, SetRet
<1>8. Runs(c, FINISH(e, "wdm")) /\ Runs(c, FINISH(c, "stp"))
  BY <1>1, <1>7 DEF FINISH, SetRet
<1> QED BY <1>5, <1>6, <1>8 DEF d, e

(* BRK and COP.                                                            *)
LEMMA SoftInst ==
  ASSUME NEW c, Good(c), c.ret = "none", NEW u \in Int, NEW v \in Int
  PROVE  Runs(c, SoftwareInterrupt(c, u, v))
<1> DEFINE a == INC_KPC(c, 2)
           b == PushBank(a)
           d == PUSH16(b, a.kpc)
           e == PUSH8(d, PsrByte(d.psr))
           at == IF c.psr.e = 1 THEN u ELSE v
           f == Vectored(PushReturn(a), at)
<1>1. Quiet(c, a) /\ Sized(a)
  BY Steps, QuietSized DEF Good
<1>2. SoftwareInterrupt(c, u, v) = f
  BY DEF SoftwareInterrupt
<1>3. at \in Int
  OBVIOUS
<1> HIDE DEF a, at
<1>4. a.kpc \in Int /\ a.kpc \div 65536 \in Int
  BY <1>1, SizedNumbers
<1>5. Quiet(c, b) /\ Sized(b) /\ b.psr = a.psr
  <2>1. Quiet(a, PUSH8(a, a.kpc \div 65536)) /\ Quiet(a, a)
    BY <1>1, <1>4, Pushes, QuietSelf
  <2>2. Quiet(a, b)
    BY <2>1 DEF PushBank
  <2> HIDE DEF b
  <2> QED BY <1>1, <2>2, QuietTrans, QuietSized DEF Quiet
<1>6. b = PushBank(a)
  OBVIOUS
<1> HIDE DEF b
<1>7. Quiet(c, d) /\ Sized(d) /\ d.psr = a.psr
  <2>1. Quiet(b, d)
    BY <1>4, <1>5, PushesWord
  <2> HIDE DEF d
  <2> QED BY <1>5, <2>1, QuietTrans, QuietSized DEF Quiet
<1>8. PushReturn(a) = e
  BY <1>6, <1>7 DEF PushReturn
<1> HIDE DEF d
<1>9. PsrByte(d.psr) \in Int
  BY <1>7, PsrByteIs DEF Sized
<1>10. Quiet(c, e) /\ Sized(e)
  BY <1>7, <1>9, Pushes, QuietTrans, QuietSized
<1> HIDE DEF e
<1> DEFINE w == GET_MEMORY16(e, at, Linear)
           bank == IF e.psr.e = 1 THEN 0 ELSE e.dbank
           p == [e.psr EXCEPT !.i = 1, !.d = 0]
           g == SetFlags(SetBank(SetKpc(e, w), bank), p)
<1>11. w \in Address
  <2>1. w \in Word
    BY <1>3, <1>10, ReadWord
  <2> HIDE DEF w
  <2> QED BY <2>1, WordIs, AddressIs, SMT
<1>12. bank \in Byte
  BY <1>10, ByteIs DEF Sized
<1>13. /\ p \in Flags /\ p.i = 1
       /\ p.e = e.psr.e /\ p.m = e.psr.m /\ p.x = e.psr.x
  <2>1. e.psr \in Flags /\ 0 \in Bit /\ 1 \in Bit
    BY <1>10, BitIs DEF Sized
  <2> QED BY <2>1 DEF Flags
<1>14. f = g
  <2>1. f = [e EXCEPT !.kpc = w, !.dbank = bank, !.psr.i = 1, !.psr.d = 0]
    BY <1>8 DEF Vectored
  <2>2. DOMAIN e = Fields /\ e.psr \in Flags
    BY <1>10 DEF Sized
  <2> HIDE DEF f, w, bank
  <2> QED BY <2>1, <2>2 DEF SetFlags, SetBank, SetKpc, Fields, Flags
<1> HIDE DEF w, bank, p, f
<1>15. Quiet(c, SetBank(SetKpc(e, w), bank))
  <2>1. Quiet(c, SetKpc(e, w))
    BY <1>10, <1>11, Updates, QuietTrans
  <2> QED BY <1>12, <2>1, Updates, QuietTrans, QuietSized
<1> DEFINE h == SetBank(SetKpc(e, w), bank)
<1>16. h.psr = e.psr
  BY <1>10 DEF Sized, Fields, SetBank, SetKpc
<1> HIDE DEF h
<1>17. Good(h) /\ h.ret = "none" /\ h.irq = c.irq /\ h.wait = c.wait
  <2>1. Quiet(c, h)
    BY <1>15 DEF h
  <2> QED BY <2>1, QuietGood DEF Quiet
<1>18. Runs(c, SetFlags(h, p))
  BY <1>13, <1>16, <1>17 DEF Runs, Good, Sized, Shaped, Fields, SetFlags
<1> QED BY <1>2, <1>14, <1>18 DEF h

LEMMA BreakInst ==
  ASSUME NEW c, Good(c), c.ret = "none"
  PROVE  Runs(c, BRK(c)) /\ Runs(c, COP(c))
  BY SoftInst DEF BRK, COP

(* MVN and MVP: any number of bytes.                                       *)
SetMove(c, x, y, a) == [c EXCEPT !.xreg = x, !.yreg = y, !.acc = a]

LEMMA MovesByte ==
  ASSUME NEW c, Good(c), c.psr.x = 0, NEW src \in Int, NEW step \in Int
  PROVE  Calm(c, MoveByte(c, src, step))
<1> DEFINE a == c.dbank * 65536 + c.yreg
           from == src + c.xreg
           v == GET_MEMORY8(c, from)
           d == SET_MEMORY8(c, a, v)
           x == (c.xreg + step) % 65536
           y == (c.yreg + step) % 65536
           n == (c.acc - 1) % 65536
<1>1. Sized(c) /\ c.dbank \in Int /\ c.xreg \in Int /\ c.yreg \in Int /\ c.acc \in Int
  BY SizedNumbers DEF Good
<1>2. a \in Int /\ from \in Int
  BY <1>1
<1>3. MoveByte(c, src, step) = SetMove(d, x, y, n)
  BY DEF MoveByte, SetMove
<1> HIDE DEF a, from
<1>4. v \in Int
  BY <1>1, <1>2, ReadByte, Numbers
<1> HIDE DEF v
<1>5. Quiet(c, d)
  BY <1>1, <1>2, <1>4, WriteByte
<1> HIDE DEF d
<1>6. x \in Word /\ y \in Word /\ n \in Word
  <2>1. c.xreg + step \in Int /\ c.yreg + step \in Int /\ c.acc - 1 \in Int
    BY <1>1
  <2> QED BY <2>1, Wraps
<1> HIDE DEF x, y, n
<1>7. Calm(c, d) /\ Good(d) /\ d.psr.x = 0
  BY <1>5, QuietIsCalm, QuietGood DEF Quiet
<1>8. Calm(d, SetMove(d, x, y, n))
  BY <1>6, <1>7 DEF Good, Sized, Shaped, Calm, Fields, SetMove
<1> QED BY <1>3, <1>7, <1>8, CalmTrans

\* The bytes moved one by one are the steps of a function of their count.
LEMMA MovesFrom ==
  ASSUME NEW c, NEW src, NEW step, NEW bytes \in Nat
  PROVE  \E moved : /\ moved[0] = c /\ moved[bytes] = MoveBytes(c, src, step, bytes)
                    /\ \A n \in Nat : n < bytes => moved[n + 1] = MoveByte(moved[n], src, step)
<1> DEFINE Loop(f, top) ==
             f = [n \in 0 .. top |-> IF n = 0 THEN c ELSE MoveByte(f[n - 1], src, step)]
           moved == CHOOSE f : Loop(f, bytes)
<1>1. MoveBytes(c, src, step, bytes) = moved[bytes]
  BY DEF MoveBytes
<1>2. Loop(moved, bytes)
  <2> DEFINE S == {j \in Nat : \E f : Loop(f, j)}
  <2>1. 0 \in S
    <3>1. Loop([n \in 0 .. 0 |-> c], 0)
      OBVIOUS
    <3> QED BY <3>1
  <2>2. ASSUME NEW j \in Nat, j \in S PROVE j + 1 \in S
    <3>1. PICK f : Loop(f, j)
      BY <2>2
    <3> DEFINE h == [n \in 0 .. j + 1 |-> IF n = j + 1 THEN MoveByte(f[j], src, step) ELSE f[n]]
    <3>2. ASSUME NEW n \in 0 .. j + 1
          PROVE  h[n] = IF n = 0 THEN c ELSE MoveByte(h[n - 1], src, step)
      <4>1. CASE n = j + 1
        BY <4>1
      <4>2. CASE n \in 0 .. j
        BY <4>2, <3>1
      <4> QED BY <4>1, <4>2
    <3>3. Loop(h, j + 1)
      BY <3>2
    <3> HIDE DEF h
    <3> QED BY <3>3
  <2> HIDE DEF S
  <2>3. bytes \in S
    BY <2>1, <2>2, SetInduction
  <2> QED BY <2>3 DEF S
<1> HIDE DEF moved
<1>3. moved[0] = c
  BY <1>2
<1>4. ASSUME NEW n \in Nat, n < bytes PROVE moved[n + 1] = MoveByte(moved[n], src, step)
  <2>1. n + 1 \in 0 .. bytes /\ n + 1 # 0 /\ (n + 1) - 1 = n
    BY <1>4
  <2> QED BY <1>2, <2>1
<1> QED BY <1>1, <1>3, <1>4

LEMMA MovesBytes ==
  ASSUME NEW c, Good(c), c.psr.x = 0, NEW src \in Int, NEW step \in Int, NEW bytes \in Nat
  PROVE  Calm(c, MoveBytes(c, src, step, bytes))
<1>1. PICK moved : /\ moved[0] = c /\ moved[bytes] = MoveBytes(c, src, step, bytes)
                   /\ \A n \in Nat : n < bytes => moved[n + 1] = MoveByte(moved[n], src, step)
  BY MovesFrom
<1> DEFINE S == {n \in Nat : n <= bytes => Calm(c, moved[n])}
<1>2. 0 \in S
  <2>1. Calm(c, c)
    BY QuietSelf, QuietIsCalm DEF Good
  <2> QED BY <1>1, <2>1
<1>3. ASSUME NEW n \in Nat, n \in S PROVE n + 1 \in S
  <2>1. SUFFICES ASSUME n + 1 <= bytes PROVE Calm(c, moved[n + 1])
    OBVIOUS
  <2>2. Calm(c, moved[n]) /\ moved[n + 1] = MoveByte(moved[n], src, step)
    BY <1>1, <1>3, <2>1
  <2>3. Good(moved[n]) /\ moved[n].psr.x = 0
    BY <2>2 DEF Calm
  <2>4. Calm(moved[n], MoveByte(moved[n], src, step))
    BY <2>3, MovesByte
  <2> QED BY <2>2, <2>4, CalmTrans
<1> HIDE DEF S
<1>4. Nat \subseteq S
  BY <1>2, <1>3, SetInduction
<1> QED BY <1>1, <1>4 DEF S

LEMMA MoveInst ==
  ASSUME NEW c, Good(c), NEW step \in {-1, 1}
  PROVE  Calm(c, BlockMove(c, step))
<1>1. Sized(c) /\ c.acc \in Nat /\ c.burst \in Nat /\ c.psr.x \in {0, 1}
  BY BitIs, WordIs DEF Good, Sized, Flags
<1>2. Calm(c, c)
  BY <1>1, QuietSelf, QuietIsCalm
<1> DEFINE a == GET_1BYTE_ARG(c)
           b == SetBank(c, a)
           src == (GET_2BYTE_ARG(c) \div 256) * 65536
           n == IF c.acc < c.burst THEN c.acc + 1 ELSE c.burst
           d == MoveBytes(b, src, step, n)
<1>3. Quiet(c, b) /\ Good(b) /\ b.psr = c.psr
  <2>1. Quiet(c, b)
    BY <1>1, ArgsAre, Updates
  <2> HIDE DEF b
  <2> QED BY <2>1, QuietGood DEF Quiet
<1>4. src \in Int /\ n \in Nat
  BY <1>1, ArgsAre
<1>5. BlockMove(c, step) = IF c.psr.e = 1 \/ c.psr.x = 1 THEN c ELSE MoveOver(d)
  BY DEF BlockMove, SetBank
<1> HIDE DEF b, src, n
<1>6. CASE c.psr.x = 0
  <2>1. Calm(c, d) /\ Good(d)
    BY <1>3, <1>4, <1>6, MovesBytes, Follows, CalmGood
  <2> HIDE DEF d
  <2>2. Quiet(d, INC_KPC(d, 3)) /\ Quiet(d, d)
    BY <2>1, Steps, QuietSelf DEF Good
  <2>3. Calm(d, MoveOver(d))
    BY <2>1, <2>2, QuietIsCalm DEF MoveOver
  <2> QED BY <1>2, <1>5, <2>1, <2>3, CalmTrans
<1>7. CASE c.psr.x = 1
  BY <1>2, <1>5, <1>7
<1> QED BY <1>1, <1>6, <1>7

-----------------------------------------------------------------------------
(* The table.                                                              *)
LEMMA OnLoaded ==
  ASSUME NEW c, Good(c), NEW d, Holds(c, d)
  PROVE  /\ Runs(c, ORA_INST(d)) /\ Runs(c, AND_INST(d)) /\ Runs(c, EOR_INST(d))
         /\ Runs(c, LDA_INST(d)) /\ Runs(c, ADC_INST(d)) /\ Runs(c, SBC_INST(d))
         /\ Runs(c, CMP_INST(d)) /\ Runs(c, BIT_INST(d)) /\ Runs(c, BitImm(d))
         /\ \A b : /\ Runs(c, ASL_INST(d, b)) /\ Runs(c, ROL_INST(d, b))
                   /\ Runs(c, LSR_INST(d, b)) /\ Runs(c, ROR_INST(d, b))
                   /\ Runs(c, DEC_INST(d, b)) /\ Runs(c, INC_INST(d, b))
                   /\ Runs(c, TSB_INST(d, b)) /\ Runs(c, TRB_INST(d, b))
  BY OnOperand, OnCell, CalmRuns

LEMMA OnPointed ==
  ASSUME NEW c, Good(c), NEW d, Points(c, d)
  PROVE  /\ \A b : /\ Runs(c, STA_INST(d, b)) /\ Runs(c, STZ_INST(d, b))
                   /\ Runs(c, STX_INST(d, b)) /\ Runs(c, STY_INST(d, b))
         /\ Runs(c, PEI(d))
<1>1. Quiet(c, d) /\ Sized(d) /\ Sized(c)
  BY QuietSized DEF Points, Good
<1>2. \A e : Quiet(d, e) => Runs(c, e)
  BY <1>1, QuietTrans, QuietRuns
<1>3. Runs(c, PEI(d))
  BY <1>1, PushInst, QuietRuns
<1> QED BY <1>1, <1>2, <1>3, StoreInst

LEMMA Addresses ==
  ASSUME NEW c, Good(c)
  PROVE  /\ Points(c, GET_ABS_ADDR(c)) /\ Points(c, GET_LONG_ADDR(c))
         /\ Points(c, GET_LONG_X_ADDR_FOR_WR(c)) /\ Points(c, GET_DLOC_ADDR(c))
         /\ Points(c, GET_DLOC_IND_ADDR(c)) /\ Points(c, GET_DLOC_IND_Y_ADDR_FOR_WR(c))
         /\ Points(c, GET_DLOC_L_IND_ADDR(c)) /\ Points(c, GET_DLOC_L_IND_Y_ADDR(c))
         /\ Points(c, GET_DLOC_X_IND_ADDR(c)) /\ Points(c, GET_DISP8_S_ADDR(c))
         /\ Points(c, GET_DISP8_S_IND_Y_ADDR(c))
         /\ Points(c, GET_DLOC_INDEX_WR(c, c.xreg)) /\ Points(c, GET_DLOC_INDEX_WR(c, c.yreg))
         /\ Points(c, GET_ABS_INDEX_ADDR_FOR_WR(c, c.xreg))
         /\ Points(c, GET_ABS_INDEX_ADDR_FOR_WR(c, c.yreg))
<1>1. Sized(c) /\ c.xreg \in Int /\ c.yreg \in Int
  BY SizedNumbers DEF Good
<1> QED BY <1>1, PlainModes, IndexedModes, IndirectModes

LEMMA RunsRow0 ==
  ASSUME NEW c, Good(c), c.ret = "none", NEW k \in 0 .. 15
  PROVE  Runs(c, Row0(c, k))
<1>1. Sized(c)
  BY DEF Good
<1>2. Runs(c, ORA_INST(GET_DLOC_X_IND_RD(c))) /\ Runs(c, ORA_INST(GET_DISP8_S_RD(c)))
      /\ Runs(c, ORA_INST(GET_DLOC_RD(c))) /\ Runs(c, ORA_INST(GET_DLOC_L_IND_RD(c)))
      /\ Runs(c, ORA_INST(GET_IMM_MEM(c))) /\ Runs(c, ORA_INST(GET_ABS_RD(c)))
      /\ Runs(c, ORA_INST(GET_LONG_RD(c)))
  BY <1>1, Operands, OnLoaded
<1>3. Runs(c, TSB_INST(GET_DLOC_RD(c), InBank)) /\ Runs(c, ASL_INST(GET_DLOC_RD(c), InBank))
      /\ Runs(c, TSB_INST(GET_ABS_RD(c), Linear)) /\ Runs(c, ASL_INST(GET_ABS_RD(c), Linear))
  BY <1>1, Operands, OnLoaded
<1>4. Runs(c, BRK(c)) /\ Runs(c, COP(c))
  BY BreakInst
<1>5. Runs(c, PHP(c))
  BY PushesPsr, CalmRuns
<1>6. Runs(c, OnAcc(c, 2 * Acc(c), HighBit(c, Acc(c))))
  BY AccForms, CalmRuns
<1>7. Runs(c, PUSH16_UNSAFE(INC_KPC(c, 1), c.direct))
  BY <1>1, PushInst, QuietRuns
<1> QED BY <1>2, <1>3, <1>4, <1>5, <1>6, <1>7 DEF Row0

LEMMA RunsRow1 ==
  ASSUME NEW c, Good(c), c.ret = "none", NEW k \in 0 .. 15
  PROVE  Runs(c, Row1(c, k))
<1>1. Sized(c)
  BY DEF Good
<1>2. Runs(c, ORA_INST(GET_DLOC_IND_Y_RD(c))) /\ Runs(c, ORA_INST(GET_DLOC_IND_RD(c)))
      /\ Runs(c, ORA_INST(GET_DISP8_S_IND_Y_RD(c))) /\ Runs(c, ORA_INST(GET_DLOC_X_RD(c)))
      /\ Runs(c, ORA_INST(GET_DLOC_L_IND_Y_RD(c))) /\ Runs(c, ORA_INST(GET_ABS_Y_RD(c)))
      /\ Runs(c, ORA_INST(GET_ABS_X_RD(c))) /\ Runs(c, ORA_INST(GET_LONG_X_RD(c)))
  BY <1>1, Operands, OnLoaded
<1>3. Runs(c, TRB_INST(GET_DLOC_RD(c), InBank))
      /\ Runs(c, ASL_INST(GET_DLOC_X_RD(c), InBank))
      /\ Runs(c, TRB_INST(GET_ABS_RD(c), Linear))
      /\ Runs(c, ASL_INST(GET_ABS_X_RD_WR(c), Linear))
  BY <1>1, Operands, OnLoaded
<1>4. Runs(c, OnAcc(c, Acc(c) + 1, c.psr.c))
  BY AccForms, CalmRuns
<1>5. Runs(c, SET_CARRY(INC_KPC(c, 1), 0))
  BY FlagForms, CalmRuns
<1>6. Runs(c, BRANCH_DISP8(c, c.neg = 0))
  BY <1>1, Branches, QuietRuns
<1>7. Runs(c, ToStack(c, c.acc))
  BY <1>1, WordsAre, Transfers, QuietRuns
<1> QED BY <1>2, <1>3, <1>4, <1>5, <1>6, <1>7 DEF Row1

LEMMA RunsRow2 ==
  ASSUME NEW c, Good(c), c.ret = "none", NEW k \in 0 .. 15
  PROVE  Runs(c, Row2(c, k))
<1>1. Sized(c)
  BY DEF Good
<1>2. Runs(c, AND_INST(GET_DLOC_X_IND_RD(c))) /\ Runs(c, AND_INST(GET_DISP8_S_RD(c)))
      /\ Runs(c, BIT_INST(GET_DLOC_RD(c))) /\ Runs(c, AND_INST(GET_DLOC_RD(c)))
      /\ Runs(c, AND_INST(GET_DLOC_L_IND_RD(c))) /\ Runs(c, AND_INST(GET_IMM_MEM(c)))
      /\ Runs(c, BIT_INST(GET_ABS_RD(c))) /\ Runs(c, AND_INST(GET_ABS_RD(c)))
      /\ Runs(c, AND_INST(GET_LONG_RD(c)))
  BY <1>1, Operands, OnLoaded
<1>3. Runs(c, ROL_INST(GET_DLOC_RD(c), InBank)) /\ Runs(c, ROL_INST(GET_ABS_RD(c), Linear))
  BY <1>1, Operands, OnLoaded
<1>4. Runs(c, PLP(c))
  BY PsrInst
<1>5. Runs(c, OnAcc(c, 2 * Acc(c) + c.psr.c, HighBit(c, Acc(c))))
  BY AccForms, CalmRuns
<1>6. Runs(c, JSR(c)) /\ Runs(c, JSL(c))
  BY <1>1, Calls, QuietRuns
<1>7. Runs(c, PLD(c))
  BY PullInst, CalmRuns
<1> QED BY <1>2, <1>3, <1>4, <1>5, <1>6, <1>7 DEF Row2

LEMMA RunsRow3 ==
  ASSUME NEW c, Good(c), c.ret = "none", NEW k \in 0 .. 15
  PROVE  Runs(c, Row3(c, k))
<1>1. Sized(c)
  BY DEF Good
<1>2. Runs(c, AND_INST(GET_DLOC_IND_Y_RD(c))) /\ Runs(c, AND_INST(GET_DLOC_IND_RD(c)))
      /\ Runs(c, AND_INST(GET_DISP8_S_IND_Y_RD(c))) /\ Runs(c, BIT_INST(GET_DLOC_X_RD(c)))
      /\ Runs(c, AND_INST(GET_DLOC_X_RD(c))) /\ Runs(c, AND_INST(GET_DLOC_L_IND_Y_RD(c)))
      /\ Runs(c, AND_INST(GET_ABS_Y_RD(c))) /\ Runs(c, BIT_INST(GET_ABS_X_RD(c)))
      /\ Runs(c, AND_INST(GET_ABS_X_RD(c))) /\ Runs(c, AND_INST(GET_LONG_X_RD(c)))
  BY <1>1, Operands, OnLoaded
<1>3. Runs(c, ROL_INST(GET_DLOC_X_RD(c), InBank))
      /\ Runs(c, ROL_INST(GET_ABS_X_RD_WR(c), Linear))
  BY <1>1, Operands, OnLoaded
<1>4. Runs(c, OnAcc(c, Acc(c) - 1, c.psr.c))
  BY AccForms, CalmRuns
<1>5. Runs(c, SET_CARRY(INC_KPC(c, 1), 1))
  BY FlagForms, CalmRuns
<1>6. Runs(c, BRANCH_DISP8(c, c.neg = 1))
  BY <1>1, Branches, QuietRuns
<1>7. Runs(c, WholeAcc(c, c.stack))
  BY <1>1, WordsAre, Transfers, QuietRuns
<1> QED BY <1>2, <1>3, <1>4, <1>5, <1>6, <1>7 DEF Row3

LEMMA RunsRow4 ==
  ASSUME NEW c, Good(c), c.ret = "none", NEW k \in 0 .. 15
  PROVE  Runs(c, Row4(c, k))
<1>1. Sized(c)
  BY DEF Good
<1>2. Runs(c, EOR_INST(GET_DLOC_X_IND_RD(c))) /\ Runs(c, EOR_INST(GET_DISP8_S_RD(c)))
      /\ Runs(c, EOR_INST(GET_DLOC_RD(c))) /\ Runs(c, EOR_INST(GET_DLOC_L_IND_RD(c)))
      /\ Runs(c, EOR_INST(GET_IMM_MEM(c))) /\ Runs(c, EOR_INST(GET_ABS_RD(c)))
      /\ Runs(c, EOR_INST(GET_LONG_RD(c)))
  BY <1>1, Operands, OnLoaded
<1>3. Runs(c, LSR_INST(GET_DLOC_RD(c), InBank)) /\ Runs(c, LSR_INST(GET_ABS_RD(c), Linear))
  BY <1>1, Operands, OnLoaded
<1>4. Runs(c, RTI(c))
  BY ReturnInst
<1>5. Runs(c, FINISH(INC_KPC(c, 2), "wdm"))
  BY LeaveInst
<1>6. Runs(c, OnAcc(c, ShiftRight(c, Acc(c), 0), Acc(c)))
  BY AccForms, CalmRuns
<1>7. Runs(c, JumpTo(c, GET_2BYTE_ARG(c)))
  BY <1>1, Jumps, QuietRuns
<1>8. Runs(c, INC_KPC(PUSH8(c, c.kpc \div 65536), 1))
  BY <1>1, PushInst, QuietRuns
<1>9. Runs(c, PushReg(c, c.acc, c.acc8 = 1))
  BY <1>1, SizedNumbers, PushInst, QuietRuns
<1>10. Runs(c, BlockMove(c, -1))
  BY MoveInst, CalmRuns
<1> QED BY <1>2, <1>3, <1>4, <1>5, <1>6, <1>7, <1>8, <1>9, <1>10 DEF Row4

LEMMA RunsRow5 ==
  ASSUME NEW c, Good(c), c.ret = "none", NEW k \in 0 .. 15
  PROVE  Runs(c, Row5(c, k))
<1>1. Sized(c)
  BY DEF Good
<1>2. Runs(c, EOR_INST(GET_DLOC_IND_Y_RD(c))) /\ Runs(c, EOR_INST(GET_DLOC_IND_RD(c)))
      /\ Runs(c, EOR_INST(GET_DISP8_S_IND_Y_RD(c))) /\ Runs(c, EOR_INST(GET_DLOC_X_RD(c)))
      /\ Runs(c, EOR_INST(GET_DLOC_L_IND_Y_RD(c))) /\ Runs(c, EOR_INST(GET_ABS_Y_RD(c)))
      /\ Runs(c, EOR_INST(GET_ABS_X_RD(c))) /\ Runs(c, EOR_INST(GET_LONG_X_RD(c)))
  BY <1>1, Operands, OnLoaded
<1>3. Runs(c, LSR_INST(GET_DLOC_X_RD(c), InBank))
      /\ Runs(c, LSR_INST(GET_ABS_X_RD_WR(c), Linear))
  BY <1>1, Operands, OnLoaded
<1>4. Runs(c, CLI(c))
  BY LeaveInst
<1>5. Runs(c, BRANCH_DISP8(c, c.psr.v = 0))
  BY <1>1, Branches, QuietRuns
<1>6. Runs(c, [c EXCEPT !.kpc = GET_3BYTE_ARG(c)])
  BY <1>1, Jumps, QuietRuns
<1>7. Runs(c, PushReg(c, c.yreg, c.psr.x = 1))
  BY <1>1, SizedNumbers, PushInst, QuietRuns
<1>8. Runs(c, TCD(c))
  BY <1>1, WordsAre, Transfers, QuietRuns
<1>9. Runs(c, BlockMove(c, 1))
  BY MoveInst, CalmRuns
<1> QED BY <1>2, <1>3, <1>4, <1>5, <1>6, <1>7, <1>8, <1>9 DEF Row5

LEMMA RunsRow6 ==
  ASSUME NEW c, Good(c), c.ret = "none", NEW k \in 0 .. 15
  PROVE  Runs(c, Row6(c, k))
<1>1. Sized(c)
  BY DEF Good
<1>2. Runs(c, ADC_INST(GET_DLOC_X_IND_RD(c))) /\ Runs(c, ADC_INST(GET_DISP8_S_RD(c)))
      /\ Runs(c, ADC_INST(GET_DLOC_RD(c))) /\ Runs(c, ADC_INST(GET_DLOC_L_IND_RD(c)))
      /\ Runs(c, ADC_INST(GET_IMM_MEM(c))) /\ Runs(c, ADC_INST(GET_ABS_RD(c)))
      /\ Runs(c, ADC_INST(GET_LONG_RD(c)))
  BY <1>1, Operands, OnLoaded
<1>3. Runs(c, ROR_INST(GET_DLOC_RD(c), InBank)) /\ Runs(c, ROR_INST(GET_ABS_RD(c), Linear))
  BY <1>1, Operands, OnLoaded
<1>4. Runs(c, STZ_INST(GET_DLOC_ADDR(c), InBank))
  BY Addresses, OnPointed
<1>5. Runs(c, OnAcc(c, ShiftRight(c, Acc(c), c.psr.c), Acc(c)))
  BY AccForms, CalmRuns
<1>6. Runs(c, RTS(c)) /\ Runs(c, RTL(c))
  BY <1>1, Returns, QuietRuns
<1>7. Runs(c, PER(c)) /\ Runs(c, JumpTo(c, GET_MEMORY16(c, GET_2BYTE_ARG(c), InBank)))
  BY <1>1, Jumps, QuietRuns
<1>8. Runs(c, PLA(c))
  BY PullInst, CalmRuns
<1> QED BY <1>2, <1>3, <1>4, <1>5, <1>6, <1>7, <1>8 DEF Row6

LEMMA RunsRow7 ==
  ASSUME NEW c, Good(c), c.ret = "none", NEW k \in 0 .. 15
  PROVE  Runs(c, Row7(c, k))
<1>1. Sized(c)
  BY DEF Good
<1>2. Runs(c, ADC_INST(GET_DLOC_IND_Y_RD(c))) /\ Runs(c, ADC_INST(GET_DLOC_IND_RD(c)))
      /\ Runs(c, ADC_INST(GET_DISP8_S_IND_Y_RD(c))) /\ Runs(c, ADC_INST(GET_DLOC_X_RD(c)))
      /\ Runs(c, ADC_INST(GET_DLOC_L_IND_Y_RD(c))) /\ Runs(c, ADC_INST(GET_ABS_Y_RD(c)))
      /\ Runs(c, ADC_INST(GET_ABS_X_RD(c))) /\ Runs(c, ADC_INST(GET_LONG_X_RD(c)))
  BY <1>1, Operands, OnLoaded
<1>3. Runs(c, ROR_INST(GET_DLOC_X_RD(c), InBank))
      /\ Runs(c, ROR_INST(GET_ABS_X_RD_WR(c), Linear))
  BY <1>1, Operands, OnLoaded
<1>4. Runs(c, STZ_INST(GET_DLOC_INDEX_WR(c, c.xreg), InBank))
  BY Addresses, OnPointed
<1>5. Runs(c, [INC_KPC(c, 1) EXCEPT !.psr.i = 1])
  BY LeaveInst
<1>6. Runs(c, BRANCH_DISP8(c, c.psr.v = 1))
  BY <1>1, Branches, QuietRuns
<1>7. Runs(c, JumpTo(c, GET_MEMORY16(c, KBankX(c), InBank)))
  BY <1>1, Jumps, QuietRuns
<1>8. Runs(c, PullIndex(c, "y"))
  BY PullInst, CalmRuns
<1>9. Runs(c, WholeAcc(c, c.direct))
  BY <1>1, WordsAre, Transfers, QuietRuns
<1> QED BY <1>2, <1>3, <1>4, <1>5, <1>6, <1>7, <1>8, <1>9 DEF Row7

LEMMA RunsRow8 ==
  ASSUME NEW c, Good(c), c.ret = "none", NEW k \in 0 .. 15
  PROVE  Runs(c, Row8(c, k))
<1>1. Sized(c)
  BY DEF Good
<1>2. Runs(c, BitImm(GET_IMM_MEM(c)))
  BY <1>1, Operands, OnLoaded
<1>3. Runs(c, STA_INST(GET_DLOC_X_IND_ADDR(c), Linear))
      /\ Runs(c, STA_INST(GET_DISP8_S_ADDR(c), InBank))
      /\ Runs(c, STY_INST(GET_DLOC_ADDR(c), InBank))
      /\ Runs(c, STA_INST(GET_DLOC_ADDR(c), InBank))
      /\ Runs(c, STX_INST(GET_DLOC_ADDR(c), InBank))
      /\ Runs(c, STA_INST(GET_DLOC_L_IND_ADDR(c), Linear))
      /\ Runs(c, STY_INST(GET_ABS_ADDR(c), Linear))
      /\ Runs(c, STA_INST(GET_ABS_ADDR(c), Linear))
      /\ Runs(c, STX_INST(GET_ABS_ADDR(c), Linear))
      /\ Runs(c, STA_INST(GET_LONG_ADDR(c), Linear))
  BY Addresses, OnPointed
<1>4. Runs(c, BRA(c))
  BY <1>1, Branches, QuietRuns
<1>5. Runs(c, BRL(c))
  BY <1>1, Jumps, QuietRuns
<1>6. Runs(c, PUSH8(INC_KPC(c, 1), c.dbank))
  BY <1>1, PushInst, QuietRuns
<1>7. Runs(c, SET_INDEX_REG(INC_KPC(c, 1), c.yreg - 1, "y"))
      /\ Runs(c, SetAcc(INC_KPC(c, 1), c.xreg))
  BY <1>1, SizedNumbers, IndexTransfers, CalmRuns
<1> QED BY <1>2, <1>3, <1>4, <1>5, <1>6, <1>7 DEF Row8

LEMMA RunsRow9 ==
  ASSUME NEW c, Good(c), c.ret = "none", NEW k \in 0 .. 15
  PROVE  Runs(c, Row9(c, k))
<1>1. Sized(c)
  BY DEF Good
<1>2. Runs(c, STA_INST(GET_DLOC_IND_Y_ADDR_FOR_WR(c), Linear))
      /\ Runs(c, STA_INST(GET_DLOC_IND_ADDR(c), Linear))
      /\ Runs(c, STA_INST(GET_DISP8_S_IND_Y_ADDR(c), Linear))
      /\ Runs(c, STY_INST(GET_DLOC_INDEX_WR(c, c.xreg), InBank))
      /\ Runs(c, STA_INST(GET_DLOC_INDEX_WR(c, c.xreg), InBank))
      /\ Runs(c, STX_INST(GET_DLOC_INDEX_WR(c, c.yreg), InBank))
      /\ Runs(c, STA_INST(GET_DLOC_L_IND_Y_ADDR(c), Linear))
      /\ Runs(c, STA_INST(GET_ABS_INDEX_ADDR_FOR_WR(c, c.yreg), Linear))
      /\ Runs(c, STZ_INST(GET_ABS_ADDR(c), Linear))
      /\ Runs(c, STA_INST(GET_ABS_INDEX_ADDR_FOR_WR(c, c.xreg), Linear))
      /\ Runs(c, STZ_INST(GET_ABS_INDEX_ADDR_FOR_WR(c, c.xreg), Linear))
      /\ Runs(c, STA_INST(GET_LONG_X_ADDR_FOR_WR(c), Linear))
  BY Addresses, OnPointed
<1>3. Runs(c, BRANCH_DISP8(c, c.psr.c = 0))
  BY <1>1, Branches, QuietRuns
<1>4. Runs(c, SetAcc(INC_KPC(c, 1), c.yreg))
      /\ Runs(c, SET_INDEX_REG(INC_KPC(c, 1), c.xreg, "y"))
  BY <1>1, SizedNumbers, IndexTransfers, CalmRuns
<1>5. Runs(c, ToStack(c, c.xreg))
  BY <1>1, WordsAre, Transfers, QuietRuns
<1> QED BY <1>2, <1>3, <1>4, <1>5 DEF Row9

LEMMA RunsRowA ==
  ASSUME NEW c, Good(c), c.ret = "none", NEW k \in 0 .. 15
  PROVE  Runs(c, RowA(c, k))
<1>1. Sized(c)
  BY DEF Good
<1>2. Runs(c, LDA_INST(GET_DLOC_X_IND_RD(c))) /\ Runs(c, LDA_INST(GET_DISP8_S_RD(c)))
      /\ Runs(c, LDA_INST(GET_DLOC_RD(c))) /\ Runs(c, LDA_INST(GET_DLOC_L_IND_RD(c)))
      /\ Runs(c, LDA_INST(GET_IMM_MEM(c))) /\ Runs(c, LDA_INST(GET_ABS_RD(c)))
      /\ Runs(c, LDA_INST(GET_LONG_RD(c)))
  BY <1>1, Operands, OnLoaded
<1>3. Runs(c, ArgToIndex(IndexImm(c), "y")) /\ Runs(c, ArgToIndex(IndexImm(c), "x"))
  BY IndexImmediate, CalmRuns
<1>4. Runs(c, C_LDY_DLOC(c)) /\ Runs(c, C_LDX_DLOC(c)) /\ Runs(c, C_LDY_ABS(c))
      /\ Runs(c, C_LDX_ABS(c))
  BY IndexAddressed, CalmRuns
<1>5. Runs(c, PLB(c))
  BY PullInst, CalmRuns
<1>6. Runs(c, SET_INDEX_REG(INC_KPC(c, 1), c.acc, "y"))
      /\ Runs(c, SET_INDEX_REG(INC_KPC(c, 1), c.acc, "x"))
  BY <1>1, SizedNumbers, IndexTransfers, CalmRuns
<1> QED BY <1>2, <1>3, <1>4, <1>5, <1>6 DEF RowA

LEMMA RunsRowB ==
  ASSUME NEW c, Good(c), c.ret = "none", NEW k \in 0 .. 15
  PROVE  Runs(c, RowB(c, k))
<1>1. Sized(c)
  BY DEF Good
<1>2. Runs(c, LDA_INST(GET_DLOC_IND_Y_RD(c))) /\ Runs(c, LDA_INST(GET_DLOC_IND_RD(c)))
      /\ Runs(c, LDA_INST(GET_DISP8_S_IND_Y_RD(c))) /\ Runs(c, LDA_INST(GET_DLOC_X_RD(c)))
      /\ Runs(c, LDA_INST(GET_DLOC_L_IND_Y_RD(c))) /\ Runs(c, LDA_INST(GET_ABS_Y_RD(c)))
      /\ Runs(c, LDA_INST(GET_ABS_X_RD(c))) /\ Runs(c, LDA_INST(GET_LONG_X_RD(c)))
  BY <1>1, Operands, OnLoaded
<1>3. Runs(c, C_LDY_DLOC_X(c)) /\ Runs(c, C_LDX_DLOC_Y(c)) /\ Runs(c, C_LDY_ABS_X(c))
      /\ Runs(c, C_LDX_ABS_Y(c))
  BY IndexAddressed, CalmRuns
<1>4. Runs(c, [INC_KPC(c, 1) EXCEPT !.psr.v = 0])
  BY FlagForms, CalmRuns
<1>5. Runs(c, BRANCH_DISP8(c, c.psr.c = 1))
  BY <1>1, Branches, QuietRuns
<1>6. Runs(c, SET_INDEX_REG(INC_KPC(c, 1), c.stack, "x"))
      /\ Runs(c, SET_INDEX_REG(INC_KPC(c, 1), c.yreg, "x"))
  BY <1>1, SizedNumbers, IndexTransfers, CalmRuns
<1> QED BY <1>2, <1>3, <1>4, <1>5, <1>6 DEF RowB

LEMMA RunsRowC ==
  ASSUME NEW c, Good(c), c.ret = "none", NEW k \in 0 .. 15, k # 11
  PROVE  Runs(c, RowC(c, k))
<1>1. Sized(c)
  BY DEF Good
<1>2. Runs(c, CMP_INST(GET_DLOC_X_IND_RD(c))) /\ Runs(c, CMP_INST(GET_DISP8_S_RD(c)))
      /\ Runs(c, CMP_INST(GET_DLOC_RD(c))) /\ Runs(c, CMP_INST(GET_DLOC_L_IND_RD(c)))
      /\ Runs(c, CMP_INST(GET_IMM_MEM(c))) /\ Runs(c, CMP_INST(GET_ABS_RD(c)))
      /\ Runs(c, CMP_INST(GET_LONG_RD(c)))
  BY <1>1, Operands, OnLoaded
<1>3. Runs(c, DEC_INST(GET_DLOC_RD(c), InBank)) /\ Runs(c, DEC_INST(GET_ABS_RD(c), Linear))
  BY <1>1, Operands, OnLoaded
<1>4. Runs(c, C_CPY_IMM(c))
  BY IndexImmediate, CalmRuns
<1>5. Runs(c, C_CPY_DLOC(c)) /\ Runs(c, C_CPY_ABS(c))
  BY IndexAddressed, CalmRuns
<1>6. Runs(c, REP(c))
  BY PsrInst
<1>7. Runs(c, SET_INDEX_REG(INC_KPC(c, 1), c.yreg + 1, "y"))
      /\ Runs(c, SET_INDEX_REG(INC_KPC(c, 1), c.xreg - 1, "x"))
  BY <1>1, SizedNumbers, IndexTransfers, CalmRuns
<1> QED BY <1>2, <1>3, <1>4, <1>5, <1>6, <1>7 DEF RowC

LEMMA RunsRowD ==
  ASSUME NEW c, Good(c), c.ret = "none", NEW k \in 0 .. 15
  PROVE  Runs(c, RowD(c, k))
<1>1. Sized(c)
  BY DEF Good
<1>2. Runs(c, CMP_INST(GET_DLOC_IND_Y_RD(c))) /\ Runs(c, CMP_INST(GET_DLOC_IND_RD(c)))
      /\ Runs(c, CMP_INST(GET_DISP8_S_IND_Y_RD(c))) /\ Runs(c, CMP_INST(GET_DLOC_X_RD(c)))
      /\ Runs(c, CMP_INST(GET_DLOC_L_IND_Y_RD(c))) /\ Runs(c, CMP_INST(GET_ABS_Y_RD(c)))
      /\ Runs(c, CMP_INST(GET_ABS_X_RD(c))) /\ Runs(c, CMP_INST(GET_LONG_X_RD(c)))
  BY <1>1, Operands, OnLoaded
<1>3. Runs(c, DEC_INST(GET_DLOC_X_RD(c), InBank))
      /\ Runs(c, DEC_INST(GET_ABS_X_RD_WR(c), Linear))
  BY <1>1, Operands, OnLoaded
<1>4. Runs(c, PEI(GET_DLOC_ADDR(c)))
  BY Addresses, OnPointed
<1>5. Runs(c, FINISH(c, "stp"))
  BY LeaveInst
<1>6. Runs(c, [INC_KPC(c, 1) EXCEPT !.psr.d = 0])
  BY FlagForms, CalmRuns
<1>7. Runs(c, BRANCH_DISP8(c, c.zero # 0))
  BY <1>1, Branches, QuietRuns
<1>8. Runs(c, [c EXCEPT !.kpc = GET_MEMORY24(c, GET_2BYTE_ARG(c), InBank)])
  BY <1>1, Jumps, QuietRuns
<1>9. Runs(c, PushReg(c, c.xreg, c.psr.x = 1))
  BY <1>1, SizedNumbers, PushInst, QuietRuns
<1> QED BY <1>2, <1>3, <1>4, <1>5, <1>6, <1>7, <1>8, <1>9 DEF RowD

LEMMA RunsRowE ==
  ASSUME NEW c, Good(c), c.ret = "none", NEW k \in 0 .. 15
  PROVE  Runs(c, RowE(c, k))
<1>1. Sized(c)
  BY DEF Good
<1>2. Runs(c, SBC_INST(GET_DLOC_X_IND_RD(c))) /\ Runs(c, SBC_INST(GET_DISP8_S_RD(c)))
      /\ Runs(c, SBC_INST(GET_DLOC_RD(c))) /\ Runs(c, SBC_INST(GET_DLOC_L_IND_RD(c)))
      /\ Runs(c, SBC_INST(GET_IMM_MEM(c))) /\ Runs(c, SBC_INST(GET_ABS_RD(c)))
      /\ Runs(c, SBC_INST(GET_LONG_RD(c)))
  BY <1>1, Operands, OnLoaded
<1>3. Runs(c, INC_INST(GET_DLOC_RD(c), InBank)) /\ Runs(c, INC_INST(GET_ABS_RD(c), Linear))
  BY <1>1, Operands, OnLoaded
<1>4. Runs(c, C_CPX_IMM(c))
  BY IndexImmediate, CalmRuns
<1>5. Runs(c, C_CPX_DLOC(c)) /\ Runs(c, C_CPX_ABS(c))
  BY IndexAddressed, CalmRuns
<1>6. Runs(c, SEP(c))
  BY PsrInst
<1>7. Runs(c, SET_INDEX_REG(INC_KPC(c, 1), c.xreg + 1, "x"))
  BY <1>1, SizedNumbers, IndexTransfers, CalmRuns
<1>8. Runs(c, XBA(c))
  BY <1>1, WordsAre, Transfers, QuietRuns
<1>9. Runs(c, INC_KPC(c, 1))
  BY <1>1, Steps, QuietRuns
<1> QED BY <1>2, <1>3, <1>4, <1>5, <1>6, <1>7, <1>8, <1>9 DEF RowE

LEMMA RunsRowF ==
  ASSUME NEW c, Good(c), c.ret = "none", NEW k \in 0 .. 15
  PROVE  Runs(c, RowF(c, k))
<1>1. Sized(c)
  BY DEF Good
<1>2. Runs(c, SBC_INST(GET_DLOC_IND_Y_RD(c))) /\ Runs(c, SBC_INST(GET_DLOC_IND_RD(c)))
      /\ Runs(c, SBC_INST(GET_DISP8_S_IND_Y_RD(c))) /\ Runs(c, SBC_INST(GET_DLOC_X_RD(c)))
      /\ Runs(c, SBC_INST(GET_DLOC_L_IND_Y_RD(c))) /\ Runs(c, SBC_INST(GET_ABS_Y_RD(c)))
      /\ Runs(c, SBC_INST(GET_ABS_X_RD(c))) /\ Runs(c, SBC_INST(GET_LONG_X_RD(c)))
  BY <1>1, Operands, OnLoaded
<1>3. Runs(c, INC_INST(GET_DLOC_X_RD(c), InBank))
      /\ Runs(c, INC_INST(GET_ABS_X_RD_WR(c), Linear))
  BY <1>1, Operands, OnLoaded
<1>4. Runs(c, XCE(c))
  BY PsrInst
<1>5. Runs(c, [INC_KPC(c, 1) EXCEPT !.psr.d = 1])
  BY FlagForms, CalmRuns
<1>6. Runs(c, BRANCH_DISP8(c, c.zero = 0))
  BY <1>1, Branches, QuietRuns
<1>7. Runs(c, JSR_ABS_X(c))
  BY <1>1, Calls, QuietRuns
<1>8. Runs(c, PUSH16_UNSAFE(INC_KPC(c, 3), GET_2BYTE_ARG(c)))
  BY <1>1, PushInst, QuietRuns
<1>9. Runs(c, PullIndex(c, "x"))
  BY PullInst, CalmRuns
<1> QED BY <1>2, <1>3, <1>4, <1>5, <1>6, <1>7, <1>8, <1>9 DEF RowF

\* WAI goes on behind itself, or stays where it is and waits.
Waits(c, d) ==
  /\ Good(d)
  /\ d.irq = c.irq /\ d.psr = c.psr /\ d.ret = "none"
  /\ d.wait => d.kpc = c.kpc /\ d.mem = c.mem

SetWait(c, v) == [c EXCEPT !.wait = v]

LEMMA WaitInst ==
  ASSUME NEW c, Good(c), c.ret = "none"
  PROVE  Waits(c, Instruction(c, 203))
<1>1. Instruction(c, 203) = WAI(c)
  <2>1. 203 % 16 = 11 /\ 203 \div 16 = 12
    BY SMT
  <2> DEFINE k == 203 % 16
             row == 203 \div 16
  <2>2. k = 11 /\ row = 12
    BY <2>1
  <2>3. Instruction(c, 203) =
          CASE row = 0 -> Row0(c, k) [] row = 1 -> Row1(c, k) [] row = 2 -> Row2(c, k)
            [] row = 3 -> Row3(c, k) [] row = 4 -> Row4(c, k) [] row = 5 -> Row5(c, k)
            [] row = 6 -> Row6(c, k) [] row = 7 -> Row7(c, k) [] row = 8 -> Row8(c, k)
            [] row = 9 -> Row9(c, k) [] row = 10 -> RowA(c, k) [] row = 11 -> RowB(c, k)
            [] row = 12 -> RowC(c, k) [] row = 13 -> RowD(c, k) [] row = 14 -> RowE(c, k)
            [] row = 15 -> RowF(c, k)
    BY DEF Instruction
  <2> HIDE DEF k, row
  <2>4. Instruction(c, 203) = RowC(c, k)
    BY <2>2, <2>3
  <2>5. RowC(c, k) = WAI(c)
    BY <2>2 DEF RowC
  <2> QED BY <2>4, <2>5
<1>2. Sized(c) /\ c.irq \in BOOLEAN
  BY DEF Good, Sized
<1> DEFINE d == SetWait(c, FALSE)
           e == SetWait(c, TRUE)
<1>3. Good(d) /\ Sized(d) /\ d.irq = c.irq /\ d.psr = c.psr /\ d.ret = "none" /\ ~d.wait
  BY DEF Good, Sized, Shaped, Fields, SetWait
<1>4. Waits(c, e)
  BY DEF Waits, Good, Sized, Shaped, Fields, SetWait
<1>5. WAI(c) = IF c.irq THEN INC_KPC(d, 1) ELSE e
  BY DEF WAI, SetWait
<1> HIDE DEF d, e
<1>6. Quiet(d, INC_KPC(d, 1))
  BY <1>3, Steps
<1>7. Waits(c, INC_KPC(d, 1))
  <2>1. Good(INC_KPC(d, 1))
    BY <1>3, <1>6, QuietGood
  <2> QED BY <1>3, <1>6, <2>1 DEF Quiet, Waits
<1> QED BY <1>1, <1>4, <1>5, <1>7

LEMMA RunsInstruction ==
  ASSUME NEW c, Good(c), c.ret = "none", NEW opcode \in Byte, opcode # 203
  PROVE  Runs(c, Instruction(c, opcode))
<1> DEFINE k == opcode % 16
           row == opcode \div 16
<1>1. k \in 0 .. 15 /\ row \in 0 .. 15 /\ (row = 12 => k # 11)
  BY ByteIs, SMT
<1>2. Instruction(c, opcode) =
        CASE row = 0 -> Row0(c, k) [] row = 1 -> Row1(c, k) [] row = 2 -> Row2(c, k)
          [] row = 3 -> Row3(c, k) [] row = 4 -> Row4(c, k) [] row = 5 -> Row5(c, k)
          [] row = 6 -> Row6(c, k) [] row = 7 -> Row7(c, k) [] row = 8 -> Row8(c, k)
          [] row = 9 -> Row9(c, k) [] row = 10 -> RowA(c, k) [] row = 11 -> RowB(c, k)
          [] row = 12 -> RowC(c, k) [] row = 13 -> RowD(c, k) [] row = 14 -> RowE(c, k)
          [] row = 15 -> RowF(c, k)
  BY DEF Instruction
<1> HIDE DEF k, row
<1>3. Runs(c, Row0(c, k)) /\ Runs(c, Row1(c, k)) /\ Runs(c, Row2(c, k)) /\ Runs(c, Row3(c, k))
      /\ Runs(c, Row4(c, k)) /\ Runs(c, Row5(c, k)) /\ Runs(c, Row6(c, k)) /\ Runs(c, Row7(c, k))
  BY <1>1, RunsRow0, RunsRow1, RunsRow2, RunsRow3, RunsRow4, RunsRow5, RunsRow6, RunsRow7
<1>4. Runs(c, Row8(c, k)) /\ Runs(c, Row9(c, k)) /\ Runs(c, RowA(c, k)) /\ Runs(c, RowB(c, k))
      /\ Runs(c, RowD(c, k)) /\ Runs(c, RowE(c, k)) /\ Runs(c, RowF(c, k))
  BY <1>1, RunsRow8, RunsRow9, RunsRowA, RunsRowB, RunsRowD, RunsRowE, RunsRowF
<1>5. row = 12 => Runs(c, RowC(c, k))
  BY <1>1, RunsRowC
<1> QED BY <1>1, <1>2, <1>3, <1>4, <1>5

-----------------------------------------------------------------------------
(* Fetching.                                                               *)
LEMMA FetchIs ==
  ASSUME NEW c, Good(c)
  PROVE  LET d == FETCH_OPCODE(c)
         IN  /\ Quiet(c, d)
             /\ d.kpc = c.kpc /\ d.mem = c.mem /\ Opcode(d) = Opcode(c) /\ Opcode(c) \in Byte
<1> DEFINE a == INC_KPC(c, 1).kpc
           op == Opcode(c)
           size == size_tab[1 + (op \div 16)][1 + (op % 16)]
           narrow == size = 1 \/ (size = 4 /\ c.psr.m = 1) \/ (size = 5 /\ c.psr.x = 1)
           r == CASE size = 0 -> 0
                  [] narrow -> GET_MEMORY8(c, a)
                  [] size = 3 -> GET_MEMORY24(c, a, InBank)
                  [] OTHER -> GET_MEMORY16(c, a, InBank)
           w == GET_MEMORY24(c, c.kpc + 1, InBank)
           v == IF c.kpc % 256 > 252 THEN r ELSE w
           d == SetOpnd(c, v)
<1>1. Sized(c) /\ c.kpc \in Int /\ c.kpc + 1 \in Int /\ DOMAIN c = Fields
  BY SizedNumbers DEF Good, Sized
<1>2. a \in Int
  BY <1>1, Steps, SizedNumbers, QuietSized
<1>3. get_remaining_operands(c, op) = r
  BY DEF get_remaining_operands
<1>4. FETCH_OPCODE(c) = d
  BY <1>3 DEF FETCH_OPCODE, SetOpnd
<1> HIDE DEF a, size, narrow
<1>5. r \in Address
  <2>1. GET_MEMORY8(c, a) \in Byte /\ GET_MEMORY16(c, a, InBank) \in Word
        /\ GET_MEMORY24(c, a, InBank) \in Address
    BY <1>1, <1>2, ReadByte, ReadWord, ReadLong
  <2>2. 0 \in Address /\ GET_MEMORY8(c, a) \in Address /\ GET_MEMORY16(c, a, InBank) \in Address
    BY <2>1, Parts, AddressIs
  <2> QED BY <2>1, <2>2
<1>6. w \in Address
  BY <1>1, ReadLong
<1> HIDE DEF r, w
<1>7. v \in Address
  BY <1>5, <1>6
<1> HIDE DEF v
<1>8. Quiet(c, d)
  BY <1>1, <1>7, Updates
<1>9. d.kpc = c.kpc /\ d.mem = c.mem
  BY <1>1 DEF SetOpnd, Fields
<1> HIDE DEF d
<1>10. Opcode(d) = Opcode(c)
  BY <1>9 DEF Opcode, GET_MEMORY8
<1>11. Opcode(c) \in Byte
  BY <1>1, ReadByte DEF Opcode
<1> QED BY <1>4, <1>8, <1>9, <1>10, <1>11

LEMMA Executes ==
  ASSUME NEW c, Good(c), c.ret = "none"
  PROVE  /\ Opcode(c) # 203 => Runs(c, Execute(c))
         /\ Opcode(c) = 203 => Waits(c, Execute(c))
<1> DEFINE d == FETCH_OPCODE(c)
<1>1. /\ Quiet(c, d)
      /\ d.kpc = c.kpc /\ d.mem = c.mem /\ Opcode(d) = Opcode(c) /\ Opcode(c) \in Byte
  BY FetchIs
<1>2. Execute(c) = Instruction(d, Opcode(d))
  BY DEF Execute, Dispatch
<1> HIDE DEF d
<1>3. Good(d) /\ d.ret = "none"
  BY <1>1, QuietGood DEF Quiet
<1>4. Opcode(c) # 203 => Runs(d, Instruction(d, Opcode(d)))
  BY <1>1, <1>3, RunsInstruction
<1>5. Opcode(c) = 203 => Waits(d, Instruction(d, Opcode(d)))
  BY <1>1, <1>3, WaitInst
<1>6. \A e : (Runs(d, e) => Runs(c, e)) /\ (Waits(d, e) => Waits(c, e))
  BY <1>1 DEF Quiet, Runs, Waits
<1> QED BY <1>2, <1>4, <1>5, <1>6

-----------------------------------------------------------------------------
(* The states of the processor.                                            *)

\* EngineShape and InterruptsAreSeen hold together: WAI is looked for in
\* memory, so memory has to hold bytes.
Sane ==
  /\ EngineShape /\ InterruptsAreSeen
  /\ \A a \in DOMAIN mem : mem[a] \in Byte
  /\ irq \in BOOLEAN /\ wait \in BOOLEAN /\ inside \in BOOLEAN /\ stop \in BOOLEAN

LEMMA RegsFit ==
  ASSUME NEW c, Sized(c), Shaped(c)
  PROVE  Fitting(Regs(c))
<1> DEFINE r == Regs(c)
<1>1. /\ r.kpc = c.kpc /\ r.acc = c.acc /\ r.xreg = c.xreg /\ r.yreg = c.yreg
      /\ r.stack = c.stack /\ r.psr = c.psr
  BY DEF Regs
<1>2. r \in Registers
  BY DEF Regs, Registers, Sized, Address
<1> HIDE DEF r
<1> QED BY <1>1, <1>2 DEF Fitting, Shaped, r

LEMMA LocalsAre ==
  ASSUME Sane, NEW b \in Nat \ {0}
  PROVE  LET c == Locals(b)
         IN  /\ Sized(c) /\ Shaped(c) /\ (inside => Good(c))
             /\ c.ret = "none" /\ c.irq = irq /\ c.wait = wait /\ c.psr = cpu.psr
             /\ c.kpc = cpu.kpc /\ c.mem = mem
<1> DEFINE c == Locals(b)
<1>1. cpu \in Registers
  BY DEF Sane, EngineShape, Fitting
<1>2. /\ DOMAIN c = Fields
      /\ c.kpc = cpu.kpc /\ c.acc = cpu.acc /\ c.xreg = cpu.xreg /\ c.yreg = cpu.yreg
      /\ c.stack = cpu.stack /\ c.dbank = cpu.dbank /\ c.direct = cpu.direct
      /\ c.psr = cpu.psr /\ c.neg = cpu.neg /\ c.zero = cpu.zero /\ c.acc8 = cpu.acc8
      /\ c.mem = mem /\ c.irq = irq /\ c.wait = wait /\ c.opnd = 0 /\ c.arg = 0
      /\ c.addr_latch = 0 /\ c.burst = b /\ c.ret = "none"
  BY DEF Locals, Fields
<1> HIDE DEF c
<1>3. 0 \in Address
  BY AddressIs
<1>4. Sized(c)
  <2>1. /\ cpu.kpc \in Address /\ cpu.acc \in Word /\ cpu.xreg \in Word /\ cpu.yreg \in Word
        /\ cpu.stack \in Word /\ cpu.dbank \in Byte /\ cpu.direct \in Word
        /\ cpu.psr \in Flags /\ cpu.neg \in Bit /\ cpu.zero \in Bit /\ cpu.acc8 \in Bit
    BY <1>1 DEF Registers, Address
  <2>2. /\ \A a \in DOMAIN mem : mem[a] \in Byte
        /\ irq \in BOOLEAN /\ wait \in BOOLEAN
    BY DEF Sane
  <2> QED BY <1>2, <1>3, <2>1, <2>2 DEF Sized
<1>5. Shaped(c) /\ (inside => c.acc8 = c.psr.m)
  BY <1>2 DEF Shaped, Sane, EngineShape, Fitting
<1> QED BY <1>2, <1>4, <1>5 DEF Good, c

\* What WAI looks at does not depend on the burst.
LEMMA OpcodeIs ==
  ASSUME NEW c, NEW d, c.kpc = d.kpc, c.mem = d.mem
  PROVE  Opcode(c) = Opcode(d)
  BY DEF Opcode, GET_MEMORY8

LEMMA FinishIs ==
  ASSUME NEW c, Sized(c), Shaped(c)
  PROVE  LET d == Finish(c)
         IN  /\ Sized(d) /\ Shaped(d) /\ Gathered(Regs(d)) /\ d.mem = c.mem
             /\ d.kpc = c.kpc /\ d.wait = c.wait
<1> DEFINE p == Folded(c)
           d == SetFlags(c, p)
<1>1. SameModes(c.psr, p) /\ c.neg \in Bit /\ c.zero \in Bit
  BY FoldedIs DEF Sized
<1>2. p.n = c.neg /\ p.z = 1 - c.zero
  <2>1. c.neg % 2 = c.neg
    BY <1>1, BitIs, SMT
  <2> QED BY <2>1 DEF Folded, Sized, Flags
<1>3. Finish(c) = d
  BY DEF Finish, SetFlags
<1> HIDE DEF p
<1>4. /\ Sized(d) /\ Shaped(d) /\ d.psr = p /\ d.neg = c.neg /\ d.zero = c.zero
      /\ d.mem = c.mem /\ d.kpc = c.kpc /\ d.wait = c.wait
  BY <1>1 DEF Sized, Shaped, Fields, SetFlags, SameModes
<1> HIDE DEF d
<1> QED BY <1>2, <1>3, <1>4 DEF Gathered, Regs

-----------------------------------------------------------------------------
(* The interrupt sequence.                                                 *)
LEMMA PushesForIrq ==
  ASSUME NEW c, Sized(c), NEW v \in Int
  PROVE  Quiet(c, IrqPush(c, v)) /\ Sized(IrqPush(c, v))
<1>1. IrqPush(c, v) = PUSH8(c, v)
  BY DEF IrqPush, PUSH8
<1> QED BY <1>1, Pushes, QuietSized

LEMMA VectorIs == ASSUME NEW c PROVE IrqVector(c) \in Int
  BY SMT DEF IrqVector

LEMMA PsrPushed ==
  ASSUME NEW c, Sized(c)
  PROVE  IrqPsr(c) \in Int
<1> DEFINE p == [c.psr EXCEPT !.x = 0]
<1>1. c.psr \in Flags /\ 0 \in Bit
  BY BitIs DEF Sized
<1>2. p \in Flags
  BY <1>1 DEF Flags
<1>3. IrqPsr(c) = IF c.psr.e = 1 THEN PsrByte(p) ELSE PsrByte(c.psr)
  BY DEF IrqPsr
<1> HIDE DEF p
<1> QED BY <1>1, <1>2, <1>3, PsrByteIs

\* What an interrupt leaves: I is set, nothing waits.
Entered(d) == Sized(d) /\ Shaped(d) /\ d.psr.i = 1 /\ ~d.wait

LEMMA EntersHandler ==
  ASSUME NEW c, Sized(c), Shaped(c)
  PROVE  Entered(EnterHandler(c))
<1> DEFINE k == GET_MEMORY16(c, IrqVector(c), Linear)
           p == [c.psr EXCEPT !.i = 1, !.d = 0]
           d == SetKpc(SetWait(SetFlags(c, p), FALSE), k)
<1>1. k \in Address
  BY VectorIs, ReadWord, Parts
<1>2. p \in Flags /\ p.i = 1 /\ p.e = c.psr.e /\ p.m = c.psr.m /\ p.x = c.psr.x
  <2>1. c.psr \in Flags /\ 0 \in Bit /\ 1 \in Bit
    BY BitIs DEF Sized
  <2> QED BY <2>1 DEF Flags
<1>3. EnterHandler(c) = d
  <2> HIDE DEF k
  <2>1. DOMAIN c = Fields
    BY DEF Sized
  <2>2. EnterHandler(c) = [c EXCEPT !.wait = FALSE, !.psr.i = 1, !.psr.d = 0, !.kpc = k]
    BY DEF EnterHandler, k
  <2> QED BY <2>1, <2>2 DEF SetKpc, SetWait, SetFlags, Fields
<1> HIDE DEF k, p
<1>4. Entered(d)
  BY <1>1, <1>2 DEF Entered, Sized, Shaped, Fields, SetKpc, SetWait, SetFlags
<1> QED BY <1>3, <1>4

LEMMA QuietShaped ==
  ASSUME NEW c, NEW d, Shaped(c), Sized(c), Quiet(c, d)
  PROVE  Shaped(d)
  BY DEF Quiet, Shaped

LEMMA TakesIrq ==
  ASSUME NEW c, Sized(c), Shaped(c)
  PROVE  Entered(take_irq(c))
<1> DEFINE pc == IF c.wait THEN c.kpc + 1 ELSE c.kpc
           c1 == IrqBank(c, pc)
           c2 == IrqPush(c1, pc \div 256)
           c3 == IrqPush(c2, pc)
           c4 == IrqPush(c3, IrqPsr(c))
<1>1. pc \in Int /\ pc \div 65536 \in Int /\ pc \div 256 \in Int
  BY SizedNumbers
<1>2. take_irq(c) = InterruptAt(c, pc)
  BY DEF take_irq
<1> HIDE DEF pc
<1>3. Quiet(c, c1) /\ Sized(c1)
  BY <1>1, PushesForIrq, QuietSelf DEF IrqBank
<1>4. take_irq(c) = EnterHandler(c4)
  BY <1>2 DEF InterruptAt
<1> HIDE DEF c1
<1>5. Quiet(c1, c2) /\ Sized(c2)
  BY <1>1, <1>3, PushesForIrq
<1> HIDE DEF c2
<1>6. Quiet(c2, c3) /\ Sized(c3)
  BY <1>1, <1>5, PushesForIrq
<1> HIDE DEF c3
<1>7. Quiet(c3, c4) /\ Sized(c4)
  BY <1>6, PsrPushed, PushesForIrq
<1> HIDE DEF c4
<1>8. Quiet(c, c4)
  BY <1>3, <1>5, <1>6, <1>7, QuietTrans
<1>9. Shaped(c4)
  BY <1>8, QuietShaped
<1> QED BY <1>4, <1>7, <1>9, EntersHandler

-----------------------------------------------------------------------------
(* The steps of the machine.                                               *)

\* What has to be shown of a step: the wait is over, or the opcode is where it
\* was in a record d.
LEMMA SaneAfter ==
  ASSUME Fitting(cpu'), inside' => cpu'.acc8 = cpu'.psr.m, ~inside' => Gathered(cpu'),
         \A a \in DOMAIN mem' : mem'[a] \in Byte,
         irq' \in BOOLEAN, wait' \in BOOLEAN, inside' \in BOOLEAN, stop' \in BOOLEAN,
         inside' /\ ~stop' /\ irq' => cpu'.psr.i = 1,
         NEW d, wait' => d.kpc = cpu'.kpc /\ d.mem = mem' /\ Opcode(d) = 203
  PROVE  Sane'
<1>1. EngineShape'
  BY DEF EngineShape, Fitting, Gathered
<1>2. NoInstrOverIrq'
  BY DEF NoInstrOverIrq
<1>3. WaitsAtWai'
  BY DEF WaitsAtWai, Opcode, GET_MEMORY8, Locals
<1> QED BY <1>1, <1>2, <1>3 DEF Sane, InterruptsAreSeen

LEMMA RunsProg ==
  ASSUME Sane, run_prog
  PROVE  Sane'
<1> DEFINE l == Locals(1)
<1>1. PICK c \in {IF irq /\ cpu.psr.i = 0 THEN take_irq(l) ELSE l} :
        /\ cpu' = [Regs(c) EXCEPT !.acc8 = c.psr.m, !.zero = 1 - c.psr.z, !.neg = c.psr.n]
        /\ mem' = c.mem /\ wait' = c.wait
  BY DEF run_prog
<1>2. ~inside /\ inside' = TRUE /\ stop' = FALSE /\ irq' = irq /\ irq \in BOOLEAN
  BY DEF run_prog, Sane
<1>3. /\ Sized(l) /\ Shaped(l) /\ l.wait = wait /\ l.psr = cpu.psr
      /\ l.kpc = cpu.kpc /\ l.mem = mem
  BY LocalsAre
<1>4. wait => Opcode(l) = 203
  BY DEF Sane, InterruptsAreSeen, WaitsAtWai
<1> HIDE DEF l
<1>5. /\ Sized(c) /\ Shaped(c)
      /\ irq => c.psr.i = 1
      /\ c.wait => Opcode(c) = 203
  <2>1. CASE irq /\ cpu.psr.i = 0
    BY <1>1, <1>3, <2>1, TakesIrq DEF Entered
  <2>2. CASE ~(irq /\ cpu.psr.i = 0)
    <3>1. c = l
      BY <1>1, <2>2
    <3>2. irq => c.psr.i = 1
      BY <1>3, <2>2, <3>1, BitIs, SMT DEF Sized, Flags
    <3> QED BY <1>3, <1>4, <3>1, <3>2
  <2> QED BY <2>1, <2>2
<1> DEFINE r == Regs(c)
<1>6. Fitting(r) /\ r.psr = c.psr /\ r.kpc = c.kpc
  BY <1>5, RegsFit DEF Regs
<1>7. cpu' = [r EXCEPT !.acc8 = c.psr.m, !.zero = 1 - c.psr.z, !.neg = c.psr.n]
  BY <1>1
<1> HIDE DEF r
<1>8. c.psr.m \in Bit /\ 1 - c.psr.z \in Bit /\ c.psr.n \in Bit
  BY <1>5, BitIs DEF Sized, Flags
<1>9. /\ Fitting(cpu') /\ cpu'.acc8 = cpu'.psr.m /\ cpu'.psr = c.psr /\ cpu'.kpc = c.kpc
  BY <1>6, <1>7, <1>8 DEF Fitting, Registers
<1>10. \A a \in DOMAIN mem' : mem'[a] \in Byte
  BY <1>1, <1>5 DEF Sized
<1>11. wait' \in BOOLEAN /\ irq' \in BOOLEAN /\ inside' \in BOOLEAN /\ stop' \in BOOLEAN
  BY <1>1, <1>2, <1>5 DEF Sized
<1>12. wait' => c.kpc = cpu'.kpc /\ c.mem = mem' /\ Opcode(c) = 203
  BY <1>1, <1>5, <1>9
<1>13. inside' /\ ~stop' /\ irq' => cpu'.psr.i = 1
  BY <1>2, <1>5, <1>9
<1> QED BY <1>2, <1>9, <1>10, <1>11, <1>12, <1>13, SaneAfter

LEMMA RunsInstr ==
  ASSUME EngineAssumption, Sane, Instr
  PROVE  Sane'
<1>1. PICK b \in Bursts : \E c \in {Execute(Locals(b))} :
         /\ mem' = c.mem
         /\ wait' = c.wait
         /\ IF c.ret = "none"
            THEN /\ cpu' = Regs(c)
                 /\ inside' = TRUE
                 /\ \E cut \in BOOLEAN :
                      stop' = (cut /\ c.kpc = cpu.kpc /\ Opcode(c) \in {68, 84})
            ELSE /\ cpu' = Regs(Finish(c))
                 /\ inside' = FALSE /\ stop' = FALSE
  BY DEF Instr
<1> DEFINE l == Locals(b)
           d == Execute(l)
<1>2. /\ mem' = d.mem /\ wait' = d.wait
      /\ d.ret = "none" => cpu' = Regs(d) /\ inside' = TRUE /\ stop' \in BOOLEAN
      /\ d.ret # "none" => cpu' = Regs(Finish(d)) /\ inside' = FALSE /\ stop' = FALSE
  BY <1>1
<1>3. inside /\ ~stop /\ irq' = irq /\ irq \in BOOLEAN
  BY DEF Instr, Sane
<1>4. /\ Good(l) /\ l.ret = "none" /\ l.irq = irq /\ l.wait = wait /\ l.psr = cpu.psr
      /\ l.kpc = cpu.kpc /\ l.mem = mem
  <2>1. b \in Nat \ {0}
    BY <1>1 DEF EngineAssumption
  <2> QED BY <1>3, <2>1, LocalsAre
<1>5. (wait => Opcode(l) = 203) /\ (irq => cpu.psr.i = 1)
  <2>1. wait => Opcode(Locals(1)) = 203
    BY DEF Sane, InterruptsAreSeen, WaitsAtWai
  <2>2. Opcode(Locals(1)) = Opcode(l)
    BY DEF Opcode, GET_MEMORY8, Locals
  <2>3. irq => cpu.psr.i = 1
    BY <1>3 DEF Sane, InterruptsAreSeen, NoInstrOverIrq
  <2> QED BY <2>1, <2>2, <2>3
<1> HIDE DEF l
<1>6. /\ Opcode(l) # 203 => Runs(l, d)
      /\ Opcode(l) = 203 => Waits(l, d)
  BY <1>4, Executes
<1> HIDE DEF d
<1>7. /\ Sized(d) /\ Shaped(d)
      /\ d.ret = "none" => d.acc8 = d.psr.m /\ (irq => d.psr.i = 1)
  BY <1>4, <1>5, <1>6 DEF Runs, Waits, Good
<1>8. d.wait => d.ret = "none" /\ Opcode(d) = 203
  <2>1. d.wait => Opcode(l) = 203
    BY <1>4, <1>5, <1>6 DEF Runs
  <2>2. d.wait => d.ret = "none" /\ d.kpc = l.kpc /\ d.mem = l.mem
    BY <1>6, <2>1 DEF Waits
  <2> QED BY <2>1, <2>2, OpcodeIs
<1>9. d.ret = "none" => Fitting(cpu') /\ cpu'.psr = d.psr /\ cpu'.kpc = d.kpc /\ cpu'.acc8 = d.acc8
  BY <1>2, <1>7, RegsFit DEF Regs
<1>10. d.ret # "none" => Fitting(cpu') /\ Gathered(cpu')
  BY <1>2, <1>7, FinishIs, RegsFit
<1>11. Fitting(cpu') /\ (inside' => cpu'.acc8 = cpu'.psr.m) /\ (~inside' => Gathered(cpu'))
  BY <1>2, <1>7, <1>9, <1>10
<1>12. \A a \in DOMAIN mem' : mem'[a] \in Byte
  BY <1>2, <1>7 DEF Sized
<1>13. wait' \in BOOLEAN /\ irq' \in BOOLEAN /\ inside' \in BOOLEAN /\ stop' \in BOOLEAN
  BY <1>2, <1>3, <1>7 DEF Sized
<1>14. inside' /\ ~stop' /\ irq' => cpu'.psr.i = 1
  BY <1>2, <1>3, <1>7, <1>9
<1>15. wait' => d.kpc = cpu'.kpc /\ d.mem = mem' /\ Opcode(d) = 203
  BY <1>2, <1>8, <1>9
<1> QED BY <1>11, <1>12, <1>13, <1>14, <1>15, SaneAfter

LEMMA TimesUp ==
  ASSUME Sane, CyclesUp
  PROVE  Sane'
<1>1. /\ inside /\ stop' = TRUE /\ cpu' = cpu /\ mem' = mem /\ irq' = irq /\ wait' = wait
      /\ inside' = inside
  BY DEF CyclesUp
<1> QED BY <1>1, SaneAfter, OpcodeIs
     DEF Sane, EngineShape, InterruptsAreSeen, WaitsAtWai, Locals

LEMMA LeavesEngine ==
  ASSUME Sane, LeaveEngine
  PROVE  Sane'
<1> DEFINE l == Locals(1)
           d == Finish(l)
<1>1. /\ inside /\ inside' = FALSE /\ stop' = FALSE /\ cpu' = Finish(cpu) /\ mem' = mem
      /\ irq' = irq /\ wait' = wait
  BY DEF LeaveEngine
<1>2. /\ Sized(l) /\ Shaped(l) /\ l.wait = wait /\ l.kpc = cpu.kpc /\ l.mem = mem
  BY LocalsAre
<1>3. wait => Opcode(l) = 203
  BY DEF Sane, InterruptsAreSeen, WaitsAtWai
<1>4. Finish(cpu) = Regs(d)
  <2>1. Folded(l) = Folded(cpu)
    BY DEF Folded, Locals
  <2>2. cpu \in Registers
    BY DEF Sane, EngineShape, Fitting
  <2>3. cpu = Regs(l)
    BY <2>2 DEF Registers, Regs, Locals
  <2>4. Regs(d) = [Regs(l) EXCEPT !.psr = Folded(l)]
    <3>1. DOMAIN l = Fields
      BY <1>2 DEF Sized
    <3> HIDE DEF l
    <3> QED BY <3>1 DEF Regs, Finish, Fields
  <2> QED BY <2>1, <2>3, <2>4 DEF Finish
<1> HIDE DEF l
<1>5. /\ Sized(d) /\ Shaped(d) /\ Gathered(Regs(d)) /\ d.mem = l.mem
      /\ d.kpc = l.kpc /\ d.wait = l.wait
  BY <1>2, FinishIs
<1> HIDE DEF d
<1>6. Fitting(cpu') /\ Gathered(cpu') /\ cpu'.kpc = d.kpc
  BY <1>1, <1>4, <1>5, RegsFit DEF Regs
<1>7. wait' => l.kpc = cpu'.kpc /\ l.mem = mem' /\ Opcode(l) = 203
  BY <1>1, <1>2, <1>3, <1>5, <1>6
<1>8. /\ \A a \in DOMAIN mem' : mem'[a] \in Byte
      /\ irq' \in BOOLEAN /\ wait' \in BOOLEAN /\ inside' \in BOOLEAN /\ stop' \in BOOLEAN
  BY <1>1 DEF Sane
<1> QED BY <1>1, <1>6, <1>7, <1>8, SaneAfter

LEMMA TellsIrq ==
  ASSUME Sane, add_irq \/ remove_irq
  PROVE  Sane'
<1>1. /\ cpu' = cpu /\ mem' = mem /\ wait' = wait /\ inside' = inside
      /\ irq' \in BOOLEAN /\ stop' \in BOOLEAN
      /\ irq' => stop' = inside
  BY DEF add_irq, remove_irq, Sane
<1> QED BY <1>1, SaneAfter DEF Sane, EngineShape, InterruptsAreSeen, WaitsAtWai, Locals

LEMMA Resets ==
  ASSUME Sane, do_reset
  PROVE  Sane'
<1> DEFINE l == Locals(1)
           k == GET_MEMORY16(l, 65532, Linear)
           s == 256 + (cpu.stack % 256)
           x == cpu.xreg % 256
           y == cpu.yreg % 256
           p == [cpu.psr EXCEPT !.e = 1, !.m = 1, !.x = 1, !.i = 1, !.d = 0]
<1>1. /\ ~inside /\ inside' = inside /\ mem' = mem /\ stop' = stop /\ wait' = FALSE /\ irq' = FALSE
  BY DEF do_reset
<1>2. cpu \in Registers /\ Gathered(cpu)
  BY <1>1 DEF Sane, EngineShape, Fitting
<1>3. cpu' = [cpu EXCEPT !.psr = p, !.stack = s, !.dbank = 0, !.direct = 0,
                         !.xreg = x, !.yreg = y, !.kpc = k]
  <2>1. cpu' = [cpu EXCEPT
               !.psr.e = 1, !.psr.m = 1, !.psr.x = 1, !.psr.i = 1, !.psr.d = 0,
               !.stack = s, !.dbank = 0, !.direct = 0,
               !.xreg = x, !.yreg = y, !.kpc = k]
    BY DEF do_reset
  <2> HIDE DEF k, s, x, y
  <2> QED BY <1>2, <2>1, ZenonT(40) DEF Registers
<1>4. k \in Address
  <2>1. Sized(l)
    BY LocalsAre
  <2> HIDE DEF l
  <2> QED BY <2>1, ReadWord, Parts
<1>5. cpu.psr \in Flags /\ cpu.stack \in Int /\ cpu.xreg \in Int /\ cpu.yreg \in Int
  BY <1>2, Numbers DEF Registers
<1>6. p \in Flags /\ p.e = 1 /\ p.m = 1 /\ p.x = 1 /\ p.n = cpu.psr.n /\ p.z = cpu.psr.z
  <2>1. 0 \in Bit /\ 1 \in Bit
    BY BitIs
  <2> QED BY <1>5, <2>1 DEF Flags
<1>7. s \in 256 .. 511 /\ s \in Word /\ x \in Byte /\ y \in Byte /\ x \in Word /\ y \in Word
  <2>1. s \in 256 .. 511 /\ s \in Word
    BY <1>5, Wraps
  <2>2. x \in Byte /\ y \in Byte
    BY <1>5, Wraps
  <2>3. x \in Word /\ y \in Word
    BY <2>2, Parts
  <2> QED BY <2>1, <2>2, <2>3
<1>8. 0 \in Byte /\ 0 \in Word /\ x < 256 /\ y < 256
  BY <1>7, ByteIs, WordIs
<1> HIDE DEF k, s, x, y, p
<1>9. cpu' \in Registers
  BY <1>2, <1>3, <1>4, <1>6, <1>7, <1>8 DEF Registers, Address
<1>10. /\ cpu'.psr = p /\ cpu'.stack = s /\ cpu'.xreg = x /\ cpu'.yreg = y
       /\ cpu'.neg = cpu.neg /\ cpu'.zero = cpu.zero
  BY <1>2, <1>3 DEF Registers
<1>11. Fitting(cpu') /\ Gathered(cpu')
  BY <1>2, <1>6, <1>7, <1>8, <1>9, <1>10 DEF Fitting, Gathered
<1>12. /\ \A a \in DOMAIN mem' : mem'[a] \in Byte
       /\ irq' \in BOOLEAN /\ wait' \in BOOLEAN /\ inside' \in BOOLEAN /\ stop' \in BOOLEAN
  BY <1>1 DEF Sane
<1> QED BY <1>1, <1>11, <1>12, SaneAfter

LEMMA SaneInit ==
  ASSUME EngineAssumption, NEW s \in InitCpu, cpu = s.cpu, mem = s.mem,
         irq = FALSE, wait = FALSE, inside = FALSE, stop = FALSE
  PROVE  Sane
<1>1. Fitting(cpu) /\ Gathered(cpu) /\ \A a \in DOMAIN mem : mem[a] \in Byte
  BY DEF EngineAssumption
<1> QED BY <1>1 DEF Sane, EngineShape, InterruptsAreSeen, NoInstrOverIrq, WaitsAtWai

LEMMA SaneStep ==
  ASSUME EngineAssumption, Sane, [Next]_vars
  PROVE  Sane'
<1>1. CASE run_prog
  BY <1>1, RunsProg
<1>2. CASE Instr
  BY <1>2, RunsInstr
<1>3. CASE CyclesUp
  BY <1>3, TimesUp
<1>4. CASE LeaveEngine
  BY <1>4, LeavesEngine
<1>5. CASE add_irq \/ remove_irq
  BY <1>5, TellsIrq
<1>6. CASE do_reset
  BY <1>6, Resets
<1>7. CASE UNCHANGED vars
  <2>1. cpu' = cpu /\ mem' = mem /\ irq' = irq /\ wait' = wait /\ inside' = inside /\ stop' = stop
    BY <1>7 DEF vars
  <2> QED BY <2>1 DEF Sane, EngineShape, InterruptsAreSeen, NoInstrOverIrq, WaitsAtWai, Opcode,
                      GET_MEMORY8, Locals, Fitting, Gathered
<1> QED BY <1>1, <1>2, <1>3, <1>4, <1>5, <1>6, <1>7 DEF Next

LEMMA MachineIsSane == MachineSpec => []Sane
<1>1. MachineInit => Sane
  BY EngineAssumption, SaneInit DEF MachineInit
<1>2. Sane /\ [MachineNext]_machineVars => Sane'
  <2> SUFFICES ASSUME Sane, [MachineNext]_machineVars
               PROVE  Sane'
    OBVIOUS
  <2>1. [Next]_vars
    BY DEF MachineNext, machineVars
  <2> QED BY <2>1, EngineAssumption, SaneStep
<1> QED BY <1>1, <1>2, PTL DEF MachineSpec

\* Whatever program runs, from whatever memory, and whenever interrupts and
\* resets come: the registers keep the widths the modes give them, the copy of
\* the engine's loop that runs is the one of the accumulator's width, and
\* outside of the engine psr is complete.
THEOREM MachineKeepsShape == MachineSpec => []EngineShape
<1>1. Sane => EngineShape
  BY DEF Sane
<1> QED BY <1>1, MachineIsSane, PTL

\* No instruction runs while an interrupt is pending and allowed, and a
\* processor that waits is still at its WAI.
THEOREM MachineSeesInterrupts == MachineSpec => []InterruptsAreSeen
<1>1. Sane => InterruptsAreSeen
  BY DEF Sane
<1> QED BY <1>1, MachineIsSane, PTL

\* The adder.

\* The sum of two bytes and a carry: what is left, the carry out, and bit 7.
LEMMA ByteSums ==
  ASSUME NEW a \in Int, 0 <= a, a < 256, NEW q \in Int, 0 <= q, q < 256,
         NEW c \in Int, 0 <= c, c < 2
  PROVE  LET s == a + q + c
         IN  /\ s = (s % 256) + (IF s >= 256 THEN 256 ELSE 0)
             /\ s % 256 >= 0 /\ s % 256 < 256
             /\ (s \div 128) % 2 = ((s % 256) \div 128) % 2
             /\ (a \div 128) % 2 = IF a >= 128 THEN 1 ELSE 0
             /\ (q \div 128) % 2 = IF q >= 128 THEN 1 ELSE 0
  BY SMT

\* do_adc_sbc's test for overflow, against the sum of the signed values.
LEMMA ByteSigns ==
  ASSUME NEW a \in Int, 0 <= a, a < 256, NEW q \in Int, 0 <= q, q < 256,
         NEW c \in Int, 0 <= c, c < 2, NEW s, s = a + q + c
  PROVE  LET sg(x) == IF (x \div 128) % 2 = 1 THEN x - 256 ELSE x
         IN  ((a \div 128) % 2 = (q \div 128) % 2 /\ (s \div 128) % 2 # (q \div 128) % 2)
               <=> sg(a) + sg(q) + c # sg(s % 256)
  BY SMT

LEMMA WordSigns ==
  ASSUME NEW a \in Int, 0 <= a, a < 65536, NEW q \in Int, 0 <= q, q < 65536,
         NEW c \in Int, 0 <= c, c < 2, NEW s, s = a + q + c
  PROVE  LET sg(x) == IF (x \div 32768) % 2 = 1 THEN x - 65536 ELSE x
         IN  ((a \div 32768) % 2 = (q \div 32768) % 2 /\ (s \div 32768) % 2 # (q \div 32768) % 2)
               <=> sg(a) + sg(q) + c # sg(s % 65536)
  BY SMT

\* The byte sum holds two digits t1, t0 of decimal value val, but for its carry.
TwoDigits(sum, val) ==
  \E t1, t0 \in 0 .. 9, k \in 0 .. 1 :
     sum = 256 * k + 16 * t1 + t0 /\ 10 * t1 + t0 + 100 * k = val
AddsTo(sum, a1, a0, b1, b0, c) == TwoDigits(sum, 10 * a1 + a0 + 10 * b1 + b0 + c)
SubtractsTo(sum, a1, a0, b1, b0, c) ==
  TwoDigits(sum, 10 * a1 + a0 - (10 * b1 + b0) - (1 - c) + 100)

\* A sum that splits into two digits and a carry is such a sum.
LEMMA TwoDigitsAre ==
  ASSUME NEW t1 \in 0 .. 9, NEW t0 \in 0 .. 9, NEW k \in 0 .. 1, NEW sum, NEW val,
         sum = 256 * k + 16 * t1 + t0, 10 * t1 + t0 + 100 * k = val
  PROVE  TwoDigits(sum, val)
BY DEF TwoDigits

LEMMA DecimalAdds ==
  ASSUME NEW a1 \in 0 .. 9, NEW a0 \in 0 .. 9, NEW b1 \in 0 .. 9, NEW b0 \in 0 .. 9,
         NEW c \in 0 .. 1, NEW r,
         r = LET digit == a0 + b0 + c
                 fixed == IF digit >= 10 THEN digit - 10 + 16 ELSE digit
                 both == 16 * a1 + 16 * b1 + fixed
             IN  IF both >= 160 THEN both + 96 ELSE both
  PROVE  AddsTo(r, a1, a0, b1, b0, c)
<1> DEFINE d == a0 + b0 + c
           k0 == IF d >= 10 THEN 1 ELSE 0
           t0 == d - 10 * k0
           e == a1 + b1 + k0
           k == IF e >= 10 THEN 1 ELSE 0
           t1 == e - 10 * k
<1>1. t0 \in 0 .. 9 /\ t1 \in 0 .. 9 /\ k \in 0 .. 1
  BY SMT
<1>2. 10 * t1 + t0 + 100 * k = 10 * a1 + a0 + 10 * b1 + b0 + c
  BY SMT
<1>3. LET digit == a0 + b0 + c
          fixed == IF digit >= 10 THEN digit - 10 + 16 ELSE digit
          both == 16 * a1 + 16 * b1 + fixed
          sum == IF both >= 160 THEN both + 96 ELSE both
      IN  r = sum /\ sum = 256 * k + 16 * t1 + t0
  BY SMT
<1>4. r = 256 * k + 16 * t1 + t0
  BY <1>3
<1> HIDE DEF d, k0, t0, e, k, t1
<1> QED BY <1>1, <1>2, <1>4, TwoDigitsAre DEF AddsTo

LEMMA DecimalSubtracts ==
  ASSUME NEW a1 \in 0 .. 9, NEW a0 \in 0 .. 9, NEW b1 \in 0 .. 9, NEW b0 \in 0 .. 9,
         NEW c \in 0 .. 1, NEW r,
         r = LET digit == a0 + (15 - b0) + c
                 fixed == IF digit < 16 THEN (digit - 6) % 16 ELSE digit
                 both == 16 * a1 + 16 * (15 - b1) + fixed
             IN  IF both < 256 THEN (both + 160) % 256 ELSE both
  PROVE  SubtractsTo(r, a1, a0, b1, b0, c)
<1> DEFINE d == a0 - b0 - 1 + c
           k0 == IF d >= 0 THEN 1 ELSE 0
           t0 == d + 10 - 10 * k0
           e == a1 - b1 - 1 + k0
           k == IF e >= 0 THEN 1 ELSE 0
           t1 == e + 10 - 10 * k
<1>1. t0 \in 0 .. 9 /\ t1 \in 0 .. 9 /\ k \in 0 .. 1
  BY SMT
<1>2. 10 * t1 + t0 + 100 * k = 10 * a1 + a0 - (10 * b1 + b0) - (1 - c) + 100
  BY SMT
<1>3. LET digit == a0 + (15 - b0) + c
          fixed == IF digit < 16 THEN (digit - 6) % 16 ELSE digit
          both == 16 * a1 + 16 * (15 - b1) + fixed
          sum == IF both < 256 THEN (both + 160) % 256 ELSE both
      IN  r = sum /\ sum = 256 * k + 16 * t1 + t0
  BY SMT
<1>4. r = 256 * k + 16 * t1 + t0
  BY <1>3
<1> HIDE DEF d, k0, t0, e, k, t1
<1> QED BY <1>1, <1>2, <1>4, TwoDigitsAre DEF SubtractsTo

\* The parts of a sum of 8 bits.
LEMMA ByteResult ==
  ASSUME NEW p \in Flags, NEW a, NEW b, NEW sum \in Int, NEW v
  PROVE  LET r == Result(p, a, b, sum, v, 8)
         IN  /\ r.val = sum % 256 /\ r.psr.d = p.d
             /\ r.psr.n = BitOf(sum, 7) /\ r.psr.c = (IF sum >= 256 THEN 1 ELSE 0)
             /\ r.psr.z = (IF sum % 256 = 0 THEN 1 ELSE 0)
             /\ r.psr.v = IF BitOf(a, 7) = BitOf(b, 7) THEN v ELSE 0
<1> DEFINE same == BitOf(a, 7) = BitOf(b, 7)
           nn == BitOf(sum, 7)
           vv == IF same THEN v ELSE 0
           zz == IF sum % 256 = 0 THEN 1 ELSE 0
           cc == IF sum >= 256 THEN 1 ELSE 0
           q == [p EXCEPT !.n = nn, !.v = vv, !.z = zz, !.c = cc]
<1>1. 8 - 1 = 7 /\ 2^8 = 256
  BY Powers
<1>2. Result(p, a, b, sum, v, 8) = [psr |-> q, val |-> sum % 256]
  BY <1>1 DEF Result, SumFlags, Flag
<1> HIDE DEF same, nn, vv, zz, cc
<1>3. q.d = p.d /\ q.n = nn /\ q.v = vv /\ q.z = zz /\ q.c = cc
  BY DEF Flags
<1> HIDE DEF q
<1> QED BY <1>2, <1>3 DEF same, nn, vv, zz, cc

\* Two's complement of 8 bits.
SignedByte(x) == IF (x \div 128) % 2 = 1 THEN x - 256 ELSE x

LEMMA SignedByteIs == \A x \in Int : Signed(x, 8) = SignedByte(x) /\ SignedByte(x) \in Int
<1>1. 8 - 1 = 7 /\ 2^8 = 256 /\ 2^7 = 128
  BY Powers
<1> QED BY <1>1 DEF Signed, SignedByte, BitOf

LEMMA ByteBits == \A x \in Int : BitOf(x, 7) = (x \div 128) % 2
  BY Powers DEF BitOf

\* What SumIsRight asks of a binary sum of bytes.
LEMMA BinaryBytes ==
  ASSUME NEW p \in Flags, p.d = 0, NEW a \in Byte, NEW b \in Byte, NEW sub \in BOOLEAN
  PROVE  SumIsRight(a, b, p, sub, do_adc_sbc8(a, b, p, sub), 8)
<1> DEFINE q == Addend(b, sub, 8)
           c == p.c
           s == a + q + c
           o == Flag(BitOf(s, 7) # BitOf(q, 7))
           r == do_adc_sbc8(a, b, p, sub)
<1>1. a \in Int /\ 0 <= a /\ a < 256 /\ b \in Int /\ 0 <= b /\ b < 256
      /\ c \in Int /\ 0 <= c /\ c < 2
  BY ByteIs, BitIs DEF Flags
<1>2. q = (IF sub THEN 255 - b ELSE b) /\ q \in Int /\ 0 <= q /\ q < 256 /\ s \in Int
  BY <1>1, Powers DEF Addend
<1>3. r = Result(p, a, q, s, o, 8)
  <2>1. r = Add8(a, q, p, sub)
    BY DEF do_adc_sbc8
  <2>2. Add8(a, q, p, sub) = Binary(p, a, q, s, 8)
    BY DEF Add8
  <2>3. 8 - 1 = 7
    OBVIOUS
  <2> HIDE DEF r, q, s
  <2> QED BY <2>1, <2>2, <2>3 DEF Binary
<1> HIDE DEF r, q, o
<1>4. /\ r.val = s % 256 /\ r.psr.d = p.d /\ r.psr.n = BitOf(s, 7)
      /\ r.psr.c = (IF s >= 256 THEN 1 ELSE 0) /\ r.psr.z = (IF s % 256 = 0 THEN 1 ELSE 0)
      /\ r.psr.v = IF BitOf(a, 7) = BitOf(q, 7) THEN o ELSE 0
  <2> HIDE DEF s
  <2> QED BY <1>2, <1>3, ByteResult
<1>5. s = (s % 256) + (IF s >= 256 THEN 256 ELSE 0) /\ s % 256 \in Int
      /\ (s \div 128) % 2 = ((s % 256) \div 128) % 2
  BY <1>1, <1>2, ByteSums
<1>6. s = a + q + c
  OBVIOUS
<1> HIDE DEF s, c
<1>7. WithCarry(r.val, r.psr, sub, 2^8) = Exact(a, b, p, sub)
  <2> DEFINE k == r.psr.c
             v == r.val
  <2>1. k = (IF s >= 256 THEN 1 ELSE 0) /\ v = s % 256 /\ k \in Int /\ v \in Int
    BY <1>4, <1>5 DEF Flag
  <2> HIDE DEF k, v
  <2>2. (IF sub THEN v - 256 * (1 - k) ELSE v + 256 * k)
          = (IF sub THEN a - b - (1 - c) ELSE a + b + c)
    BY <1>1, <1>2, <1>5, <1>6, <2>1
  <2>3. WithCarry(r.val, r.psr, sub, 2^8) = IF sub THEN v - 256 * (1 - k) ELSE v + 256 * k
    BY Powers DEF WithCarry, Borrow, k, v
  <2>4. Exact(a, b, p, sub) = IF sub THEN a - b - (1 - c) ELSE a + b + c
    BY DEF Exact, Borrow, c
  <2> QED BY <2>2, <2>3, <2>4
<1>8. (r.psr.v = 1) <=> (a \div 128) % 2 = (q \div 128) % 2 /\ (s \div 128) % 2 # (q \div 128) % 2
  BY <1>1, <1>2, <1>4, ByteBits DEF Flag, o
<1>9. (r.psr.v = 1) <=> SignedByte(a) + SignedByte(q) + c # SignedByte(s % 256)
  BY <1>1, <1>2, <1>6, <1>8, ByteSigns DEF SignedByte
<1>10. SignedByte(a) + SignedByte(q) + c = Exact(SignedByte(a), SignedByte(b), p, sub)
  <2> DEFINE x == SignedByte(a)
             y == SignedByte(b)
             z == SignedByte(q)
  <2>1. x \in Int /\ y \in Int
    BY <1>1, SignedByteIs
  <2>2. z = IF sub THEN -1 - y ELSE y
    BY <1>1, <1>2 DEF SignedByte
  <2> HIDE DEF x, y, z
  <2>3. x + z + c = IF sub THEN x - y - (1 - c) ELSE x + y + c
    BY <1>1, <2>1, <2>2
  <2> QED BY <2>3 DEF Exact, Borrow, c, x, y, z
<1>11. r.psr.n = BitOf(r.val, 7)
  BY <1>2, <1>4, <1>5, ByteBits
<1>12. (r.psr.z = 1) <=> (r.val = 0)
  BY <1>4 DEF Flag
<1>13. Signed(a, 8) = SignedByte(a) /\ Signed(b, 8) = SignedByte(b)
       /\ Signed(r.val, 8) = SignedByte(s % 256)
  BY <1>1, <1>4, <1>5, SignedByteIs
<1>14. 8 - 1 = 7
  OBVIOUS
<1>15. (r.psr.v = 1) = (Exact(Signed(a, 8), Signed(b, 8), p, sub) # Signed(r.val, 8))
  BY <1>9, <1>10, <1>13
<1>16. SumIsRight(a, b, p, sub, r, 8)
  BY <1>7, <1>11, <1>12, <1>14, <1>15 DEF SumIsRight
<1> QED BY <1>16 DEF r

LEMMA WordSums ==
  ASSUME NEW a \in Int, 0 <= a, a < 65536, NEW q \in Int, 0 <= q, q < 65536,
         NEW c \in Int, 0 <= c, c < 2
  PROVE  LET s == a + q + c
         IN  /\ s = (s % 65536) + (IF s >= 65536 THEN 65536 ELSE 0)
             /\ s % 65536 >= 0 /\ s % 65536 < 65536
             /\ (s \div 32768) % 2 = ((s % 65536) \div 32768) % 2
             /\ (a \div 32768) % 2 = IF a >= 32768 THEN 1 ELSE 0
             /\ (q \div 32768) % 2 = IF q >= 32768 THEN 1 ELSE 0
  BY SMT

\* The parts of a sum of 16 bits.
LEMMA WordResult ==
  ASSUME NEW p \in Flags, NEW a, NEW b, NEW sum \in Int, NEW v
  PROVE  LET r == Result(p, a, b, sum, v, 16)
         IN  /\ r.val = sum % 65536 /\ r.psr.d = p.d
             /\ r.psr.n = BitOf(sum, 15) /\ r.psr.c = (IF sum >= 65536 THEN 1 ELSE 0)
             /\ r.psr.z = (IF sum % 65536 = 0 THEN 1 ELSE 0)
             /\ r.psr.v = IF BitOf(a, 15) = BitOf(b, 15) THEN v ELSE 0
<1> DEFINE same == BitOf(a, 15) = BitOf(b, 15)
           nn == BitOf(sum, 15)
           vv == IF same THEN v ELSE 0
           zz == IF sum % 65536 = 0 THEN 1 ELSE 0
           cc == IF sum >= 65536 THEN 1 ELSE 0
           q == [p EXCEPT !.n = nn, !.v = vv, !.z = zz, !.c = cc]
<1>1. 16 - 1 = 15 /\ 2^16 = 65536
  BY Powers
<1>2. Result(p, a, b, sum, v, 16) = [psr |-> q, val |-> sum % 65536]
  BY <1>1 DEF Result, SumFlags, Flag
<1> HIDE DEF same, nn, vv, zz, cc
<1>3. q.d = p.d /\ q.n = nn /\ q.v = vv /\ q.z = zz /\ q.c = cc
  BY DEF Flags
<1> HIDE DEF q
<1> QED BY <1>2, <1>3 DEF same, nn, vv, zz, cc

\* Two's complement of 16 bits.
SignedWord(x) == IF (x \div 32768) % 2 = 1 THEN x - 65536 ELSE x

LEMMA SignedWordIs == \A x \in Int : Signed(x, 16) = SignedWord(x) /\ SignedWord(x) \in Int
<1>1. 16 - 1 = 15 /\ 2^16 = 65536 /\ 2^15 = 32768
  BY Powers
<1> QED BY <1>1 DEF Signed, SignedWord, BitOf

LEMMA WordBits == \A x \in Int : BitOf(x, 15) = (x \div 32768) % 2
  BY Powers DEF BitOf

\* What SumIsRight asks of a binary sum of words.
LEMMA BinaryWords ==
  ASSUME NEW p \in Flags, p.d = 0, NEW a \in Word, NEW b \in Word, NEW sub \in BOOLEAN
  PROVE  SumIsRight(a, b, p, sub, do_adc_sbc16(a, b, p, sub), 16)
<1> DEFINE q == Addend(b, sub, 16)
           c == p.c
           s == a + q + c
           o == Flag(BitOf(s, 15) # BitOf(q, 15))
           r == do_adc_sbc16(a, b, p, sub)
<1>1. a \in Int /\ 0 <= a /\ a < 65536 /\ b \in Int /\ 0 <= b /\ b < 65536
      /\ c \in Int /\ 0 <= c /\ c < 2
  BY WordIs, BitIs DEF Flags
<1>2. q = (IF sub THEN 65535 - b ELSE b) /\ q \in Int /\ 0 <= q /\ q < 65536 /\ s \in Int
  BY <1>1, Powers DEF Addend
<1>3. r = Result(p, a, q, s, o, 16)
  <2>1. r = Binary(p, a, q, s, 16)
    BY DEF do_adc_sbc16
  <2>3. 16 - 1 = 15
    OBVIOUS
  <2> HIDE DEF r, q, s
  <2> QED BY <2>1, <2>3 DEF Binary
<1> HIDE DEF r, q, o
<1>4. /\ r.val = s % 65536 /\ r.psr.d = p.d /\ r.psr.n = BitOf(s, 15)
      /\ r.psr.c = (IF s >= 65536 THEN 1 ELSE 0) /\ r.psr.z = (IF s % 65536 = 0 THEN 1 ELSE 0)
      /\ r.psr.v = IF BitOf(a, 15) = BitOf(q, 15) THEN o ELSE 0
  <2> HIDE DEF s
  <2> QED BY <1>2, <1>3, WordResult
<1>5. s = (s % 65536) + (IF s >= 65536 THEN 65536 ELSE 0) /\ s % 65536 \in Int
      /\ (s \div 32768) % 2 = ((s % 65536) \div 32768) % 2
  <2>1. s = (s % 65536) + (IF s >= 65536 THEN 65536 ELSE 0)
        /\ (s \div 32768) % 2 = ((s % 65536) \div 32768) % 2
    BY <1>1, <1>2, WordSums, SMTT(60)
  <2>2. s % 65536 \in Int
    <3> HIDE DEF s
    <3> QED BY <1>2, SMT
  <2> QED BY <2>1, <2>2
<1>6. s = a + q + c
  OBVIOUS
<1> HIDE DEF s, c
<1>7. WithCarry(r.val, r.psr, sub, 2^16) = Exact(a, b, p, sub)
  <2> DEFINE k == r.psr.c
             v == r.val
  <2>1. k = (IF s >= 65536 THEN 1 ELSE 0) /\ v = s % 65536 /\ k \in Int /\ v \in Int
    BY <1>4, <1>5 DEF Flag
  <2> HIDE DEF k, v
  <2>2. (IF sub THEN v - 65536 * (1 - k) ELSE v + 65536 * k)
          = (IF sub THEN a - b - (1 - c) ELSE a + b + c)
    BY <1>1, <1>2, <1>5, <1>6, <2>1
  <2>3. WithCarry(r.val, r.psr, sub, 2^16) = IF sub THEN v - 65536 * (1 - k) ELSE v + 65536 * k
    BY Powers DEF WithCarry, Borrow, k, v
  <2>4. Exact(a, b, p, sub) = IF sub THEN a - b - (1 - c) ELSE a + b + c
    BY DEF Exact, Borrow, c
  <2> QED BY <2>2, <2>3, <2>4
<1>8. (r.psr.v = 1) <=> (a \div 32768) % 2 = (q \div 32768) % 2 /\ (s \div 32768) % 2 # (q \div 32768) % 2
  BY <1>1, <1>2, <1>4, WordBits DEF Flag, o
<1>9. (r.psr.v = 1) <=> SignedWord(a) + SignedWord(q) + c # SignedWord(s % 65536)
  BY <1>1, <1>2, <1>6, <1>8, WordSigns DEF SignedWord
<1>10. SignedWord(a) + SignedWord(q) + c = Exact(SignedWord(a), SignedWord(b), p, sub)
  <2> DEFINE x == SignedWord(a)
             y == SignedWord(b)
             z == SignedWord(q)
  <2>1. x \in Int /\ y \in Int
    BY <1>1, SignedWordIs
  <2>2. z = IF sub THEN -1 - y ELSE y
    BY <1>1, <1>2 DEF SignedWord
  <2> HIDE DEF x, y, z
  <2>3. x + z + c = IF sub THEN x - y - (1 - c) ELSE x + y + c
    BY <1>1, <2>1, <2>2
  <2> QED BY <2>3 DEF Exact, Borrow, c, x, y, z
<1>11. r.psr.n = BitOf(r.val, 15)
  BY <1>2, <1>4, <1>5, WordBits
<1>12. (r.psr.z = 1) <=> (r.val = 0)
  BY <1>4 DEF Flag
<1>13. Signed(a, 16) = SignedWord(a) /\ Signed(b, 16) = SignedWord(b)
       /\ Signed(r.val, 16) = SignedWord(s % 65536)
  BY <1>1, <1>4, <1>5, SignedWordIs
<1>14. 16 - 1 = 15
  OBVIOUS
<1>15. (r.psr.v = 1) = (Exact(Signed(a, 16), Signed(b, 16), p, sub) # Signed(r.val, 16))
  BY <1>9, <1>10, <1>13
<1>16. SumIsRight(a, b, p, sub, r, 16)
  BY <1>7, <1>11, <1>12, <1>14, <1>15 DEF SumIsRight
<1> QED BY <1>16 DEF r

\* A carry out of a digit is put above it.
LEMMA CarryBit == \A x \in 0 .. 9 : BitOr(x, 16) = x + 16
<1>1. \A u \in 0 .. 15 : And4[<<u, 0>>] = 0 /\ And4[<<0, u>>] = 0
  <2> SUFFICES ASSUME NEW u \in 0 .. 15
               PROVE  And4[<<u, 0>>] = 0 /\ And4[<<0, u>>] = 0
    OBVIOUS
  <2>1. \A k \in {1, 2, 4, 8} : InBoth(<<u, 0>>, k) = 0 /\ InBoth(<<0, u>>, k) = 0
    <3>1. \A k \in {1, 2, 4, 8} : (0 \div k) % 2 = 0 /\ (u \div k) % 2 \in Int
      BY SMT
    <3>2. \A v \in Int : v * 0 = 0 /\ 0 * v = 0
      BY SMT
    <3> QED BY <3>1, <3>2 DEF InBoth
  <2>2. <<u, 0>> \in (0 .. 15) \X (0 .. 15) /\ <<0, u>> \in (0 .. 15) \X (0 .. 15)
    BY SMT
  <2> QED BY <2>1, <2>2 DEF And4
<1> SUFFICES ASSUME NEW x \in 0 .. 9
             PROVE  BitOr(x, 16) = x + 16
  OBVIOUS
<1>2. /\ x % 16 = x /\ x \in 0 .. 15 /\ 16 % 16 = 0
      /\ (x \div 16) % 16 = 0 /\ (16 \div 16) % 16 = 1
      /\ (x \div 256) % 16 = 0 /\ (16 \div 256) % 16 = 0
      /\ (x \div 4096) % 16 = 0 /\ (16 \div 4096) % 16 = 0 /\ 1 \in 0 .. 15 /\ 0 \in 0 .. 15
  BY SMT
<1>3. BitAnd(x, 16) = 0
  BY <1>1, <1>2 DEF BitAnd
<1> QED BY <1>3 DEF BitOr

\* The decimal byte that is added, digit by digit.
DigitsAre(sum, a1, a0, b1, b0, c, sub) ==
  IF sub THEN SubtractsTo(sum, a1, a0, b1, b0, c) ELSE AddsTo(sum, a1, a0, b1, b0, c)

LEMMA DecimalTerms ==
  ASSUME NEW a1 \in 0 .. 9, NEW a0 \in 0 .. 9, NEW b1 \in 0 .. 9, NEW b0 \in 0 .. 9,
         NEW c \in 0 .. 1, NEW sub \in BOOLEAN, NEW sum,
         sum = LET a == 16 * a1 + a0
                   b == Addend(16 * b1 + b0, sub, 8)
                   both == HighDigits(a, b) + DigitFixed((a % 16) + (b % 16) + c, sub)
               IN  BothFixed(both, sub)
  PROVE  DigitsAre(sum, a1, a0, b1, b0, c, sub)
<1> DEFINE a == 16 * a1 + a0
           b == Addend(16 * b1 + b0, sub, 8)
           digit == (a % 16) + (b % 16) + c
           both == HighDigits(a, b) + DigitFixed(digit, sub)
<1>1. a % 16 = a0 /\ a - (a % 16) = 16 * a1 /\ a \in Int
  BY SMT
<1>2. CASE ~sub
  <2>1. b = 16 * b1 + b0
    BY <1>2 DEF Addend
  <2>2. b % 16 = b0 /\ b - (b % 16) = 16 * b1 /\ b \in Int
    BY <2>1, SMT
  <2> HIDE DEF a, b
  <2>3. digit = a0 + b0 + c /\ HighDigits(a, b) = 16 * a1 + 16 * b1
    BY <1>1, <2>2 DEF HighDigits
  <2> DEFINE e == a0 + b0 + c
             f == IF e >= 10 THEN e - 10 + 16 ELSE e
             g == 16 * a1 + 16 * b1 + f
             h == IF g >= 160 THEN g + 96 ELSE g
  <2>4. e \in Int /\ (e >= 10 => e - 10 \in 0 .. 9)
    BY SMT
  <2>5. DigitFixed(digit, sub) = f
    <3> HIDE DEF digit, e
    <3>1. e >= 10 => BitOr(e - 10, 16) = e - 10 + 16
      BY <2>4, CarryBit
    <3> QED BY <1>2, <2>3, <2>4, <3>1 DEF DigitFixed, e
  <2>6. f \in Int
    <3> HIDE DEF e
    <3> QED BY <2>4
  <2> HIDE DEF digit
  <2>7. both = g /\ both \in Int
    <3> HIDE DEF f
    <3> QED BY <2>3, <2>5, <2>6
  <2>8. BothFixed(both, sub) = h
    <3> HIDE DEF both, g
    <3> QED BY <1>2, <2>7 DEF BothFixed
  <2>9. AddsTo(h, a1, a0, b1, b0, c)
    BY DecimalAdds
  <2> HIDE DEF both, h
  <2> QED BY <1>2, <2>7, <2>8, <2>9 DEF both, digit, a, b, DigitsAre
<1>3. CASE sub
  <2>1. b = 255 - (16 * b1 + b0)
    BY <1>3, Powers DEF Addend
  <2>2. b % 16 = 15 - b0 /\ b - (b % 16) = 16 * (15 - b1) /\ b \in Int
    BY <2>1, SMT
  <2> HIDE DEF a, b
  <2>3. digit = a0 + (15 - b0) + c /\ HighDigits(a, b) = 16 * a1 + 16 * (15 - b1)
    BY <1>1, <2>2 DEF HighDigits
  <2> DEFINE e == a0 + (15 - b0) + c
             f == IF e < 16 THEN (e - 6) % 16 ELSE e
             g == 16 * a1 + 16 * (15 - b1) + f
             h == IF g < 256 THEN (g + 160) % 256 ELSE g
  <2>4. e \in Int
    BY SMT
  <2>5. DigitFixed(digit, sub) = f
    <3> HIDE DEF digit, e
    <3> QED BY <1>3, <2>3, <2>4 DEF DigitFixed, e
  <2>6. f \in Int
    <3> HIDE DEF e
    <3> QED BY <2>4
  <2> HIDE DEF digit
  <2>7. both = g /\ both \in Int
    <3> HIDE DEF f
    <3> QED BY <2>3, <2>5, <2>6
  <2>8. BothFixed(both, sub) = h
    <3> HIDE DEF both, g
    <3> QED BY <1>3, <2>7 DEF BothFixed
  <2>9. SubtractsTo(h, a1, a0, b1, b0, c)
    BY DecimalSubtracts, ZenonT(40)
  <2> HIDE DEF both, h
  <2> QED BY <1>3, <2>7, <2>8, <2>9 DEF both, digit, a, b, DigitsAre
<1> QED BY <1>2, <1>3

\* Two decimal digits with two: two decimal digits, and the carry.
DigitPair(x, x1, x0) == x = 16 * x1 + x0
PairsAdd(r, a1, a0, b1, b0, p, sub) ==
  \E t1, t0 \in 0 .. 9 :
     /\ DigitPair(r.val, t1, t0) /\ r.psr.d = p.d
     /\ WithCarry(10 * t1 + t0, r.psr, sub, 100) = Exact(10 * a1 + a0, 10 * b1 + b0, p, sub)

LEMMA DecimalBytes ==
  ASSUME NEW p \in Flags, p.d # 0, NEW sub \in BOOLEAN,
         NEW a1 \in 0 .. 9, NEW a0 \in 0 .. 9, NEW b1 \in 0 .. 9, NEW b0 \in 0 .. 9,
         NEW u, DigitPair(u, a1, a0), NEW v, DigitPair(v, b1, b0)
  PROVE  PairsAdd(do_adc_sbc8(u, v, p, sub), a1, a0, b1, b0, p, sub)
<1> DEFINE a == 16 * a1 + a0
           b == Addend(16 * b1 + b0, sub, 8)
           both == HighDigits(a, b) + DigitFixed((a % 16) + (b % 16) + p.c, sub)
           sum == BothFixed(both, sub)
           o == Flag(BitOf(both, 8) # BitOf(both, 7))
           r == do_adc_sbc8(a, 16 * b1 + b0, p, sub)
<1>1. p.c \in 0 .. 1
  BY DEF Flags, Bit
<1>2. DigitsAre(sum, a1, a0, b1, b0, p.c, sub)
  BY <1>1, DecimalTerms
<1> HIDE DEF sum
<1>3. PICK t1 \in 0 .. 9, t0 \in 0 .. 9, k \in 0 .. 1 :
        /\ sum = 256 * k + 16 * t1 + t0
        /\ 10 * t1 + t0 + 100 * k
             = IF sub THEN 10 * a1 + a0 - (10 * b1 + b0) - (1 - p.c) + 100
               ELSE 10 * a1 + a0 + 10 * b1 + b0 + p.c
  BY <1>2 DEF DigitsAre, AddsTo, SubtractsTo, TwoDigits
<1>4. r = Result(p, a, b, sum, o, 8)
  BY DEF do_adc_sbc8, Add8, Decimal8, sum
<1> HIDE DEF r, o, b, a
<1>5. sum \in Int /\ sum % 256 = 16 * t1 + t0 /\ (IF sum >= 256 THEN 1 ELSE 0) = k
  BY <1>3, SMT
<1>6. r.val = 16 * t1 + t0 /\ r.psr.c = k /\ r.psr.d = p.d
  <2>1. /\ r.val = sum % 256 /\ r.psr.d = p.d
        /\ r.psr.c = IF sum >= 256 THEN 1 ELSE 0
    <3>1. sum \in Int
      BY <1>5
    <3>2. LET q == Result(p, a, b, sum, o, 8)
          IN  /\ q.val = sum % 256 /\ q.psr.d = p.d
              /\ q.psr.c = IF sum >= 256 THEN 1 ELSE 0
      BY <3>1, ByteResult
    <3> QED BY <1>4, <3>2
  <2> QED BY <1>5, <2>1
<1>7. WithCarry(10 * t1 + t0, r.psr, sub, 100) = Exact(10 * a1 + a0, 10 * b1 + b0, p, sub)
  <2> DEFINE x == 10 * t1 + t0
             y == 10 * a1 + a0
             z == 10 * b1 + b0
             c == p.c
  <2>1. x \in Int /\ y \in Int /\ z \in Int /\ k \in Int /\ c \in Int
    BY <1>1, SMT
  <2>2. x + 100 * k = IF sub THEN y - z - (1 - c) + 100 ELSE y + z + c
    BY <1>1, <1>3, SMT
  <2> HIDE DEF x, y, z, c
  <2>3. (IF sub THEN x - 100 * (1 - k) ELSE x + 100 * k)
          = IF sub THEN y - z - (1 - c) ELSE y + z + c
    BY <2>1, <2>2, SMT
  <2> QED BY <1>6, <2>3 DEF WithCarry, Exact, Borrow, x, y, z, c
<1>8. u = a /\ v = 16 * b1 + b0
  BY DEF DigitPair, a
<1> QED BY <1>6, <1>7, <1>8 DEF r, PairsAdd, DigitPair

LEMMA TenPowers ==
  /\ 16^0 = 1 /\ 16^1 = 16 /\ 16^2 = 256 /\ 16^3 = 4096 /\ 10^2 = 100 /\ 10^4 = 10000
  /\ (8 \div 4) = 2 /\ (16 \div 4) = 4
  BY SMT

\* The digits of a byte, and of a word.
LEMMA ByteDigits ==
  ASSUME NEW x \in Byte
  PROVE  (\A n \in Digits(x, 8) : n < 10)
           <=> \E x1, x0 \in 0 .. 9 : DigitPair(x, x1, x0) /\ Decimal(x) = 10 * x1 + x0
<1> DEFINE d0 == (x \div 1) % 16
           d1 == (x \div 16) % 16
<1>1. x \in Int /\ 0 <= x /\ x < 256
  BY ByteIs
<1>2. (\A n \in Digits(x, 8) : n < 10) <=> d0 < 10 /\ d1 < 10
  <2>1. \A k : k \in 0 .. (8 \div 4) - 1 <=> k = 0 \/ k = 1
    BY SMT
  <2>2. (x \div 16^0) % 16 = d0 /\ (x \div 16^1) % 16 = d1
    BY TenPowers
  <2> HIDE DEF d0, d1
  <2>3. \A n : n \in Digits(x, 8) <=> \E k : (k = 0 \/ k = 1) /\ n = (x \div 16^k) % 16
    BY <2>1 DEF Digits
  <2> QED BY <2>2, <2>3, Zenon
<1>3. d0 \in 0 .. 15 /\ d1 \in 0 .. 15 /\ x = 16 * d1 + d0 /\ Decimal(x) = 10 * d1 + d0
  BY <1>1, SMT DEF Decimal
<1>4. ASSUME d0 < 10, d1 < 10
      PROVE  \E x1, x0 \in 0 .. 9 : x = 16 * x1 + x0 /\ Decimal(x) = 10 * x1 + x0
  <2>1. d0 \in 0 .. 9 /\ d1 \in 0 .. 9
    BY <1>3, <1>4, SMT
  <2> HIDE DEF d0, d1
  <2> QED BY <1>3, <2>1, Zenon
<1>5. ASSUME NEW x1 \in 0 .. 9, NEW x0 \in 0 .. 9, x = 16 * x1 + x0
      PROVE  d0 < 10 /\ d1 < 10
  BY <1>5, SMT
<1> HIDE DEF d0, d1
<1> QED BY <1>2, <1>4, <1>5 DEF DigitPair

FourDigits(x, x3, x2, x1, x0) ==
  /\ x3 \in 0 .. 9 /\ x2 \in 0 .. 9 /\ x1 \in 0 .. 9 /\ x0 \in 0 .. 9
  /\ x = 256 * (16 * x3 + x2) + (16 * x1 + x0)

LEMMA WordDigits ==
  ASSUME NEW x \in Word
  PROVE  (\A n \in Digits(x, 16) : n < 10)
           <=> \E x3, x2, x1, x0 : FourDigits(x, x3, x2, x1, x0)
<1> DEFINE d0 == (x \div 1) % 16
           d1 == (x \div 16) % 16
           d2 == (x \div 256) % 16
           d3 == (x \div 4096) % 16
<1>1. x \in Int /\ 0 <= x /\ x < 65536
  BY WordIs
<1>2. (\A n \in Digits(x, 16) : n < 10) <=> d0 < 10 /\ d1 < 10 /\ d2 < 10 /\ d3 < 10
  <2>1. \A k : k \in 0 .. (16 \div 4) - 1 <=> k = 0 \/ k = 1 \/ k = 2 \/ k = 3
    BY SMT
  <2>2. (x \div 16^0) % 16 = d0 /\ (x \div 16^1) % 16 = d1
        /\ (x \div 16^2) % 16 = d2 /\ (x \div 16^3) % 16 = d3
    BY TenPowers
  <2> HIDE DEF d0, d1, d2, d3
  <2>3. \A n : n \in Digits(x, 16)
                 <=> \E k : (k = 0 \/ k = 1 \/ k = 2 \/ k = 3) /\ n = (x \div 16^k) % 16
    BY <2>1 DEF Digits
  <2> QED BY <2>2, <2>3, Zenon
<1>3. /\ d0 \in 0 .. 15 /\ d1 \in 0 .. 15 /\ d2 \in 0 .. 15 /\ d3 \in 0 .. 15
      /\ x = 256 * (16 * d3 + d2) + (16 * d1 + d0)
  BY <1>1, SMT
<1>4. ASSUME d0 < 10, d1 < 10, d2 < 10, d3 < 10
      PROVE  FourDigits(x, d3, d2, d1, d0)
  <2>1. d0 \in 0 .. 9 /\ d1 \in 0 .. 9 /\ d2 \in 0 .. 9 /\ d3 \in 0 .. 9
    BY <1>3, <1>4, SMT
  <2> HIDE DEF d0, d1, d2, d3
  <2> QED BY <1>3, <2>1 DEF FourDigits
<1>5. ASSUME NEW x3, NEW x2, NEW x1, NEW x0, FourDigits(x, x3, x2, x1, x0)
      PROVE  d0 < 10 /\ d1 < 10 /\ d2 < 10 /\ d3 < 10
  BY <1>5, SMT DEF FourDigits
<1> HIDE DEF d0, d1, d2, d3
<1> QED BY <1>2, <1>4, <1>5

LEMMA TwoDigitByte ==
  ASSUME NEW x1 \in 0 .. 9, NEW x0 \in 0 .. 9, NEW x, DigitPair(x, x1, x0)
  PROVE  x \in Byte /\ x \in Int /\ 0 <= x /\ x < 256 /\ Decimal(x) = 10 * x1 + x0
<1>1. x \in Int /\ 0 <= x /\ x < 256
  BY SMT DEF DigitPair
<1>2. Decimal(x) = 10 * x1 + x0
  BY SMT DEF Decimal, DigitPair
<1> QED BY <1>1, <1>2, ByteIs

LEMMA FourDigitWord ==
  ASSUME NEW x, NEW x3, NEW x2, NEW x1, NEW x0, FourDigits(x, x3, x2, x1, x0)
  PROVE  /\ x \in Word /\ x \in Int /\ 0 <= x /\ x < 65536
         /\ Decimal(x) = 100 * (10 * x3 + x2) + (10 * x1 + x0)
         /\ x % 256 = 16 * x1 + x0 /\ x \div 256 = 16 * x3 + x2
<1> DEFINE l == 16 * x1 + x0
           h == 16 * x3 + x2
<1>0. x3 \in 0 .. 9 /\ x2 \in 0 .. 9 /\ x1 \in 0 .. 9 /\ x0 \in 0 .. 9
  BY DEF FourDigits
<1>1. l \in Int /\ 0 <= l /\ l < 256 /\ h \in Int /\ 0 <= h /\ h < 256
  BY <1>0, SMT
<1>2. /\ l % 16 = x0 /\ (l \div 16) % 16 = x1
      /\ h % 16 = x2 /\ h \div 16 = x3
  BY <1>0, SMT
<1>3. x = 256 * h + l
  BY DEF FourDigits
<1> HIDE DEF l, h
<1>4. x \in Int /\ 0 <= x /\ x < 65536 /\ x % 256 = l /\ x \div 256 = h
  BY <1>1, <1>3, SMT
<1>5. /\ x % 16 = l % 16 /\ (x \div 16) % 16 = (l \div 16) % 16
      /\ (x \div 256) % 16 = h % 16 /\ x \div 4096 = h \div 16
  BY <1>1, <1>3, SMT
<1>6. Decimal(x) = 100 * (10 * x3 + x2) + (10 * x1 + x0)
  BY <1>0, <1>2, <1>5, SMT DEF Decimal
<1> QED BY <1>4, <1>6, WordIs DEF l, h

\* What SumIsRight asks of a decimal sum of bytes.
LEMMA DecimalByteSums ==
  ASSUME NEW p \in Flags, p.d # 0, NEW a \in Byte, NEW b \in Byte, NEW sub \in BOOLEAN
  PROVE  SumIsRight(a, b, p, sub, do_adc_sbc8(a, b, p, sub), 8)
<1> DEFINE r == do_adc_sbc8(a, b, p, sub)
<1> SUFFICES ASSUME \A n \in Digits(a, 8) \cup Digits(b, 8) : n < 10
             PROVE  /\ \A n \in Digits(r.val, 8) : n < 10
                    /\ WithCarry(Decimal(r.val), r.psr, sub, 10^(8 \div 4))
                         = Exact(Decimal(a), Decimal(b), p, sub)
  BY DEF SumIsRight
<1>1. PICK a1 \in 0 .. 9, a0 \in 0 .. 9 : DigitPair(a, a1, a0) /\ Decimal(a) = 10 * a1 + a0
  BY ByteDigits
<1>2. PICK b1 \in 0 .. 9, b0 \in 0 .. 9 : DigitPair(b, b1, b0) /\ Decimal(b) = 10 * b1 + b0
  BY ByteDigits
<1>3. PICK t1 \in 0 .. 9, t0 \in 0 .. 9 :
        /\ DigitPair(r.val, t1, t0)
        /\ WithCarry(10 * t1 + t0, r.psr, sub, 100) = Exact(10 * a1 + a0, 10 * b1 + b0, p, sub)
  <2>1. PairsAdd(r, a1, a0, b1, b0, p, sub)
    BY <1>1, <1>2, DecimalBytes
  <2> QED BY <2>1 DEF PairsAdd
<1> HIDE DEF r
<1>4. r.val \in Byte /\ Decimal(r.val) = 10 * t1 + t0
  BY <1>3, TwoDigitByte
<1>5. \A n \in Digits(r.val, 8) : n < 10
  BY <1>3, <1>4, ByteDigits
<1>6. 10^(8 \div 4) = 100
  BY TenPowers
<1> QED BY <1>1, <1>2, <1>3, <1>4, <1>5, <1>6

\* What it asks of a decimal sum of words: the carry of the low bytes goes to
\* the high ones.
LEMMA DecimalWordSums ==
  ASSUME NEW p \in Flags, p.d # 0, NEW a \in Word, NEW b \in Word, NEW sub \in BOOLEAN
  PROVE  SumIsRight(a, b, p, sub, do_adc_sbc16(a, b, p, sub), 16)
<1> DEFINE r == do_adc_sbc16(a, b, p, sub)
           q == Addend(b, sub, 16)
           low == do_adc_sbc8(a % 256, b % 256, p, sub)
           high == do_adc_sbc8(a \div 256, b \div 256, low.psr, sub)
           sum == high.val * 256 + low.val + 65536 * high.psr.c
<1> SUFFICES ASSUME \A n \in Digits(a, 16) \cup Digits(b, 16) : n < 10
             PROVE  /\ \A n \in Digits(r.val, 16) : n < 10
                    /\ WithCarry(Decimal(r.val), r.psr, sub, 10^(16 \div 4))
                         = Exact(Decimal(a), Decimal(b), p, sub)
  BY DEF SumIsRight
<1>1. PICK a3, a2, a1, a0 : FourDigits(a, a3, a2, a1, a0)
  BY WordDigits
<1>2. PICK b3, b2, b1, b0 : FourDigits(b, b3, b2, b1, b0)
  BY WordDigits
<1>3. /\ a3 \in 0 .. 9 /\ a2 \in 0 .. 9 /\ a1 \in 0 .. 9 /\ a0 \in 0 .. 9
       /\ b3 \in 0 .. 9 /\ b2 \in 0 .. 9 /\ b1 \in 0 .. 9 /\ b0 \in 0 .. 9
  BY <1>1, <1>2 DEF FourDigits
<1>4. /\ Decimal(a) = 100 * (10 * a3 + a2) + (10 * a1 + a0)
       /\ Decimal(b) = 100 * (10 * b3 + b2) + (10 * b1 + b0)
  BY <1>1, <1>2, FourDigitWord
<1>5. /\ DigitPair(a % 256, a1, a0) /\ DigitPair(a \div 256, a3, a2)
      /\ DigitPair(b % 256, b1, b0) /\ DigitPair(b \div 256, b3, b2)
  <2>1. /\ a % 256 = 16 * a1 + a0 /\ a \div 256 = 16 * a3 + a2
    BY <1>1, FourDigitWord
  <2>2. /\ b % 256 = 16 * b1 + b0 /\ b \div 256 = 16 * b3 + b2
    BY <1>2, FourDigitWord
  <2> QED BY <2>1, <2>2 DEF DigitPair
<1>6. a % 256 \in Int /\ b % 256 \in Int /\ a \div 256 \in Int /\ b \div 256 \in Int
  BY Parts, Numbers
<1>7. Totals(p, low)
  BY <1>6, AddsBytes
<1>8. low.psr \in Flags
  BY <1>7 DEF Totals, SameModes
<1>9. Totals(low.psr, high)
  BY <1>6, <1>8, AddsBytes
<1>10. r = Result(p, a, q, sum, high.psr.v, 16)
  BY DEF do_adc_sbc16, Decimal16, Joined
<1>11. PICK l1 \in 0 .. 9, l0 \in 0 .. 9 :
        /\ DigitPair(low.val, l1, l0) /\ low.psr.d = p.d
        /\ WithCarry(10 * l1 + l0, low.psr, sub, 100) = Exact(10 * a1 + a0, 10 * b1 + b0, p, sub)
  <2>1. PairsAdd(low, a1, a0, b1, b0, p, sub)
    BY <1>5, <1>3, DecimalBytes, ZenonT(40)
  <2> QED BY <2>1 DEF PairsAdd
<1> HIDE DEF low
<1>12. PICK h1 \in 0 .. 9, h0 \in 0 .. 9 :
         /\ DigitPair(high.val, h1, h0)
         /\ WithCarry(10 * h1 + h0, high.psr, sub, 100)
              = Exact(10 * a3 + a2, 10 * b3 + b2, low.psr, sub)
  <2>1. PairsAdd(high, a3, a2, b3, b2, low.psr, sub)
    BY <1>5, <1>8, <1>11, <1>3, DecimalBytes, ZenonT(40)
  <2> QED BY <2>1 DEF PairsAdd
<1> HIDE DEF high
<1> DEFINE k == high.psr.c
           j == low.psr.c
           c == p.c
           v == 256 * (16 * h1 + h0) + (16 * l1 + l0)
<1>13. k \in Int /\ 0 <= k /\ k < 2 /\ j \in Int /\ c \in Int
  BY <1>8, <1>9, BitIs DEF Flags, Totals, SameModes
<1>14. v \in Word /\ v \in Int /\ 0 <= v /\ v < 65536
       /\ Decimal(v) = 100 * (10 * h1 + h0) + (10 * l1 + l0)
  <2>1. FourDigits(v, h1, h0, l1, l0)
    BY DEF FourDigits
  <2> HIDE DEF v
  <2> QED BY <2>1, FourDigitWord
<1>15. sum = v + 65536 * k /\ sum \in Int
  <2> HIDE DEF k
  <2> QED BY <1>11, <1>12, <1>13 DEF k, DigitPair
<1> HIDE DEF r, sum, q, k, v
<1>16. sum % 65536 = v /\ (IF sum >= 65536 THEN 1 ELSE 0) = k
  BY <1>13, <1>14, <1>15, SMT
<1>17. r.val = v /\ r.psr.c = k
  <2>1. r.val = sum % 65536 /\ r.psr.c = IF sum >= 65536 THEN 1 ELSE 0
    BY <1>10, <1>15, WordResult
  <2> QED BY <1>16, <2>1
<1>18. \A n \in Digits(r.val, 16) : n < 10
  <2>1. FourDigits(v, h1, h0, l1, l0)
    BY DEF v, FourDigits
  <2> QED BY <1>14, <1>17, <2>1, WordDigits
<1>19. WithCarry(Decimal(v), r.psr, sub, 10000) = Exact(Decimal(a), Decimal(b), p, sub)
  <2> DEFINE dl == 10 * l1 + l0
             dh == 10 * h1 + h0
             al == 10 * a1 + a0
             ah == 10 * a3 + a2
             bl == 10 * b1 + b0
             bh == 10 * b3 + b2
  <2>1. dl \in Int /\ dh \in Int /\ al \in Int /\ ah \in Int /\ bl \in Int /\ bh \in Int
    BY <1>3, SMT
  <2> HIDE DEF dl, dh, al, ah, bl, bh
  <2>2. (IF sub THEN dl - 100 * (1 - j) ELSE dl + 100 * j)
          = IF sub THEN al - bl - (1 - c) ELSE al + bl + c
    BY <1>11 DEF WithCarry, Exact, Borrow, dl, al, bl
  <2>3. (IF sub THEN dh - 100 * (1 - k) ELSE dh + 100 * k)
          = IF sub THEN ah - bh - (1 - j) ELSE ah + bh + j
    BY <1>12 DEF WithCarry, Exact, Borrow, k, dh, ah, bh
  <2> HIDE DEF j, c
  <2>4. (IF sub THEN (100 * dh + dl) - 10000 * (1 - k) ELSE (100 * dh + dl) + 10000 * k)
          = IF sub THEN (100 * ah + al) - (100 * bh + bl) - (1 - c)
            ELSE (100 * ah + al) + (100 * bh + bl) + c
    BY <1>13, <2>1, <2>2, <2>3, SMT
  <2>5. Decimal(v) = 100 * dh + dl /\ Decimal(a) = 100 * ah + al /\ Decimal(b) = 100 * bh + bl
    BY <1>14, <1>4 DEF dl, dh, al, ah, bl, bh
  <2> QED BY <1>17, <2>4, <2>5 DEF WithCarry, Exact, Borrow, c
<1>20. 10^(16 \div 4) = 10000
  BY TenPowers
<1> QED BY <1>17, <1>18, <1>19, <1>20

\* do_adc_sbc8 and do_adc_sbc16 are right for every accumulator and operand, in
\* both modes, whatever the carry.
THEOREM AddsRight ==
  ASSUME NEW p \in Flags, NEW sub \in BOOLEAN
  PROVE  /\ \A a, b \in Byte : SumIsRight(a, b, p, sub, do_adc_sbc8(a, b, p, sub), 8)
         /\ \A a, b \in Word : SumIsRight(a, b, p, sub, do_adc_sbc16(a, b, p, sub), 16)
  BY BinaryBytes, BinaryWords, DecimalByteSums, DecimalWordSums

LEMMA StatusIs ==
  ASSUME NEW c \in Bit, NEW d \in Bit
  PROVE  Status(0, 0, 0, d, c) \in Flags
  BY BitIs DEF Status, Flags

\* ADC and SBC add and subtract: for every accumulator, operand, carry and both
\* widths, the value and the flags are those of the sum or the difference, and
\* in decimal those of the decimal ones.
THEOREM MachineAdds == MachineSpec => []AdderIsRight
<1>1. Sane => AdderIsRight
  <2> SUFFICES ASSUME Sane, NEW c \in Bit, NEW d \in Bit, NEW sub \in BOOLEAN
               PROVE  LET p == Status(0, 0, 0, d, c)
                      IN  /\ \A b \in Byte :
                               SumIsRight(cpu.acc % 256, b, p, sub,
                                          do_adc_sbc8(cpu.acc % 256, b, p, sub), 8)
                          /\ \A b \in {0, 1, 153, 255, 2457, 4660, 32767, 32768, 39321, 65535} :
                               SumIsRight(cpu.acc, b, p, sub, do_adc_sbc16(cpu.acc, b, p, sub), 16)
    BY DEF AdderIsRight
  <2> DEFINE p == Status(0, 0, 0, d, c)
  <2>1. p \in Flags
    BY StatusIs
  <2> HIDE DEF p
  <2>2. cpu.acc \in Word
    BY DEF Sane, EngineShape, Fitting, Registers
  <2>3. cpu.acc % 256 \in Byte
    BY <2>2, Parts
  <2>4. \A b \in {0, 1, 153, 255, 2457, 4660, 32767, 32768, 39321, 65535} : b \in Word
    BY WordIs, SMT
  <2> QED BY <2>1, <2>2, <2>3, <2>4, AddsRight DEF p
<1> QED BY <1>1, MachineIsSane, PTL
-----------------------------------------------------------------------------
(* What is pushed is pulled again.                                         *)

\* d is c but for the program counter, the stack, memory and arg.
Beside(c, d) ==
  /\ Sized(d)
  /\ d.acc = c.acc /\ d.xreg = c.xreg /\ d.yreg = c.yreg /\ d.dbank = c.dbank
  /\ d.direct = c.direct /\ d.psr = c.psr /\ d.neg = c.neg /\ d.zero = c.zero
  /\ d.acc8 = c.acc8 /\ d.irq = c.irq /\ d.wait = c.wait /\ d.ret = c.ret

\* It is still at its instruction, with the stack at s.
Stacked(c, d, s) == Beside(c, d) /\ d.kpc = c.kpc /\ d.stack = s

\* The stack is where the mode allows it.
Standing(c) == Sized(c) /\ InPage(c, c.stack) = c.stack

LEMMA BesideTrans ==
  ASSUME NEW c, NEW d, NEW e, Beside(c, d), Beside(d, e)
  PROVE  Beside(c, e)
  BY DEF Beside

LEMMA StackedTrans ==
  ASSUME NEW c, NEW d, NEW e, NEW s, NEW t, Stacked(c, d, s), Stacked(d, e, t)
  PROVE  Stacked(c, e, t)
  BY BesideTrans DEF Stacked

LEMMA Standing256 ==
  ASSUME NEW c, Sized(c), Shaped(c)
  PROVE  Standing(c)
<1>1. c.stack \in Int /\ 0 <= c.stack /\ c.stack < 65536
  BY WordIs DEF Sized
<1>2. c.psr.e = 1 => 256 <= c.stack /\ c.stack < 512
  BY PageIs DEF Shaped
<1>3. InPage(c, c.stack) = c.stack
  BY <1>1, <1>2, SMT DEF InPage
<1> QED BY <1>3 DEF Standing

LEMMA PageAdds ==
  ASSUME NEW c, NEW s \in Int, NEW k \in Int
  PROVE  InPage(c, InPage(c, s) + k) = InPage(c, s + k)
  BY SMT DEF InPage

\* Four bytes of the stack do not meet.
LEMMA PageApart ==
  ASSUME NEW c, NEW s \in Int, NEW j \in 0 .. 3, NEW k \in 0 .. 3, j # k
  PROVE  InPage(c, s - j) # InPage(c, s - k)
  BY SMT DEF InPage

LEMMA SamePage ==
  ASSUME NEW c, NEW d, c.psr = d.psr, NEW s
  PROVE  InPage(c, s) = InPage(d, s)
  BY DEF InPage

LEMMA SameBytes ==
  ASSUME NEW c, NEW d, c.mem = d.mem, NEW a
  PROVE  GET_MEMORY8(c, a) = GET_MEMORY8(d, a)
  BY DEF GET_MEMORY8

LEMMA StackedStands ==
  ASSUME NEW c, NEW d, NEW s \in Int, Sized(c), Stacked(c, d, InPage(c, s))
  PROVE  Standing(d)
<1>1. d.psr = c.psr /\ d.stack = InPage(c, s) /\ Sized(d)
  BY DEF Stacked, Beside
<1>2. InPage(c, s) \in Int
  BY PageKept, Numbers
<1>3. InPage(d, d.stack) = InPage(c, InPage(c, s) + 0)
  BY <1>1, <1>2, SamePage
<1> QED BY <1>1, <1>3, PageAdds DEF Standing

\* Setting the stack, the program counter or what was pulled.
LEMMA SetsStack ==
  ASSUME NEW c, Sized(c), NEW s \in Word
  PROVE  Stacked(c, SetStack(c, s), s) /\ SetStack(c, s).mem = c.mem
         /\ SetStack(c, s).arg = c.arg
  BY DEF Sized, Fields, SetStack, Stacked, Beside

LEMMA SetsKpc ==
  ASSUME NEW c, Sized(c), NEW a \in Address
  PROVE  Beside(c, SetKpc(c, a)) /\ SetKpc(c, a).kpc = a /\ SetKpc(c, a).stack = c.stack
         /\ SetKpc(c, a).mem = c.mem /\ SetKpc(c, a).arg = c.arg
  BY DEF Sized, Fields, SetKpc, Beside

LEMMA SetsPull ==
  ASSUME NEW c, Sized(c), NEW s \in Word, NEW v \in Int
  PROVE  Stacked(c, SetPull(c, s, v), s) /\ SetPull(c, s, v).mem = c.mem
         /\ SetPull(c, s, v).arg = v
  BY DEF Sized, Fields, SetPull, Stacked, Beside

\* Steps of the program counter leave all else.
LEMMA StepsBeside ==
  ASSUME NEW c, Sized(c), NEW n \in Int
  PROVE  LET d == INC_KPC(c, n)
         IN  /\ Beside(c, d) /\ d.stack = c.stack /\ d.mem = c.mem /\ d.arg = c.arg
             /\ d.kpc = Bank(c.kpc) + ((c.kpc + n) % 65536)
<1> DEFINE v == Bank(c.kpc) + ((c.kpc + n) % 65536)
<1>1. c.kpc \in Address /\ c.kpc + n \in Int
  BY SizedNumbers DEF Sized
<1>2. v \in Address
  BY <1>1, BankIs, Wraps
<1>3. INC_KPC(c, n) = SetKpc(c, v)
  BY DEF INC_KPC, SetKpc
<1> HIDE DEF v
<1>4. Beside(c, SetKpc(c, v)) /\ SetKpc(c, v).kpc = v /\ SetKpc(c, v).stack = c.stack
      /\ SetKpc(c, v).mem = c.mem /\ SetKpc(c, v).arg = c.arg
  BY <1>2, SetsKpc
<1> QED BY <1>3, <1>4 DEF v

\* A byte that is written is read there, and changes no other.
LEMMA WritesByte ==
  ASSUME NEW c, Sized(c), NEW a \in Word, NEW v \in Int
  PROVE  LET d == SET_MEMORY8(c, a, v)
         IN  /\ Stacked(c, d, c.stack) /\ d.arg = c.arg
             /\ GET_MEMORY8(d, a) = v % 256
             /\ \A b \in Word : b # a => GET_MEMORY8(d, b) = GET_MEMORY8(c, b)
<1> DEFINE n == Poke(c.mem, a, v % 256)
           d == [c EXCEPT !.mem = n]
<1>1. \A b \in Word : b % 16777216 = b
  BY WordIs, SMT
<1>2. SET_MEMORY8(c, a, v) = d
  BY <1>1 DEF SET_MEMORY8
<1>3. v % 256 \in Byte
  BY Wraps
<1>4. \A x \in DOMAIN n : n[x] \in Byte
  BY <1>3, ZenonT(20) DEF Sized, Poke
<1>5. a \in DOMAIN n /\ n[a] = v % 256
      /\ \A b : b # a => (b \in DOMAIN n <=> b \in DOMAIN c.mem) /\ (b \in DOMAIN n => n[b] = c.mem[b])
  BY ZenonT(20) DEF Poke
<1> HIDE DEF n
<1>6. Stacked(c, d, c.stack) /\ d.arg = c.arg /\ d.mem = n
  BY <1>4 DEF Sized, Fields, Stacked, Beside
<1> HIDE DEF d
<1>7. GET_MEMORY8(d, a) = v % 256
  BY <1>1, <1>5, <1>6 DEF GET_MEMORY8
<1>8. ASSUME NEW b \in Word, b # a PROVE GET_MEMORY8(d, b) = GET_MEMORY8(c, b)
  BY <1>1, <1>5, <1>6, <1>8 DEF GET_MEMORY8
<1> QED BY <1>2, <1>6, <1>7, <1>8

\* The bytes of a long at and below the top of the stack.
Below(c, d, k) == GET_MEMORY8(d, InPage(c, c.stack - k))

LEMMA PageWord ==
  ASSUME NEW c, Sized(c), NEW s \in Int
  PROVE  InPage(c, s) \in Word /\ InPage(c, s) \in Int
  BY PageKept, Numbers

\* d is c with byte v on its stack.
Topped(c, d, v) ==
  /\ Stacked(c, d, InPage(c, c.stack - 1)) /\ Standing(d)
  /\ GET_MEMORY8(d, c.stack) = v % 256
  /\ \A b \in Word : b # c.stack => GET_MEMORY8(d, b) = GET_MEMORY8(c, b)

LEMMA PushesTop ==
  ASSUME NEW c, Standing(c), NEW v \in Int
  PROVE  Topped(c, PUSH8(c, v), v)
<1> DEFINE m == SET_MEMORY8(c, c.stack, v)
           s == InPage(c, c.stack - 1)
           d == SetStack(m, s)
<1>1. c.stack \in Word /\ c.stack \in Int /\ Sized(c)
  BY Numbers DEF Standing, Sized
<1>2. PUSH8(c, v) = d
  BY DEF PUSH8, SetStack
<1>3. s \in Word
  BY <1>1, PageWord
<1>4. Stacked(c, m, c.stack) /\ GET_MEMORY8(m, c.stack) = v % 256
      /\ \A b \in Word : b # c.stack => GET_MEMORY8(m, b) = GET_MEMORY8(c, b)
  BY <1>1, WritesByte
<1> HIDE DEF m, s
<1>5. Stacked(m, d, s) /\ d.mem = m.mem
  BY <1>3, <1>4, SetsStack DEF Stacked, Beside
<1> HIDE DEF d
<1>6. Stacked(c, d, s)
  BY <1>4, <1>5, StackedTrans
<1>7. \A b : GET_MEMORY8(d, b) = GET_MEMORY8(m, b)
  BY <1>5, SameBytes
<1>8. Standing(d)
  BY <1>1, <1>6, StackedStands DEF s
<1> QED BY <1>2, <1>4, <1>6, <1>7, <1>8 DEF s, Topped

LEMMA PullsTop ==
  ASSUME NEW c, Standing(c)
  PROVE  LET d == PULL8(c)
             s == InPage(c, c.stack + 1)
         IN  /\ Stacked(c, d, s) /\ Standing(d) /\ d.mem = c.mem
             /\ d.arg = GET_MEMORY8(c, s) /\ d.arg \in Byte
<1> DEFINE s == InPage(c, c.stack + 1)
           v == GET_MEMORY8(c, s)
           d == SetPull(c, s, v)
<1>1. c.stack \in Int /\ Sized(c) /\ c.stack + 1 \in Int
  BY SizedNumbers DEF Standing
<1>2. s \in Word /\ s \in Int
  BY <1>1, PageWord
<1>3. PULL8(c) = d
  BY DEF PULL8, SetPull
<1> HIDE DEF s
<1>4. v \in Byte /\ v \in Int
  BY <1>1, <1>2, Numbers, ReadByte
<1> HIDE DEF v
<1>5. Stacked(c, d, s) /\ d.mem = c.mem /\ d.arg = v
  BY <1>1, <1>2, <1>4, SetsPull
<1> HIDE DEF d
<1>6. Standing(d)
  BY <1>1, <1>5, StackedStands DEF s
<1> QED BY <1>3, <1>4, <1>5, <1>6 DEF s, v

\* d is c with word v on its stack.
HasWord(c, d, v) ==
  /\ Stacked(c, d, InPage(c, c.stack - 2)) /\ Standing(d)
  /\ Below(c, d, 1) = v % 256 /\ Below(c, d, 0) = (v \div 256) % 256

LEMMA PushesBytes ==
  ASSUME NEW c, Standing(c), NEW v \in Int
  PROVE  HasWord(c, PushBytes(c, v), v)
<1> DEFINE b == PUSH8(c, v \div 256)
           d == PUSH8(b, v)
           s == InPage(c, c.stack - 1)
<1>1. c.stack \in Word /\ c.stack \in Int /\ Sized(c) /\ v \div 256 \in Int
      /\ c.stack - 1 \in Int /\ c.stack - 2 \in Int /\ c.stack - 0 = c.stack
  BY Numbers DEF Standing, Sized
<1>2. PushBytes(c, v) = d
  BY DEF PushBytes
<1>3. Stacked(c, b, s) /\ Standing(b) /\ GET_MEMORY8(b, c.stack) = (v \div 256) % 256
  <2>1. Topped(c, b, v \div 256)
    BY <1>1, PushesTop
  <2> HIDE DEF b
  <2> QED BY <2>1 DEF Topped
<1> HIDE DEF b
<1>4. Stacked(b, d, InPage(b, b.stack - 1)) /\ Standing(d) /\ GET_MEMORY8(d, b.stack) = v % 256
      /\ \A x \in Word : x # b.stack => GET_MEMORY8(d, x) = GET_MEMORY8(b, x)
  <2>1. Topped(b, d, v)
    BY <1>3, PushesTop
  <2> HIDE DEF d
  <2> QED BY <2>1 DEF Topped
<1> HIDE DEF d
<1>5. s # c.stack /\ InPage(c, c.stack) = c.stack
  <2>1. InPage(c, c.stack - 1) # InPage(c, c.stack - 0)
    BY <1>1, PageApart
  <2> QED BY <1>1, <2>1 DEF Standing
<1>6. b.stack = s /\ b.psr = c.psr
  BY <1>3 DEF Stacked, Beside
<1>7. InPage(b, b.stack - 1) = InPage(c, c.stack - 2)
  <2>1. InPage(b, s - 1) = InPage(c, s + (-1))
    BY <1>1, <1>6, PageWord, SamePage
  <2>2. InPage(c, InPage(c, c.stack - 1) + (-1)) = InPage(c, (c.stack - 1) + (-1))
    BY <1>1, PageAdds
  <2> QED BY <1>1, <1>6, <2>1, <2>2
<1>8. GET_MEMORY8(d, s) = v % 256 /\ GET_MEMORY8(d, c.stack) = (v \div 256) % 256
  BY <1>1, <1>3, <1>4, <1>5, <1>6
<1>9. Stacked(c, d, InPage(c, c.stack - 2))
  BY <1>3, <1>4, <1>7, StackedTrans
<1> QED BY <1>1, <1>2, <1>4, <1>5, <1>8, <1>9 DEF HasWord, Below

\* d is c with word v written at a and b.
WordAt(c, d, a, b, v) ==
  /\ Stacked(c, d, c.stack)
  /\ GET_MEMORY8(d, a) = v % 256 /\ GET_MEMORY8(d, b) = (v \div 256) % 256
  /\ \A x \in Word : x # a /\ x # b => GET_MEMORY8(d, x) = GET_MEMORY8(c, x)

\* Two bytes that are written together.
LEMMA WritesWord ==
  ASSUME NEW c, Sized(c), NEW a \in Word, NEW b \in Word, a # b, NextByte(a, InBank) = b,
         NEW v \in Int
  PROVE  WordAt(c, SET_MEMORY16(c, a, v, InBank), a, b, v)
<1> DEFINE m == SET_MEMORY8(c, a, v)
           d == SET_MEMORY8(m, b, v \div 256)
<1>1. SET_MEMORY16(c, a, v, InBank) = d
  BY DEF SET_MEMORY16
<1>2. Stacked(c, m, c.stack) /\ GET_MEMORY8(m, a) = v % 256
      /\ \A x \in Word : x # a => GET_MEMORY8(m, x) = GET_MEMORY8(c, x)
  BY WritesByte
<1> HIDE DEF m
<1>3. Sized(m) /\ v \div 256 \in Int /\ m.stack = c.stack
  BY <1>2 DEF Stacked, Beside
<1>4. Stacked(m, d, m.stack) /\ GET_MEMORY8(d, b) = (v \div 256) % 256
      /\ \A x \in Word : x # b => GET_MEMORY8(d, x) = GET_MEMORY8(m, x)
  BY <1>3, WritesByte
<1> HIDE DEF d
<1>5. Stacked(c, d, c.stack)
  BY <1>2, <1>3, <1>4, StackedTrans
<1> QED BY <1>1, <1>2, <1>4, <1>5 DEF WordAt

\* The byte behind one of the first bank.
LEMMA NextInBank ==
  ASSUME NEW a \in Word
  PROVE  NextByte(a, InBank) = (a + 1) % 65536
<1>1. a \in Int /\ 0 <= a /\ a < 65536
  BY WordIs
<1>2. Bank(a) = 0
  BY <1>1, SMT DEF Bank
<1>3. NextByte(a, InBank) = Bank(a) + ((a + 1) % 65536)
  <2>1. InBank
    BY DEF InBank
  <2> QED BY <2>1 DEF NextByte
<1> QED BY <1>1, <1>2, <1>3

\* A word written where the stack was, the stack moved below it.
LEMMA WordBelow ==
  ASSUME NEW c, Standing(c), NEW v \in Int, NEW a \in Word, NEW s \in Word,
         s = InPage(c, c.stack - 2), a = InPage(c, c.stack - 1),
         NextByte(a, InBank) = c.stack
  PROVE  HasWord(c, SET_MEMORY16(SetStack(c, s), a, v, InBank), v)
<1> DEFINE m == SetStack(c, s)
           d == SET_MEMORY16(m, a, v, InBank)
<1>1. c.stack \in Word /\ c.stack \in Int /\ Sized(c) /\ c.stack - 0 = c.stack
      /\ c.stack - 2 \in Int
  BY Numbers DEF Standing, Sized
<1>2. InPage(c, c.stack - 1) # InPage(c, c.stack - 0)
  BY <1>1, PageApart
<1>3. InPage(c, c.stack) = c.stack /\ a # c.stack
  BY <1>1, <1>2 DEF Standing
<1>4. Stacked(c, m, s) /\ Sized(m) /\ m.stack = s
  <2>1. Stacked(c, m, s)
    BY <1>1, SetsStack
  <2> QED BY <2>1 DEF Stacked, Beside
<1> HIDE DEF m
<1>5. Stacked(m, d, m.stack) /\ GET_MEMORY8(d, a) = v % 256
      /\ GET_MEMORY8(d, c.stack) = (v \div 256) % 256
  <2> DEFINE t == c.stack
  <2>1. t \in Word /\ a # t /\ NextByte(a, InBank) = t
    BY <1>1, <1>3
  <2> HIDE DEF t
  <2>2. Stacked(m, d, m.stack) /\ GET_MEMORY8(d, a) = v % 256
        /\ GET_MEMORY8(d, t) = (v \div 256) % 256
    BY <1>4, <2>1, WritesWord DEF WordAt
  <2> QED BY <2>2 DEF t
<1> HIDE DEF d
<1>6. Stacked(c, d, InPage(c, c.stack - 2))
  BY <1>4, <1>5, StackedTrans
<1>7. Standing(d)
  BY <1>1, <1>6, StackedStands
<1>8. HasWord(c, d, v)
  BY <1>1, <1>3, <1>5, <1>6, <1>7 DEF HasWord, Below
<1> QED BY <1>8 DEF d, m

LEMMA StackIs ==
  ASSUME NEW c, Standing(c)
  PROVE  /\ Sized(c) /\ c.stack \in Word /\ c.stack \in Int /\ 0 <= c.stack /\ c.stack < 65536
         /\ c.psr.e = 1 => 256 <= c.stack /\ c.stack < 512
<1>1. c.stack \in Word /\ Sized(c)
  BY DEF Standing, Sized
<1>2. c.stack \in Int /\ 0 <= c.stack /\ c.stack < 65536
  BY <1>1, WordIs
<1>3. c.psr.e = 1 => c.stack = 256 + (c.stack % 256)
  BY DEF Standing, InPage
<1> QED BY <1>1, <1>2, <1>3, SMT

LEMMA PushesWholeWord ==
  ASSUME NEW c, Standing(c), NEW v \in Int
  PROVE  /\ HasWord(c, PUSH16(c, v), v)
         /\ (c.psr.e = 1 => c.stack > 257) => HasWord(c, PUSH16_UNSAFE(c, v), v)
<1>1. /\ c.stack \in Int /\ 0 <= c.stack /\ c.stack < 65536
      /\ c.psr.e = 1 => 256 <= c.stack /\ c.stack < 512
  BY StackIs
<1>2. ASSUME c.stack % 256 \notin {0, 1}
      PROVE  HasWord(c, PushWord(c, (c.stack - 2) % 65536, v), v)
  <2> DEFINE s == (c.stack - 2) % 65536
             a == s + 1
  <2>1. s = InPage(c, c.stack - 2) /\ a = InPage(c, c.stack - 1) /\ (a + 1) % 65536 = c.stack
        /\ a \in Int /\ 0 <= a /\ a < 65536
    BY <1>1, <1>2, SMT DEF InPage
  <2>2. s \in Word /\ a \in Word
    BY <1>1, <2>1, Wraps, WordIs
  <2>3. PushWord(c, s, v) = SET_MEMORY16(SetStack(c, s), a, v, InBank)
    BY DEF PushWord, SetStack
  <2> HIDE DEF s, a
  <2>4. NextByte(a, InBank) = c.stack
    BY <2>1, <2>2, NextInBank
  <2>5. HasWord(c, PushWord(c, s, v), v)
    BY <2>1, <2>2, <2>3, <2>4, WordBelow
  <2> QED BY <2>5 DEF s
<1>3. HasWord(c, PUSH16(c, v), v)
  <2>1. CASE c.stack % 256 \in {0, 1}
    BY <2>1, PushesBytes DEF PUSH16
  <2>2. CASE c.stack % 256 \notin {0, 1}
    BY <1>2, <2>2 DEF PUSH16
  <2> QED BY <2>1, <2>2
<1>4. ASSUME c.psr.e = 1 => c.stack > 257
      PROVE  HasWord(c, PUSH16_UNSAFE(c, v), v)
  <2> DEFINE s == InPage(c, c.stack - 2)
             a == (c.stack - 1) % 65536
  <2>1. a = InPage(c, c.stack - 1) /\ (a + 1) % 65536 = c.stack
    <3>1. CASE c.psr.e = 1
      <4>1. a = c.stack - 1 /\ (c.stack - 1) % 256 = c.stack - 1 - 256
        BY <1>1, <1>4, <3>1, SMT
      <4>2. InPage(c, c.stack - 1) = 256 + ((c.stack - 1) % 256)
        BY <3>1 DEF InPage
      <4> HIDE DEF a
      <4> QED BY <1>1, <4>1, <4>2, SMT
    <3>2. CASE c.psr.e # 1
      <4>1. InPage(c, c.stack - 1) = (c.stack - 1) % 65536
        BY <3>2 DEF InPage
      <4> QED BY <1>1, <4>1, SMT
    <3> QED BY <3>1, <3>2
  <2>2. s \in Word /\ a \in Word
    BY <1>1, PageWord, Wraps DEF Standing
  <2>3. PUSH16_UNSAFE(c, v) = SET_MEMORY16(SetStack(c, s), a, v, InBank)
    BY DEF PUSH16_UNSAFE, SetStack
  <2> HIDE DEF a
  <2>4. NextByte(a, InBank) = c.stack
    BY <2>1, <2>2, NextInBank
  <2> HIDE DEF s
  <2> QED BY <2>1, <2>2, <2>3, <2>4, WordBelow DEF s
<1> QED BY <1>3, <1>4

\* d is c with long v on its stack.
HasLong(c, d, v) ==
  /\ Stacked(c, d, InPage(c, c.stack - 3)) /\ Standing(d)
  /\ Below(c, d, 2) = v % 256 /\ Below(c, d, 1) = (v \div 256) % 256
  /\ Below(c, d, 0) = (v \div 65536) % 256

\* d is c with long v written at a, b and t.
LongAt(c, d, a, b, t, v) ==
  /\ Stacked(c, d, c.stack)
  /\ GET_MEMORY8(d, a) = v % 256 /\ GET_MEMORY8(d, b) = (v \div 256) % 256
  /\ GET_MEMORY8(d, t) = (v \div 65536) % 256

\* A byte written behind a word.
LEMMA WritesLong ==
  ASSUME NEW c, Sized(c), NEW a \in Word, NEW b \in Word, NEW t \in Word,
         a # b, a # t, b # t, NextByte(a, InBank) = b, NextByte(b, InBank) = t, NEW v \in Int
  PROVE  LongAt(c, SET_MEMORY24(c, a, v, InBank), a, b, t, v)
<1> DEFINE m == SET_MEMORY16(c, a, v, InBank)
           w == v \div 65536
           d == SET_MEMORY8(m, t, w)
<1>1. SET_MEMORY24(c, a, v, InBank) = d
  BY DEF SET_MEMORY24
<1>2. Stacked(c, m, c.stack)
      /\ GET_MEMORY8(m, a) = v % 256 /\ GET_MEMORY8(m, b) = (v \div 256) % 256
  <2>1. WordAt(c, m, a, b, v)
    BY WritesWord
  <2> HIDE DEF m
  <2> QED BY <2>1 DEF WordAt
<1> HIDE DEF m
<1>3. Sized(m) /\ w \in Int /\ m.stack = c.stack
  BY <1>2 DEF Stacked, Beside
<1> HIDE DEF w
<1>4. Stacked(m, d, m.stack) /\ GET_MEMORY8(d, t) = w % 256
      /\ \A x \in Word : x # t => GET_MEMORY8(d, x) = GET_MEMORY8(m, x)
  BY <1>3, WritesByte
<1> HIDE DEF d
<1>5. Stacked(c, d, c.stack)
  BY <1>2, <1>3, <1>4, StackedTrans
<1>6. GET_MEMORY8(d, a) = v % 256 /\ GET_MEMORY8(d, b) = (v \div 256) % 256
  BY <1>2, <1>4
<1> QED BY <1>1, <1>4, <1>5, <1>6 DEF w, LongAt

LEMMA PushesWholeLong ==
  ASSUME NEW c, Standing(c), NEW v \in Int, c.psr.e = 1 => c.stack > 257
  PROVE  HasLong(c, PUSH24_UNSAFE(c, v), v)
<1> DEFINE s == InPage(c, c.stack - 3)
           a == (c.stack - 2) % 65536
           b == InPage(c, c.stack - 1)
           t == c.stack
           m == SetStack(c, s)
           d == SET_MEMORY24(m, a, v, InBank)
<1>1. /\ Sized(c) /\ c.stack \in Word
      /\ c.stack \in Int /\ 0 <= c.stack /\ c.stack < 65536
      /\ c.psr.e = 1 => 256 <= c.stack /\ c.stack < 512
  BY StackIs
<1>2. a = InPage(c, c.stack - 2) /\ (a + 1) % 65536 = b /\ (b + 1) % 65536 = c.stack
  <2>1. CASE c.psr.e = 1
    <3>1. a = c.stack - 2 /\ (c.stack - 1) % 256 = c.stack - 1 - 256
          /\ (c.stack - 2) % 256 = c.stack - 2 - 256
      BY <1>1, <2>1, SMT
    <3>2. b = 256 + ((c.stack - 1) % 256) /\ InPage(c, c.stack - 2) = 256 + ((c.stack - 2) % 256)
      BY <2>1 DEF InPage
    <3> HIDE DEF a, b
    <3> QED BY <1>1, <3>1, <3>2, SMT
  <2>2. CASE c.psr.e # 1
    <3>1. b = (c.stack - 1) % 65536 /\ InPage(c, c.stack - 2) = (c.stack - 2) % 65536
      BY <2>2 DEF InPage
    <3> HIDE DEF b
    <3> QED BY <1>1, <3>1, SMT
  <2> QED BY <2>1, <2>2
<1>3. c.stack - 0 = c.stack /\ InPage(c, c.stack) = c.stack
  BY <1>1 DEF Standing
<1>4. a # b /\ a # t /\ b # t
  <2>1. InPage(c, c.stack - 2) # b /\ InPage(c, c.stack - 2) # InPage(c, c.stack - 0)
        /\ b # InPage(c, c.stack - 0)
    BY <1>1, PageApart
  <2> HIDE DEF a, b
  <2> QED BY <1>2, <1>3, <2>1
<1>5. s \in Word /\ a \in Word /\ b \in Word
  <2>1. c.stack - 3 \in Int /\ c.stack - 2 \in Int /\ c.stack - 1 \in Int
    BY <1>1
  <2> QED BY <1>1, <2>1, PageWord, Wraps
<1>6. PUSH24_UNSAFE(c, v) = d
  BY DEF PUSH24_UNSAFE, SetStack
<1> HIDE DEF a, b
<1>7. NextByte(a, InBank) = b /\ NextByte(b, InBank) = c.stack
  BY <1>2, <1>5, NextInBank
<1> HIDE DEF s
<1>8. Stacked(c, m, s) /\ Sized(m) /\ m.stack = s
  BY <1>1, <1>5, SetsStack DEF Stacked, Beside
<1> HIDE DEF m
<1>9. t \in Word /\ NextByte(b, InBank) = t
  BY <1>1, <1>7
<1> HIDE DEF t
<1>10. LongAt(m, d, a, b, t, v)
  BY <1>4, <1>5, <1>7, <1>8, <1>9, WritesLong
<1> HIDE DEF d
<1>11. Stacked(c, d, s)
  BY <1>8, <1>10, StackedTrans DEF LongAt
<1>12. Standing(d)
  BY <1>1, <1>11, StackedStands DEF s
<1> QED BY <1>2, <1>3, <1>6, <1>10, <1>11, <1>12 DEF HasLong, LongAt, Below, b, s, t

\* What a pull finds, from the bytes above the stack.
Above(c, k) == GET_MEMORY8(c, InPage(c, c.stack + k))
PulledWord(c, d) ==
  /\ Stacked(c, d, InPage(c, c.stack + 2)) /\ Standing(d) /\ d.mem = c.mem
  /\ d.arg = Above(c, 1) + 256 * Above(c, 2)
PulledLong(c, d) ==
  /\ Stacked(c, d, InPage(c, c.stack + 3)) /\ Standing(d) /\ d.mem = c.mem
  /\ d.arg = Above(c, 1) + 256 * Above(c, 2) + 65536 * Above(c, 3)

LEMMA AboveIs ==
  ASSUME NEW c, Sized(c), NEW k \in Int
  PROVE  Above(c, k) \in Byte /\ Above(c, k) \in Int
<1>1. c.stack + k \in Int
  BY SizedNumbers
<1> QED BY <1>1, PageWord, ReadByte, Numbers DEF Above

\* After a byte is pulled, the next one is on top.
LEMMA AboveNext ==
  ASSUME NEW c, Standing(c), NEW d, NEW j \in Int, Stacked(c, d, InPage(c, c.stack + j)),
         d.mem = c.mem, NEW k \in Int
  PROVE  InPage(d, d.stack + k) = InPage(c, c.stack + j + k) /\ Above(d, k) = Above(c, j + k)
<1>1. c.stack \in Int /\ c.stack + j \in Int /\ c.stack + (j + k) = c.stack + j + k
  BY StackIs
<1>2. d.psr = c.psr /\ d.stack = InPage(c, c.stack + j)
  BY DEF Stacked, Beside
<1>3. InPage(d, d.stack + k) = InPage(c, InPage(c, c.stack + j) + k)
  BY <1>2, SamePage
<1>4. InPage(d, d.stack + k) = InPage(c, c.stack + j + k)
  BY <1>1, <1>3, PageAdds
<1>5. \A a : GET_MEMORY8(d, a) = GET_MEMORY8(c, a)
  BY SameBytes
<1> QED BY <1>1, <1>4, <1>5 DEF Above

LEMMA PullsOne ==
  ASSUME NEW c, Standing(c)
  PROVE  Stacked(c, PULL8(c), InPage(c, c.stack + 1)) /\ Standing(PULL8(c))
         /\ PULL8(c).mem = c.mem /\ PULL8(c).arg = Above(c, 1)
  BY PullsTop DEF Above

\* d is c after j bytes were pulled, with v in arg.
Risen(c, d, j, v) ==
  Stacked(c, d, InPage(c, c.stack + j)) /\ Standing(d) /\ d.mem = c.mem /\ d.arg = v

\* A byte more, that goes to arg at some weight.
LEMMA PullsAnother ==
  ASSUME NEW c, Standing(c), NEW j \in Int, NEW v \in Int, NEW d, Risen(c, d, j, v),
         NEW w \in Int, NEW i \in Int, i = j + 1,
         NEW e, e = SetArg(PULL8(d), d.arg + w * PULL8(d).arg)
  PROVE  Risen(c, e, i, v + w * Above(c, i))
<1> DEFINE b == PULL8(d)
           u == d.arg + w * b.arg
<1>0. Stacked(c, d, InPage(c, c.stack + j)) /\ Standing(d) /\ d.mem = c.mem /\ d.arg = v
  BY DEF Risen
<1>1. Stacked(d, b, InPage(d, d.stack + 1)) /\ Standing(b) /\ b.mem = d.mem
      /\ b.arg = Above(d, 1)
  BY <1>0, PullsOne
<1>2. InPage(d, d.stack + 1) = InPage(c, c.stack + i) /\ Above(d, 1) = Above(c, i)
  <2>1. InPage(d, d.stack + 1) = InPage(c, c.stack + j + 1) /\ Above(d, 1) = Above(c, j + 1)
    BY <1>0, AboveNext
  <2>2. c.stack + j + 1 = c.stack + i
    BY StackIs
  <2> QED BY <2>1, <2>2
<1>3. u = v + w * Above(c, i)
  BY <1>0, <1>1, <1>2
<1>4. u \in Int
  <2>1. Above(d, 1) \in Int
    BY <1>0, AboveIs DEF Standing
  <2> QED BY <1>0, <1>1, <2>1
<1>5. e = SetArg(b, u)
  OBVIOUS
<1> HIDE DEF b, u
<1>6. Sized(b)
  BY <1>1 DEF Stacked, Beside
<1>7. Stacked(b, e, b.stack) /\ e.mem = b.mem /\ e.arg = u
  BY <1>4, <1>5, <1>6 DEF Sized, Fields, SetArg, Stacked, Beside
<1>8. Stacked(c, e, InPage(c, c.stack + i))
  BY <1>0, <1>1, <1>2, <1>7, StackedTrans DEF Stacked
<1>9. Standing(e)
  <2>1. c.stack + i \in Int /\ Sized(c)
    BY StackIs
  <2> QED BY <1>8, <2>1, StackedStands
<1> QED BY <1>0, <1>1, <1>3, <1>7, <1>8, <1>9 DEF Risen

\* Two and three bytes, one by one.
LEMMA PullsApart ==
  ASSUME NEW c, Standing(c)
  PROVE  /\ PulledWord(c, AndHigh(PULL8(c)))
         /\ PulledLong(c, AndBank(AndHigh(PULL8(c))))
<1> DEFINE b == PULL8(c)
           d == AndHigh(b)
           e == AndBank(d)
           v1 == Above(c, 1)
           v2 == v1 + 256 * Above(c, 2)
           v3 == v2 + 65536 * Above(c, 3)
<1>1. Risen(c, b, 1, v1)
  BY PullsOne DEF Risen
<1>2. v1 \in Int /\ v2 \in Int
  <2>1. Sized(c)
    BY StackIs
  <2>2. Above(c, 1) \in Int /\ Above(c, 2) \in Int
    BY <2>1, AboveIs
  <2> QED BY <2>2
<1>3. d = SetArg(PULL8(b), b.arg + 256 * PULL8(b).arg)
  BY DEF AndHigh, SetArg
<1> HIDE DEF b
<1>4. e = SetArg(PULL8(d), d.arg + 65536 * PULL8(d).arg)
  BY DEF AndBank, SetArg
<1> HIDE DEF d, e
<1>5. Risen(c, d, 2, v2)
  <2> HIDE DEF v1
  <2>1. 2 = 1 + 1 /\ 1 \in Int /\ 2 \in Int /\ 256 \in Int
    OBVIOUS
  <2>2. Risen(c, d, 2, v1 + 256 * Above(c, 2))
    BY <1>1, <1>2, <1>3, <2>1, PullsAnother
  <2> QED BY <2>2
<1>6. Risen(c, e, 3, v3)
  <2> HIDE DEF v2
  <2>1. 3 = 2 + 1 /\ 2 \in Int /\ 3 \in Int /\ 65536 \in Int
    OBVIOUS
  <2>2. Risen(c, e, 3, v2 + 65536 * Above(c, 3))
    BY <1>2, <1>4, <1>5, <2>1, PullsAnother
  <2> QED BY <2>2
<1> QED BY <1>5, <1>6 DEF PulledWord, PulledLong, Risen, b, d, e

\* The bytes of a word or a long that is read in one piece.
LEMMA ReadsTogether ==
  ASSUME NEW c, NEW a \in Word, NEW b, NextByte(a, InBank) = b
  PROVE  GET_MEMORY16(c, a, InBank) = GET_MEMORY8(c, a) + 256 * GET_MEMORY8(c, b)
         /\ GET_MEMORY24(c, a, InBank) =
              GET_MEMORY8(c, a) + 256 * GET_MEMORY8(c, b) + 65536 * GET_MEMORY8(c, NextByte(b, InBank))
  BY DEF GET_MEMORY16, GET_MEMORY24

LEMMA PullsTogether ==
  ASSUME NEW c, Standing(c)
  PROVE  /\ c.stack % 256 \notin {254, 255} => PulledWord(c, PullWord(c))
         /\ c.stack % 256 < 252 => PulledLong(c, PullLong(c))
         /\ (c.psr.e = 1 => c.stack < 510) => PulledWord(c, PULL16_UNSAFE(c))
<1>1. /\ Sized(c) /\ c.stack \in Int /\ 0 <= c.stack /\ c.stack < 65536
      /\ c.psr.e = 1 => 256 <= c.stack /\ c.stack < 512
  BY StackIs
<1>2. \A k \in {1, 2, 3} : InPage(c, c.stack + k) \in Word /\ InPage(c, c.stack + k) \in Int
                           /\ Above(c, k) \in Int
  BY <1>1, PageWord, AboveIs
<1>3. ASSUME NEW k \in {2, 3}, NEW v \in Int, NEW d, d = SetPull(c, InPage(c, c.stack + k), v)
      PROVE  Stacked(c, d, InPage(c, c.stack + k)) /\ Standing(d) /\ d.mem = c.mem /\ d.arg = v
  <2> DEFINE s == InPage(c, c.stack + k)
  <2>1. s \in Word
    BY <1>2
  <2>2. c.stack + k \in Int
    BY <1>1
  <2> HIDE DEF s
  <2>3. Stacked(c, d, s) /\ d.mem = c.mem /\ d.arg = v
    BY <1>1, <1>3, <2>1, SetsPull DEF s
  <2>4. Standing(d)
    BY <1>1, <2>2, <2>3, StackedStands DEF s
  <2> QED BY <2>3, <2>4 DEF s
<1>4. ASSUME c.stack % 256 \notin {254, 255} PROVE PulledWord(c, PullWord(c))
  <2> DEFINE a == c.stack + 1
             b == c.stack + 2
             v == GET_MEMORY16(c, a, InBank)
  <2>1. a = InPage(c, c.stack + 1) /\ b = InPage(c, c.stack + 2) /\ (a + 1) % 65536 = b
        /\ InPage(c, (c.stack + 2) % 65536) = InPage(c, c.stack + 2)
    BY <1>1, <1>4, SMT DEF InPage
  <2>2. PullWord(c) = SetPull(c, InPage(c, c.stack + 2), v)
    <3>1. PullWord(c) = SetPull(c, InPage(c, (c.stack + 2) % 65536), v)
      BY DEF PullWord, SetPull
    <3> QED BY <2>1, <3>1
  <2> HIDE DEF a, b
  <2>3. a \in Word /\ NextByte(a, InBank) = b
    BY <1>2, <2>1, NextInBank
  <2>4. v = Above(c, 1) + 256 * Above(c, 2)
    BY <2>1, <2>3, ReadsTogether DEF Above
  <2>5. v \in Int
    BY <1>2, <2>4
  <2> HIDE DEF v
  <2> QED BY <1>3, <2>2, <2>4, <2>5 DEF PulledWord
<1>5. ASSUME c.stack % 256 < 252 PROVE PulledLong(c, PullLong(c))
  <2> DEFINE a == c.stack + 1
             b == c.stack + 2
             t == c.stack + 3
             v == GET_MEMORY24(c, a, InBank)
  <2>1. a = InPage(c, c.stack + 1) /\ b = InPage(c, c.stack + 2) /\ t = InPage(c, c.stack + 3)
        /\ (a + 1) % 65536 = b /\ (b + 1) % 65536 = t
        /\ InPage(c, (c.stack + 3) % 65536) = InPage(c, c.stack + 3)
    BY <1>1, <1>5, SMT DEF InPage
  <2>2. PullLong(c) = SetPull(c, InPage(c, c.stack + 3), v)
    <3>1. PullLong(c) = SetPull(c, InPage(c, (c.stack + 3) % 65536), v)
      BY DEF PullLong, SetPull
    <3> QED BY <2>1, <3>1
  <2> HIDE DEF a, b, t
  <2>3. a \in Word /\ b \in Word /\ NextByte(a, InBank) = b /\ NextByte(b, InBank) = t
    BY <1>2, <2>1, NextInBank
  <2>4. v = Above(c, 1) + 256 * Above(c, 2) + 65536 * Above(c, 3)
    BY <2>1, <2>3, ReadsTogether DEF Above
  <2>5. v \in Int
    BY <1>2, <2>4
  <2> HIDE DEF v
  <2> QED BY <1>3, <2>2, <2>4, <2>5 DEF PulledLong
<1>6. ASSUME c.psr.e = 1 => c.stack < 510 PROVE PulledWord(c, PULL16_UNSAFE(c))
  <2> DEFINE a == InPage(c, (c.stack + 1) % 65536)
             b == InPage(c, c.stack + 2)
             v == GET_MEMORY16(c, a, InBank)
  <2>1. a = InPage(c, c.stack + 1) /\ (a + 1) % 65536 = b /\ InPage(c, (a + 1) % 65536) = b
    <3>1. CASE c.psr.e = 1
      <4>1. (c.stack + 1) % 256 = c.stack + 1 - 256 /\ (c.stack + 2) % 256 = c.stack + 2 - 256
            /\ (c.stack + 1) % 65536 = c.stack + 1 /\ (c.stack + 2) % 65536 = c.stack + 2
        BY <1>1, <1>6, <3>1, SMT
      <4>2. a = 256 + ((c.stack + 1) % 256) /\ b = 256 + ((c.stack + 2) % 256)
            /\ InPage(c, c.stack + 1) = 256 + ((c.stack + 1) % 256)
        BY <3>1, <4>1 DEF InPage
      <4>3. a = c.stack + 1 /\ b = c.stack + 2
        BY <1>1, <4>1, <4>2, SMT
      <4> HIDE DEF a
      <4> QED BY <1>1, <4>1, <4>2, <4>3 DEF b
    <3>2. CASE c.psr.e # 1
      <4>1. InPage(c, c.stack + 1) = (c.stack + 1) % 65536
            /\ a = ((c.stack + 1) % 65536) % 65536 /\ b = (c.stack + 2) % 65536
            /\ \A n : InPage(c, n) = n % 65536
        BY <3>2 DEF InPage
      <4> HIDE DEF a, b
      <4> QED BY <1>1, <4>1, SMT
    <3> QED BY <3>1, <3>2
  <2>2. PULL16_UNSAFE(c) = SetPull(c, b, v)
    <3>1. PULL16_UNSAFE(c) = SetPull(c, InPage(c, (a + 1) % 65536), v)
      BY DEF PULL16_UNSAFE, SetPull
    <3> QED BY <2>1, <3>1
  <2> HIDE DEF a
  <2>3. a \in Word /\ NextByte(a, InBank) = b
    BY <1>2, <2>1, NextInBank
  <2>4. v = Above(c, 1) + 256 * Above(c, 2)
    BY <2>1, <2>3, ReadsTogether DEF Above
  <2>5. v \in Int
    BY <1>2, <2>4
  <2> HIDE DEF v
  <2> QED BY <1>3, <2>2, <2>4, <2>5 DEF PulledWord
<1> QED BY <1>4, <1>5, <1>6

LEMMA PullsAll ==
  ASSUME NEW c, Standing(c)
  PROVE  PulledWord(c, PULL16(c)) /\ PulledLong(c, PULL24(c))
<1>1. PulledWord(c, PULL16(c))
  <2>1. CASE c.stack % 256 \in {254, 255}
    BY <2>1, PullsApart DEF PULL16
  <2>2. CASE c.stack % 256 \notin {254, 255}
    BY <2>2, PullsTogether DEF PULL16
  <2> QED BY <2>1, <2>2
<1>2. PulledLong(c, PULL24(c))
  <2>1. CASE c.stack % 256 >= 252
    BY <2>1, PullsApart DEF PULL24
  <2>2. CASE ~(c.stack % 256 >= 252)
    <3>1. c.stack \in Int
      BY StackIs
    <3>2. c.stack % 256 < 252
      BY <2>2, <3>1
    <3> QED BY <2>2, <3>2, PullsTogether DEF PULL24
  <2> QED BY <2>1, <2>2
<1> QED BY <1>1, <1>2

\* d has the stack and the memory of c, whatever its program counter and arg.
Over(c, d) == Beside(c, d) /\ d.stack = c.stack /\ d.mem = c.mem
\* g is c again, but for its program counter, with v in arg.
Back(c, f, g, v) == Beside(c, g) /\ g.stack = c.stack /\ g.kpc = f.kpc /\ g.arg = v

\* What is above the stack of f was put below that of c, n bytes of it.
Found(c, d, f, n) ==
  /\ Standing(f) /\ Beside(c, f) /\ InPage(f, f.stack + n) = InPage(c, c.stack)
  /\ \A k \in Int : Above(f, k) = Below(c, d, n - k)

LEMMA OverIs ==
  ASSUME NEW c, NEW d, NEW n \in Int, Sized(c), Standing(d), Stacked(c, d, InPage(c, c.stack - n)),
         NEW f, Over(d, f)
  PROVE  Found(c, d, f, n)
<1>1. c.stack \in Int /\ c.stack - n \in Int
  BY SizedNumbers
<1>2. Sized(f) /\ f.psr = d.psr /\ d.psr = c.psr /\ f.stack = d.stack
      /\ d.stack = InPage(c, c.stack - n)
  BY DEF Over, Beside, Stacked
<1>3. Standing(f)
  BY <1>2, SamePage DEF Standing
<1>4. Beside(c, f)
  BY BesideTrans DEF Over, Stacked
<1>5. ASSUME NEW k \in Int PROVE InPage(f, f.stack + k) = InPage(c, c.stack - (n - k))
  <2>1. InPage(f, f.stack + k) = InPage(c, InPage(c, c.stack - n) + k)
    BY <1>2, SamePage
  <2>2. InPage(c, InPage(c, c.stack - n) + k) = InPage(c, c.stack - n + k)
    BY <1>1, PageAdds
  <2>3. c.stack - n + k = c.stack - (n - k)
    BY <1>1
  <2> QED BY <2>1, <2>2, <2>3
<1>6. ASSUME NEW k \in Int PROVE Above(f, k) = Below(c, d, n - k)
  <2>1. \A a : GET_MEMORY8(f, a) = GET_MEMORY8(d, a)
    BY SameBytes DEF Over
  <2> QED BY <1>5, <2>1 DEF Above, Below
<1>7. c.stack - (n - n) = c.stack
  BY <1>1
<1> QED BY <1>3, <1>4, <1>5, <1>6, <1>7 DEF Found

LEMMA Halves ==
  ASSUME NEW v \in Int
  PROVE  /\ (v % 256) + 256 * ((v \div 256) % 256) = v % 65536
         /\ (v % 256) + 256 * ((v \div 256) % 256) + 65536 * ((v \div 65536) % 256) = v % 16777216
  BY SMT

LEMMA ByteBack ==
  ASSUME NEW c, Standing(c), NEW v \in Int, NEW f, Over(PUSH8(c, v), f)
  PROVE  Back(c, f, PULL8(f), v % 256)
<1> DEFINE d == PUSH8(c, v)
<1>1. Stacked(c, d, InPage(c, c.stack - 1)) /\ Standing(d) /\ GET_MEMORY8(d, c.stack) = v % 256
  BY PushesTop DEF Topped
<1> HIDE DEF d
<1>2. Sized(c) /\ InPage(c, c.stack) = c.stack /\ c.stack - 0 = c.stack /\ Over(d, f) /\ 1 \in Int
      /\ 1 - 1 = 0
  BY StackIs DEF Standing, d
<1>3. /\ Standing(f) /\ Beside(c, f) /\ InPage(f, f.stack + 1) = c.stack
      /\ \A k \in Int : Above(f, k) = Below(c, d, 1 - k)
  <2>1. Found(c, d, f, 1)
    BY <1>1, <1>2, OverIs
  <2> QED BY <1>2, <2>1 DEF Found
<1>4. Above(f, 1) = Below(c, d, 0)
  BY <1>2, <1>3
<1>5. Above(f, 1) = v % 256
  BY <1>1, <1>2, <1>4 DEF Below
<1>6. Stacked(f, PULL8(f), InPage(f, f.stack + 1)) /\ PULL8(f).arg = Above(f, 1)
  BY <1>3, PullsOne
<1> QED BY <1>3, <1>5, <1>6, BesideTrans DEF Back, Stacked

LEMMA WordBack ==
  ASSUME NEW c, Standing(c), NEW v \in Int, NEW d, HasWord(c, d, v), NEW f, Over(d, f),
         NEW g, PulledWord(f, g)
  PROVE  Back(c, f, g, v % 65536)
<1>1. Stacked(c, d, InPage(c, c.stack - 2)) /\ Standing(d)
      /\ Below(c, d, 1) = v % 256 /\ Below(c, d, 0) = (v \div 256) % 256
  BY DEF HasWord
<1>2. Sized(c) /\ InPage(c, c.stack) = c.stack /\ 2 \in Int
  BY StackIs DEF Standing
<1>3. /\ Beside(c, f) /\ InPage(f, f.stack + 2) = c.stack
      /\ \A k \in Int : Above(f, k) = Below(c, d, 2 - k)
  <2>1. Found(c, d, f, 2)
    BY <1>1, <1>2, OverIs
  <2> QED BY <1>2, <2>1 DEF Found
<1>4. 2 - 1 = 1 /\ 2 - 2 = 0 /\ 1 \in Int /\ 2 \in Int
  OBVIOUS
<1>5. Above(f, 1) = v % 256 /\ Above(f, 2) = (v \div 256) % 256
  BY <1>1, <1>3, <1>4
<1>6. Stacked(f, g, InPage(f, f.stack + 2)) /\ g.arg = Above(f, 1) + 256 * Above(f, 2)
  BY DEF PulledWord
<1>7. g.arg = v % 65536
  BY <1>5, <1>6, Halves
<1> QED BY <1>3, <1>6, <1>7, BesideTrans DEF Back, Stacked

LEMMA LongBack ==
  ASSUME NEW c, Standing(c), NEW v \in Int, NEW d, HasLong(c, d, v), NEW f, Over(d, f),
         NEW g, PulledLong(f, g)
  PROVE  Back(c, f, g, v % 16777216)
<1>1. Stacked(c, d, InPage(c, c.stack - 3)) /\ Standing(d)
      /\ Below(c, d, 2) = v % 256 /\ Below(c, d, 1) = (v \div 256) % 256
      /\ Below(c, d, 0) = (v \div 65536) % 256
  BY DEF HasLong
<1>2. Sized(c) /\ InPage(c, c.stack) = c.stack /\ 3 \in Int
  BY StackIs DEF Standing
<1>3. /\ Beside(c, f) /\ InPage(f, f.stack + 3) = c.stack
      /\ \A k \in Int : Above(f, k) = Below(c, d, 3 - k)
  <2>1. Found(c, d, f, 3)
    BY <1>1, <1>2, OverIs
  <2> QED BY <1>2, <2>1 DEF Found
<1>4. 3 - 1 = 2 /\ 3 - 2 = 1 /\ 3 - 3 = 0 /\ 1 \in Int /\ 2 \in Int /\ 3 \in Int
  OBVIOUS
<1>5. Above(f, 1) = v % 256 /\ Above(f, 2) = (v \div 256) % 256
      /\ Above(f, 3) = (v \div 65536) % 256
  BY <1>1, <1>3, <1>4
<1>6. Stacked(f, g, InPage(f, f.stack + 3))
      /\ g.arg = Above(f, 1) + 256 * Above(f, 2) + 65536 * Above(f, 3)
  BY DEF PulledLong
<1>7. g.arg = v % 16777216
  <2>1. g.arg = (v % 256) + 256 * ((v \div 256) % 256) + 65536 * ((v \div 65536) % 256)
    BY <1>5, <1>6
  <2> QED BY <2>1, Halves
<1> QED BY <1>3, <1>6, <1>7, BesideTrans DEF Back, Stacked

-----------------------------------------------------------------------------
(* Instructions that undo each other.                                      *)
LEMMA KeptSame ==
  ASSUME NEW c, NEW d, c.kpc = d.kpc, c.acc = d.acc, c.xreg = d.xreg, c.yreg = d.yreg,
         c.stack = d.stack, c.dbank = d.dbank, c.direct = d.direct, c.psr = d.psr, c.acc8 = d.acc8
  PROVE  Kept(c) = Kept(d)
<1> DEFINE Names == {"kpc", "acc", "xreg", "yreg", "stack", "dbank", "direct", "psr", "neg",
                      "zero", "acc8"}
           r == Regs(c)
           s == Regs(d)
<1>1. DOMAIN r = Names /\ DOMAIN s = Names
  BY DEF Regs
<1>2. \A k \in Names : k \notin {"neg", "zero"} => r[k] = s[k]
  BY DEF Regs
<1>3. Kept(c) = [r EXCEPT !.psr.n = 0, !.psr.z = 0, !.neg = 0, !.zero = 0]
      /\ Kept(d) = [s EXCEPT !.psr.n = 0, !.psr.z = 0, !.neg = 0, !.zero = 0]
  BY DEF Kept
<1> HIDE DEF r, s
<1>4. r.psr = s.psr
  BY <1>2
<1>5. [r EXCEPT !.psr.n = 0, !.psr.z = 0, !.neg = 0, !.zero = 0]
        = [s EXCEPT !.psr.n = 0, !.psr.z = 0, !.neg = 0, !.zero = 0]
  BY <1>1, <1>2, <1>4
<1> QED BY <1>3, <1>5

\* All but memory, arg and the flags of a result are those of c moved by n.
Undone(c, d, n) ==
  /\ Sized(d) /\ d.kpc = INC_KPC(c, n).kpc
  /\ d.acc = c.acc /\ d.xreg = c.xreg /\ d.yreg = c.yreg /\ d.stack = c.stack
  /\ d.dbank = c.dbank /\ d.direct = c.direct /\ d.psr = c.psr /\ d.acc8 = c.acc8

LEMMA UndoneIsMoved ==
  ASSUME NEW c, Sized(c), NEW d, NEW n \in Int, Undone(c, d, n)
  PROVE  Kept(d) = Moved(c, n)
<1> DEFINE m == INC_KPC(c, n)
<1>1. Beside(c, m) /\ m.stack = c.stack
  BY StepsBeside
<1>2. Kept(d) = Kept(m)
  <2> HIDE DEF m
  <2>1. d.kpc = m.kpc
    BY DEF Undone, m
  <2> QED BY <1>1, <2>1, KeptSame DEF Undone, Beside
<1> QED BY <1>2 DEF Moved

\* Where a step leads, and the place o of a's bank.
Onward(a, n) == Bank(a) + ((a + n) % 65536)
Placed(a, o) == Bank(a) + o

LEMMA TwoSteps ==
  ASSUME NEW a \in Address, NEW j \in Int, NEW k \in Int
  PROVE  Onward(Onward(a, j), k) = Onward(a, j + k)
<1>1. a \in Int /\ 0 <= a
  BY AddressIs
<1> QED BY <1>1, SMT DEF Bank, Onward

LEMMA PlacedIs ==
  ASSUME NEW a \in Address, NEW o \in Word
  PROVE  Bank(Placed(a, o)) = Bank(a) /\ Placed(a, o) \in Address
<1>1. a \in Int /\ 0 <= a
  BY AddressIs
<1>2. o \in Int /\ 0 <= o /\ o < 65536
  BY WordIs
<1>3. Bank(Placed(a, o)) = Bank(a)
  BY <1>1, <1>2, SMT DEF Bank, Placed
<1> QED BY <1>3, BankIs DEF Placed

LEMMA StepsTo ==
  ASSUME NEW c, Sized(c), NEW n \in Int
  PROVE  INC_KPC(c, n).kpc = Onward(c.kpc, n) /\ Onward(c.kpc, n) \in Address
<1>1. LET d == INC_KPC(c, n)
      IN  Beside(c, d) /\ d.kpc = Bank(c.kpc) + ((c.kpc + n) % 65536)
  BY StepsBeside
<1> QED BY <1>1 DEF Beside, Sized, Onward

LEMMA StepsAgain ==
  ASSUME NEW c, Sized(c), NEW d, d.kpc = INC_KPC(c, 1).kpc, Sized(d)
  PROVE  INC_KPC(d, 1).kpc = INC_KPC(c, 2).kpc
<1>1. c.kpc \in Address
  BY DEF Sized
<1>2. INC_KPC(c, 1).kpc = Onward(c.kpc, 1) /\ INC_KPC(c, 2).kpc = Onward(c.kpc, 2)
      /\ INC_KPC(d, 1).kpc = Onward(d.kpc, 1)
  BY StepsTo
<1>3. Onward(Onward(c.kpc, 1), 1) = Onward(c.kpc, 1 + 1)
  BY <1>1, TwoSteps
<1> QED BY <1>2, <1>3

\* The results that only set a register to what it was.
LEMMA AccAgain ==
  ASSUME NEW c, Sized(c), NEW g, Beside(c, g), g.stack = c.stack, g.kpc = INC_KPC(c, 2).kpc,
         g.arg = IF c.acc8 = 1 THEN c.acc % 256 ELSE c.acc % 65536
  PROVE  Undone(c, ArgToAcc(g), 2)
<1> DEFINE v == g.arg % 2^AccSize(g)
           a == (g.acc - Acc(g)) + v
           n == v \div 2^(AccSize(g) - 1)
           z == IF v = 0 THEN 0 ELSE 1
           r == SetReg(g, a)
           d == SetBoth(r, n, z)
<1>1. ArgToAcc(g) = d
  BY DEF ArgToAcc, SetAcc, WithAcc, SET_NEG_ZERO, SetBoth, SetReg, AccSize
<1>2. c.acc8 \in {0, 1} /\ c.acc \in Word /\ c.acc \in Int /\ 0 <= c.acc /\ c.acc < 65536
  BY BitIs, WordIs DEF Sized
<1>3. g.acc = c.acc /\ g.acc8 = c.acc8 /\ Sized(g)
  BY DEF Beside
<1>4. v = Acc(g) /\ v \in Int /\ n \in Bit
  <2>1. CASE c.acc8 = 1
    <3>1. 2^AccSize(g) = 256 /\ 2^(AccSize(g) - 1) = 128
      BY <1>3, <2>1, Powers DEF AccSize
    <3>2. v = (c.acc % 256) % 256 /\ Acc(g) = c.acc % 256
      BY <1>3, <2>1, <3>1 DEF Acc
    <3>3. v = c.acc % 256 /\ v \div 128 \in 0 .. 1
      BY <1>2, <3>2, SMT
    <3> QED BY <1>2, <3>1, <3>2, <3>3 DEF Bit
  <2>2. CASE c.acc8 # 1
    <3>1. 2^AccSize(g) = 65536 /\ 2^(AccSize(g) - 1) = 32768
      BY <1>3, <2>2, Powers DEF AccSize
    <3>2. v = (c.acc % 65536) % 65536 /\ Acc(g) = c.acc % 65536
      BY <1>3, <2>2, <3>1 DEF Acc
    <3>3. v = c.acc % 65536 /\ v \div 32768 \in 0 .. 1
      BY <1>2, <3>2, SMT
    <3> QED BY <1>2, <3>1, <3>2, <3>3 DEF Bit
  <2> QED BY <2>1, <2>2
<1>5. a = c.acc
  BY <1>2, <1>3, <1>4
<1>6. z \in Bit
  BY BitIs
<1> HIDE DEF v, n, z, a
<1>7. Beside(c, r) /\ r.stack = c.stack /\ r.kpc = g.kpc
  BY <1>2, <1>3, <1>5 DEF Beside, Sized, Fields, SetReg
<1> HIDE DEF r
<1>8. Undone(c, d, 2)
  BY <1>4, <1>6, <1>7 DEF Undone, Beside, Sized, Fields, SetBoth
<1> QED BY <1>1, <1>8

LEMMA IndexAgain ==
  ASSUME NEW c, Sized(c), Shaped(c), NEW g, Beside(c, g), g.stack = c.stack,
         g.kpc = INC_KPC(c, 2).kpc,
         g.arg = IF c.psr.x = 1 THEN c.xreg % 256 ELSE c.xreg % 65536
  PROVE  Undone(c, ArgToIndex(g, "x"), 2)
<1> DEFINE v == g.arg % 2^IndexSize(g)
           n == v \div 2^(IndexSize(g) - 1)
           z == IF v = 0 THEN 0 ELSE 1
           r == SetX(g, v)
           d == SetBoth(r, n, z)
<1>1. ArgToIndex(g, "x") = d
  BY DEF ArgToIndex, SET_INDEX_REG, WithIndex, SET_NEG_ZERO, SetBoth, SetX, IndexSize
<1>2. c.psr.x \in {0, 1} /\ c.xreg \in Int /\ 0 <= c.xreg /\ c.xreg < 65536
      /\ (c.psr.x = 1 => c.xreg < 256)
  BY BitIs, WordIs DEF Sized, Shaped, Flags
<1>3. g.psr = c.psr /\ Sized(g)
  BY DEF Beside
<1>4. v = c.xreg /\ n \in Bit
  <2>1. CASE c.psr.x = 1
    <3>1. 2^IndexSize(g) = 256 /\ 2^(IndexSize(g) - 1) = 128
      BY <1>3, <2>1, Powers DEF IndexSize
    <3>2. v = (c.xreg % 256) % 256
      BY <2>1, <3>1
    <3>3. v = c.xreg /\ v \div 128 \in 0 .. 1
      BY <1>2, <2>1, <3>2, SMT
    <3> QED BY <3>1, <3>3 DEF Bit
  <2>2. CASE c.psr.x # 1
    <3>1. 2^IndexSize(g) = 65536 /\ 2^(IndexSize(g) - 1) = 32768
      BY <1>3, <2>2, Powers DEF IndexSize
    <3>2. v = (c.xreg % 65536) % 65536
      BY <2>2, <3>1
    <3>3. v = c.xreg /\ v \div 32768 \in 0 .. 1
      BY <1>2, <3>2, SMT
    <3> QED BY <3>1, <3>3 DEF Bit
  <2> QED BY <2>1, <2>2
<1>5. z \in Bit
  BY BitIs
<1> HIDE DEF v, n, z
<1>6. v \in Word
  BY <1>4 DEF Sized
<1>7. Sized(r) /\ Stacked(g, SetStack(g, g.stack), g.stack)
      /\ r.xreg = c.xreg /\ r.kpc = g.kpc /\ r.stack = c.stack /\ r.acc = c.acc
      /\ r.yreg = c.yreg /\ r.dbank = c.dbank /\ r.direct = c.direct /\ r.psr = c.psr
      /\ r.acc8 = c.acc8
  <2>1. g.stack \in Word
    BY <1>3 DEF Sized
  <2>2. Stacked(g, SetStack(g, g.stack), g.stack)
    BY <1>3, <2>1, SetsStack
  <2> QED BY <1>3, <1>4, <1>6, <2>2 DEF Beside, Sized, Fields, SetX
<1> HIDE DEF r
<1>8. Undone(c, d, 2)
  BY <1>4, <1>5, <1>7 DEF Undone, Sized, Fields, SetBoth
<1> QED BY <1>1, <1>8

LEMMA BankAgain ==
  ASSUME NEW c, Sized(c), NEW g, Beside(c, g), g.stack = c.stack, g.kpc = INC_KPC(c, 2).kpc,
         g.arg = c.dbank % 256
  PROVE  Undone(c, ArgToBank(g), 2)
<1> DEFINE n == g.arg \div 2^(8 - 1)
           z == IF g.arg = 0 THEN 0 ELSE 1
           r == SetBank(g, g.arg)
           d == SetBoth(r, n, z)
<1>1. ArgToBank(g) = d
  <2>1. ArgToBank(g) = SET_NEG_ZERO(r, g.arg, 8)
    BY DEF ArgToBank, SetBank
  <2> HIDE DEF r
  <2> QED BY <2>1 DEF SET_NEG_ZERO, SetBoth
<1>2. c.dbank \in Byte /\ c.dbank \in Int /\ 0 <= c.dbank /\ c.dbank < 256 /\ Sized(g)
  BY ByteIs DEF Sized, Beside
<1>3. g.arg = c.dbank
  BY <1>2, SMT
<1>4. n \in Bit /\ z \in Bit
  <2>1. n = c.dbank \div 128
    BY <1>3, Powers
  <2> QED BY <1>2, <2>1, BitIs
<1> HIDE DEF n, z
<1>5. Beside(c, r) /\ r.stack = c.stack /\ r.kpc = g.kpc
  BY <1>2, <1>3 DEF Beside, Sized, Fields, SetBank
<1> HIDE DEF r
<1>6. Undone(c, d, 2)
  BY <1>4, <1>5 DEF Undone, Beside, Sized, Fields, SetBoth
<1> QED BY <1>1, <1>6

LEMMA DirectAgain ==
  ASSUME NEW c, Sized(c), NEW g, Beside(c, g), g.stack = c.stack, g.kpc = INC_KPC(c, 2).kpc,
         g.arg = c.direct % 65536
  PROVE  Undone(c, ArgToDirect(g), 2)
<1> DEFINE n == g.arg \div 2^(16 - 1)
           z == IF g.arg = 0 THEN 0 ELSE 1
           r == SetDirect(g, g.arg)
           d == SetBoth(r, n, z)
<1>1. ArgToDirect(g) = d
  <2>1. ArgToDirect(g) = SET_NEG_ZERO(r, g.arg, 16)
    BY DEF ArgToDirect, SetDirect
  <2> HIDE DEF r
  <2> QED BY <2>1 DEF SET_NEG_ZERO, SetBoth
<1>2. c.direct \in Word /\ c.direct \in Int /\ 0 <= c.direct /\ c.direct < 65536 /\ Sized(g)
  BY WordIs DEF Sized, Beside
<1>3. g.arg = c.direct
  BY <1>2, SMT
<1>4. n \in Bit /\ z \in Bit
  <2>1. n = c.direct \div 32768
    BY <1>3, Powers
  <2> QED BY <1>2, <2>1, BitIs
<1> HIDE DEF n, z
<1>5. Beside(c, r) /\ r.stack = c.stack /\ r.kpc = g.kpc
  BY <1>2, <1>3 DEF Beside, Sized, Fields, SetDirect
<1> HIDE DEF r
<1>6. Undone(c, d, 2)
  BY <1>4, <1>5 DEF Undone, Beside, Sized, Fields, SetBoth
<1> QED BY <1>1, <1>6

\* A step before the push, none before the pull.
\* d is c after n bytes of its instruction.
StandsOn(c, d, n) ==
  /\ Standing(d) /\ Beside(c, d) /\ d.stack = c.stack
  /\ d.kpc = Bank(c.kpc) + ((c.kpc + n) % 65536)

LEMMA StepStands ==
  ASSUME NEW c, Standing(c), NEW n \in Int
  PROVE  StandsOn(c, INC_KPC(c, n), n)
<1> DEFINE b == INC_KPC(c, n)
<1>1. Beside(c, b) /\ b.stack = c.stack /\ b.kpc = Bank(c.kpc) + ((c.kpc + n) % 65536)
  BY StepsBeside DEF Standing
<1> HIDE DEF b
<1>2. Standing(b)
  BY <1>1, SamePage DEF Standing, Beside
<1> QED BY <1>1, <1>2 DEF b, StandsOn

\* The step behind a pull.
LEMMA BackStepped ==
  ASSUME NEW c, Standing(c), NEW f, f.kpc = INC_KPC(c, 1).kpc, NEW v,
         NEW b, Beside(c, b), b.stack = c.stack, NEW g, Back(b, f, g, v)
  PROVE  LET h == INC_KPC(g, 1)
         IN  Beside(c, h) /\ h.stack = c.stack /\ h.kpc = INC_KPC(c, 2).kpc /\ h.arg = v
<1> DEFINE h == INC_KPC(g, 1)
<1>1. Beside(c, g) /\ g.stack = c.stack /\ g.kpc = INC_KPC(c, 1).kpc /\ g.arg = v
  BY BesideTrans DEF Back
<1>2. Sized(c) /\ Sized(g)
  BY <1>1 DEF Standing, Beside
<1>3. Beside(g, h) /\ h.stack = g.stack /\ h.arg = g.arg
  BY <1>2, StepsBeside
<1>4. h.kpc = INC_KPC(c, 2).kpc
  BY <1>1, <1>2, StepsAgain
<1> HIDE DEF h
<1> QED BY <1>1, <1>3, <1>4, BesideTrans DEF h

LEMMA OverSelf == ASSUME NEW c, Sized(c) PROVE Over(c, c)
  BY DEF Over, Beside

\* h is c two bytes on, with v in arg.
Again(c, h, v) ==
  Beside(c, h) /\ h.stack = c.stack /\ h.kpc = INC_KPC(c, 2).kpc /\ h.arg = v

\* A byte or a word pushed behind a step and pulled before one.
LEMMA ByteAgain ==
  ASSUME NEW c, Standing(c), NEW v \in Int
  PROVE  Again(c, INC_KPC(PULL8(PUSH8(INC_KPC(c, 1), v)), 1), v % 256)
<1> DEFINE b == INC_KPC(c, 1)
           d == PUSH8(b, v)
           g == PULL8(d)
<1>1. Standing(b) /\ Beside(c, b) /\ b.stack = c.stack
  BY StepStands DEF StandsOn
<1> HIDE DEF b
<1>2. Stacked(b, d, InPage(b, b.stack - 1)) /\ Standing(d)
  BY <1>1, PushesTop DEF Topped
<1>3. Over(PUSH8(b, v), d)
  BY <1>2, OverSelf DEF Standing
<1>4. Back(b, d, g, v % 256)
  BY <1>1, <1>3, ByteBack
<1> HIDE DEF d, g
<1>5. d.kpc = INC_KPC(c, 1).kpc
  BY <1>2 DEF Stacked, b
<1>6. Again(c, INC_KPC(g, 1), v % 256)
  BY <1>1, <1>4, <1>5, BackStepped DEF Again
<1> QED BY <1>6 DEF g, d, b

LEMMA WordAgain ==
  ASSUME NEW c, Standing(c), NEW v \in Int
  PROVE  Again(c, INC_KPC(PULL16(PUSH16(INC_KPC(c, 1), v)), 1), v % 65536)
<1> DEFINE b == INC_KPC(c, 1)
           d == PUSH16(b, v)
           g == PULL16(d)
<1>1. Standing(b) /\ Beside(c, b) /\ b.stack = c.stack
  BY StepStands DEF StandsOn
<1> HIDE DEF b
<1>2. HasWord(b, d, v)
  BY <1>1, PushesWholeWord
<1> HIDE DEF d
<1>3. Standing(d) /\ Over(d, d) /\ d.kpc = b.kpc
  BY <1>2, OverSelf DEF Standing, HasWord, Stacked
<1>4. PulledWord(d, g)
  BY <1>3, PullsAll
<1> HIDE DEF g
<1>5. Back(b, d, g, v % 65536)
  BY <1>1, <1>2, <1>3, <1>4, WordBack
<1>6. Again(c, INC_KPC(g, 1), v % 65536)
  BY <1>1, <1>3, <1>5, BackStepped DEF Again, b
<1> QED BY <1>6 DEF g, d, b

LEMMA RegAgain ==
  ASSUME NEW c, Standing(c), NEW v \in Int, NEW narrow \in BOOLEAN
  PROVE  Again(c, Pull(PushReg(c, v, narrow), narrow), IF narrow THEN v % 256 ELSE v % 65536)
<1> DEFINE x == IF narrow THEN v % 256 ELSE v % 65536
           h == Pull(PushReg(c, v, narrow), narrow)
<1>1. CASE narrow
  <2>1. h = INC_KPC(PULL8(PUSH8(INC_KPC(c, 1), v)), 1)
    BY <1>1 DEF Pull, PushReg
  <2>2. x = v % 256
    BY <1>1
  <2>3. Again(c, h, x)
    <3> HIDE DEF h, x
    <3> QED BY <2>1, <2>2, ByteAgain
  <2> QED BY <2>3
<1>2. CASE ~narrow
  <2>1. h = INC_KPC(PULL16(PUSH16(INC_KPC(c, 1), v)), 1)
    BY <1>2 DEF Pull, PushReg
  <2>2. x = v % 65536
    BY <1>2
  <2>3. Again(c, h, x)
    <3> HIDE DEF h, x
    <3> QED BY <2>1, <2>2, WordAgain
  <2> QED BY <2>3
<1> QED BY <1>1, <1>2

LEMMA RegistersBack ==
  ASSUME NEW c, Sized(c), Shaped(c)
  PROVE  /\ Kept(PLA(PushReg(c, c.acc, c.acc8 = 1))) = Moved(c, 2)
         /\ Kept(PullIndex(PushReg(c, c.xreg, c.psr.x = 1), "x")) = Moved(c, 2)
         /\ Kept(PLB(PUSH8(INC_KPC(c, 1), c.dbank))) = Moved(c, 2)
<1>1. Standing(c) /\ c.acc \in Int /\ c.xreg \in Int /\ c.dbank \in Int
  BY Standing256, SizedNumbers
<1>2. Kept(PLA(PushReg(c, c.acc, c.acc8 = 1))) = Moved(c, 2)
  <2> DEFINE narrow == c.acc8 = 1
             p == PushReg(c, c.acc, narrow)
             h == Pull(p, narrow)
  <2>1. narrow \in BOOLEAN
    OBVIOUS
  <2>2. Beside(c, h) /\ h.stack = c.stack /\ h.kpc = INC_KPC(c, 2).kpc
        /\ h.arg = IF narrow THEN c.acc % 256 ELSE c.acc % 65536
    <3> HIDE DEF narrow
    <3> QED BY <1>1, <2>1, RegAgain DEF Again
  <2>3. p.acc8 = c.acc8
    <3>1. Quiet(c, p)
      BY <1>1, PushInst
    <3> QED BY <3>1 DEF Quiet
  <2>4. PLA(p) = ArgToAcc(h)
    BY <2>3 DEF PLA
  <2> HIDE DEF h, p
  <2>5. Undone(c, ArgToAcc(h), 2)
    BY <2>2, AccAgain
  <2>6. Kept(PLA(p)) = Moved(c, 2)
    BY <2>4, <2>5, UndoneIsMoved
  <2> QED BY <2>6 DEF p
<1>3. Kept(PullIndex(PushReg(c, c.xreg, c.psr.x = 1), "x")) = Moved(c, 2)
  <2> DEFINE narrow == c.psr.x = 1
             p == PushReg(c, c.xreg, narrow)
             h == Pull(p, narrow)
  <2>1. narrow \in BOOLEAN
    OBVIOUS
  <2>2. Beside(c, h) /\ h.stack = c.stack /\ h.kpc = INC_KPC(c, 2).kpc
        /\ h.arg = IF narrow THEN c.xreg % 256 ELSE c.xreg % 65536
    <3> HIDE DEF narrow
    <3> QED BY <1>1, <2>1, RegAgain DEF Again
  <2>3. p.psr = c.psr
    <3>1. Quiet(c, p)
      BY <1>1, PushInst
    <3> QED BY <3>1 DEF Quiet
  <2>4. PullIndex(p, "x") = ArgToIndex(h, "x")
    BY <2>3 DEF PullIndex
  <2> HIDE DEF h, p
  <2>5. Undone(c, ArgToIndex(h, "x"), 2)
    BY <2>2, IndexAgain
  <2>6. Kept(PullIndex(p, "x")) = Moved(c, 2)
    BY <2>4, <2>5, UndoneIsMoved
  <2> QED BY <2>6 DEF p
<1>4. Kept(PLB(PUSH8(INC_KPC(c, 1), c.dbank))) = Moved(c, 2)
  <2> DEFINE p == PUSH8(INC_KPC(c, 1), c.dbank)
             k == INC_KPC(PULL8(p), 1)
  <2>1. Again(c, k, c.dbank % 256)
    BY <1>1, ByteAgain
  <2>3. PLB(p) = ArgToBank(k)
    BY DEF PLB
  <2> HIDE DEF k, p
  <2>4. Undone(c, ArgToBank(k), 2)
    BY <2>1, BankAgain DEF Again
  <2>5. Kept(PLB(p)) = Moved(c, 2)
    BY <2>3, <2>4, UndoneIsMoved
  <2> QED BY <2>5 DEF p
<1> QED BY <1>2, <1>3, <1>4

\* The return of a subroutine, to where c would be n bytes on.
LEMMA ReturnAgain ==
  ASSUME NEW c, Standing(c), NEW b, Beside(c, b), b.stack = c.stack, NEW f, NEW g, NEW v,
         Back(b, f, g, v), NEW n \in Int, NEW a \in Address, a = INC_KPC(c, n).kpc
  PROVE  Kept(SetKpc(g, a)) = Moved(c, n)
<1> DEFINE d == SetKpc(g, a)
<1>1. Beside(c, g) /\ g.stack = c.stack /\ Sized(c)
  BY BesideTrans DEF Back, Standing
<1>2. Beside(g, d) /\ d.kpc = a /\ d.stack = g.stack
  BY <1>1, SetsKpc DEF Beside
<1> HIDE DEF d
<1>3. Undone(c, d, n)
  BY <1>1, <1>2, BesideTrans DEF Undone, Beside
<1> QED BY <1>1, <1>3, UndoneIsMoved DEF d

LEMMA CallBack ==
  ASSUME NEW c, Sized(c), Shaped(c)
  PROVE  Kept(RTS(JSR(c))) = Moved(c, 3)
<1> DEFINE b == INC_KPC(c, 2)
           w == (c.kpc + 2) % 65536
           d == PUSH16(b, w)
           o == GET_2BYTE_ARG(c)
           k == Placed(c.kpc, o)
           f == SetKpc(d, k)
           g == PULL16(f)
           a == Bank(f.kpc) + ((g.arg + 1) % 65536)
<1>0. Standing(c)
  BY Standing256
<1>1. Standing(c) /\ c.kpc \in Address /\ c.kpc \in Int /\ o \in Word
  BY <1>0, SizedNumbers, ArgsAre DEF Sized
<1>2. Standing(b) /\ Beside(c, b) /\ b.stack = c.stack
  BY <1>0, StepStands DEF StandsOn
<1>3. JSR(c) = f /\ RTS(f) = SetKpc(g, a)
  BY DEF JSR, RTS, ToBehind, SetKpc, Placed
<1>4. w \in Int /\ w % 65536 = w /\ ((w + 1) % 65536) = (c.kpc + 3) % 65536
  BY <1>1, SMT
<1> HIDE DEF b, w
<1>5. HasWord(b, d, w)
  BY <1>2, <1>4, PushesWholeWord
<1> HIDE DEF d
<1>6. Sized(d) /\ Standing(d)
  BY <1>5 DEF HasWord, Standing
<1>7. k \in Address /\ Bank(k) = Bank(c.kpc)
  <2> HIDE DEF o
  <2> QED BY <1>1, PlacedIs
<1> HIDE DEF k
<1>8. Over(d, f) /\ f.kpc = k
  BY <1>6, <1>7, SetsKpc DEF Over
<1> HIDE DEF f
<1>9. PulledWord(f, g)
  <2>1. Standing(f)
    BY <1>6, <1>8, SamePage DEF Over, Beside, Standing
  <2> QED BY <2>1, PullsAll
<1> HIDE DEF g
<1>10. Back(b, f, g, w)
  <2>1. Back(b, f, g, w % 65536)
    BY <1>2, <1>4, <1>5, <1>8, <1>9, WordBack
  <2> QED BY <1>4, <2>1
<1>11. a = INC_KPC(c, 3).kpc /\ a \in Address
  <2>1. g.arg = w /\ Bank(f.kpc) = Bank(c.kpc)
    BY <1>7, <1>8, <1>10 DEF Back
  <2>2. a = Onward(c.kpc, 3)
    BY <1>4, <2>1 DEF Onward
  <2> QED BY <2>2, StepsTo
<1> HIDE DEF a
<1> QED BY <1>1, <1>2, <1>3, <1>10, <1>11, ReturnAgain

\* The instructions the 65816 added, clear of the bottom of page 1.
LEMMA LongCallBack ==
  ASSUME NEW c, Sized(c), Shaped(c), c.psr.e = 0 \/ c.stack > 257
  PROVE  Kept(RTL(JSL(c))) = Moved(c, 4)
<1> DEFINE b == INC_KPC(c, 3)
           w == b.kpc
           d == PUSH24_UNSAFE(b, w)
           k == GET_3BYTE_ARG(c)
           f == SetKpc(d, k)
           g == PULL24(f)
           a == Bank(g.arg) + ((g.arg + 1) % 65536)
<1>1. Standing(c) /\ c.kpc \in Address /\ c.kpc \in Int /\ k \in Address
  BY Standing256, SizedNumbers, ArgsAre DEF Sized
<1>2. Standing(b) /\ Beside(c, b) /\ b.stack = c.stack
      /\ b.kpc = Bank(c.kpc) + ((c.kpc + 3) % 65536)
  <2> HIDE DEF a, g, f, k, d, w
  <2>1. StandsOn(c, b, 3)
    BY <1>1, StepStands
  <2> HIDE DEF b
  <2> QED BY <2>1 DEF StandsOn
<1>3. JSL(c) = f /\ RTL(f) = SetKpc(g, a)
  BY DEF JSL, PushLong, RTL, ReturnLong, ToBehind, SetKpc
<1>4. w \in Int /\ w % 16777216 = w
  <2>1. w \in Address
    BY StepsTo
  <2> HIDE DEF w
  <2>2. w \in Int /\ 0 <= w /\ w < 16777216
    BY <2>1, AddressIs
  <2> QED BY <2>2, SMT
<1>5. b.psr.e = 1 => b.stack > 257
  BY <1>2 DEF Beside
<1> HIDE DEF b, k
<1>6. HasLong(b, d, w)
  <2> HIDE DEF w
  <2> QED BY <1>2, <1>4, <1>5, PushesWholeLong
<1> HIDE DEF d
<1>7. Sized(d) /\ Standing(d)
  BY <1>6 DEF HasLong, Standing
<1>8. Over(d, f) /\ f.kpc = k
  BY <1>1, <1>7, SetsKpc DEF Over
<1> HIDE DEF f
<1>9. PulledLong(f, g)
  <2>1. Standing(f)
    BY <1>7, <1>8, SamePage DEF Over, Beside, Standing
  <2> QED BY <2>1, PullsAll
<1> HIDE DEF g
<1>10. Back(b, f, g, w)
  <2> HIDE DEF w
  <2>1. Back(b, f, g, w % 16777216)
    BY <1>2, <1>4, <1>6, <1>8, <1>9, LongBack
  <2> QED BY <1>4, <2>1
<1>11. a = INC_KPC(c, 4).kpc /\ a \in Address
  <2>1. g.arg = w
    BY <1>10 DEF Back
  <2> HIDE DEF w
  <2>2. w = Onward(c.kpc, 3) /\ 4 = 3 + 1
    BY <1>2 DEF w, Onward
  <2>3. Onward(Onward(c.kpc, 3), 1) = Onward(c.kpc, 3 + 1)
    BY <1>1, TwoSteps
  <2>4. a = Onward(c.kpc, 4)
    BY <2>1, <2>2, <2>3 DEF Onward
  <2> QED BY <2>4, StepsTo
<1> HIDE DEF a, w
<1> QED BY <1>1, <1>2, <1>3, <1>10, <1>11, ReturnAgain

LEMMA IndexedCallBack ==
  ASSUME NEW c, Sized(c), Shaped(c), c.psr.e = 0 \/ c.stack > 257
  PROVE  Kept(RTS(JSR_ABS_X(c))) = Moved(c, 3)
<1> DEFINE o == GET_MEMORY16(c, KBankX(c), InBank)
           k == Placed(c.kpc, o)
           b == SetKpc(c, k)
           v == INC_KPC(c, 2).kpc
           d == PUSH16_UNSAFE(b, v)
           g == PULL16(d)
           a == Bank(d.kpc) + ((g.arg + 1) % 65536)
<1>0. Standing(c)
  BY Standing256
<1>1. c.kpc \in Address /\ c.kpc \in Int /\ 0 <= c.kpc /\ Sized(c)
  BY AddressIs DEF Sized
<1>2. o \in Word
  <2>1. KBankX(c) \in Int
    <3>1. c.xreg \in Int /\ GET_2BYTE_ARG(c) \in Int /\ Bank(c.kpc) \in Int
      BY <1>1, SizedNumbers, ArgsAre, BankIs, Numbers
    <3> QED BY <3>1 DEF KBankX
  <2> QED BY <2>1, ReadWord
<1>3. JSR_ABS_X(c) = d /\ RTS(d) = SetKpc(g, a)
  BY DEF JSR_ABS_X, JumpTo, RTS, ToBehind, SetKpc, Placed
<1>4. v = Onward(c.kpc, 2) /\ v \in Address
  BY StepsTo
<1> HIDE DEF o, v
<1>5. k \in Address /\ Bank(k) = Bank(c.kpc)
  BY <1>1, <1>2, PlacedIs
<1> HIDE DEF k
<1>6. Beside(c, b) /\ b.stack = c.stack /\ b.kpc = k
  BY <1>5, SetsKpc
<1> HIDE DEF b
<1>7. Standing(b) /\ (b.psr.e = 1 => b.stack > 257)
  BY <1>0, <1>6, SamePage DEF Standing, Beside
<1>8. v \in Int
  BY <1>4, Numbers
<1>9. HasWord(b, d, v)
  BY <1>7, <1>8, PushesWholeWord
<1> HIDE DEF d
<1>10. Standing(d) /\ Over(d, d) /\ d.kpc = k
  BY <1>6, <1>9, OverSelf DEF Standing, HasWord, Stacked
<1>11. PulledWord(d, g)
  BY <1>10, PullsAll
<1> HIDE DEF g
<1>12. Back(b, d, g, v % 65536)
  BY <1>7, <1>8, <1>9, <1>10, <1>11, WordBack
<1>13. a = INC_KPC(c, 3).kpc /\ a \in Address
  <2>1. g.arg = v % 65536 /\ Bank(d.kpc) = Bank(c.kpc)
    BY <1>5, <1>10, <1>12 DEF Back
  <2>2. ((v % 65536) + 1) % 65536 = (c.kpc + 3) % 65536
    BY <1>1, <1>4, SMT DEF Onward, Bank
  <2>3. a = Onward(c.kpc, 3)
    BY <2>1, <2>2 DEF Onward
  <2> QED BY <2>3, StepsTo
<1> HIDE DEF a
<1>14. Kept(SetKpc(g, a)) = Moved(c, 3)
  BY <1>0, <1>6, <1>12, <1>13, ReturnAgain
<1> QED BY <1>3, <1>14

LEMMA DirectBack ==
  ASSUME NEW c, Sized(c), Shaped(c), c.psr.e = 0 \/ c.stack > 257
  PROVE  Kept(PLD(PUSH16_UNSAFE(INC_KPC(c, 1), c.direct))) = Moved(c, 2)
<1> DEFINE b == INC_KPC(c, 1)
           v == c.direct
           d == PUSH16_UNSAFE(b, v)
           g == PULL16_UNSAFE(d)
           h == INC_KPC(g, 1)
<1>0. Standing(c)
  BY Standing256
<1>1. Standing(b) /\ Beside(c, b) /\ b.stack = c.stack
  BY <1>0, StepStands DEF StandsOn
<1>2. v \in Int
  BY SizedNumbers
<1>3. PLD(d) = ArgToDirect(h)
  BY DEF PLD
<1> HIDE DEF b, v
<1>4. b.psr.e = 1 => b.stack > 257
  BY <1>1 DEF Beside
<1>5. HasWord(b, d, v)
  BY <1>1, <1>2, <1>4, PushesWholeWord
<1> HIDE DEF d
<1>6. Standing(d) /\ Over(d, d) /\ d.kpc = b.kpc /\ d.stack = InPage(b, b.stack - 2)
      /\ d.psr = b.psr
  BY <1>5, OverSelf DEF Standing, HasWord, Stacked, Beside
<1>7. d.psr.e = 1 => d.stack < 510
  <2>1. b.stack \in Int /\ (b.psr.e = 1 => 256 <= b.stack /\ b.stack < 512)
    BY <1>1, StackIs
  <2>2. b.psr.e = 1 => InPage(b, b.stack - 2) = 256 + ((b.stack - 2) % 256)
    BY DEF InPage
  <2>3. b.psr.e = 1 => 256 + ((b.stack - 2) % 256) < 510
    BY <1>4, <2>1, SMT
  <2> QED BY <1>6, <2>2, <2>3
<1>8. PulledWord(d, g)
  BY <1>6, <1>7, PullsTogether
<1> HIDE DEF g
<1>9. Back(b, d, g, v % 65536)
  BY <1>1, <1>2, <1>5, <1>6, <1>8, WordBack
<1>10. Again(c, h, v % 65536)
  BY <1>0, <1>1, <1>6, <1>9, BackStepped DEF Again, b
<1> HIDE DEF h
<1>11. Undone(c, ArgToDirect(h), 2)
  BY <1>10, DirectAgain DEF Again, v
<1>12. Kept(PLD(d)) = Moved(c, 2)
  BY <1>3, <1>11, UndoneIsMoved
<1> QED BY <1>12 DEF d, b, v

-----------------------------------------------------------------------------
(* The status that is taken back.                                          *)
\* The byte of psr, and psr from it.
LEMMA PsrBack ==
  ASSUME NEW p \in Flags
  PROVE  PsrByte(p) \in Int /\ PsrByte(p) % 256 = PsrByte(p) /\ PsrOf(PsrByte(p), p.e) = p
<1> DEFINE b == PsrByte(p)
           n == p.n
           v == p.v
           m == p.m
           x == p.x
           d == p.d
           i == p.i
           z == p.z
           c == p.c
           q == PsrOf(b, p.e)
<1>1. /\ n \in 0 .. 1 /\ v \in 0 .. 1 /\ m \in 0 .. 1 /\ x \in 0 .. 1 /\ d \in 0 .. 1
      /\ i \in 0 .. 1 /\ z \in 0 .. 1 /\ c \in 0 .. 1
  BY DEF Flags, Bit
<1>2. b = 128 * n + 64 * v + 32 * m + 16 * x + 8 * d + 4 * i + 2 * z + c
  BY DEF PsrByte
<1> HIDE DEF b, n, v, m, x, d, i, z, c
<1>3. b \in Int /\ 0 <= b /\ b < 256
  BY <1>1, <1>2, SMT
<1>4. b % 256 = b
  BY <1>3, SMT
<1>5. b \div 128 = n /\ n % 2 = n
  BY <1>1, <1>2, SMT
<1>6. b \div 64 = 2 * n + v /\ (2 * n + v) % 2 = v
  BY <1>1, <1>2, SMT
<1>7. b \div 32 = 4 * n + 2 * v + m /\ (4 * n + 2 * v + m) % 2 = m
  BY <1>1, <1>2, SMT
<1>8. b \div 16 = 8 * n + 4 * v + 2 * m + x /\ (8 * n + 4 * v + 2 * m + x) % 2 = x
  BY <1>1, <1>2, SMT
<1>9. b \div 8 = 16 * n + 8 * v + 4 * m + 2 * x + d
      /\ (16 * n + 8 * v + 4 * m + 2 * x + d) % 2 = d
  BY <1>1, <1>2, SMT
<1>10. b \div 4 = 32 * n + 16 * v + 8 * m + 4 * x + 2 * d + i
      /\ (32 * n + 16 * v + 8 * m + 4 * x + 2 * d + i) % 2 = i
  BY <1>1, <1>2, SMT
<1>11. b \div 2 = 64 * n + 32 * v + 16 * m + 8 * x + 4 * d + 2 * i + z
      /\ (64 * n + 32 * v + 16 * m + 8 * x + 4 * d + 2 * i + z) % 2 = z
  BY <1>1, <1>2, SMT
<1>12. b \div 1 = b /\ b % 2 = c
  BY <1>1, <1>2, SMT
<1>13. /\ q.e = p.e /\ q.n = n /\ q.v = v /\ q.m = m /\ q.x = x /\ q.d = d
       /\ q.i = i /\ q.z = z /\ q.c = c
  BY <1>5, <1>6, <1>7, <1>8, <1>9, <1>10, <1>11, <1>12, Powers DEF PsrOf, BitOf
<1>14. DOMAIN q = {"e", "n", "v", "m", "x", "d", "i", "z", "c"} /\ q = [k \in DOMAIN q |-> q[k]]
  BY DEF PsrOf
<1>15. DOMAIN p = {"e", "n", "v", "m", "x", "d", "i", "z", "c"} /\ p = [k \in DOMAIN p |-> p[k]]
  BY DEF Flags
<1> HIDE DEF q
<1>16. q.n = p.n /\ q.v = p.v /\ q.m = p.m /\ q.x = p.x /\ q.d = p.d /\ q.i = p.i /\ q.z = p.z
       /\ q.c = p.c /\ q.e = p.e
  BY <1>13 DEF n, v, m, x, d, i, z, c
<1>17. q = p
  BY <1>14, <1>15, <1>16
<1> QED BY <1>3, <1>4, <1>17 DEF q, b

\* UPDATE_PSR when it has only to make the widths those of emulation.
LEMMA UpdateBack ==
  ASSUME NEW c, Standing(c), ~c.irq, NEW old, old.x = Fits(c.psr).x
  PROVE  LET d == UPDATE_PSR(c, old)
         IN  /\ Sized(d) /\ d.psr = Fits(c.psr) /\ d.acc8 = Fits(c.psr).m
             /\ d.kpc = c.kpc /\ d.acc = c.acc /\ d.xreg = c.xreg /\ d.yreg = c.yreg
             /\ d.stack = c.stack /\ d.dbank = c.dbank /\ d.direct = c.direct
             /\ d.neg = c.neg /\ d.zero = c.zero
<1> DEFINE p == Fits(c.psr)
           s == IF p.e = 1 THEN InPage(c, c.stack) ELSE c.stack
           x == Narrow(c.xreg, old, p)
           y == Narrow(c.yreg, old, p)
           b == SetWidths(c, p, s, x, y)
           d == SetAcc8(b, b.psr.m)
<1>1. Sized(c) /\ c.psr \in Flags
  BY DEF Standing, Sized
<1>2. p \in Flags /\ p.m \in Bit
  <2>1. p \in Flags
    BY <1>1, FitsIs
  <2> HIDE DEF p
  <2> QED BY <2>1 DEF Flags
<1>3. s = c.stack
  BY DEF Standing
<1>4. x = c.xreg /\ y = c.yreg
  BY DEF Narrow
<1>5. UPDATE_PSR(c, old) = Continue(b)
  BY DEF UPDATE_PSR, NewPsr, SetWidths
<1> HIDE DEF p, s, x, y
<1>6. /\ Sized(b) /\ b.psr = p /\ b.kpc = c.kpc /\ b.acc = c.acc /\ b.xreg = c.xreg
      /\ b.yreg = c.yreg /\ b.stack = c.stack /\ b.dbank = c.dbank /\ b.direct = c.direct
      /\ b.neg = c.neg /\ b.zero = c.zero /\ b.irq = c.irq
  <2>1. /\ c.xreg \in Word /\ c.yreg \in Word /\ c.stack \in Word
    BY <1>1 DEF Sized
  <2> QED BY <1>1, <1>2, <1>3, <1>4, <2>1 DEF Sized, SetWidths, Fields
<1> HIDE DEF b
<1>7. Continue(b) = d
  BY <1>6 DEF Continue, SetAcc8
<1>8. /\ Sized(d) /\ d.psr = b.psr /\ d.kpc = b.kpc /\ d.acc = b.acc /\ d.xreg = b.xreg
      /\ d.yreg = b.yreg /\ d.stack = b.stack /\ d.dbank = b.dbank /\ d.direct = b.direct
      /\ d.neg = b.neg /\ d.zero = b.zero /\ d.acc8 = p.m
  BY <1>2, <1>6 DEF Sized, SetAcc8, Fields
<1> HIDE DEF d
<1> QED BY <1>5, <1>6, <1>7, <1>8 DEF p

\* psr with its two flags in it is the same for both ways to get there.
LEMMA FoldedFits ==
  ASSUME NEW c, Sized(c), Shaped(c)
  PROVE  LET p == Folded(c)
         IN  /\ p \in Flags /\ Fits(p) = p
             /\ p.e = c.psr.e /\ p.m = c.psr.m /\ p.x = c.psr.x
             /\ p.n = c.neg /\ 1 - p.z = c.zero
<1> DEFINE p == Folded(c)
<1>1. c.psr \in Flags /\ c.neg \in Bit /\ c.zero \in Bit
  BY DEF Sized
<1>2. c.neg % 2 = c.neg /\ 1 - c.zero \in Bit /\ 1 - (1 - c.zero) = c.zero
  BY <1>1, BitIs, SMT
<1>3. p = [c.psr EXCEPT !.n = c.neg, !.z = 1 - c.zero]
  BY <1>2 DEF Folded
<1>4. /\ p \in Flags /\ p.e = c.psr.e /\ p.m = c.psr.m /\ p.x = c.psr.x
      /\ p.n = c.neg /\ p.z = 1 - c.zero
  BY <1>1, <1>2, <1>3 DEF Flags
<1> HIDE DEF p
<1>5. p.e = 1 => p.m = 1 /\ p.x = 1
  BY <1>4 DEF Shaped
<1>6. Fits(p) = p
  BY <1>4, <1>5 DEF Fits, Flags
<1> QED BY <1>2, <1>4, <1>6 DEF p

LEMMA FoldedSame ==
  ASSUME NEW c, NEW d, NEW p, p \in Flags, p.n \in Bit, p.z \in Bit, d.psr = p,
         d.neg = p.n, d.zero = 1 - p.z
  PROVE  Folded(d) = p
<1>1. d.neg % 2 = p.n /\ 1 - d.zero = p.z
  BY BitIs, SMT
<1> QED BY <1>1 DEF Folded, Flags

LEMMA RegsFinish ==
  ASSUME NEW c, Sized(c)
  PROVE  Regs(Finish(c)) = [Regs(c) EXCEPT !.psr = Folded(c)]
  BY DEF Sized, Fields, Regs, Finish

LEMMA PsrAgain ==
  ASSUME NEW c, Sized(c), Shaped(c), c.acc8 = c.psr.m, ~c.irq
  PROVE  Regs(Finish(PLP(PHP(c)))) = Regs(Finish(INC_KPC(c, 2)))
<1> DEFINE p == Folded(c)
           b == SetFlags(c, p)
           a == INC_KPC(b, 1)
           d == PUSH8(a, PsrByte(p))
           h == INC_KPC(PULL8(d), 1)
           w == WithPsr(h, p)
           u == UPDATE_PSR(w, p)
           m == INC_KPC(c, 2)
<1>1. /\ p \in Flags /\ Fits(p) = p /\ p.e = c.psr.e /\ p.m = c.psr.m /\ p.x = c.psr.x
      /\ p.n = c.neg /\ 1 - p.z = c.zero
  BY FoldedFits
<1>2. p.n \in Bit /\ p.z \in Bit
  BY <1>1 DEF Flags
<1>3. PHP(c) = PUSH8(a, PsrByte(a.psr))
  BY DEF PHP, PushPsr, SetFlags
<1> HIDE DEF p
<1>4. /\ Sized(b) /\ b.psr = p /\ b.kpc = c.kpc /\ b.acc = c.acc /\ b.xreg = c.xreg
      /\ b.yreg = c.yreg /\ b.stack = c.stack /\ b.dbank = c.dbank /\ b.direct = c.direct
      /\ b.neg = c.neg /\ b.zero = c.zero /\ b.irq = c.irq /\ b.acc8 = c.acc8
  BY <1>1 DEF Sized, Fields, SetFlags
<1>5. INC_KPC(b, 2).kpc = m.kpc
  BY <1>4 DEF INC_KPC, Sized, Fields
<1> HIDE DEF b
<1>6. Standing(b)
  <2>1. Shaped(b)
    BY <1>1, <1>4 DEF Shaped
  <2> QED BY <1>4, <2>1, Standing256
<1>7. a.psr = p
  BY <1>4, <1>6, StepStands DEF StandsOn, Beside
<1>8. /\ PsrByte(p) \in Int /\ PsrByte(p) % 256 = PsrByte(p) /\ PsrOf(PsrByte(p), p.e) = p
  BY <1>1, PsrBack
<1>9. Again(b, h, PsrByte(p))
  <2>1. Again(b, h, PsrByte(p) % 256)
    BY <1>6, <1>8, ByteAgain
  <2> QED BY <1>8, <2>1
<1>10. PHP(c) = d
  BY <1>3, <1>7
<1>11. PLP(d) = SetPsr(h, h.arg, h.psr.e)
  BY DEF PLP, PulledPsr
<1> HIDE DEF a, d, h
<1>12. /\ Sized(h) /\ h.psr = p /\ h.arg = PsrByte(p) /\ h.kpc = m.kpc /\ h.acc = c.acc
       /\ h.xreg = c.xreg /\ h.yreg = c.yreg /\ h.stack = c.stack /\ h.dbank = c.dbank
       /\ h.direct = c.direct /\ h.neg = c.neg /\ h.zero = c.zero /\ h.irq = c.irq
  BY <1>4, <1>5, <1>9 DEF Again, Beside
<1>13. PLP(d) = u
  BY <1>8, <1>11, <1>12 DEF SetPsr
<1>14. /\ Sized(w) /\ w.psr = p /\ w.kpc = m.kpc /\ w.acc = c.acc /\ w.xreg = c.xreg
       /\ w.yreg = c.yreg /\ w.stack = c.stack /\ w.dbank = c.dbank /\ w.direct = c.direct
       /\ w.neg = p.n /\ w.zero = 1 - p.z /\ w.irq = c.irq
  <2>1. c.zero \in Bit
    BY DEF Sized
  <2>2. 1 - p.z \in Bit
    BY <1>1, <2>1
  <2> QED BY <1>1, <1>2, <1>12, <2>2 DEF Sized, Fields, WithPsr
<1> HIDE DEF w
<1>15. Standing(w)
  BY <1>4, <1>6, <1>14, SamePage DEF Standing
<1>16. /\ Sized(u) /\ u.psr = p /\ u.acc8 = p.m /\ u.kpc = w.kpc /\ u.acc = w.acc
       /\ u.xreg = w.xreg /\ u.yreg = w.yreg /\ u.stack = w.stack /\ u.dbank = w.dbank
       /\ u.direct = w.direct /\ u.neg = w.neg /\ u.zero = w.zero
  <2>1. Fits(w.psr) = p /\ p.x = Fits(w.psr).x /\ ~w.irq
    BY <1>1, <1>14
  <2> QED BY <1>15, <2>1, UpdateBack
<1> HIDE DEF u
<1>17. Folded(u) = p
  BY <1>1, <1>2, <1>14, <1>16, FoldedSame
<1>18. Beside(c, m) /\ m.stack = c.stack
  BY StepsBeside
<1> HIDE DEF m
<1>19. Folded(m) = p
  BY <1>18 DEF Folded, Beside, p
<1>20. Regs(Finish(u)) = [Regs(u) EXCEPT !.psr = p] /\ Regs(Finish(m)) = [Regs(m) EXCEPT !.psr = p]
  <2>1. Sized(m)
    BY <1>18 DEF Beside
  <2> QED BY <1>16, <1>17, <1>19, <2>1, RegsFinish
<1>21. [Regs(u) EXCEPT !.psr = p] = [Regs(m) EXCEPT !.psr = p]
  BY <1>1, <1>14, <1>16, <1>18 DEF Beside, Regs
<1>22. Regs(Finish(u)) = Regs(Finish(m))
  BY <1>20, <1>21
<1> QED BY <1>10, <1>13, <1>22 DEF m

\* What is pushed is what is pulled, and a call returns behind itself: from
\* every state of every program, for every stack, in both modes.
THEOREM MachineKeepsStack == MachineSpec => []StackRoundTrip
<1>1. Sane => StackRoundTrip
  <2> SUFFICES ASSUME Sane, inside
               PROVE  LET l == [Locals(1) EXCEPT !.irq = FALSE]
                      IN  /\ Kept(RTS(JSR(l))) = Moved(l, 3)
                          /\ Kept(PLA(PushReg(l, l.acc, l.acc8 = 1))) = Moved(l, 2)
                          /\ Kept(PullIndex(PushReg(l, l.xreg, l.psr.x = 1), "x")) = Moved(l, 2)
                          /\ Kept(PLB(PUSH8(INC_KPC(l, 1), l.dbank))) = Moved(l, 2)
                          /\ Regs(Finish(PLP(PHP(l)))) = Regs(Finish(INC_KPC(l, 2)))
                          /\ (cpu.psr.e = 0 \/ cpu.stack > 257) =>
                                /\ Kept(RTL(JSL(l))) = Moved(l, 4)
                                /\ Kept(RTS(JSR_ABS_X(l))) = Moved(l, 3)
                                /\ Kept(PLD(PUSH16_UNSAFE(INC_KPC(l, 1), l.direct))) = Moved(l, 2)
    BY DEF StackRoundTrip
  <2> DEFINE c == Locals(1)
             l == [c EXCEPT !.irq = FALSE]
  <2>1. Sized(c) /\ Shaped(c) /\ Good(c) /\ c.psr = cpu.psr
    <3>1. 1 \in Nat \ {0}
      OBVIOUS
    <3> QED BY <3>1, LocalsAre
  <2>2. c.stack = cpu.stack
    BY DEF Locals
  <2> HIDE DEF c
  <2>3. /\ Sized(l) /\ Shaped(l) /\ l.acc8 = l.psr.m /\ ~l.irq
        /\ l.psr = cpu.psr /\ l.stack = cpu.stack
    BY <2>1, <2>2 DEF Sized, Fields, Shaped, Good
  <2> HIDE DEF l
  <2>4. Kept(RTS(JSR(l))) = Moved(l, 3)
    BY <2>3, CallBack
  <2>5. /\ Kept(PLA(PushReg(l, l.acc, l.acc8 = 1))) = Moved(l, 2)
        /\ Kept(PullIndex(PushReg(l, l.xreg, l.psr.x = 1), "x")) = Moved(l, 2)
        /\ Kept(PLB(PUSH8(INC_KPC(l, 1), l.dbank))) = Moved(l, 2)
    BY <2>3, RegistersBack
  <2>6. Regs(Finish(PLP(PHP(l)))) = Regs(Finish(INC_KPC(l, 2)))
    BY <2>3, PsrAgain
  <2>7. ASSUME cpu.psr.e = 0 \/ cpu.stack > 257
        PROVE  /\ Kept(RTL(JSL(l))) = Moved(l, 4)
               /\ Kept(RTS(JSR_ABS_X(l))) = Moved(l, 3)
               /\ Kept(PLD(PUSH16_UNSAFE(INC_KPC(l, 1), l.direct))) = Moved(l, 2)
    <3>1. l.psr.e = 0 \/ l.stack > 257
      BY <2>3, <2>7
    <3> QED BY <2>3, <3>1, LongCallBack, IndexedCallBack, DirectBack
  <2> QED BY <2>4, <2>5, <2>6, <2>7 DEF l, c
<1> QED BY <1>1, MachineIsSane, PTL

-----------------------------------------------------------------------------
(* An interrupt that returns.                                              *)

\* d is c with j bytes pushed.
Sunk(c, d, j) == Stacked(c, d, InPage(c, c.stack - j)) /\ Standing(d)

LEMMA PushesAnother ==
  ASSUME NEW c, Standing(c), NEW j \in 0 .. 3, NEW d, Sunk(c, d, j), NEW v \in Int,
         NEW i, i = j + 1
  PROVE  LET e == IrqPush(d, v)
         IN  /\ Sunk(c, e, i) /\ Below(c, e, j) = v % 256
             /\ \A k \in 0 .. 3 : k # j => Below(c, e, k) = Below(c, d, k)
<1> DEFINE e == PUSH8(d, v)
<1>1. IrqPush(d, v) = e
  BY DEF IrqPush, PUSH8
<1>2. c.stack \in Int /\ Sized(c) /\ j \in Int /\ c.stack - j \in Int
      /\ c.stack - j + (-1) = c.stack - i
  BY StackIs
<1>3. /\ Stacked(d, e, InPage(d, d.stack - 1)) /\ Standing(e)
      /\ GET_MEMORY8(e, d.stack) = v % 256
      /\ \A b \in Word : b # d.stack => GET_MEMORY8(e, b) = GET_MEMORY8(d, b)
  BY PushesTop DEF Sunk, Topped
<1> HIDE DEF e
<1>4. d.psr = c.psr /\ d.stack = InPage(c, c.stack - j)
  BY DEF Sunk, Stacked, Beside
<1>5. InPage(d, d.stack - 1) = InPage(c, c.stack - i)
  <2>1. d.stack - 1 = InPage(c, c.stack - j) + (-1)
    BY <1>2, <1>4, PageWord
  <2>2. InPage(d, d.stack - 1) = InPage(c, InPage(c, c.stack - j) + (-1))
    BY <1>4, <2>1, SamePage
  <2>3. InPage(c, InPage(c, c.stack - j) + (-1)) = InPage(c, c.stack - j + (-1))
    BY <1>2, PageAdds
  <2> QED BY <1>2, <2>2, <2>3
<1>6. Sunk(c, e, i)
  BY <1>3, <1>5, StackedTrans DEF Sunk
<1>7. ASSUME NEW k \in 0 .. 3, k # j PROVE Below(c, e, k) = Below(c, d, k)
  <2>1. InPage(c, c.stack - k) # d.stack
    BY <1>2, <1>4, <1>7, PageApart
  <2>2. InPage(c, c.stack - k) \in Word
    BY <1>2, PageWord
  <2> QED BY <1>3, <2>1, <2>2 DEF Below
<1> QED BY <1>1, <1>3, <1>4, <1>6, <1>7 DEF Below

\* The bytes of the interrupt sequence.
LEMMA PushesThree ==
  ASSUME NEW c, Standing(c), NEW u \in Int, NEW v \in Int, NEW w \in Int
  PROVE  LET d == IrqPush(IrqPush(IrqPush(c, u), v), w)
         IN  /\ Sunk(c, d, 3) /\ Below(c, d, 0) = u % 256 /\ Below(c, d, 1) = v % 256
             /\ Below(c, d, 2) = w % 256
<1> DEFINE a == IrqPush(c, u)
           b == IrqPush(a, v)
           d == IrqPush(b, w)
<1>1. Sunk(c, c, 0)
  BY StackIs DEF Standing, Sunk, Stacked, Beside
<1>2. 0 \in 0 .. 3 /\ 1 \in 0 .. 3 /\ 2 \in 0 .. 3 /\ 1 = 0 + 1 /\ 2 = 1 + 1 /\ 3 = 2 + 1
  OBVIOUS
<1>3. Sunk(c, a, 1) /\ Below(c, a, 0) = u % 256
  BY <1>1, <1>2, PushesAnother
<1> HIDE DEF a
<1>4. Sunk(c, b, 2) /\ Below(c, b, 1) = v % 256 /\ Below(c, b, 0) = Below(c, a, 0)
  BY <1>2, <1>3, PushesAnother
<1> HIDE DEF b
<1>5. Sunk(c, d, 3) /\ Below(c, d, 2) = w % 256 /\ Below(c, d, 1) = Below(c, b, 1)
      /\ Below(c, d, 0) = Below(c, b, 0)
  BY <1>2, <1>4, PushesAnother
<1> HIDE DEF d
<1> QED BY <1>3, <1>4, <1>5 DEF d, b, a

\* Long v lies on the stack of f, which is three bytes below that of c.
Lies(c, f, v) ==
  /\ Sized(f) /\ f.psr.e = c.psr.e /\ f.stack = InPage(c, c.stack - 3)
  /\ Below(c, f, 2) = v % 256 /\ Below(c, f, 1) = (v \div 256) % 256
  /\ Below(c, f, 0) = (v \div 65536) % 256

\* It is pulled, and nothing but the stack changes.
LEMMA PullsLying ==
  ASSUME NEW c, Standing(c), NEW f, NEW v \in Int, Lies(c, f, v)
  PROVE  LET g == PULL24(f)
         IN  Beside(f, g) /\ g.stack = c.stack /\ g.kpc = f.kpc /\ g.arg = v % 16777216
<1> DEFINE b == SetStack(f, c.stack)
           g == PULL24(f)
<1>1. c.stack \in Word /\ c.stack \in Int /\ Sized(c) /\ c.stack - 3 \in Int
      /\ InPage(c, c.stack) = c.stack
  BY StackIs DEF Standing, Sized
<1>2. Sized(f) /\ f.psr.e = c.psr.e /\ f.stack = InPage(c, c.stack - 3)
  BY DEF Lies
<1>3. /\ Sized(b) /\ b.psr = f.psr /\ b.stack = c.stack /\ b.kpc = f.kpc
      /\ Beside(f, b) /\ Beside(b, f)
  BY <1>1, <1>2, SetsStack DEF Stacked, Beside
<1> HIDE DEF b
<1>4. \A x : InPage(b, x) = InPage(c, x) /\ InPage(f, x) = InPage(c, x)
  BY <1>2, <1>3 DEF InPage
<1>5. Standing(b)
  BY <1>1, <1>3, <1>4 DEF Standing
<1>6. Standing(f)
  <2>1. InPage(c, InPage(c, c.stack - 3) + 0) = InPage(c, c.stack - 3 + 0)
    BY <1>1, PageAdds
  <2>2. InPage(c, c.stack - 3) + 0 = InPage(c, c.stack - 3) /\ c.stack - 3 + 0 = c.stack - 3
    BY <1>1, PageWord
  <2> QED BY <1>2, <1>4, <2>1, <2>2 DEF Standing
<1>7. HasLong(b, f, v)
  <2>1. \A k : Below(b, f, k) = Below(c, f, k)
    BY <1>3, <1>4 DEF Below
  <2>2. Stacked(b, f, InPage(b, b.stack - 3))
    BY <1>2, <1>3, <1>4 DEF Stacked
  <2> QED BY <1>6, <2>1, <2>2 DEF HasLong, Lies
<1>8. PulledLong(f, g)
  BY <1>6, PullsAll
<1>9. Over(f, f)
  BY <1>2, OverSelf
<1> HIDE DEF g
<1>10. Back(b, f, g, v % 16777216)
  BY <1>5, <1>7, <1>8, <1>9, LongBack
<1> QED BY <1>3, <1>10, BesideTrans DEF Back, g

\* What an interrupt leaves of c, with d its memory and stack.
Handed(c, d, f) ==
  /\ Sized(f) /\ f.mem = d.mem /\ f.stack = d.stack /\ Bank(f.kpc) = 0 /\ ~f.irq
  /\ f.acc = c.acc /\ f.xreg = c.xreg /\ f.yreg = c.yreg /\ f.dbank = c.dbank
  /\ f.direct = c.direct /\ f.psr.e = c.psr.e /\ f.psr.x = c.psr.x

LEMMA Hands ==
  ASSUME NEW c, NEW d, Beside(c, d)
  PROVE  Handed(c, d, [EnterHandler(d) EXCEPT !.irq = FALSE])
<1> DEFINE k == GET_MEMORY16(d, IrqVector(d), Linear)
           p == [d.psr EXCEPT !.i = 1, !.d = 0]
           f == [d EXCEPT !.wait = FALSE, !.psr = p, !.kpc = k, !.irq = FALSE]
<1>1. Sized(d)
  BY DEF Beside
<1>2. k \in Word /\ k \in Address
  BY <1>1, VectorIs, ReadWord, Parts
<1>3. p \in Flags /\ p.e = d.psr.e /\ p.x = d.psr.x
  <2>1. d.psr \in Flags /\ 0 \in Bit /\ 1 \in Bit
    BY <1>1, BitIs DEF Sized
  <2> QED BY <2>1 DEF Flags
<1>4. [EnterHandler(d) EXCEPT !.irq = FALSE] = f
  <2> HIDE DEF k
  <2>1. DOMAIN d = Fields
    BY <1>1 DEF Sized
  <2>2. EnterHandler(d) = [d EXCEPT !.wait = FALSE, !.psr.i = 1, !.psr.d = 0, !.kpc = k]
    BY DEF EnterHandler, k
  <2> QED BY <2>1, <2>2 DEF Fields
<1>5. Bank(k) = 0
  <2> HIDE DEF k
  <2> QED BY <1>2, WordIs, SMT DEF Bank
<1> HIDE DEF k, p
<1>6. Handed(c, d, f)
  BY <1>1, <1>2, <1>3, <1>5 DEF Handed, Beside, Sized, Fields
<1> QED BY <1>4, <1>6

\* u is c again at pc, with the flags in psr and beside it.
Comes(c, u, pc) ==
  /\ Sized(u) /\ u.psr = c.psr /\ u.neg = c.psr.n /\ u.zero = 1 - c.psr.z /\ u.kpc = pc
  /\ u.acc = c.acc /\ u.xreg = c.xreg /\ u.yreg = c.yreg /\ u.stack = c.stack
  /\ u.dbank = c.dbank /\ u.direct = c.direct

\* Setting psr and the program counter at the end of the return.
LEMMA ReturnUpdates ==
  ASSUME NEW c, Standing(c), NEW q \in Flags, Fits(q) = c.psr, q.n = c.psr.n, q.z = c.psr.z,
         q.e = c.psr.e, NEW pc \in Address,
         NEW w, Sized(w), ~w.irq, w.psr = q, w.neg = q.n, w.zero = 1 - q.z, w.kpc = pc,
         w.acc = c.acc, w.xreg = c.xreg, w.yreg = c.yreg, w.stack = c.stack,
         w.dbank = c.dbank, w.direct = c.direct, NEW old, old.x = c.psr.x
  PROVE  Comes(c, UPDATE_PSR(w, old), pc)
<1> DEFINE u == UPDATE_PSR(w, old)
<1>1. Standing(w)
  <2>1. InPage(w, w.stack) = InPage(c, c.stack)
    BY DEF InPage
  <2> QED BY <2>1 DEF Standing
<1>2. old.x = Fits(w.psr).x
  OBVIOUS
<1>3. /\ Sized(u) /\ u.psr = Fits(w.psr) /\ u.kpc = w.kpc /\ u.acc = w.acc
      /\ u.xreg = w.xreg /\ u.yreg = w.yreg /\ u.stack = w.stack /\ u.dbank = w.dbank
      /\ u.direct = w.direct /\ u.neg = w.neg /\ u.zero = w.zero
  BY <1>1, <1>2, UpdateBack
<1> HIDE DEF u
<1>4. Comes(c, u, pc)
  BY <1>3 DEF Comes
<1> QED BY <1>4 DEF u

\* The longs that come back.
LEMMA Whole ==
  /\ \A a \in Address : a \in Int /\ a % 16777216 = a
  /\ \A w \in Word, b \in Byte :
       LET v == w * 256 + b
       IN  /\ v \in Int /\ v % 16777216 = v /\ v % 256 = b /\ v \div 256 = w
           /\ (v \div 65536) % 256 = (w \div 256) % 256
  BY SMT, AddressIs, WordIs, ByteIs

LEMMA NativeComes ==
  ASSUME NEW c, Standing(c), Shaped(c), c.psr.e = 0, NEW pc \in Address,
         NEW d, Sunk(c, d, 4), Below(c, d, 3) = PsrByte(c.psr) % 256,
         Below(c, d, 2) = pc % 256, Below(c, d, 1) = (pc \div 256) % 256,
         Below(c, d, 0) = (pc \div 65536) % 256, NEW f, Handed(c, d, f)
  PROVE  Comes(c, RTI(f), pc)
<1> DEFINE g == PULL8(f)
           n == NativePsr(g)
           h == PULL24(n)
           w == SetKpc(h, h.arg)
<1>1. /\ Sized(f) /\ f.mem = d.mem /\ f.stack = d.stack /\ ~f.irq
      /\ f.acc = c.acc /\ f.xreg = c.xreg /\ f.yreg = c.yreg /\ f.dbank = c.dbank
      /\ f.direct = c.direct /\ f.psr.e = 0 /\ f.psr.x = c.psr.x
  BY DEF Handed
<1>2. /\ Sized(c) /\ c.psr \in Flags /\ c.stack \in Int /\ c.stack - 4 \in Int
      /\ c.stack - 4 + 1 = c.stack - 3 /\ c.stack - 4 + 0 = c.stack - 4 /\ c.stack - 3 \in Int
  BY StackIs DEF Standing, Sized
<1>3. d.stack = InPage(c, c.stack - 4)
  BY DEF Sunk, Stacked
<1>4. \A x : InPage(f, x) = InPage(c, x)
  BY <1>1 DEF InPage
<1>5. Standing(f) /\ InPage(f, f.stack + 1) = InPage(c, c.stack - 3)
  <2>1. InPage(c, InPage(c, c.stack - 4) + 0) = InPage(c, c.stack - 4 + 0)
        /\ InPage(c, InPage(c, c.stack - 4) + 1) = InPage(c, c.stack - 4 + 1)
    BY <1>2, PageAdds
  <2>2. InPage(c, c.stack - 4) + 0 = InPage(c, c.stack - 4)
    BY <1>2, PageWord
  <2> QED BY <1>1, <1>2, <1>3, <1>4, <2>1, <2>2 DEF Standing
<1>6. RTI(f) = UPDATE_PSR(w, f.psr)
  BY <1>1 DEF RTI, NativeReturn, SetKpc
<1>7. /\ Beside(f, g) /\ g.stack = InPage(c, c.stack - 3) /\ g.mem = d.mem
      /\ g.arg = PsrByte(c.psr) % 256
  <2>1. Stacked(f, g, InPage(f, f.stack + 1)) /\ g.mem = f.mem /\ g.arg = Above(f, 1)
    BY <1>5, PullsOne
  <2>2. Above(f, 1) = Below(c, d, 3)
    BY <1>1, <1>5, SameBytes DEF Above, Below
  <2> QED BY <1>1, <1>5, <2>1, <2>2 DEF Stacked
<1> HIDE DEF g
<1>8. PsrOf(g.arg, 0) = c.psr
  BY <1>2, <1>7, PsrBack
<1>9. /\ Sized(n) /\ n.psr = c.psr /\ n.neg = c.psr.n /\ n.zero = 1 - c.psr.z
      /\ n.stack = g.stack /\ n.mem = g.mem /\ n.acc = g.acc /\ n.xreg = g.xreg
      /\ n.yreg = g.yreg /\ n.dbank = g.dbank /\ n.direct = g.direct /\ n.irq = g.irq
  <2>1. n = WithPsr(g, c.psr)
    BY <1>8 DEF NativePsr
  <2>2. c.psr.n \in Bit /\ 1 - c.psr.z \in Bit
    BY <1>2, BitIs DEF Flags
  <2>3. Sized(g)
    BY <1>7 DEF Beside
  <2> HIDE DEF n
  <2> QED BY <1>2, <2>1, <2>2, <2>3 DEF Sized, Fields, WithPsr
<1> HIDE DEF n
<1>10. pc \in Int /\ pc % 16777216 = pc
  BY Whole
<1>11. Lies(c, n, pc)
  <2>1. \A k : Below(c, n, k) = Below(c, d, k)
    BY <1>7, <1>9, SameBytes DEF Below
  <2> QED BY <1>7, <1>9, <2>1 DEF Lies
<1>12. Beside(n, h) /\ h.stack = c.stack /\ h.arg = pc
  BY <1>10, <1>11, PullsLying
<1> HIDE DEF h
<1>13. Beside(h, w) /\ w.kpc = pc /\ w.stack = h.stack
  BY <1>12, SetsKpc DEF Beside
<1> HIDE DEF w
<1>14. Fits(c.psr) = c.psr
  BY DEF Fits
<1>15. /\ Sized(w) /\ ~w.irq /\ w.psr = c.psr /\ w.neg = c.psr.n /\ w.zero = 1 - c.psr.z
       /\ w.kpc = pc /\ w.acc = c.acc /\ w.xreg = c.xreg /\ w.yreg = c.yreg
       /\ w.stack = c.stack /\ w.dbank = c.dbank /\ w.direct = c.direct
  BY <1>1, <1>7, <1>9, <1>12, <1>13 DEF Beside
<1>16. Comes(c, UPDATE_PSR(w, f.psr), pc)
  BY <1>1, <1>2, <1>14, <1>15, ReturnUpdates
<1> QED BY <1>6, <1>16

LEMMA EmulationComes ==
  ASSUME NEW c, Standing(c), Shaped(c), c.psr.e = 1, NEW pc \in Word,
         NEW d, Sunk(c, d, 3), NEW q, q = [c.psr EXCEPT !.x = 0], Below(c, d, 2) = PsrByte(q) % 256,
         Below(c, d, 1) = pc % 256, Below(c, d, 0) = (pc \div 256) % 256,
         NEW f, Handed(c, d, f)
  PROVE  Comes(c, RTI(f), pc)
<1> DEFINE b == PsrByte(q)
           v == pc * 256 + b
           g == PULL24(f)
           h == SetKpc(g, pc)
           w == WithPsr(h, q)
<1>1. /\ Sized(f) /\ f.mem = d.mem /\ f.stack = d.stack /\ ~f.irq /\ Bank(f.kpc) = 0
      /\ f.acc = c.acc /\ f.xreg = c.xreg /\ f.yreg = c.yreg /\ f.dbank = c.dbank
      /\ f.direct = c.direct /\ f.psr.e = 1 /\ f.psr.x = c.psr.x
  BY DEF Handed
<1>2. Sized(c) /\ c.psr \in Flags
  BY DEF Standing, Sized
<1>3. /\ q \in Flags /\ q.e = 1 /\ q.n = c.psr.n /\ q.z = c.psr.z /\ Fits(q) = c.psr
      /\ q.e = c.psr.e
  <2>1. 0 \in Bit
    BY BitIs
  <2>2. c.psr.m = 1 /\ c.psr.x = 1
    BY DEF Shaped
  <2>3. q \in Flags /\ q.e = 1 /\ q.n = c.psr.n /\ q.z = c.psr.z
    BY <1>2, <2>1 DEF Flags
  <2>4. Fits(q) = [q EXCEPT !.m = 1, !.x = 1]
    BY <2>3 DEF Fits
  <2>5. [q EXCEPT !.m = 1, !.x = 1] = c.psr
    BY <1>2, <2>2 DEF Flags
  <2> QED BY <2>3, <2>4, <2>5
<1>4. b \in Byte /\ b % 256 = b /\ PsrOf(b, 1) = q
  <2>1. b \in Int /\ b % 256 = b /\ PsrOf(b, 1) = q
    BY <1>3, PsrBack
  <2> HIDE DEF b
  <2> QED BY <2>1, Wraps
<1> HIDE DEF b
<1>5. /\ v \in Int /\ v % 16777216 = v /\ v % 256 = b /\ v \div 256 = pc
      /\ (v \div 65536) % 256 = (pc \div 256) % 256
  BY <1>4, Whole
<1> HIDE DEF v
<1>6. Lies(c, f, v)
  <2>1. \A k : Below(c, f, k) = Below(c, d, k)
    BY <1>1, SameBytes DEF Below
  <2>2. d.stack = InPage(c, c.stack - 3)
    BY DEF Sunk, Stacked
  <2> QED BY <1>1, <1>4, <1>5, <2>1, <2>2 DEF Lies, b
<1>7. Beside(f, g) /\ g.stack = c.stack /\ g.kpc = f.kpc /\ g.arg = v
  BY <1>5, <1>6, PullsLying
<1>8. RTI(f) = EmulReturn(g)
  BY <1>1 DEF RTI
<1> HIDE DEF g
<1>9. EmulReturn(g) = UPDATE_PSR(w, g.psr)
  <2>1. Bank(g.kpc) + (g.arg \div 256) = pc /\ g.arg % 256 = b
    <3>1. 0 + pc = pc
      BY WordIs
    <3> QED BY <1>1, <1>5, <1>7, <3>1
  <2>2. h.psr = g.psr
    BY <1>7 DEF SetKpc, Beside, Sized, Fields
  <2>3. EmulReturn(g) = SetPsr(h, b, 1)
    BY <2>1 DEF EmulReturn, SetKpc
  <2> HIDE DEF h
  <2> QED BY <1>4, <2>2, <2>3 DEF SetPsr
<1>10. pc \in Address
  BY Parts
<1>11. Beside(g, h) /\ h.kpc = pc /\ h.stack = g.stack
  BY <1>7, <1>10, SetsKpc DEF Beside
<1> HIDE DEF h
<1>12. /\ Sized(w) /\ ~w.irq /\ w.psr = q /\ w.neg = q.n /\ w.zero = 1 - q.z
       /\ w.kpc = pc /\ w.acc = c.acc /\ w.xreg = c.xreg /\ w.yreg = c.yreg
       /\ w.stack = c.stack /\ w.dbank = c.dbank /\ w.direct = c.direct
  <2>1. q.n \in Bit /\ 1 - q.z \in Bit
    BY <1>3, BitIs DEF Flags
  <2> QED BY <1>1, <1>3, <1>7, <1>11, <2>1 DEF Beside, Sized, Fields, WithPsr
<1> HIDE DEF w
<1>13. g.psr.x = c.psr.x
  BY <1>1, <1>7 DEF Beside
<1>14. Comes(c, UPDATE_PSR(w, g.psr), pc)
  BY <1>3, <1>10, <1>12, <1>13, ReturnUpdates
<1> QED BY <1>8, <1>9, <1>14

\* The interrupt at pc whose handler returns at once.
LEMMA InterruptComes ==
  ASSUME NEW c, Sized(c), Shaped(c), NEW pc \in Address, c.psr.e = 1 => pc \in Word
  PROVE  Comes(c, RTI([InterruptAt(c, pc) EXCEPT !.irq = FALSE]), pc)
<1>1. /\ Standing(c) /\ c.psr \in Flags /\ pc \in Int /\ pc \div 256 \in Int
      /\ pc \div 65536 \in Int
  BY Standing256, Numbers DEF Sized
<1>2. CASE c.psr.e = 1
  <2> DEFINE q == [c.psr EXCEPT !.x = 0]
             d == IrqPush(IrqPush(IrqPush(c, pc \div 256), pc), PsrByte(q))
             f == [EnterHandler(d) EXCEPT !.irq = FALSE]
  <2>1. InterruptAt(c, pc) = EnterHandler(d)
    BY <1>2 DEF InterruptAt, IrqBank, IrqPsr
  <2>2. PsrByte(q) \in Int
    <3>1. q \in Flags
      BY <1>1, BitIs DEF Flags
    <3> QED BY <3>1, PsrByteIs
  <2> HIDE DEF q
  <2>3. /\ Sunk(c, d, 3) /\ Below(c, d, 0) = (pc \div 256) % 256 /\ Below(c, d, 1) = pc % 256
        /\ Below(c, d, 2) = PsrByte(q) % 256
    BY <1>1, <2>2, PushesThree
  <2> HIDE DEF d
  <2>4. Handed(c, d, f)
    BY <2>3, Hands DEF Sunk, Stacked
  <2> HIDE DEF f
  <2>5. Comes(c, RTI(f), pc)
    BY <1>1, <1>2, <2>3, <2>4, EmulationComes DEF q
  <2> QED BY <2>1, <2>5 DEF f
<1>3. CASE c.psr.e # 1
  <2> DEFINE a == IrqPush(IrqPush(IrqPush(c, pc \div 65536), pc \div 256), pc)
             d == IrqPush(a, PsrByte(c.psr))
             f == [EnterHandler(d) EXCEPT !.irq = FALSE]
  <2>1. InterruptAt(c, pc) = EnterHandler(d)
    BY <1>3 DEF InterruptAt, IrqBank, IrqPsr
  <2>2. PsrByte(c.psr) \in Int /\ c.psr.e = 0
    BY <1>1, <1>3, PsrByteIs, BitIs DEF Flags
  <2>3. /\ Sunk(c, a, 3) /\ Below(c, a, 0) = (pc \div 65536) % 256
        /\ Below(c, a, 1) = (pc \div 256) % 256 /\ Below(c, a, 2) = pc % 256
    BY <1>1, PushesThree
  <2> HIDE DEF a
  <2>4. 3 \in 0 .. 3 /\ 4 = 3 + 1 /\ 0 \in 0 .. 3 /\ 1 \in 0 .. 3 /\ 2 \in 0 .. 3
    OBVIOUS
  <2>5. /\ Sunk(c, d, 4) /\ Below(c, d, 3) = PsrByte(c.psr) % 256
        /\ \A k \in 0 .. 3 : k # 3 => Below(c, d, k) = Below(c, a, k)
    BY <1>1, <2>2, <2>3, <2>4, PushesAnother
  <2> HIDE DEF d
  <2>6. Handed(c, d, f)
    BY <2>5, Hands DEF Sunk, Stacked
  <2> HIDE DEF f
  <2>7. Below(c, d, 0) = (pc \div 65536) % 256 /\ Below(c, d, 1) = (pc \div 256) % 256
        /\ Below(c, d, 2) = pc % 256
    BY <2>3, <2>4, <2>5
  <2>8. Comes(c, RTI(f), pc)
    BY <1>1, <2>2, <2>5, <2>6, <2>7, NativeComes
  <2> QED BY <2>1, <2>8 DEF f
<1> QED BY <1>2, <1>3

\* What comes back is what was there, whatever is beside it.
LEMMA ComesLasting ==
  ASSUME NEW c, Sized(c), c.psr.n = c.neg, c.psr.z = 1 - c.zero, NEW pc, NEW u, Comes(c, u, pc),
         NEW m, Beside(c, m), m.stack = c.stack, m.kpc = pc
  PROVE  Lasting(Finish(u)) = Lasting(m)
<1>1. /\ Sized(u) /\ u.psr = c.psr /\ u.neg = c.psr.n /\ u.zero = 1 - c.psr.z /\ u.kpc = pc
      /\ u.acc = c.acc /\ u.xreg = c.xreg /\ u.yreg = c.yreg /\ u.stack = c.stack
      /\ u.dbank = c.dbank /\ u.direct = c.direct
  BY DEF Comes
<1>2. c.psr \in Flags /\ c.psr.n \in Bit /\ c.psr.z \in Bit /\ c.zero \in Bit
  BY DEF Sized, Flags
<1>3. 1 - c.psr.z = c.zero
  BY <1>2, BitIs
<1>4. Folded(u) = c.psr
  BY <1>1, <1>2, FoldedSame
<1>5. Regs(Finish(u)) = [Regs(u) EXCEPT !.psr = c.psr]
  BY <1>1, <1>4, RegsFinish
<1>6. Lasting(Finish(u)) = [[Regs(u) EXCEPT !.psr = c.psr] EXCEPT !.acc8 = 0]
  BY <1>5 DEF Lasting
<1>7. /\ m.psr = c.psr /\ u.kpc = m.kpc /\ u.acc = m.acc /\ u.xreg = m.xreg /\ u.yreg = m.yreg
      /\ u.stack = m.stack /\ u.dbank = m.dbank /\ u.direct = m.direct /\ u.neg = m.neg
      /\ u.zero = m.zero
  BY <1>1, <1>3 DEF Beside
<1> DEFINE Names == {"kpc", "acc", "xreg", "yreg", "stack", "dbank", "direct", "psr", "neg",
                      "zero", "acc8"}
           r == Regs(u)
           t == Regs(m)
<1>8. DOMAIN r = Names /\ DOMAIN t = Names /\ t.psr = c.psr
  BY <1>7 DEF Regs
<1>9. \A k \in Names : k \notin {"psr", "acc8"} => r[k] = t[k]
  BY <1>7 DEF Regs
<1> HIDE DEF r, t
<1>10. [[r EXCEPT !.psr = c.psr] EXCEPT !.acc8 = 0] = [t EXCEPT !.acc8 = 0]
  BY <1>8, <1>9
<1> QED BY <1>6, <1>10 DEF Lasting, r, t

\* An interrupt whose handler returns gives every register and flag back: between
\* any two instructions of any program, in both modes, for every stack.
THEOREM MachineIsTransparent == MachineSpec => []InterruptIsTransparent
<1>1. Sane => InterruptIsTransparent
  <2> SUFFICES ASSUME Sane, ~inside, cpu.psr.e = 1 => cpu.kpc < 65536,
                      wait => cpu.kpc % 65536 < 65535
               PROVE  Lasting(Served(Locals(1)))
                        = Lasting(IF wait THEN INC_KPC(Locals(1), 1) ELSE Locals(1))
    BY DEF InterruptIsTransparent
  <2> DEFINE c == Locals(1)
             pc == IF c.wait THEN c.kpc + 1 ELSE c.kpc
             m == IF wait THEN INC_KPC(c, 1) ELSE c
             u == RTI([InterruptAt(c, pc) EXCEPT !.irq = FALSE])
  <2>1. Sized(c) /\ Shaped(c) /\ c.wait = wait /\ c.psr = cpu.psr /\ c.kpc = cpu.kpc
    <3>1. 1 \in Nat \ {0}
      OBVIOUS
    <3> QED BY <3>1, LocalsAre
  <2>2. c.psr.n = c.neg /\ c.psr.z = 1 - c.zero
    <3>1. c.neg = cpu.neg /\ c.zero = cpu.zero /\ c.psr = cpu.psr
      BY DEF Locals
    <3>2. Gathered(cpu)
      BY DEF Sane, EngineShape
    <3> QED BY <3>1, <3>2 DEF Gathered
  <2>3. Served(c) = Finish(u)
    BY DEF Served, take_irq
  <2> HIDE DEF c
  <2>4. c.kpc \in Address /\ c.kpc \in Int /\ 0 <= c.kpc /\ c.kpc < 16777216
    BY <2>1, AddressIs DEF Sized
  <2>5. c.wait => c.kpc % 65536 < 65535 /\ c.kpc + 1 = Onward(c.kpc, 1)
    <3>1. ASSUME c.kpc % 65536 < 65535 PROVE c.kpc + 1 = Bank(c.kpc) + ((c.kpc + 1) % 65536)
      BY <2>4, <3>1, SMT DEF Bank
    <3> QED BY <2>1, <3>1 DEF Onward
  <2>6. Beside(c, m) /\ m.stack = c.stack /\ m.kpc = pc /\ pc \in Address
    <3>1. CASE wait
      <4>1. Beside(c, INC_KPC(c, 1)) /\ INC_KPC(c, 1).stack = c.stack
        BY <2>1, StepsBeside
      <4>2. INC_KPC(c, 1).kpc = Onward(c.kpc, 1) /\ Onward(c.kpc, 1) \in Address
        BY <2>1, StepsTo
      <4> QED BY <2>1, <2>5, <3>1, <4>1, <4>2
    <3>2. CASE ~wait
      BY <2>1, <2>4, <3>2, OverSelf DEF Over
    <3> QED BY <3>1, <3>2
  <2>7. c.psr.e = 1 => pc \in Word
    <3>1. ASSUME c.psr.e = 1 PROVE pc \in Word
      <4>1. c.kpc < 65536 /\ c.kpc % 65536 = c.kpc
        BY <2>1, <2>4, <3>1, SMT
      <4>2. CASE wait
        <5>1. c.kpc < 65535
          BY <2>1, <4>1, <4>2
        <5> QED BY <2>1, <2>4, <4>2, <5>1, WordIs
      <4>3. CASE ~wait
        BY <2>1, <2>4, <4>1, <4>3, WordIs
      <4> QED BY <4>2, <4>3
    <3> QED BY <3>1
  <2> HIDE DEF pc, m
  <2>8. Comes(c, u, pc)
    BY <2>1, <2>6, <2>7, InterruptComes
  <2> HIDE DEF u
  <2>9. Lasting(Finish(u)) = Lasting(m)
    BY <2>1, <2>2, <2>6, <2>8, ComesLasting
  <2> QED BY <2>3, <2>9 DEF m, c
<1> QED BY <1>1, MachineIsSane, PTL

-----------------------------------------------------------------------------
(* Operands.  Two states that differ at most in the bytes behind the       *)
(* opcode: what an operator does with one it does with the other.          *)
Alike(c, d) ==
  /\ DOMAIN c = Fields /\ DOMAIN d = Fields
  /\ c.kpc = d.kpc /\ c.acc = d.acc /\ c.xreg = d.xreg /\ c.yreg = d.yreg
  /\ c.stack = d.stack /\ c.dbank = d.dbank /\ c.direct = d.direct /\ c.psr = d.psr
  /\ c.neg = d.neg /\ c.zero = d.zero /\ c.acc8 = d.acc8 /\ c.mem = d.mem
  /\ c.irq = d.irq /\ c.wait = d.wait /\ c.arg = d.arg /\ c.addr_latch = d.addr_latch
  /\ c.burst = d.burst /\ c.ret = d.ret

LEMMA AlikeSets ==
  ASSUME NEW c, NEW d, Alike(c, d), NEW v, NEW w
  PROVE  /\ Alike(SetKpc(c, v), SetKpc(d, v)) /\ Alike(SetReg(c, v), SetReg(d, v))
         /\ Alike(SetArg(c, v), SetArg(d, v)) /\ Alike(SetBank(c, v), SetBank(d, v))
         /\ Alike(SetDirect(c, v), SetDirect(d, v)) /\ Alike(SetStack(c, v), SetStack(d, v))
         /\ Alike(SetZero(c, v), SetZero(d, v)) /\ Alike(SetBoth(c, v, w), SetBoth(d, v, w))
         /\ Alike(SetPull(c, v, w), SetPull(d, v, w)) /\ Alike(SetLoad(c, v), SetLoad(d, v))
         /\ Alike(SetFlags(c, v), SetFlags(d, v)) /\ Alike(SetX(c, v), SetX(d, v))
         /\ Alike(SetY(c, v), SetY(d, v)) /\ Alike(SetRet(c, v), SetRet(d, v))
         /\ Alike(SetWait(c, v), SetWait(d, v))
<1>1. /\ Alike(SetKpc(c, v), SetKpc(d, v)) /\ Alike(SetReg(c, v), SetReg(d, v))
      /\ Alike(SetArg(c, v), SetArg(d, v)) /\ Alike(SetBank(c, v), SetBank(d, v))
      /\ Alike(SetDirect(c, v), SetDirect(d, v)) /\ Alike(SetStack(c, v), SetStack(d, v))
  BY DEF Alike, Fields, SetKpc, SetReg, SetArg, SetBank, SetDirect, SetStack
<1>2. /\ Alike(SetZero(c, v), SetZero(d, v)) /\ Alike(SetBoth(c, v, w), SetBoth(d, v, w))
      /\ Alike(SetPull(c, v, w), SetPull(d, v, w)) /\ Alike(SetLoad(c, v), SetLoad(d, v))
      /\ Alike(SetFlags(c, v), SetFlags(d, v)) /\ Alike(SetX(c, v), SetX(d, v))
  BY DEF Alike, Fields, SetZero, SetBoth, SetPull, SetLoad, SetFlags, SetX
<1>3. /\ Alike(SetY(c, v), SetY(d, v)) /\ Alike(SetRet(c, v), SetRet(d, v))
      /\ Alike(SetWait(c, v), SetWait(d, v))
  BY DEF Alike, Fields, SetY, SetRet, SetWait
<1> QED BY <1>1, <1>2, <1>3

LEMMA AlikeReads ==
  ASSUME NEW c, NEW d, Alike(c, d), NEW a, NEW b
  PROVE  /\ GET_MEMORY8(c, a) = GET_MEMORY8(d, a)
         /\ GET_MEMORY16(c, a, b) = GET_MEMORY16(d, a, b)
         /\ GET_MEMORY24(c, a, b) = GET_MEMORY24(d, a, b)
         /\ GET_MEMORY_DIRECT_PAGE16(c, a) = GET_MEMORY_DIRECT_PAGE16(d, a)
         /\ InPage(c, a) = InPage(d, a)
  BY DEF Alike, GET_MEMORY8, GET_MEMORY16, GET_MEMORY24, GET_MEMORY_DIRECT_PAGE16, InPage

LEMMA AlikeStep ==
  ASSUME NEW c, NEW d, Alike(c, d), NEW n
  PROVE  Alike(INC_KPC(c, n), INC_KPC(d, n))
  BY DEF Alike, Fields, INC_KPC

LEMMA AlikeWrites ==
  ASSUME NEW c, NEW d, Alike(c, d), NEW a, NEW v, NEW b
  PROVE  /\ Alike(SET_MEMORY8(c, a, v), SET_MEMORY8(d, a, v))
         /\ Alike(SET_MEMORY16(c, a, v, b), SET_MEMORY16(d, a, v, b))
         /\ Alike(SET_MEMORY24(c, a, v, b), SET_MEMORY24(d, a, v, b))
<1>1. ASSUME NEW x, NEW y, Alike(x, y), NEW at, NEW val
      PROVE  Alike(SET_MEMORY8(x, at, val), SET_MEMORY8(y, at, val))
  BY <1>1 DEF Alike, Fields, SET_MEMORY8
<1>2. Alike(SET_MEMORY16(c, a, v, b), SET_MEMORY16(d, a, v, b))
  BY <1>1 DEF SET_MEMORY16
<1>3. Alike(SET_MEMORY24(c, a, v, b), SET_MEMORY24(d, a, v, b))
  BY <1>1, <1>2 DEF SET_MEMORY24
<1> QED BY <1>1, <1>2, <1>3

(* The stack.                                                              *)
LEMMA AlikePushes ==
  ASSUME NEW c, NEW d, Alike(c, d), NEW v
  PROVE  /\ Alike(PUSH8(c, v), PUSH8(d, v)) /\ Alike(PUSH16(c, v), PUSH16(d, v))
         /\ Alike(PUSH16_UNSAFE(c, v), PUSH16_UNSAFE(d, v))
         /\ Alike(PUSH24_UNSAFE(c, v), PUSH24_UNSAFE(d, v))
<1>1. c.stack = d.stack /\ \A s : InPage(c, s) = InPage(d, s)
  BY DEF Alike, InPage
<1>2. ASSUME NEW x, NEW y, Alike(x, y), NEW val
      PROVE  Alike(PUSH8(x, val), PUSH8(y, val))
  <2> DEFINE p == SET_MEMORY8(x, x.stack, val)
             q == SET_MEMORY8(y, x.stack, val)
             s == InPage(x, x.stack - 1)
  <2>1. Alike(p, q)
    BY <1>2, AlikeWrites
  <2>2. PUSH8(x, val) = SetStack(p, s) /\ PUSH8(y, val) = SetStack(q, s)
    BY <1>2 DEF PUSH8, SetStack, Alike, InPage
  <2> HIDE DEF p, q, s
  <2> QED BY <2>1, <2>2, AlikeSets
<1>3. Alike(PushBytes(c, v), PushBytes(d, v))
  BY <1>2 DEF PushBytes
<1>4. \A s : Alike(PushWord(c, s, v), PushWord(d, s, v))
  BY AlikeSets, AlikeWrites DEF PushWord, SetStack
<1>5. Alike(PUSH16(c, v), PUSH16(d, v))
  BY <1>1, <1>3, <1>4 DEF PUSH16
<1>6. Alike(PUSH16_UNSAFE(c, v), PUSH16_UNSAFE(d, v))
  <2> DEFINE s == InPage(c, c.stack - 2)
             a == (c.stack - 1) % 65536
  <2>1. /\ PUSH16_UNSAFE(c, v) = SET_MEMORY16(SetStack(c, s), a, v, InBank)
        /\ PUSH16_UNSAFE(d, v) = SET_MEMORY16(SetStack(d, s), a, v, InBank)
    BY <1>1 DEF PUSH16_UNSAFE, SetStack
  <2> HIDE DEF s, a
  <2>2. Alike(SetStack(c, s), SetStack(d, s))
    BY AlikeSets
  <2> QED BY <2>1, <2>2, AlikeWrites
<1>7. Alike(PUSH24_UNSAFE(c, v), PUSH24_UNSAFE(d, v))
  <2> DEFINE s == InPage(c, c.stack - 3)
             a == (c.stack - 2) % 65536
  <2>1. /\ PUSH24_UNSAFE(c, v) = SET_MEMORY24(SetStack(c, s), a, v, InBank)
        /\ PUSH24_UNSAFE(d, v) = SET_MEMORY24(SetStack(d, s), a, v, InBank)
    BY <1>1 DEF PUSH24_UNSAFE, SetStack
  <2> HIDE DEF s, a
  <2>2. Alike(SetStack(c, s), SetStack(d, s))
    BY AlikeSets
  <2> QED BY <2>1, <2>2, AlikeWrites
<1> QED BY <1>2, <1>5, <1>6, <1>7

LEMMA AlikePulls ==
  ASSUME NEW c, NEW d, Alike(c, d)
  PROVE  /\ Alike(PULL8(c), PULL8(d)) /\ Alike(PULL16(c), PULL16(d))
         /\ Alike(PULL16_UNSAFE(c), PULL16_UNSAFE(d)) /\ Alike(PULL24(c), PULL24(d))
<1>1. c.stack = d.stack
  BY DEF Alike
<1>2. ASSUME NEW x, NEW y, Alike(x, y)
      PROVE  /\ Alike(PULL8(x), PULL8(y))
             /\ Alike(AndHigh(x), AndHigh(y)) /\ Alike(AndBank(x), AndBank(y))
  <2>1. /\ x.stack = y.stack /\ x.arg = y.arg /\ \A s : InPage(x, s) = InPage(y, s)
        /\ \A a : GET_MEMORY8(x, a) = GET_MEMORY8(y, a)
    BY <1>2, AlikeReads DEF Alike
  <2>2. Alike(PULL8(x), PULL8(y))
    BY <1>2, <2>1, AlikeSets DEF PULL8, SetPull
  <2> DEFINE p == PULL8(x)
             q == PULL8(y)
  <2>3. /\ AndHigh(x) = SetArg(p, x.arg + 256 * p.arg)
        /\ AndHigh(y) = SetArg(q, y.arg + 256 * q.arg)
        /\ AndBank(x) = SetArg(p, x.arg + 65536 * p.arg)
        /\ AndBank(y) = SetArg(q, y.arg + 65536 * q.arg)
    BY DEF AndHigh, AndBank, SetArg
  <2>4. p.arg = q.arg
    BY <2>2 DEF Alike
  <2> HIDE DEF p, q
  <2> QED BY <2>1, <2>2, <2>3, <2>4, AlikeSets DEF p, q
<1>3. \A s : InPage(c, s) = InPage(d, s)
  BY AlikeReads
<1>4. /\ \A a, b : GET_MEMORY16(c, a, b) = GET_MEMORY16(d, a, b)
      /\ \A a, b : GET_MEMORY24(c, a, b) = GET_MEMORY24(d, a, b)
  BY AlikeReads
<1>5. Alike(PullWord(c), PullWord(d)) /\ Alike(PullLong(c), PullLong(d))
      /\ Alike(PULL16_UNSAFE(c), PULL16_UNSAFE(d))
  <2>1. \A s, v : Alike(SetPull(c, s, v), SetPull(d, s, v))
    BY AlikeSets
  <2>2. Alike(PullWord(c), PullWord(d))
    <3> DEFINE s == InPage(c, (c.stack + 2) % 65536)
               t == InPage(d, (d.stack + 2) % 65536)
               v == GET_MEMORY16(c, c.stack + 1, InBank)
               w == GET_MEMORY16(d, d.stack + 1, InBank)
    <3>1. PullWord(c) = SetPull(c, s, v) /\ PullWord(d) = SetPull(d, t, w)
      BY DEF PullWord, SetPull
    <3>2. s = t
      BY <1>1, <1>3, SMT
    <3>3. v = w
      BY <1>1, <1>4, SMT
    <3> HIDE DEF s, t, v, w
    <3> QED BY <2>1, <3>1, <3>2, <3>3
  <2>3. Alike(PullLong(c), PullLong(d))
    <3> DEFINE s == InPage(c, (c.stack + 3) % 65536)
               t == InPage(d, (d.stack + 3) % 65536)
               v == GET_MEMORY24(c, c.stack + 1, InBank)
               w == GET_MEMORY24(d, d.stack + 1, InBank)
    <3>1. PullLong(c) = SetPull(c, s, v) /\ PullLong(d) = SetPull(d, t, w)
      BY DEF PullLong, SetPull
    <3>2. s = t
      BY <1>1, <1>3, SMT
    <3>3. v = w
      BY <1>1, <1>4, SMT
    <3> HIDE DEF s, t, v, w
    <3> QED BY <2>1, <3>1, <3>2, <3>3
  <2>4. Alike(PULL16_UNSAFE(c), PULL16_UNSAFE(d))
    <3> DEFINE m == InPage(c, (c.stack + 1) % 65536)
               n == InPage(d, (d.stack + 1) % 65536)
               s == InPage(c, (m + 1) % 65536)
               t == InPage(d, (n + 1) % 65536)
               v == GET_MEMORY16(c, m, InBank)
               w == GET_MEMORY16(d, n, InBank)
    <3>1. PULL16_UNSAFE(c) = SetPull(c, s, v) /\ PULL16_UNSAFE(d) = SetPull(d, t, w)
      BY DEF PULL16_UNSAFE, SetPull
    <3>2. m = n
      BY <1>1, <1>3, SMT
    <3> HIDE DEF m, n
    <3>3. s = t
      BY <1>3, <3>2, SMT
    <3>4. v = w
      BY <1>4, <3>2, SMT
    <3> HIDE DEF s, t, v, w
    <3> QED BY <2>1, <3>1, <3>3, <3>4
  <2> QED BY <2>2, <2>3, <2>4
<1>6. Alike(PULL16(c), PULL16(d))
  BY <1>1, <1>2, <1>5 DEF PULL16
<1>7. Alike(PULL24(c), PULL24(d))
  BY <1>1, <1>2, <1>5 DEF PULL24
<1> QED BY <1>2, <1>5, <1>6, <1>7

(* Addresses and operands.                                                 *)
LEMMA AlikeAt ==
  ASSUME NEW c, NEW d, Alike(c, d), NEW a, NEW n
  PROVE  Alike(At(c, a, n), At(d, a, n))
<1>1. Alike(SetArg(c, a), SetArg(d, a))
  BY AlikeSets
<1> QED BY <1>1, AlikeStep DEF At, SetArg

LEMMA AlikeLoad ==
  ASSUME NEW c, NEW d, Alike(c, d), NEW b
  PROVE  Alike(Load(c, b), Load(d, b))
<1> DEFINE v == IF c.acc8 = 1 THEN GET_MEMORY8(c, c.arg) ELSE GET_MEMORY16(c, c.arg, b)
           w == IF d.acc8 = 1 THEN GET_MEMORY8(d, d.arg) ELSE GET_MEMORY16(d, d.arg, b)
<1>1. Load(c, b) = SetLoad(c, v) /\ Load(d, b) = SetLoad(d, w)
  BY DEF Load, SetLoad
<1>2. v = w
  BY AlikeReads DEF Alike
<1> HIDE DEF v, w
<1> QED BY <1>1, <1>2, AlikeSets

\* The modes with one byte behind the opcode.
LEMMA AlikeDirect ==
  ASSUME NEW c, NEW d, Alike(c, d), GET_1BYTE_ARG(c) = GET_1BYTE_ARG(d)
  PROVE  /\ Alike(GET_DLOC_X_IND_ADDR(c), GET_DLOC_X_IND_ADDR(d))
         /\ Alike(GET_DISP8_S_ADDR(c), GET_DISP8_S_ADDR(d))
         /\ Alike(GET_DLOC_ADDR(c), GET_DLOC_ADDR(d))
         /\ Alike(GET_DLOC_L_IND_ADDR(c), GET_DLOC_L_IND_ADDR(d))
         /\ Alike(GET_DLOC_IND_Y_ADDR_FOR_WR(c), GET_DLOC_IND_Y_ADDR_FOR_WR(d))
         /\ Alike(GET_DLOC_IND_ADDR(c), GET_DLOC_IND_ADDR(d))
         /\ Alike(GET_DLOC_INDEX_WR(c, c.xreg), GET_DLOC_INDEX_WR(d, d.xreg))
         /\ Alike(GET_DLOC_INDEX_WR(c, c.yreg), GET_DLOC_INDEX_WR(d, d.yreg))
         /\ Alike(GET_DISP8_S_IND_Y_ADDR(c), GET_DISP8_S_IND_Y_ADDR(d))
         /\ Alike(GET_DLOC_L_IND_Y_ADDR(c), GET_DLOC_L_IND_Y_ADDR(d))
<1>1. /\ c.stack = d.stack /\ c.xreg = d.xreg /\ c.yreg = d.yreg /\ c.direct = d.direct
      /\ c.psr = d.psr
  BY DEF Alike
<1>2. Direct(c) = Direct(d) /\ DataBank(c) = DataBank(d)
  BY DEF Direct, DataBank, Alike
<1>3. /\ \A a : GET_MEMORY_DIRECT_PAGE16(c, a) = GET_MEMORY_DIRECT_PAGE16(d, a)
      /\ \A a, b : GET_MEMORY16(c, a, b) = GET_MEMORY16(d, a, b)
      /\ \A a, b : GET_MEMORY24(c, a, b) = GET_MEMORY24(d, a, b)
  BY AlikeReads
<1>4. \A a, n : Alike(At(c, a, n), At(d, a, n))
  BY AlikeAt
<1>5. Alike(GET_DLOC_X_IND_ADDR(c), GET_DLOC_X_IND_ADDR(d))
  BY <1>1, <1>2, <1>3, <1>4 DEF GET_DLOC_X_IND_ADDR
<1>6. Alike(GET_DISP8_S_ADDR(c), GET_DISP8_S_ADDR(d))
  BY <1>1, <1>4 DEF GET_DISP8_S_ADDR
<1>7. Alike(GET_DLOC_ADDR(c), GET_DLOC_ADDR(d))
  BY <1>2, <1>4 DEF GET_DLOC_ADDR
<1>8. Alike(GET_DLOC_L_IND_ADDR(c), GET_DLOC_L_IND_ADDR(d))
  BY <1>2, <1>3, <1>4 DEF GET_DLOC_L_IND_ADDR
<1>9. Alike(GET_DLOC_IND_Y_ADDR_FOR_WR(c), GET_DLOC_IND_Y_ADDR_FOR_WR(d))
  BY <1>1, <1>2, <1>3, <1>4 DEF GET_DLOC_IND_Y_ADDR_FOR_WR
<1>10. Alike(GET_DLOC_IND_ADDR(c), GET_DLOC_IND_ADDR(d))
  BY <1>2, <1>3, <1>4 DEF GET_DLOC_IND_ADDR
<1>11. \A r : Alike(GET_DLOC_INDEX_WR(c, r), GET_DLOC_INDEX_WR(d, r))
  BY <1>1, <1>4 DEF GET_DLOC_INDEX_WR
<1>12. Alike(GET_DISP8_S_IND_Y_ADDR(c), GET_DISP8_S_IND_Y_ADDR(d))
  BY <1>1, <1>2, <1>3, <1>4 DEF GET_DISP8_S_IND_Y_ADDR
<1>13. Alike(GET_DLOC_L_IND_Y_ADDR(c), GET_DLOC_L_IND_Y_ADDR(d))
  BY <1>1, <1>2, <1>3, <1>4 DEF GET_DLOC_L_IND_Y_ADDR
<1> QED BY <1>1, <1>5, <1>6, <1>7, <1>8, <1>9, <1>10, <1>11, <1>12, <1>13

\* Two bytes, and three.
LEMMA AlikeAbsolute ==
  ASSUME NEW c, NEW d, Alike(c, d), GET_2BYTE_ARG(c) = GET_2BYTE_ARG(d)
  PROVE  /\ Alike(GET_ABS_ADDR(c), GET_ABS_ADDR(d))
         /\ \A r : /\ Alike(GET_ABS_INDEX_ADDR_FOR_WR(c, r), GET_ABS_INDEX_ADDR_FOR_WR(d, r))
                   /\ Alike(GET_ABS_INDEX_ADDR_FOR_RD(c, r), GET_ABS_INDEX_ADDR_FOR_RD(d, r))
         /\ Alike(GET_ABS_X_RD_WR(c), GET_ABS_X_RD_WR(d))
<1>1. DataBank(c) = DataBank(d) /\ c.xreg = d.xreg
  BY DEF DataBank, Alike
<1>2. \A a, n : Alike(At(c, a, n), At(d, a, n))
  BY AlikeAt
<1>3. Alike(GET_ABS_ADDR(c), GET_ABS_ADDR(d))
  BY <1>1, <1>2 DEF GET_ABS_ADDR
<1>4. \A r : Alike(GET_ABS_INDEX_ADDR_FOR_WR(c, r), GET_ABS_INDEX_ADDR_FOR_WR(d, r))
  BY <1>1, <1>2 DEF GET_ABS_INDEX_ADDR_FOR_WR
<1>5. \A r : Alike(GET_ABS_INDEX_ADDR_FOR_RD(c, r), GET_ABS_INDEX_ADDR_FOR_RD(d, r))
  BY <1>1, <1>2 DEF GET_ABS_INDEX_ADDR_FOR_RD
<1>6. Alike(GET_ABS_X_RD_WR(c), GET_ABS_X_RD_WR(d))
  <2> DEFINE a == DataBank(c) + ((GET_2BYTE_ARG(c) + c.xreg) % 65536)
             e == DataBank(d) + ((GET_2BYTE_ARG(d) + d.xreg) % 65536)
  <2>1. GET_ABS_X_RD_WR(c) = Load(At(c, a, 3), Linear)
        /\ GET_ABS_X_RD_WR(d) = Load(At(d, e, 3), Linear)
    BY DEF GET_ABS_X_RD_WR
  <2>2. a = e
    BY <1>1
  <2> HIDE DEF a, e
  <2> QED BY <1>2, <2>1, <2>2, AlikeLoad
<1> QED BY <1>3, <1>4, <1>5, <1>6

LEMMA AlikeLong ==
  ASSUME NEW c, NEW d, Alike(c, d), GET_3BYTE_ARG(c) = GET_3BYTE_ARG(d)
  PROVE  /\ Alike(GET_LONG_ADDR(c), GET_LONG_ADDR(d))
         /\ Alike(GET_LONG_X_ADDR_FOR_WR(c), GET_LONG_X_ADDR_FOR_WR(d))
<1>1. c.xreg = d.xreg
  BY DEF Alike
<1>2. \A a, n : Alike(At(c, a, n), At(d, a, n))
  BY AlikeAt
<1> QED BY <1>1, <1>2 DEF GET_LONG_ADDR, GET_LONG_X_ADDR_FOR_WR

(* Instructions on what the modes leave.                                   *)
LEMMA AlikeWidths ==
  ASSUME NEW c, NEW d, Alike(c, d)
  PROVE  AccSize(c) = AccSize(d) /\ IndexSize(c) = IndexSize(d) /\ Acc(c) = Acc(d)
  BY DEF Alike, AccSize, IndexSize, Acc

LEMMA AlikeResults ==
  ASSUME NEW c, NEW d, Alike(c, d), NEW v, NEW s, NEW p
  PROVE  /\ Alike(SET_NEG_ZERO(c, v, s), SET_NEG_ZERO(d, v, s))
         /\ Alike(SET_CARRY(c, v), SET_CARRY(d, v))
         /\ Alike(WithPsr(c, p), WithPsr(d, p))
         /\ Alike(SetAcc(c, v), SetAcc(d, v))
         /\ \A r : Alike(SET_INDEX_REG(c, v, r), SET_INDEX_REG(d, v, r))
<1>1. ASSUME NEW x, NEW y, Alike(x, y), NEW w, NEW n
      PROVE  Alike(SET_NEG_ZERO(x, w, n), SET_NEG_ZERO(y, w, n))
  BY <1>1, AlikeSets DEF SET_NEG_ZERO, SetBoth
<1>2. Alike(SET_CARRY(c, v), SET_CARRY(d, v))
  BY DEF Alike, Fields, SET_CARRY
<1>3. Alike(WithPsr(c, p), WithPsr(d, p))
  BY DEF Alike, Fields, WithPsr
<1>4. \A w : Alike(WithAcc(c, w), WithAcc(d, w))
  <2> TAKE w
  <2> DEFINE a == (c.acc - Acc(c)) + w
             e == (d.acc - Acc(d)) + w
             n == AccSize(c)
  <2>1. a = e /\ n = AccSize(d)
    BY AlikeWidths DEF Alike
  <2>2. WithAcc(c, w) = SET_NEG_ZERO(SetReg(c, a), w, n)
        /\ WithAcc(d, w) = SET_NEG_ZERO(SetReg(d, e), w, AccSize(d))
    BY DEF WithAcc, SetReg
  <2> HIDE DEF a, e, n
  <2> QED BY <1>1, <2>1, <2>2, AlikeSets
<1>5. Alike(SetAcc(c, v), SetAcc(d, v))
  BY <1>4, AlikeWidths DEF SetAcc
<1>6. ASSUME NEW w, NEW r PROVE Alike(WithIndex(c, w, r), WithIndex(d, w, r))
  <2>1. IndexSize(c) = IndexSize(d) /\ Alike(SetX(c, w), SetX(d, w))
        /\ Alike(SetY(c, w), SetY(d, w))
    BY AlikeWidths, AlikeSets
  <2>2. CASE r = "x"
    <3>1. WithIndex(c, w, r) = SET_NEG_ZERO(SetX(c, w), w, IndexSize(c))
          /\ WithIndex(d, w, r) = SET_NEG_ZERO(SetX(d, w), w, IndexSize(d))
      BY <2>2 DEF WithIndex, SetX
    <3> QED BY <1>1, <2>1, <3>1
  <2>3. CASE r # "x"
    <3>1. WithIndex(c, w, r) = SET_NEG_ZERO(SetY(c, w), w, IndexSize(c))
          /\ WithIndex(d, w, r) = SET_NEG_ZERO(SetY(d, w), w, IndexSize(d))
      BY <2>3 DEF WithIndex, SetY
    <3> QED BY <1>1, <2>1, <3>1
  <2> QED BY <2>2, <2>3
<1>7. \A r : Alike(SET_INDEX_REG(c, v, r), SET_INDEX_REG(d, v, r))
  BY <1>6, AlikeWidths DEF SET_INDEX_REG
<1> QED BY <1>1, <1>2, <1>3, <1>5, <1>7

LEMMA AlikeOperand ==
  ASSUME NEW c, NEW d, Alike(c, d)
  PROVE  /\ Alike(ORA_INST(c), ORA_INST(d)) /\ Alike(AND_INST(c), AND_INST(d))
         /\ Alike(EOR_INST(c), EOR_INST(d)) /\ Alike(LDA_INST(c), LDA_INST(d))
         /\ Alike(ADC_INST(c), ADC_INST(d)) /\ Alike(SBC_INST(c), SBC_INST(d))
         /\ Alike(CMP_INST(c), CMP_INST(d)) /\ Alike(BIT_INST(c), BIT_INST(d))
         /\ Alike(BitImm(c), BitImm(d))
         /\ \A r, n : Alike(Compare(c, r, n), Compare(d, r, n))
<1>1. c.arg = d.arg /\ c.psr = d.psr /\ c.acc8 = d.acc8
      /\ Acc(c) = Acc(d) /\ AccSize(c) = AccSize(d)
  BY AlikeWidths DEF Alike
<1>2. \A v : Alike(SetAcc(c, v), SetAcc(d, v))
  BY AlikeResults
<1>3. Alike(ORA_INST(c), ORA_INST(d)) /\ Alike(AND_INST(c), AND_INST(d))
      /\ Alike(EOR_INST(c), EOR_INST(d)) /\ Alike(LDA_INST(c), LDA_INST(d))
  BY <1>1, <1>2 DEF ORA_INST, AND_INST, EOR_INST, LDA_INST
<1>4. \A r : Alike(Summed(c, r), Summed(d, r))
  BY <1>2, AlikeResults DEF Summed
<1>5. ASSUME NEW sub PROVE Alike(Adder(c, sub), Adder(d, sub))
  <2> DEFINE r == IF c.acc8 = 1 THEN do_adc_sbc8(Acc(c), c.arg, c.psr, sub)
                  ELSE do_adc_sbc16(Acc(c), c.arg, c.psr, sub)
             t == IF d.acc8 = 1 THEN do_adc_sbc8(Acc(d), d.arg, d.psr, sub)
                  ELSE do_adc_sbc16(Acc(d), d.arg, d.psr, sub)
  <2>1. Adder(c, sub) = Summed(c, r) /\ Adder(d, sub) = Summed(d, t)
    BY DEF Adder
  <2>2. r = t
    BY <1>1
  <2> HIDE DEF r, t
  <2> QED BY <1>4, <2>1, <2>2
<1>6. Alike(ADC_INST(c), ADC_INST(d)) /\ Alike(SBC_INST(c), SBC_INST(d))
  BY <1>5 DEF ADC_INST, SBC_INST
<1>7. ASSUME NEW r, NEW n PROVE Alike(Compare(c, r, n), Compare(d, r, n))
  <2> DEFINE v == r + (2^n - c.arg)
             w == r + (2^n - d.arg)
  <2>1. \A u : Alike(Difference(c, u, n), Difference(d, u, n))
    BY AlikeResults DEF Difference
  <2>2. Compare(c, r, n) = Difference(c, v, n) /\ Compare(d, r, n) = Difference(d, w, n)
    BY DEF Compare
  <2>3. v = w
    BY <1>1
  <2> HIDE DEF v, w
  <2> QED BY <2>1, <2>2, <2>3
<1>8. Alike(CMP_INST(c), CMP_INST(d))
  BY <1>1, <1>7 DEF CMP_INST
<1>9. Alike(BIT_INST(c), BIT_INST(d))
  BY <1>1 DEF Alike, Fields, BIT_INST
<1>10. Alike(BitImm(c), BitImm(d))
  BY <1>1 DEF Alike, Fields, BitImm
<1> QED BY <1>3, <1>6, <1>7, <1>8, <1>9, <1>10

LEMMA AlikeStores ==
  ASSUME NEW c, NEW d, Alike(c, d), NEW b
  PROVE  /\ \A a, v : Alike(Store(c, a, v, b), Store(d, a, v, b))
         /\ Alike(STA_INST(c, b), STA_INST(d, b)) /\ Alike(STZ_INST(c, b), STZ_INST(d, b))
         /\ Alike(STX_INST(c, b), STX_INST(d, b)) /\ Alike(STY_INST(c, b), STY_INST(d, b))
<1>1. /\ c.acc8 = d.acc8 /\ c.arg = d.arg /\ c.acc = d.acc /\ c.xreg = d.xreg
      /\ c.yreg = d.yreg /\ c.psr = d.psr
  BY DEF Alike
<1>2. \A a, v : Alike(Store(c, a, v, b), Store(d, a, v, b))
  BY <1>1, AlikeWrites DEF Store
<1>3. \A r : Alike(IndexStore(c, r, b), IndexStore(d, r, b))
  BY <1>1, AlikeWrites DEF IndexStore
<1> QED BY <1>1, <1>2, <1>3 DEF STA_INST, STZ_INST, STX_INST, STY_INST

LEMMA AlikeModifies ==
  ASSUME NEW c, NEW d, Alike(c, d), NEW b
  PROVE  /\ Alike(ASL_INST(c, b), ASL_INST(d, b)) /\ Alike(ROL_INST(c, b), ROL_INST(d, b))
         /\ Alike(LSR_INST(c, b), LSR_INST(d, b)) /\ Alike(ROR_INST(c, b), ROR_INST(d, b))
         /\ Alike(DEC_INST(c, b), DEC_INST(d, b)) /\ Alike(INC_INST(c, b), INC_INST(d, b))
         /\ Alike(TSB_INST(c, b), TSB_INST(d, b)) /\ Alike(TRB_INST(c, b), TRB_INST(d, b))
<1>1. /\ c.arg = d.arg /\ c.acc = d.acc /\ c.psr = d.psr /\ c.addr_latch = d.addr_latch
      /\ Acc(c) = Acc(d) /\ AccSize(c) = AccSize(d)
  BY AlikeWidths DEF Alike
<1>2. ASSUME NEW x, NEW y, Alike(x, y), NEW v
      PROVE  Alike(Modify(x, v, b), Modify(y, v, b))
  <2>1. x.addr_latch = y.addr_latch /\ AccSize(x) = AccSize(y)
    BY <1>2, AlikeWidths DEF Alike
  <2>2. Alike(Store(x, x.addr_latch, v, b), Store(y, y.addr_latch, v, b))
    BY <1>2, <2>1, AlikeStores
  <2> QED BY <2>1, <2>2, AlikeResults DEF Modify
<1>3. \A v : Alike(SET_CARRY(c, v), SET_CARRY(d, v))
  BY AlikeResults
<1>4. /\ \A v, n : ShiftLeft(c, v, n) = ShiftLeft(d, v, n)
      /\ \A v, n : ShiftRight(c, v, n) = ShiftRight(d, v, n)
      /\ \A v : HighBit(c, v) = HighBit(d, v)
  BY <1>1 DEF ShiftLeft, ShiftRight, HighBit
<1>5. Alike(ASL_INST(c, b), ASL_INST(d, b)) /\ Alike(ROL_INST(c, b), ROL_INST(d, b))
      /\ Alike(LSR_INST(c, b), LSR_INST(d, b)) /\ Alike(ROR_INST(c, b), ROR_INST(d, b))
  BY <1>1, <1>2, <1>3, <1>4 DEF ASL_INST, ROL_INST, LSR_INST, ROR_INST
<1>6. Alike(DEC_INST(c, b), DEC_INST(d, b)) /\ Alike(INC_INST(c, b), INC_INST(d, b))
  BY <1>1, <1>2 DEF DEC_INST, INC_INST
<1>7. ASSUME NEW v PROVE Alike(TestBits(c, v, b), TestBits(d, v, b))
  <2> DEFINE x == Store(c, c.addr_latch, v, b)
             y == Store(d, d.addr_latch, v, b)
             z == IF BitAnd(c.arg, c.acc) = 0 THEN 0 ELSE 1
  <2>1. Alike(x, y)
    BY <1>1, AlikeStores
  <2>2. TestBits(c, v, b) = SetZero(x, z) /\ TestBits(d, v, b) = SetZero(y, z)
    BY <1>1 DEF TestBits, SetZero
  <2> HIDE DEF x, y, z
  <2> QED BY <2>1, <2>2, AlikeSets
<1>8. Alike(TSB_INST(c, b), TSB_INST(d, b)) /\ Alike(TRB_INST(c, b), TRB_INST(d, b))
  BY <1>1, <1>7 DEF TSB_INST, TRB_INST
<1> QED BY <1>5, <1>6, <1>8

LEMMA AlikeIndex ==
  ASSUME NEW c, NEW d, Alike(c, d), NEW b
  PROVE  /\ Alike(LDX_INST(c, b), LDX_INST(d, b)) /\ Alike(LDY_INST(c, b), LDY_INST(d, b))
         /\ Alike(ArgToIndex(c, "x"), ArgToIndex(d, "x"))
         /\ Alike(ArgToIndex(c, "y"), ArgToIndex(d, "y"))
         /\ \A r : Alike(CP_INDEX_VAL(c, r), CP_INDEX_VAL(d, r))
         /\ \A r : Alike(CP_INDEX_LOAD(c, r, b), CP_INDEX_LOAD(d, r, b))
         /\ Alike(PEI(c), PEI(d))
<1>1. c.arg = d.arg /\ c.psr = d.psr
  BY DEF Alike
<1>2. IndexLoad(c, b) = IndexLoad(d, b)
  BY <1>1, AlikeReads DEF IndexLoad
<1>3. Alike(LDX_INST(c, b), LDX_INST(d, b)) /\ Alike(LDY_INST(c, b), LDY_INST(d, b))
  BY <1>2, AlikeResults DEF LDX_INST, LDY_INST
<1>4. Alike(ArgToIndex(c, "x"), ArgToIndex(d, "x")) /\ Alike(ArgToIndex(c, "y"), ArgToIndex(d, "y"))
  BY <1>1, AlikeResults DEF ArgToIndex
<1>5. ASSUME NEW x, NEW y, Alike(x, y), NEW r
      PROVE  Alike(CP_INDEX_VAL(x, r), CP_INDEX_VAL(y, r))
  BY <1>5, AlikeWidths, AlikeOperand DEF CP_INDEX_VAL
<1>6. ASSUME NEW r PROVE Alike(CP_INDEX_LOAD(c, r, b), CP_INDEX_LOAD(d, r, b))
  <2>1. CP_INDEX_LOAD(c, r, b) = CP_INDEX_VAL(SetArg(c, IndexLoad(c, b)), r)
        /\ CP_INDEX_LOAD(d, r, b) = CP_INDEX_VAL(SetArg(d, IndexLoad(d, b)), r)
    BY DEF CP_INDEX_LOAD, SetArg
  <2> QED BY <1>2, <1>5, <2>1, AlikeSets
<1>7. Alike(PEI(c), PEI(d))
  BY <1>1, AlikeReads, AlikePushes DEF PEI
<1> QED BY <1>3, <1>4, <1>5, <1>6, <1>7

(* What changes psr.                                                       *)
LEMMA AlikePsr ==
  ASSUME NEW c, NEW d, Alike(c, d), NEW p
  PROVE  /\ Alike(UPDATE_PSR(c, p), UPDATE_PSR(d, p))
         /\ \A v, e : Alike(SetPsr(c, v, e), SetPsr(d, v, e))
         /\ Folded(c) = Folded(d)
<1>1. ASSUME NEW x, NEW y, Alike(x, y), NEW old
      PROVE  Alike(UPDATE_PSR(x, old), UPDATE_PSR(y, old))
  <2> DEFINE n == NewPsr(x, old, Fits(x.psr))
             m == NewPsr(y, old, Fits(y.psr))
  <2>1. x.psr = y.psr /\ \A s : InPage(x, s) = InPage(y, s)
    BY <1>1, AlikeReads DEF Alike
  <2>2. Alike(n, m)
    BY <1>1, <2>1 DEF NewPsr, Alike, Fields
  <2>3. UPDATE_PSR(x, old) = Continue(n) /\ UPDATE_PSR(y, old) = Continue(m)
    BY DEF UPDATE_PSR
  <2> HIDE DEF n, m
  <2>4. Alike(Continue(n), Continue(m))
    BY <2>2 DEF Continue, FINISH, Alike, Fields
  <2> QED BY <2>3, <2>4
<1>2. ASSUME NEW v, NEW e PROVE Alike(SetPsr(c, v, e), SetPsr(d, v, e))
  <2>1. c.psr = d.psr /\ Alike(WithPsr(c, PsrOf(v, e)), WithPsr(d, PsrOf(v, e)))
    BY AlikeResults DEF Alike
  <2> QED BY <1>1, <2>1 DEF SetPsr
<1>3. Folded(c) = Folded(d)
  BY DEF Folded, Alike
<1> QED BY <1>1, <1>2, <1>3

LEMMA AlikeMasks ==
  ASSUME NEW c, NEW d, Alike(c, d), GET_1BYTE_ARG(c) = GET_1BYTE_ARG(d)
  PROVE  Alike(REP(c), REP(d)) /\ Alike(SEP(c), SEP(d))
<1>1. c.psr = d.psr /\ Folded(c) = Folded(d) /\ Alike(INC_KPC(c, 2), INC_KPC(d, 2))
  BY AlikePsr, AlikeStep DEF Alike
<1>2. \A v, e : Alike(SetPsr(INC_KPC(c, 2), v, e), SetPsr(INC_KPC(d, 2), v, e))
  BY <1>1, AlikePsr
<1> QED BY <1>1, <1>2 DEF REP, SEP

LEMMA AlikeModes ==
  ASSUME NEW c, NEW d, Alike(c, d)
  PROVE  /\ Alike(PHP(c), PHP(d)) /\ Alike(PLP(c), PLP(d)) /\ Alike(XCE(c), XCE(d))
         /\ Alike(CLI(c), CLI(d)) /\ Alike(WAI(c), WAI(d)) /\ Alike(RTI(c), RTI(d))
         /\ Alike(FINISH(INC_KPC(c, 2), "wdm"), FINISH(INC_KPC(d, 2), "wdm"))
         /\ Alike(FINISH(c, "stp"), FINISH(d, "stp"))
<1>1. c.psr = d.psr /\ c.irq = d.irq /\ c.arg = d.arg /\ Folded(c) = Folded(d)
  BY AlikePsr DEF Alike
<1>2. \A n : Alike(INC_KPC(c, n), INC_KPC(d, n))
  BY AlikeStep
<1>3. Alike(PHP(c), PHP(d))
  <2> DEFINE x == INC_KPC(SetFlags(c, Folded(c)), 1)
             y == INC_KPC(SetFlags(d, Folded(d)), 1)
  <2>1. Alike(x, y)
    BY <1>1, AlikeSets, AlikeStep
  <2>2. PHP(c) = PUSH8(x, PsrByte(x.psr)) /\ PHP(d) = PUSH8(y, PsrByte(y.psr))
    BY DEF PHP, PushPsr, SetFlags
  <2>3. x.psr = y.psr
    BY <2>1 DEF Alike
  <2> HIDE DEF x, y
  <2> QED BY <2>1, <2>2, <2>3, AlikePushes
<1>4. Alike(PLP(c), PLP(d))
  <2> DEFINE x == INC_KPC(PULL8(c), 1)
             y == INC_KPC(PULL8(d), 1)
  <2>1. Alike(x, y)
    BY AlikePulls, AlikeStep
  <2>2. PLP(c) = SetPsr(x, x.arg, x.psr.e) /\ PLP(d) = SetPsr(y, y.arg, y.psr.e)
    BY DEF PLP, PulledPsr
  <2>3. x.arg = y.arg /\ x.psr = y.psr
    BY <2>1 DEF Alike
  <2> HIDE DEF x, y
  <2> QED BY <2>1, <2>2, <2>3, AlikePsr
<1>5. Alike(XCE(c), XCE(d))
  <2> DEFINE x == [INC_KPC(c, 1) EXCEPT !.psr.e = c.psr.c, !.psr.c = c.psr.e]
             y == [INC_KPC(d, 1) EXCEPT !.psr.e = d.psr.c, !.psr.c = d.psr.e]
  <2>1. Alike(x, y)
    BY <1>1, <1>2 DEF Alike, Fields
  <2>2. XCE(c) = UPDATE_PSR(x, c.psr) /\ XCE(d) = UPDATE_PSR(y, d.psr)
    BY DEF XCE
  <2> HIDE DEF x, y
  <2> QED BY <1>1, <2>1, <2>2, AlikePsr
<1>6. Alike(CLI(c), CLI(d))
  <2> DEFINE x == [INC_KPC(c, 1) EXCEPT !.psr.i = 0]
             y == [INC_KPC(d, 1) EXCEPT !.psr.i = 0]
  <2>1. Alike(x, y)
    BY <1>2 DEF Alike, Fields
  <2>2. CLI(c) = Allowed(x) /\ CLI(d) = Allowed(y)
    BY DEF CLI
  <2> HIDE DEF x, y
  <2>3. Alike(Allowed(x), Allowed(y))
    BY <2>1 DEF Allowed, FINISH, Alike, Fields
  <2> QED BY <2>2, <2>3
<1>7. Alike(WAI(c), WAI(d))
  <2>1. \A v : Alike(SetWait(c, v), SetWait(d, v))
    BY AlikeSets
  <2>2. \A v : Alike(INC_KPC(SetWait(c, v), 1), INC_KPC(SetWait(d, v), 1))
    BY <2>1, AlikeStep
  <2> QED BY <1>1, <2>1, <2>2 DEF WAI, SetWait
<1>8. Alike(RTI(c), RTI(d))
  <2>1. CASE c.psr.e = 1
    <3> DEFINE x == PULL24(c)
               y == PULL24(d)
               u == SetKpc(x, Bank(x.kpc) + (x.arg \div 256))
               w == SetKpc(y, Bank(y.kpc) + (y.arg \div 256))
    <3>1. Alike(x, y) /\ x.kpc = y.kpc /\ x.arg = y.arg
      BY AlikePulls DEF Alike
    <3>2. RTI(c) = SetPsr(u, x.arg % 256, 1) /\ RTI(d) = SetPsr(w, y.arg % 256, 1)
      BY <1>1, <2>1 DEF RTI, EmulReturn, SetKpc
    <3> HIDE DEF x, y
    <3>3. Alike(u, w)
      BY <3>1, AlikeSets
    <3> HIDE DEF u, w
    <3> QED BY <3>1, <3>2, <3>3, AlikePsr
  <2>2. CASE c.psr.e # 1
    <3> DEFINE x == PULL8(c)
               y == PULL8(d)
               u == NativePsr(x)
               w == NativePsr(y)
               m == PULL24(u)
               n == PULL24(w)
    <3>1. Alike(x, y) /\ x.arg = y.arg
      BY AlikePulls DEF Alike
    <3> HIDE DEF x, y
    <3>2. Alike(u, w)
      BY <3>1, AlikeResults DEF NativePsr
    <3> HIDE DEF u, w
    <3>3. Alike(m, n) /\ m.arg = n.arg
      BY <3>2, AlikePulls DEF Alike
    <3>4. /\ RTI(c) = UPDATE_PSR(SetKpc(m, m.arg), c.psr)
          /\ RTI(d) = UPDATE_PSR(SetKpc(n, n.arg), d.psr)
      BY <1>1, <2>2 DEF RTI, NativeReturn, SetKpc, u, w, x, y
    <3> HIDE DEF m, n
    <3>5. Alike(SetKpc(m, m.arg), SetKpc(n, n.arg))
      BY <3>3, AlikeSets
    <3> QED BY <1>1, <3>4, <3>5, AlikePsr
  <2> QED BY <2>1, <2>2
<1>9. Alike(FINISH(INC_KPC(c, 2), "wdm"), FINISH(INC_KPC(d, 2), "wdm"))
      /\ Alike(FINISH(c, "stp"), FINISH(d, "stp"))
  BY <1>2, AlikeSets DEF FINISH, SetRet
<1> QED BY <1>3, <1>4, <1>5, <1>6, <1>7, <1>8, <1>9

(* Registers, branches and calls.                                          *)
LEMMA AlikeImplied ==
  ASSUME NEW c, NEW d, Alike(c, d), NEW v, NEW w
  PROVE  /\ Alike(OnAcc(c, v, w), OnAcc(d, v, w)) /\ Alike(WholeAcc(c, v), WholeAcc(d, v))
         /\ Alike(TCD(c), TCD(d)) /\ Alike(XBA(c), XBA(d))
         /\ Alike(ToStack(c, v), ToStack(d, v))
         /\ Alike(SetAcc(INC_KPC(c, 1), v), SetAcc(INC_KPC(d, 1), v))
         /\ \A r : Alike(SET_INDEX_REG(INC_KPC(c, 1), v, r), SET_INDEX_REG(INC_KPC(d, 1), v, r))
         /\ Alike(SET_CARRY(INC_KPC(c, 1), v), SET_CARRY(INC_KPC(d, 1), v))
         /\ Alike([INC_KPC(c, 1) EXCEPT !.psr.i = 1], [INC_KPC(d, 1) EXCEPT !.psr.i = 1])
         /\ Alike([INC_KPC(c, 1) EXCEPT !.psr.v = 0], [INC_KPC(d, 1) EXCEPT !.psr.v = 0])
         /\ Alike([INC_KPC(c, 1) EXCEPT !.psr.d = 0], [INC_KPC(d, 1) EXCEPT !.psr.d = 0])
         /\ Alike([INC_KPC(c, 1) EXCEPT !.psr.d = 1], [INC_KPC(d, 1) EXCEPT !.psr.d = 1])
<1> DEFINE x == INC_KPC(c, 1)
           y == INC_KPC(d, 1)
<1>1. Alike(x, y) /\ c.acc = d.acc
  BY AlikeStep DEF Alike
<1>2. \A s : InPage(c, s) = InPage(d, s)
  BY AlikeReads
<1>3. /\ OnAcc(c, v, w) = SetAcc(SET_CARRY(x, w), v) /\ OnAcc(d, v, w) = SetAcc(SET_CARRY(y, w), v)
      /\ WholeAcc(c, v) = SET_NEG_ZERO(SetReg(x, v), v, 16)
      /\ WholeAcc(d, v) = SET_NEG_ZERO(SetReg(y, v), v, 16)
      /\ TCD(c) = SET_NEG_ZERO(SetDirect(x, c.acc), c.acc, 16)
      /\ TCD(d) = SET_NEG_ZERO(SetDirect(y, d.acc), d.acc, 16)
      /\ ToStack(c, v) = SetStack(x, InPage(c, v)) /\ ToStack(d, v) = SetStack(y, InPage(d, v))
  BY DEF OnAcc, WholeAcc, TCD, ToStack, SetReg, SetDirect, SetStack
<1>4. /\ XBA(c) = SET_NEG_ZERO(SetReg(x, (c.acc % 256) * 256 + (c.acc \div 256)),
                               c.acc \div 256, 8)
      /\ XBA(d) = SET_NEG_ZERO(SetReg(y, (d.acc % 256) * 256 + (d.acc \div 256)),
                               d.acc \div 256, 8)
  BY DEF XBA, SetReg
<1>5. /\ Alike([x EXCEPT !.psr.i = 1], [y EXCEPT !.psr.i = 1])
      /\ Alike([x EXCEPT !.psr.v = 0], [y EXCEPT !.psr.v = 0])
      /\ Alike([x EXCEPT !.psr.d = 0], [y EXCEPT !.psr.d = 0])
      /\ Alike([x EXCEPT !.psr.d = 1], [y EXCEPT !.psr.d = 1])
  BY <1>1 DEF Alike, Fields
<1>6. /\ \A u : Alike(SET_CARRY(x, u), SET_CARRY(y, u)) /\ Alike(SetAcc(x, u), SetAcc(y, u))
      /\ \A u, r : Alike(SET_INDEX_REG(x, u, r), SET_INDEX_REG(y, u, r))
      /\ \A u : Alike(SetReg(x, u), SetReg(y, u)) /\ Alike(SetDirect(x, u), SetDirect(y, u))
                /\ Alike(SetStack(x, u), SetStack(y, u))
  BY <1>1, AlikeResults, AlikeSets
<1> HIDE DEF x, y
<1>7. Alike(OnAcc(c, v, w), OnAcc(d, v, w)) /\ Alike(WholeAcc(c, v), WholeAcc(d, v))
  BY <1>3, <1>6, AlikeResults
<1>8. Alike(TCD(c), TCD(d)) /\ Alike(ToStack(c, v), ToStack(d, v))
  BY <1>1, <1>2, <1>3, <1>6, AlikeResults
<1>9. Alike(XBA(c), XBA(d))
  <2> DEFINE a == (c.acc % 256) * 256 + (c.acc \div 256)
             n == c.acc \div 256
  <2>1. XBA(c) = SET_NEG_ZERO(SetReg(x, a), n, 8) /\ XBA(d) = SET_NEG_ZERO(SetReg(y, a), n, 8)
    BY <1>1, <1>4
  <2> HIDE DEF a, n
  <2> QED BY <1>6, <2>1, AlikeResults
<1> QED BY <1>5, <1>6, <1>7, <1>8, <1>9 DEF x, y

LEMMA AlikeStacked ==
  ASSUME NEW c, NEW d, Alike(c, d), NEW v, NEW q
  PROVE  /\ Alike(PUSH16_UNSAFE(INC_KPC(c, 1), v), PUSH16_UNSAFE(INC_KPC(d, 1), v))
         /\ Alike(PUSH8(INC_KPC(c, 1), v), PUSH8(INC_KPC(d, 1), v))
         /\ Alike(INC_KPC(PUSH8(c, v), 1), INC_KPC(PUSH8(d, v), 1))
         /\ Alike(PushReg(c, v, q), PushReg(d, v, q))
         /\ Alike(PLA(c), PLA(d)) /\ Alike(PLB(c), PLB(d)) /\ Alike(PLD(c), PLD(d))
         /\ Alike(PullIndex(c, "x"), PullIndex(d, "x"))
         /\ Alike(PullIndex(c, "y"), PullIndex(d, "y"))
<1>1. Alike(INC_KPC(c, 1), INC_KPC(d, 1)) /\ c.psr = d.psr /\ c.acc8 = d.acc8
  BY AlikeStep DEF Alike
<1>2. /\ Alike(PUSH16_UNSAFE(INC_KPC(c, 1), v), PUSH16_UNSAFE(INC_KPC(d, 1), v))
      /\ Alike(PUSH16(INC_KPC(c, 1), v), PUSH16(INC_KPC(d, 1), v))
      /\ Alike(PUSH8(INC_KPC(c, 1), v), PUSH8(INC_KPC(d, 1), v))
      /\ Alike(INC_KPC(PUSH8(c, v), 1), INC_KPC(PUSH8(d, v), 1))
  BY <1>1, AlikePushes, AlikeStep
<1>3. Alike(PushReg(c, v, q), PushReg(d, v, q))
  BY <1>2 DEF PushReg
<1>4. \A n : Alike(Pull(c, n), Pull(d, n))
  BY AlikePulls, AlikeStep DEF Pull
<1>5. ASSUME NEW x, NEW y, Alike(x, y)
      PROVE  /\ Alike(ArgToAcc(x), ArgToAcc(y)) /\ Alike(ArgToDirect(x), ArgToDirect(y))
             /\ Alike(ArgToBank(x), ArgToBank(y))
  <2>1. x.arg = y.arg
    BY <1>5 DEF Alike
  <2>2. Alike(SetDirect(x, x.arg), SetDirect(y, y.arg)) /\ Alike(SetBank(x, x.arg), SetBank(y, y.arg))
    BY <1>5, <2>1, AlikeSets
  <2>3. /\ ArgToDirect(x) = SET_NEG_ZERO(SetDirect(x, x.arg), x.arg, 16)
        /\ ArgToDirect(y) = SET_NEG_ZERO(SetDirect(y, y.arg), y.arg, 16)
        /\ ArgToBank(x) = SET_NEG_ZERO(SetBank(x, x.arg), x.arg, 8)
        /\ ArgToBank(y) = SET_NEG_ZERO(SetBank(y, y.arg), y.arg, 8)
    BY DEF ArgToDirect, ArgToBank, SetDirect, SetBank
  <2> QED BY <1>5, <2>1, <2>2, <2>3, AlikeResults DEF ArgToAcc
<1>6. Alike(PLA(c), PLA(d))
  BY <1>1, <1>4, <1>5 DEF PLA
<1>7. Alike(PLB(c), PLB(d)) /\ Alike(PLD(c), PLD(d))
  BY <1>5, AlikePulls, AlikeStep DEF PLB, PLD
<1>8. Alike(PullIndex(c, "x"), PullIndex(d, "x")) /\ Alike(PullIndex(c, "y"), PullIndex(d, "y"))
  BY <1>1, <1>4, AlikeIndex DEF PullIndex
<1> QED BY <1>2, <1>3, <1>6, <1>7, <1>8

LEMMA AlikeJumps ==
  ASSUME NEW c, NEW d, Alike(c, d)
  PROVE  /\ \A v : Alike(JumpTo(c, v), JumpTo(d, v))
         /\ GET_1BYTE_ARG(c) = GET_1BYTE_ARG(d) =>
              \A q : Alike(BRANCH_DISP8(c, q), BRANCH_DISP8(d, q))
         /\ GET_2BYTE_ARG(c) = GET_2BYTE_ARG(d) =>
              /\ KBankX(c) = KBankX(d)
              /\ Alike(BRL(c), BRL(d)) /\ Alike(PER(c), PER(d)) /\ Alike(JSR(c), JSR(d))
              /\ Alike(JSR_ABS_X(c), JSR_ABS_X(d))
         /\ GET_3BYTE_ARG(c) = GET_3BYTE_ARG(d) => Alike(JSL(c), JSL(d))
<1>1. c.kpc = d.kpc /\ c.xreg = d.xreg
  BY DEF Alike
<1>2. ASSUME NEW v PROVE Alike(JumpTo(c, v), JumpTo(d, v))
  BY DEF JumpTo, Alike, Fields
<1>3. \A n : Alike(INC_KPC(c, n), INC_KPC(d, n))
  BY AlikeStep
<1>4. ASSUME GET_1BYTE_ARG(c) = GET_1BYTE_ARG(d), NEW q
      PROVE  Alike(BRANCH_DISP8(c, q), BRANCH_DISP8(d, q))
  BY <1>3, <1>4 DEF BRANCH_DISP8
<1>5. ASSUME GET_2BYTE_ARG(c) = GET_2BYTE_ARG(d)
      PROVE  /\ KBankX(c) = KBankX(d)
             /\ Alike(BRL(c), BRL(d)) /\ Alike(PER(c), PER(d)) /\ Alike(JSR(c), JSR(d))
             /\ Alike(JSR_ABS_X(c), JSR_ABS_X(d))
  <2>1. KBankX(c) = KBankX(d) /\ RelAddr(c) = RelAddr(d)
    BY <1>1, <1>5 DEF KBankX, RelAddr
  <2>2. Alike(BRL(c), BRL(d))
    BY <1>2, <2>1 DEF BRL
  <2>3. Alike(PER(c), PER(d))
    BY <1>3, <2>1, AlikePushes DEF PER
  <2>4. Alike(JSR(c), JSR(d))
    <3> DEFINE v == (c.kpc + 2) % 65536
               x == PUSH16(INC_KPC(c, 2), v)
               y == PUSH16(INC_KPC(d, 2), v)
               a == Bank(c.kpc) + GET_2BYTE_ARG(c)
    <3>1. JSR(c) = SetKpc(x, a) /\ JSR(d) = SetKpc(y, a)
      BY <1>1, <1>5 DEF JSR, SetKpc
    <3>2. Alike(x, y)
      BY <1>3, AlikePushes
    <3> HIDE DEF x, y, a
    <3> QED BY <3>1, <3>2, AlikeSets
  <2>5. Alike(JSR_ABS_X(c), JSR_ABS_X(d))
    <3> DEFINE t == GET_MEMORY16(c, KBankX(c), InBank)
               r == INC_KPC(c, 2).kpc
    <3>1. GET_MEMORY16(d, KBankX(d), InBank) = t /\ INC_KPC(d, 2).kpc = r
      BY <1>3, <2>1, AlikeReads DEF Alike
    <3>2. /\ JSR_ABS_X(c) = PUSH16_UNSAFE(JumpTo(c, t), r)
          /\ JSR_ABS_X(d) = PUSH16_UNSAFE(JumpTo(d, t), r)
      BY <3>1 DEF JSR_ABS_X
    <3> HIDE DEF t, r
    <3> QED BY <1>2, <3>2, AlikePushes
  <2> QED BY <2>1, <2>2, <2>3, <2>4, <2>5
<1>6. ASSUME GET_3BYTE_ARG(c) = GET_3BYTE_ARG(d) PROVE Alike(JSL(c), JSL(d))
  <2> DEFINE x == INC_KPC(c, 3)
             y == INC_KPC(d, 3)
             u == PUSH24_UNSAFE(x, x.kpc)
             w == PUSH24_UNSAFE(y, y.kpc)
  <2>1. Alike(x, y) /\ x.kpc = y.kpc
    BY <1>3 DEF Alike
  <2>2. /\ JSL(c) = SetKpc(u, GET_3BYTE_ARG(c))
        /\ JSL(d) = SetKpc(w, GET_3BYTE_ARG(d))
    BY DEF JSL, PushLong, SetKpc
  <2> HIDE DEF x, y
  <2>3. Alike(u, w)
    BY <2>1, AlikePushes
  <2> HIDE DEF u, w
  <2> QED BY <1>6, <2>2, <2>3, AlikeSets
<1> QED BY <1>2, <1>4, <1>5, <1>6

LEMMA AlikeReturns ==
  ASSUME NEW c, NEW d, Alike(c, d)
  PROVE  Alike(RTS(c), RTS(d)) /\ Alike(RTL(c), RTL(d))
<1>1. c.kpc = d.kpc
  BY DEF Alike
<1>2. ASSUME NEW x, NEW y, Alike(x, y), NEW b
      PROVE  Alike(ToBehind(x, b), ToBehind(y, b))
  BY <1>2 DEF ToBehind, Alike, Fields
<1>3. Alike(RTS(c), RTS(d))
  BY <1>1, <1>2, AlikePulls DEF RTS
<1>4. PULL24(c).arg = PULL24(d).arg
  BY AlikePulls DEF Alike
<1>5. Alike(RTL(c), RTL(d))
  BY <1>2, <1>4, AlikePulls DEF RTL, ReturnLong
<1> QED BY <1>3, <1>5

LEMMA AlikeBreaks ==
  ASSUME NEW c, NEW d, Alike(c, d)
  PROVE  Alike(BRK(c), BRK(d)) /\ Alike(COP(c), COP(d))
<1>1. ASSUME NEW x, NEW y, Alike(x, y), NEW v
      PROVE  Alike(Vectored(PushReturn(x), v), Vectored(PushReturn(y), v))
  <2>1. x.psr = y.psr /\ x.kpc = y.kpc
    BY <1>1 DEF Alike
  <2> DEFINE p == PushBank(x)
             q == PushBank(y)
  <2>2. Alike(p, q)
    BY <1>1, <2>1, AlikePushes DEF PushBank
  <2>3. Alike(PushReturn(x), PushReturn(y))
    <3>1. PushReturn(x) = PUSH8(PUSH16(p, x.kpc), PsrByte(x.psr))
          /\ PushReturn(y) = PUSH8(PUSH16(q, y.kpc), PsrByte(y.psr))
      BY DEF PushReturn
    <3> HIDE DEF p, q
    <3>2. Alike(PUSH16(p, x.kpc), PUSH16(q, y.kpc))
      BY <2>1, <2>2, AlikePushes
    <3> QED BY <2>1, <3>1, <3>2, AlikePushes
  <2>4. ASSUME NEW s, NEW t, Alike(s, t)
        PROVE  Alike(Vectored(s, v), Vectored(t, v))
    <3>1. GET_MEMORY16(s, v, Linear) = GET_MEMORY16(t, v, Linear)
      BY <2>4, AlikeReads
    <3> QED BY <2>4, <3>1 DEF Vectored, Alike, Fields
  <2> QED BY <2>3, <2>4
<1>2. Alike(INC_KPC(c, 2), INC_KPC(d, 2)) /\ c.psr = d.psr
  BY AlikeStep DEF Alike
<1> QED BY <1>1, <1>2 DEF BRK, COP, SoftwareInterrupt

LEMMA AlikeMoves ==
  ASSUME NEW c, NEW d, Alike(c, d), c.acc \in Nat, c.burst \in Nat, NEW step,
         GET_1BYTE_ARG(c) = GET_1BYTE_ARG(d), GET_2BYTE_ARG(c) = GET_2BYTE_ARG(d)
  PROVE  Alike(BlockMove(c, step), BlockMove(d, step))
<1> DEFINE b == GET_1BYTE_ARG(c)
           src == (GET_2BYTE_ARG(c) \div 256) * 65536
           bytes == IF c.acc < c.burst THEN c.acc + 1 ELSE c.burst
           x == SetBank(c, b)
           y == SetBank(d, b)
<1>1. c.psr = d.psr /\ c.acc = d.acc /\ c.burst = d.burst /\ bytes \in Nat
  BY DEF Alike
<1>2. Alike(x, y)
  BY AlikeSets
<1>3. /\ BlockMove(c, step) = IF c.psr.e = 1 \/ c.psr.x = 1 THEN c
                              ELSE MoveOver(MoveBytes(x, src, step, bytes))
      /\ BlockMove(d, step) = IF c.psr.e = 1 \/ c.psr.x = 1 THEN d
                              ELSE MoveOver(MoveBytes(y, src, step, bytes))
  BY <1>1 DEF BlockMove, SetBank
<1> HIDE DEF src, bytes, x, y
<1>4. ASSUME NEW s, NEW t, Alike(s, t) PROVE Alike(MoveByte(s, src, step), MoveByte(t, src, step))
  <2> DEFINE to(u) == u.dbank * 65536 + u.yreg
             from(u) == GET_MEMORY8(u, src + u.xreg)
             nx(u) == (u.xreg + step) % 65536
             ny(u) == (u.yreg + step) % 65536
             na(u) == (u.acc - 1) % 65536
             m == SET_MEMORY8(s, to(s), from(s))
             n == SET_MEMORY8(t, to(t), from(t))
  <2>1. MoveByte(s, src, step) = SetMove(m, nx(s), ny(s), na(s))
        /\ MoveByte(t, src, step) = SetMove(n, nx(t), ny(t), na(t))
    BY DEF MoveByte, SetMove
  <2>2. s.dbank = t.dbank /\ s.xreg = t.xreg /\ s.yreg = t.yreg /\ s.acc = t.acc
    BY <1>4 DEF Alike
  <2>3. to(s) = to(t)
    BY <2>2
  <2>4. nx(s) = nx(t) /\ ny(s) = ny(t) /\ na(s) = na(t)
    BY <2>2
  <2>5. from(s) = from(t)
    BY <1>4, <2>2, AlikeReads
  <2> HIDE DEF to, from, nx, ny, na
  <2>6. Alike(m, n)
    BY <1>4, <2>3, <2>5, AlikeWrites
  <2> HIDE DEF m, n
  <2>7. ASSUME NEW i, NEW j, NEW k PROVE Alike(SetMove(m, i, j, k), SetMove(n, i, j, k))
    BY <2>6 DEF SetMove, Alike, Fields
  <2> QED BY <2>1, <2>4, <2>7
<1>5. Alike(MoveBytes(x, src, step, bytes), MoveBytes(y, src, step, bytes))
  <2>1. PICK f : /\ f[0] = x /\ f[bytes] = MoveBytes(x, src, step, bytes)
                 /\ \A n \in Nat : n < bytes => f[n + 1] = MoveByte(f[n], src, step)
    BY <1>1, MovesFrom
  <2>2. PICK g : /\ g[0] = y /\ g[bytes] = MoveBytes(y, src, step, bytes)
                 /\ \A n \in Nat : n < bytes => g[n + 1] = MoveByte(g[n], src, step)
    BY <1>1, MovesFrom
  <2> DEFINE S == {n \in Nat : n <= bytes => Alike(f[n], g[n])}
  <2>3. 0 \in S
    BY <1>2, <2>1, <2>2
  <2>4. ASSUME NEW n \in Nat, n \in S PROVE n + 1 \in S
    <3>1. SUFFICES ASSUME n + 1 <= bytes PROVE Alike(f[n + 1], g[n + 1])
      OBVIOUS
    <3>2. n < bytes /\ n <= bytes
      BY <1>1, <3>1
    <3>3. Alike(f[n], g[n])
      BY <2>4, <3>2
    <3> QED BY <1>4, <2>1, <2>2, <3>2, <3>3
  <2> HIDE DEF S
  <2>5. bytes \in S
    BY <1>1, <2>3, <2>4, SetInduction
  <2> QED BY <1>1, <2>1, <2>2, <2>5 DEF S
<1>6. \A s, t : Alike(s, t) => Alike(MoveOver(s), MoveOver(t))
  BY AlikeStep DEF MoveOver, Alike
<1> QED BY <1>3, <1>5, <1>6

(* The table.                                                              *)
\* Both have as many of the bytes behind the opcode as the table gives the size.
Fed(c, d, size) ==
  /\ size = 1 \/ (size = 4 /\ c.psr.m = 1) \/ (size = 5 /\ c.psr.x = 1)
       => GET_1BYTE_ARG(c) = GET_1BYTE_ARG(d)
  /\ size = 2 \/ (size = 4 /\ c.psr.m # 1) \/ (size = 5 /\ c.psr.x # 1)
       => GET_1BYTE_ARG(c) = GET_1BYTE_ARG(d) /\ GET_2BYTE_ARG(c) = GET_2BYTE_ARG(d)
  /\ size = 3 => GET_2BYTE_ARG(c) = GET_2BYTE_ARG(d) /\ GET_3BYTE_ARG(c) = GET_3BYTE_ARG(d)

LEMMA AlikeByte ==
  ASSUME NEW c, NEW d, Alike(c, d), Fed(c, d, 1)
  PROVE  /\ Alike(GET_DLOC_X_IND_RD(c), GET_DLOC_X_IND_RD(d))
         /\ Alike(GET_DISP8_S_RD(c), GET_DISP8_S_RD(d))
         /\ Alike(GET_DLOC_RD(c), GET_DLOC_RD(d))
         /\ Alike(GET_DLOC_L_IND_RD(c), GET_DLOC_L_IND_RD(d))
         /\ Alike(GET_DLOC_IND_Y_RD(c), GET_DLOC_IND_Y_RD(d))
         /\ Alike(GET_DLOC_IND_RD(c), GET_DLOC_IND_RD(d))
         /\ Alike(GET_DLOC_X_RD(c), GET_DLOC_X_RD(d))
         /\ Alike(GET_DISP8_S_IND_Y_RD(c), GET_DISP8_S_IND_Y_RD(d))
         /\ Alike(GET_DLOC_L_IND_Y_RD(c), GET_DLOC_L_IND_Y_RD(d))
<1>1. GET_1BYTE_ARG(c) = GET_1BYTE_ARG(d)
  BY DEF Fed
<1> QED BY <1>1, AlikeDirect, AlikeLoad
     DEF GET_DLOC_X_IND_RD, GET_DISP8_S_RD, GET_DLOC_RD, GET_DLOC_L_IND_RD, GET_DLOC_IND_Y_RD,
         GET_DLOC_IND_RD, GET_DLOC_X_RD, GET_DISP8_S_IND_Y_RD, GET_DLOC_L_IND_Y_RD

LEMMA AlikeWord ==
  ASSUME NEW c, NEW d, Alike(c, d), Fed(c, d, 2)
  PROVE  /\ Alike(GET_ABS_RD(c), GET_ABS_RD(d))
         /\ Alike(GET_ABS_Y_RD(c), GET_ABS_Y_RD(d)) /\ Alike(GET_ABS_X_RD(c), GET_ABS_X_RD(d))
         /\ Alike(GET_ABS_X_RD_WR(c), GET_ABS_X_RD_WR(d))
<1>1. GET_2BYTE_ARG(c) = GET_2BYTE_ARG(d) /\ c.xreg = d.xreg /\ c.yreg = d.yreg
  BY DEF Fed, Alike
<1> QED BY <1>1, AlikeAbsolute, AlikeLoad DEF GET_ABS_RD, GET_ABS_Y_RD, GET_ABS_X_RD

LEMMA AlikeThree ==
  ASSUME NEW c, NEW d, Alike(c, d), Fed(c, d, 3)
  PROVE  /\ Alike(GET_LONG_RD(c), GET_LONG_RD(d)) /\ Alike(GET_LONG_X_RD(c), GET_LONG_X_RD(d))
<1>1. GET_3BYTE_ARG(c) = GET_3BYTE_ARG(d)
  BY DEF Fed
<1> QED BY <1>1, AlikeLong, AlikeLoad DEF GET_LONG_RD, GET_LONG_X_RD

\* An immediate has the width of the accumulator, or of the index registers.
LEMMA AlikeImmediate ==
  ASSUME NEW c, NEW d, Alike(c, d)
  PROVE  /\ Fed(c, d, 4) /\ c.acc8 = c.psr.m => Alike(GET_IMM_MEM(c), GET_IMM_MEM(d))
         /\ Fed(c, d, 5) => Alike(IndexImm(c), IndexImm(d))
<1>1. c.acc8 = d.acc8 /\ c.psr = d.psr
  BY DEF Alike
<1>2. \A a, n : Alike(At(c, a, n), At(d, a, n))
  BY AlikeAt
<1>3. Fed(c, d, 4) /\ c.acc8 = c.psr.m => Alike(GET_IMM_MEM(c), GET_IMM_MEM(d))
  BY <1>1, <1>2 DEF Fed, GET_IMM_MEM
<1>4. Fed(c, d, 5) => Alike(IndexImm(c), IndexImm(d))
  BY <1>1, <1>2 DEF Fed, IndexImm
<1> QED BY <1>3, <1>4

LEMMA AlikeBranches ==
  ASSUME NEW c, NEW d, Alike(c, d), Fed(c, d, 1)
  PROVE  /\ Alike(BRANCH_DISP8(c, c.neg = 0), BRANCH_DISP8(d, d.neg = 0))
         /\ Alike(BRANCH_DISP8(c, c.neg = 1), BRANCH_DISP8(d, d.neg = 1))
         /\ Alike(BRANCH_DISP8(c, c.psr.v = 0), BRANCH_DISP8(d, d.psr.v = 0))
         /\ Alike(BRANCH_DISP8(c, c.psr.v = 1), BRANCH_DISP8(d, d.psr.v = 1))
         /\ Alike(BRANCH_DISP8(c, c.psr.c = 0), BRANCH_DISP8(d, d.psr.c = 0))
         /\ Alike(BRANCH_DISP8(c, c.psr.c = 1), BRANCH_DISP8(d, d.psr.c = 1))
         /\ Alike(BRANCH_DISP8(c, c.zero # 0), BRANCH_DISP8(d, d.zero # 0))
         /\ Alike(BRANCH_DISP8(c, c.zero = 0), BRANCH_DISP8(d, d.zero = 0))
         /\ Alike(BRA(c), BRA(d))
<1>1. c.neg = d.neg /\ c.psr = d.psr /\ c.zero = d.zero /\ GET_1BYTE_ARG(c) = GET_1BYTE_ARG(d)
  BY DEF Alike, Fed
<1>2. \A n : Alike(INC_KPC(c, n), INC_KPC(d, n))
  BY AlikeStep
<1> QED BY <1>1, <1>2 DEF BRANCH_DISP8, BRA

LEMMA AlikeIndexed ==
  ASSUME NEW c, NEW d, Alike(c, d)
  PROVE  /\ Fed(c, d, 5) => /\ Alike(ArgToIndex(IndexImm(c), "x"), ArgToIndex(IndexImm(d), "x"))
                            /\ Alike(ArgToIndex(IndexImm(c), "y"), ArgToIndex(IndexImm(d), "y"))
                            /\ Alike(C_CPX_IMM(c), C_CPX_IMM(d)) /\ Alike(C_CPY_IMM(c), C_CPY_IMM(d))
         /\ Fed(c, d, 1) =>
              /\ Alike(C_LDX_DLOC(c), C_LDX_DLOC(d)) /\ Alike(C_LDY_DLOC(c), C_LDY_DLOC(d))
              /\ Alike(C_LDY_DLOC_X(c), C_LDY_DLOC_X(d)) /\ Alike(C_LDX_DLOC_Y(c), C_LDX_DLOC_Y(d))
              /\ Alike(C_CPX_DLOC(c), C_CPX_DLOC(d)) /\ Alike(C_CPY_DLOC(c), C_CPY_DLOC(d))
              /\ Alike(PEI(GET_DLOC_ADDR(c)), PEI(GET_DLOC_ADDR(d)))
         /\ Fed(c, d, 2) =>
              /\ Alike(C_LDX_ABS(c), C_LDX_ABS(d)) /\ Alike(C_LDY_ABS(c), C_LDY_ABS(d))
              /\ Alike(C_LDX_ABS_Y(c), C_LDX_ABS_Y(d)) /\ Alike(C_LDY_ABS_X(c), C_LDY_ABS_X(d))
              /\ Alike(C_CPX_ABS(c), C_CPX_ABS(d)) /\ Alike(C_CPY_ABS(c), C_CPY_ABS(d))
<1>1. c.xreg = d.xreg /\ c.yreg = d.yreg
  BY DEF Alike
<1>2. \A x, y : Alike(x, y) =>
        /\ Alike(ArgToIndex(x, "x"), ArgToIndex(y, "x")) /\ Alike(ArgToIndex(x, "y"), ArgToIndex(y, "y"))
        /\ \A r : Alike(CP_INDEX_VAL(x, r), CP_INDEX_VAL(y, r))
        /\ \A r, b : Alike(CP_INDEX_LOAD(x, r, b), CP_INDEX_LOAD(y, r, b))
        /\ \A b : Alike(LDX_INST(x, b), LDX_INST(y, b)) /\ Alike(LDY_INST(x, b), LDY_INST(y, b))
        /\ Alike(PEI(x), PEI(y))
  BY AlikeIndex
<1>3. ASSUME Fed(c, d, 5)
      PROVE  /\ Alike(ArgToIndex(IndexImm(c), "x"), ArgToIndex(IndexImm(d), "x"))
             /\ Alike(ArgToIndex(IndexImm(c), "y"), ArgToIndex(IndexImm(d), "y"))
             /\ Alike(C_CPX_IMM(c), C_CPX_IMM(d)) /\ Alike(C_CPY_IMM(c), C_CPY_IMM(d))
  <2>1. Alike(IndexImm(c), IndexImm(d))
    BY <1>3, AlikeImmediate
  <2> QED BY <1>1, <1>2, <2>1 DEF C_CPX_IMM, C_CPY_IMM
<1>4. ASSUME Fed(c, d, 1)
      PROVE  /\ Alike(C_LDX_DLOC(c), C_LDX_DLOC(d)) /\ Alike(C_LDY_DLOC(c), C_LDY_DLOC(d))
             /\ Alike(C_LDY_DLOC_X(c), C_LDY_DLOC_X(d)) /\ Alike(C_LDX_DLOC_Y(c), C_LDX_DLOC_Y(d))
             /\ Alike(C_CPX_DLOC(c), C_CPX_DLOC(d)) /\ Alike(C_CPY_DLOC(c), C_CPY_DLOC(d))
             /\ Alike(PEI(GET_DLOC_ADDR(c)), PEI(GET_DLOC_ADDR(d)))
  <2>1. GET_1BYTE_ARG(c) = GET_1BYTE_ARG(d)
    BY <1>4 DEF Fed
  <2>2. /\ Alike(GET_DLOC_ADDR(c), GET_DLOC_ADDR(d))
        /\ Alike(GET_DLOC_INDEX_WR(c, c.xreg), GET_DLOC_INDEX_WR(d, d.xreg))
        /\ Alike(GET_DLOC_INDEX_WR(c, c.yreg), GET_DLOC_INDEX_WR(d, d.yreg))
    BY <2>1, AlikeDirect
  <2> QED BY <1>1, <1>2, <2>2
       DEF C_LDX_DLOC, C_LDY_DLOC, C_LDY_DLOC_X, C_LDX_DLOC_Y, C_CPX_DLOC, C_CPY_DLOC
<1>5. ASSUME Fed(c, d, 2)
      PROVE  /\ Alike(C_LDX_ABS(c), C_LDX_ABS(d)) /\ Alike(C_LDY_ABS(c), C_LDY_ABS(d))
             /\ Alike(C_LDX_ABS_Y(c), C_LDX_ABS_Y(d)) /\ Alike(C_LDY_ABS_X(c), C_LDY_ABS_X(d))
             /\ Alike(C_CPX_ABS(c), C_CPX_ABS(d)) /\ Alike(C_CPY_ABS(c), C_CPY_ABS(d))
  <2>1. GET_2BYTE_ARG(c) = GET_2BYTE_ARG(d)
    BY <1>5 DEF Fed
  <2>2. /\ Alike(GET_ABS_ADDR(c), GET_ABS_ADDR(d))
        /\ \A r : Alike(GET_ABS_INDEX_ADDR_FOR_RD(c, r), GET_ABS_INDEX_ADDR_FOR_RD(d, r))
    BY <2>1, AlikeAbsolute
  <2> QED BY <1>1, <1>2, <2>2 DEF C_LDX_ABS, C_LDY_ABS, C_LDX_ABS_Y, C_LDY_ABS_X, C_CPX_ABS, C_CPY_ABS
<1> QED BY <1>3, <1>4, <1>5

LEMMA AlikeJumpsTo ==
  ASSUME NEW c, NEW d, Alike(c, d)
  PROVE  /\ Fed(c, d, 2) =>
              /\ Alike(JumpTo(c, GET_2BYTE_ARG(c)), JumpTo(d, GET_2BYTE_ARG(d)))
              /\ Alike(JumpTo(c, GET_MEMORY16(c, GET_2BYTE_ARG(c), InBank)),
                       JumpTo(d, GET_MEMORY16(d, GET_2BYTE_ARG(d), InBank)))
              /\ Alike(JumpTo(c, GET_MEMORY16(c, KBankX(c), InBank)),
                       JumpTo(d, GET_MEMORY16(d, KBankX(d), InBank)))
              /\ Alike([c EXCEPT !.kpc = GET_MEMORY24(c, GET_2BYTE_ARG(c), InBank)],
                       [d EXCEPT !.kpc = GET_MEMORY24(d, GET_2BYTE_ARG(d), InBank)])
              /\ Alike(PUSH16_UNSAFE(INC_KPC(c, 3), GET_2BYTE_ARG(c)),
                       PUSH16_UNSAFE(INC_KPC(d, 3), GET_2BYTE_ARG(d)))
              /\ Alike(BRL(c), BRL(d)) /\ Alike(PER(c), PER(d)) /\ Alike(JSR(c), JSR(d))
              /\ Alike(JSR_ABS_X(c), JSR_ABS_X(d))
         /\ Fed(c, d, 3) =>
              /\ Alike([c EXCEPT !.kpc = GET_3BYTE_ARG(c)], [d EXCEPT !.kpc = GET_3BYTE_ARG(d)])
              /\ Alike(JSL(c), JSL(d))
<1>1. ASSUME Fed(c, d, 2)
      PROVE  /\ Alike(JumpTo(c, GET_2BYTE_ARG(c)), JumpTo(d, GET_2BYTE_ARG(d)))
             /\ Alike(JumpTo(c, GET_MEMORY16(c, GET_2BYTE_ARG(c), InBank)),
                      JumpTo(d, GET_MEMORY16(d, GET_2BYTE_ARG(d), InBank)))
             /\ Alike(JumpTo(c, GET_MEMORY16(c, KBankX(c), InBank)),
                      JumpTo(d, GET_MEMORY16(d, KBankX(d), InBank)))
             /\ Alike(SetKpc(c, GET_MEMORY24(c, GET_2BYTE_ARG(c), InBank)),
                      SetKpc(d, GET_MEMORY24(d, GET_2BYTE_ARG(d), InBank)))
             /\ Alike(PUSH16_UNSAFE(INC_KPC(c, 3), GET_2BYTE_ARG(c)),
                      PUSH16_UNSAFE(INC_KPC(d, 3), GET_2BYTE_ARG(d)))
             /\ Alike(BRL(c), BRL(d)) /\ Alike(PER(c), PER(d)) /\ Alike(JSR(c), JSR(d))
             /\ Alike(JSR_ABS_X(c), JSR_ABS_X(d))
  <2>1. GET_2BYTE_ARG(c) = GET_2BYTE_ARG(d)
    BY <1>1 DEF Fed
  <2>2. KBankX(c) = KBankX(d) /\ \A v : Alike(JumpTo(c, v), JumpTo(d, v))
    BY <2>1, AlikeJumps
  <2>3. /\ \A a, b : GET_MEMORY16(c, a, b) = GET_MEMORY16(d, a, b)
        /\ \A a, b : GET_MEMORY24(c, a, b) = GET_MEMORY24(d, a, b)
        /\ \A v : Alike(SetKpc(c, v), SetKpc(d, v))
        /\ \A v : Alike(PUSH16_UNSAFE(INC_KPC(c, 3), v), PUSH16_UNSAFE(INC_KPC(d, 3), v))
    BY AlikeReads, AlikeSets, AlikeStep, AlikePushes
  <2> QED BY <2>1, <2>2, <2>3, AlikeJumps
<1>2. ASSUME Fed(c, d, 3)
      PROVE  Alike(SetKpc(c, GET_3BYTE_ARG(c)), SetKpc(d, GET_3BYTE_ARG(d))) /\ Alike(JSL(c), JSL(d))
  BY <1>2, AlikeSets, AlikeJumps DEF Fed
<1> QED BY <1>1, <1>2 DEF SetKpc

LEMMA AlikeStacks ==
  ASSUME NEW c, NEW d, Alike(c, d)
  PROVE  /\ Alike(PUSH16_UNSAFE(INC_KPC(c, 1), c.direct), PUSH16_UNSAFE(INC_KPC(d, 1), d.direct))
         /\ Alike(PUSH8(INC_KPC(c, 1), c.dbank), PUSH8(INC_KPC(d, 1), d.dbank))
         /\ Alike(INC_KPC(PUSH8(c, c.kpc \div 65536), 1), INC_KPC(PUSH8(d, d.kpc \div 65536), 1))
         /\ Alike(PushReg(c, c.acc, c.acc8 = 1), PushReg(d, d.acc, d.acc8 = 1))
         /\ Alike(PushReg(c, c.xreg, c.psr.x = 1), PushReg(d, d.xreg, d.psr.x = 1))
         /\ Alike(PushReg(c, c.yreg, c.psr.x = 1), PushReg(d, d.yreg, d.psr.x = 1))
         /\ Alike(PLA(c), PLA(d)) /\ Alike(PLB(c), PLB(d)) /\ Alike(PLD(c), PLD(d))
         /\ Alike(PullIndex(c, "x"), PullIndex(d, "x"))
         /\ Alike(PullIndex(c, "y"), PullIndex(d, "y"))
<1>1. /\ c.direct = d.direct /\ c.dbank = d.dbank /\ c.kpc = d.kpc /\ c.acc = d.acc
      /\ c.xreg = d.xreg /\ c.yreg = d.yreg /\ c.psr = d.psr /\ c.acc8 = d.acc8
  BY DEF Alike
<1>2. ASSUME NEW v, NEW q
      PROVE  /\ Alike(PUSH16_UNSAFE(INC_KPC(c, 1), v), PUSH16_UNSAFE(INC_KPC(d, 1), v))
             /\ Alike(PUSH8(INC_KPC(c, 1), v), PUSH8(INC_KPC(d, 1), v))
             /\ Alike(INC_KPC(PUSH8(c, v), 1), INC_KPC(PUSH8(d, v), 1))
             /\ Alike(PushReg(c, v, q), PushReg(d, v, q))
  BY AlikeStacked
<1>3. /\ Alike(PLA(c), PLA(d)) /\ Alike(PLB(c), PLB(d)) /\ Alike(PLD(c), PLD(d))
      /\ Alike(PullIndex(c, "x"), PullIndex(d, "x"))
      /\ Alike(PullIndex(c, "y"), PullIndex(d, "y"))
  BY AlikeStacked
<1>4. /\ Alike(PUSH16_UNSAFE(INC_KPC(c, 1), c.direct), PUSH16_UNSAFE(INC_KPC(d, 1), d.direct))
      /\ Alike(PUSH8(INC_KPC(c, 1), c.dbank), PUSH8(INC_KPC(d, 1), d.dbank))
      /\ Alike(INC_KPC(PUSH8(c, c.kpc \div 65536), 1), INC_KPC(PUSH8(d, d.kpc \div 65536), 1))
  BY <1>1, <1>2
<1>5. /\ Alike(PushReg(c, c.acc, c.acc8 = 1), PushReg(d, d.acc, d.acc8 = 1))
      /\ Alike(PushReg(c, c.xreg, c.psr.x = 1), PushReg(d, d.xreg, d.psr.x = 1))
      /\ Alike(PushReg(c, c.yreg, c.psr.x = 1), PushReg(d, d.yreg, d.psr.x = 1))
  BY <1>1, <1>2 DEF PushReg
<1> QED BY <1>3, <1>4, <1>5

LEMMA AlikeTransfers ==
  ASSUME NEW c, NEW d, Alike(c, d)
  PROVE  /\ Alike(OnAcc(c, 2 * Acc(c) + c.psr.c, HighBit(c, Acc(c))),
                  OnAcc(d, 2 * Acc(d) + d.psr.c, HighBit(d, Acc(d))))
         /\ Alike(OnAcc(c, 2 * Acc(c), HighBit(c, Acc(c))), OnAcc(d, 2 * Acc(d), HighBit(d, Acc(d))))
         /\ Alike(OnAcc(c, Acc(c) + 1, c.psr.c), OnAcc(d, Acc(d) + 1, d.psr.c))
         /\ Alike(OnAcc(c, Acc(c) - 1, c.psr.c), OnAcc(d, Acc(d) - 1, d.psr.c))
         /\ Alike(OnAcc(c, ShiftRight(c, Acc(c), 0), Acc(c)), OnAcc(d, ShiftRight(d, Acc(d), 0), Acc(d)))
         /\ Alike(OnAcc(c, ShiftRight(c, Acc(c), c.psr.c), Acc(c)),
                  OnAcc(d, ShiftRight(d, Acc(d), d.psr.c), Acc(d)))
         /\ Alike(SET_CARRY(INC_KPC(c, 1), 0), SET_CARRY(INC_KPC(d, 1), 0))
         /\ Alike(SET_CARRY(INC_KPC(c, 1), 1), SET_CARRY(INC_KPC(d, 1), 1))
         /\ Alike(SET_INDEX_REG(INC_KPC(c, 1), c.acc, "x"), SET_INDEX_REG(INC_KPC(d, 1), d.acc, "x"))
         /\ Alike(SET_INDEX_REG(INC_KPC(c, 1), c.acc, "y"), SET_INDEX_REG(INC_KPC(d, 1), d.acc, "y"))
         /\ Alike(SET_INDEX_REG(INC_KPC(c, 1), c.stack, "x"),
                  SET_INDEX_REG(INC_KPC(d, 1), d.stack, "x"))
         /\ Alike(SET_INDEX_REG(INC_KPC(c, 1), c.xreg + 1, "x"),
                  SET_INDEX_REG(INC_KPC(d, 1), d.xreg + 1, "x"))
         /\ Alike(SET_INDEX_REG(INC_KPC(c, 1), c.xreg - 1, "x"),
                  SET_INDEX_REG(INC_KPC(d, 1), d.xreg - 1, "x"))
         /\ Alike(SET_INDEX_REG(INC_KPC(c, 1), c.xreg, "y"), SET_INDEX_REG(INC_KPC(d, 1), d.xreg, "y"))
         /\ Alike(SET_INDEX_REG(INC_KPC(c, 1), c.yreg + 1, "y"),
                  SET_INDEX_REG(INC_KPC(d, 1), d.yreg + 1, "y"))
         /\ Alike(SET_INDEX_REG(INC_KPC(c, 1), c.yreg - 1, "y"),
                  SET_INDEX_REG(INC_KPC(d, 1), d.yreg - 1, "y"))
         /\ Alike(SET_INDEX_REG(INC_KPC(c, 1), c.yreg, "x"), SET_INDEX_REG(INC_KPC(d, 1), d.yreg, "x"))
         /\ Alike(SetAcc(INC_KPC(c, 1), c.xreg), SetAcc(INC_KPC(d, 1), d.xreg))
         /\ Alike(SetAcc(INC_KPC(c, 1), c.yreg), SetAcc(INC_KPC(d, 1), d.yreg))
         /\ Alike(ToStack(c, c.acc), ToStack(d, d.acc)) /\ Alike(ToStack(c, c.xreg), ToStack(d, d.xreg))
         /\ Alike(WholeAcc(c, c.direct), WholeAcc(d, d.direct))
         /\ Alike(WholeAcc(c, c.stack), WholeAcc(d, d.stack))
<1>1. /\ c.acc = d.acc /\ c.xreg = d.xreg /\ c.yreg = d.yreg /\ c.psr = d.psr /\ c.stack = d.stack
      /\ c.direct = d.direct /\ Acc(c) = Acc(d)
  BY AlikeWidths DEF Alike
<1>2. /\ HighBit(c, Acc(c)) = HighBit(d, Acc(d))
      /\ ShiftRight(c, Acc(c), 0) = ShiftRight(d, Acc(d), 0)
      /\ ShiftRight(c, Acc(c), c.psr.c) = ShiftRight(d, Acc(d), d.psr.c)
  BY <1>1, AlikeWidths DEF HighBit, ShiftRight
<1>3. /\ \A v, w : Alike(OnAcc(c, v, w), OnAcc(d, v, w))
      /\ \A v : Alike(WholeAcc(c, v), WholeAcc(d, v)) /\ Alike(ToStack(c, v), ToStack(d, v))
      /\ \A v : Alike(SetAcc(INC_KPC(c, 1), v), SetAcc(INC_KPC(d, 1), v))
      /\ \A v, r : Alike(SET_INDEX_REG(INC_KPC(c, 1), v, r), SET_INDEX_REG(INC_KPC(d, 1), v, r))
      /\ \A v : Alike(SET_CARRY(INC_KPC(c, 1), v), SET_CARRY(INC_KPC(d, 1), v))
  BY AlikeImplied
<1> QED BY <1>1, <1>2, <1>3

-----------------------------------------------------------------------------
(* The table of sizes and the table of opcodes agree: every row of the     *)
(* instructions takes no operand byte the table does not count.            *)
LEMMA TableIs ==
  /\ \A i \in 1 .. 8 : size_tab[i] = LowOpcodes[i]
  /\ \A i \in 9 .. 16 : size_tab[i] = HighOpcodes[i - 8]
BY DEF size_tab, LowOpcodes, HighOpcodes

LEMMA FedArgs ==
  ASSUME NEW c, NEW d
  PROVE  /\ Fed(c, d, 1) => GET_1BYTE_ARG(c) = GET_1BYTE_ARG(d)
         /\ Fed(c, d, 2) => /\ GET_1BYTE_ARG(c) = GET_1BYTE_ARG(d)
                            /\ GET_2BYTE_ARG(c) = GET_2BYTE_ARG(d)
         /\ Fed(c, d, 3) => GET_3BYTE_ARG(c) = GET_3BYTE_ARG(d)
BY DEF Fed

LEMMA AlikeRegs ==
  ASSUME NEW c, NEW d, Alike(c, d)
  PROVE  c.xreg = d.xreg /\ c.yreg = d.yreg
BY DEF Alike

LEMMA MovesCount ==
  ASSUME NEW c, Good(c)
  PROVE  c.acc \in Nat /\ c.burst \in Nat
<1>1. c.acc \in Word /\ c.burst \in Nat \ {0}
  BY DEF Good, Sized
<1> QED BY <1>1, WordIs

LEMMA AlikeRow0 ==
  ASSUME NEW c, NEW d, Alike(c, d), Good(c), NEW k \in 0 .. 15, Fed(c, d, size_tab[1][1 + k])
  PROVE  Alike(Row0(c, k), Row0(d, k))
<1>1. size_tab[1] = <<1, 1, 1, 1, 1, 1, 1, 1, 0, 4, 0, 0, 2, 2, 2, 3>>
  BY TableIs DEF LowOpcodes
<1>2. /\ Alike(BRK(c), BRK(d)) /\ Alike(COP(c), COP(d))
  BY AlikeBreaks
<1>3. Alike(PHP(c), PHP(d))
  BY AlikeModes
<1>4. Alike(OnAcc(c, 2 * Acc(c), HighBit(c, Acc(c))), OnAcc(d, 2 * Acc(d), HighBit(d, Acc(d))))
  BY AlikeTransfers
<1>5. Alike(PUSH16_UNSAFE(INC_KPC(c, 1), c.direct), PUSH16_UNSAFE(INC_KPC(d, 1), d.direct))
  BY AlikeStacks
<1>6. ASSUME k \in {1, 3, 4, 5, 6, 7} PROVE Fed(c, d, 1)
  BY <1>1, <1>6
<1>7. ASSUME Fed(c, d, 1)
      PROVE  /\ Alike(ORA_INST(GET_DLOC_X_IND_RD(c)), ORA_INST(GET_DLOC_X_IND_RD(d)))
             /\ Alike(ORA_INST(GET_DISP8_S_RD(c)), ORA_INST(GET_DISP8_S_RD(d)))
             /\ Alike(TSB_INST(GET_DLOC_RD(c), InBank), TSB_INST(GET_DLOC_RD(d), InBank))
             /\ Alike(ORA_INST(GET_DLOC_RD(c)), ORA_INST(GET_DLOC_RD(d)))
             /\ Alike(ASL_INST(GET_DLOC_RD(c), InBank), ASL_INST(GET_DLOC_RD(d), InBank))
             /\ Alike(ORA_INST(GET_DLOC_L_IND_RD(c)), ORA_INST(GET_DLOC_L_IND_RD(d)))
  BY <1>7, AlikeByte, AlikeOperand, AlikeModifies
<1>8. ASSUME k \in {12, 13, 14} PROVE Fed(c, d, 2)
  BY <1>1, <1>8
<1>9. ASSUME Fed(c, d, 2)
      PROVE  /\ Alike(TSB_INST(GET_ABS_RD(c), Linear), TSB_INST(GET_ABS_RD(d), Linear))
             /\ Alike(ORA_INST(GET_ABS_RD(c)), ORA_INST(GET_ABS_RD(d)))
             /\ Alike(ASL_INST(GET_ABS_RD(c), Linear), ASL_INST(GET_ABS_RD(d), Linear))
  BY <1>9, AlikeWord, AlikeModifies, AlikeOperand
<1>10. ASSUME k \in {15} PROVE Fed(c, d, 3)
  BY <1>1, <1>10
<1>11. ASSUME Fed(c, d, 3)
      PROVE  Alike(ORA_INST(GET_LONG_RD(c)), ORA_INST(GET_LONG_RD(d)))
  BY <1>11, AlikeThree, AlikeOperand
<1>12. ASSUME k \in {9} PROVE Fed(c, d, 4)
  BY <1>1, <1>12
<1>13. ASSUME Fed(c, d, 4)
      PROVE  Alike(ORA_INST(GET_IMM_MEM(c)), ORA_INST(GET_IMM_MEM(d)))
  BY <1>13, AlikeImmediate, AlikeOperand DEF Good
<1> QED BY <1>2, <1>3, <1>4, <1>5, <1>6, <1>7, <1>8, <1>9, <1>10, <1>11, <1>12, <1>13 DEF Row0

LEMMA AlikeRow1 ==
  ASSUME NEW c, NEW d, Alike(c, d), Good(c), NEW k \in 0 .. 15, Fed(c, d, size_tab[2][1 + k])
  PROVE  Alike(Row1(c, k), Row1(d, k))
<1>1. size_tab[2] = <<1, 1, 1, 1, 1, 1, 1, 1, 0, 2, 0, 0, 2, 2, 2, 3>>
  BY TableIs DEF LowOpcodes
<1>2. /\ Alike(SET_CARRY(INC_KPC(c, 1), 0), SET_CARRY(INC_KPC(d, 1), 0))
      /\ Alike(OnAcc(c, Acc(c) + 1, c.psr.c), OnAcc(d, Acc(d) + 1, d.psr.c))
      /\ Alike(ToStack(c, c.acc), ToStack(d, d.acc))
  BY AlikeTransfers
<1>3. ASSUME k \in {0, 1, 2, 3, 4, 5, 6, 7} PROVE Fed(c, d, 1)
  BY <1>1, <1>3
<1>4. ASSUME Fed(c, d, 1)
      PROVE  /\ Alike(BRANCH_DISP8(c, c.neg = 0), BRANCH_DISP8(d, d.neg = 0))
             /\ Alike(ORA_INST(GET_DLOC_IND_Y_RD(c)), ORA_INST(GET_DLOC_IND_Y_RD(d)))
             /\ Alike(ORA_INST(GET_DLOC_IND_RD(c)), ORA_INST(GET_DLOC_IND_RD(d)))
             /\ Alike(ORA_INST(GET_DISP8_S_IND_Y_RD(c)), ORA_INST(GET_DISP8_S_IND_Y_RD(d)))
             /\ Alike(TRB_INST(GET_DLOC_RD(c), InBank), TRB_INST(GET_DLOC_RD(d), InBank))
             /\ Alike(ORA_INST(GET_DLOC_X_RD(c)), ORA_INST(GET_DLOC_X_RD(d)))
             /\ Alike(ASL_INST(GET_DLOC_X_RD(c), InBank), ASL_INST(GET_DLOC_X_RD(d), InBank))
             /\ Alike(ORA_INST(GET_DLOC_L_IND_Y_RD(c)), ORA_INST(GET_DLOC_L_IND_Y_RD(d)))
  BY <1>4, AlikeBranches, AlikeByte, AlikeOperand, AlikeModifies
<1>5. ASSUME k \in {9, 12, 13, 14} PROVE Fed(c, d, 2)
  BY <1>1, <1>5
<1>6. ASSUME Fed(c, d, 2)
      PROVE  /\ Alike(ORA_INST(GET_ABS_Y_RD(c)), ORA_INST(GET_ABS_Y_RD(d)))
             /\ Alike(TRB_INST(GET_ABS_RD(c), Linear), TRB_INST(GET_ABS_RD(d), Linear))
             /\ Alike(ORA_INST(GET_ABS_X_RD(c)), ORA_INST(GET_ABS_X_RD(d)))
             /\ Alike(ASL_INST(GET_ABS_X_RD_WR(c), Linear), ASL_INST(GET_ABS_X_RD_WR(d), Linear))
  BY <1>6, AlikeWord, AlikeOperand, AlikeModifies
<1>7. ASSUME k \in {15} PROVE Fed(c, d, 3)
  BY <1>1, <1>7
<1>8. ASSUME Fed(c, d, 3)
      PROVE  Alike(ORA_INST(GET_LONG_X_RD(c)), ORA_INST(GET_LONG_X_RD(d)))
  BY <1>8, AlikeThree, AlikeOperand
<1> QED BY <1>2, <1>3, <1>4, <1>5, <1>6, <1>7, <1>8 DEF Row1

LEMMA AlikeRow2 ==
  ASSUME NEW c, NEW d, Alike(c, d), Good(c), NEW k \in 0 .. 15, Fed(c, d, size_tab[3][1 + k])
  PROVE  Alike(Row2(c, k), Row2(d, k))
<1>1. size_tab[3] = <<2, 1, 3, 1, 1, 1, 1, 1, 0, 4, 0, 0, 2, 2, 2, 3>>
  BY TableIs DEF LowOpcodes
<1>2. Alike(PLP(c), PLP(d))
  BY AlikeModes
<1>3. Alike(OnAcc(c, 2 * Acc(c) + c.psr.c, HighBit(c, Acc(c))),
            OnAcc(d, 2 * Acc(d) + d.psr.c, HighBit(d, Acc(d))))
  BY AlikeTransfers
<1>4. Alike(PLD(c), PLD(d))
  BY AlikeStacks
<1>5. ASSUME k \in {1, 3, 4, 5, 6, 7} PROVE Fed(c, d, 1)
  BY <1>1, <1>5
<1>6. ASSUME Fed(c, d, 1)
      PROVE  /\ Alike(AND_INST(GET_DLOC_X_IND_RD(c)), AND_INST(GET_DLOC_X_IND_RD(d)))
             /\ Alike(AND_INST(GET_DISP8_S_RD(c)), AND_INST(GET_DISP8_S_RD(d)))
             /\ Alike(BIT_INST(GET_DLOC_RD(c)), BIT_INST(GET_DLOC_RD(d)))
             /\ Alike(AND_INST(GET_DLOC_RD(c)), AND_INST(GET_DLOC_RD(d)))
             /\ Alike(ROL_INST(GET_DLOC_RD(c), InBank), ROL_INST(GET_DLOC_RD(d), InBank))
             /\ Alike(AND_INST(GET_DLOC_L_IND_RD(c)), AND_INST(GET_DLOC_L_IND_RD(d)))
  BY <1>6, AlikeByte, AlikeOperand, AlikeModifies
<1>7. ASSUME k \in {0, 12, 13, 14} PROVE Fed(c, d, 2)
  BY <1>1, <1>7
<1>8. ASSUME Fed(c, d, 2)
      PROVE  /\ Alike(JSR(c), JSR(d)) /\ Alike(BIT_INST(GET_ABS_RD(c)), BIT_INST(GET_ABS_RD(d)))
             /\ Alike(AND_INST(GET_ABS_RD(c)), AND_INST(GET_ABS_RD(d)))
             /\ Alike(ROL_INST(GET_ABS_RD(c), Linear), ROL_INST(GET_ABS_RD(d), Linear))
  BY <1>8, AlikeJumpsTo, AlikeWord, AlikeOperand, AlikeModifies
<1>9. ASSUME k \in {2, 15} PROVE Fed(c, d, 3)
  BY <1>1, <1>9
<1>10. ASSUME Fed(c, d, 3)
      PROVE  /\ Alike(JSL(c), JSL(d)) /\ Alike(AND_INST(GET_LONG_RD(c)), AND_INST(GET_LONG_RD(d)))
  BY <1>10, AlikeJumpsTo, AlikeThree, AlikeOperand
<1>11. ASSUME k \in {9} PROVE Fed(c, d, 4)
  BY <1>1, <1>11
<1>12. ASSUME Fed(c, d, 4)
      PROVE  Alike(AND_INST(GET_IMM_MEM(c)), AND_INST(GET_IMM_MEM(d)))
  BY <1>12, AlikeImmediate, AlikeOperand DEF Good
<1> QED BY <1>2, <1>3, <1>4, <1>5, <1>6, <1>7, <1>8, <1>9, <1>10, <1>11, <1>12 DEF Row2

LEMMA AlikeRow3 ==
  ASSUME NEW c, NEW d, Alike(c, d), Good(c), NEW k \in 0 .. 15, Fed(c, d, size_tab[4][1 + k])
  PROVE  Alike(Row3(c, k), Row3(d, k))
<1>1. size_tab[4] = <<1, 1, 1, 1, 1, 1, 1, 1, 0, 2, 0, 0, 2, 2, 2, 3>>
  BY TableIs DEF LowOpcodes
<1>2. /\ Alike(SET_CARRY(INC_KPC(c, 1), 1), SET_CARRY(INC_KPC(d, 1), 1))
      /\ Alike(OnAcc(c, Acc(c) - 1, c.psr.c), OnAcc(d, Acc(d) - 1, d.psr.c))
      /\ Alike(WholeAcc(c, c.stack), WholeAcc(d, d.stack))
  BY AlikeTransfers
<1>3. ASSUME k \in {0, 1, 2, 3, 4, 5, 6, 7} PROVE Fed(c, d, 1)
  BY <1>1, <1>3
<1>4. ASSUME Fed(c, d, 1)
      PROVE  /\ Alike(BRANCH_DISP8(c, c.neg = 1), BRANCH_DISP8(d, d.neg = 1))
             /\ Alike(AND_INST(GET_DLOC_IND_Y_RD(c)), AND_INST(GET_DLOC_IND_Y_RD(d)))
             /\ Alike(AND_INST(GET_DLOC_IND_RD(c)), AND_INST(GET_DLOC_IND_RD(d)))
             /\ Alike(AND_INST(GET_DISP8_S_IND_Y_RD(c)), AND_INST(GET_DISP8_S_IND_Y_RD(d)))
             /\ Alike(BIT_INST(GET_DLOC_X_RD(c)), BIT_INST(GET_DLOC_X_RD(d)))
             /\ Alike(AND_INST(GET_DLOC_X_RD(c)), AND_INST(GET_DLOC_X_RD(d)))
             /\ Alike(ROL_INST(GET_DLOC_X_RD(c), InBank), ROL_INST(GET_DLOC_X_RD(d), InBank))
             /\ Alike(AND_INST(GET_DLOC_L_IND_Y_RD(c)), AND_INST(GET_DLOC_L_IND_Y_RD(d)))
  BY <1>4, AlikeBranches, AlikeByte, AlikeOperand, AlikeModifies
<1>5. ASSUME k \in {9, 12, 13, 14} PROVE Fed(c, d, 2)
  BY <1>1, <1>5
<1>6. ASSUME Fed(c, d, 2)
      PROVE  /\ Alike(AND_INST(GET_ABS_Y_RD(c)), AND_INST(GET_ABS_Y_RD(d)))
             /\ Alike(BIT_INST(GET_ABS_X_RD(c)), BIT_INST(GET_ABS_X_RD(d)))
             /\ Alike(AND_INST(GET_ABS_X_RD(c)), AND_INST(GET_ABS_X_RD(d)))
             /\ Alike(ROL_INST(GET_ABS_X_RD_WR(c), Linear), ROL_INST(GET_ABS_X_RD_WR(d), Linear))
  BY <1>6, AlikeWord, AlikeOperand, AlikeModifies
<1>7. ASSUME k \in {15} PROVE Fed(c, d, 3)
  BY <1>1, <1>7
<1>8. ASSUME Fed(c, d, 3)
      PROVE  Alike(AND_INST(GET_LONG_X_RD(c)), AND_INST(GET_LONG_X_RD(d)))
  BY <1>8, AlikeThree, AlikeOperand
<1> QED BY <1>2, <1>3, <1>4, <1>5, <1>6, <1>7, <1>8 DEF Row3

LEMMA AlikeRow4 ==
  ASSUME NEW c, NEW d, Alike(c, d), Good(c), NEW k \in 0 .. 15, Fed(c, d, size_tab[5][1 + k])
  PROVE  Alike(Row4(c, k), Row4(d, k))
<1>1. size_tab[5] = <<0, 1, 1, 1, 2, 1, 1, 1, 0, 4, 0, 0, 2, 2, 2, 3>>
  BY TableIs DEF LowOpcodes
<1>2. /\ Alike(RTI(c), RTI(d)) /\ Alike(FINISH(INC_KPC(c, 2), "wdm"), FINISH(INC_KPC(d, 2), "wdm"))
  BY AlikeModes
<1>3. /\ Alike(PushReg(c, c.acc, c.acc8 = 1), PushReg(d, d.acc, d.acc8 = 1))
      /\ Alike(INC_KPC(PUSH8(c, c.kpc \div 65536), 1), INC_KPC(PUSH8(d, d.kpc \div 65536), 1))
  BY AlikeStacks
<1>4. Alike(OnAcc(c, ShiftRight(c, Acc(c), 0), Acc(c)), OnAcc(d, ShiftRight(d, Acc(d), 0), Acc(d)))
  BY AlikeTransfers
<1>5. ASSUME k \in {1, 3, 5, 6, 7} PROVE Fed(c, d, 1)
  BY <1>1, <1>5
<1>6. ASSUME Fed(c, d, 1)
      PROVE  /\ Alike(EOR_INST(GET_DLOC_X_IND_RD(c)), EOR_INST(GET_DLOC_X_IND_RD(d)))
             /\ Alike(EOR_INST(GET_DISP8_S_RD(c)), EOR_INST(GET_DISP8_S_RD(d)))
             /\ Alike(EOR_INST(GET_DLOC_RD(c)), EOR_INST(GET_DLOC_RD(d)))
             /\ Alike(LSR_INST(GET_DLOC_RD(c), InBank), LSR_INST(GET_DLOC_RD(d), InBank))
             /\ Alike(EOR_INST(GET_DLOC_L_IND_RD(c)), EOR_INST(GET_DLOC_L_IND_RD(d)))
  BY <1>6, AlikeByte, AlikeOperand, AlikeModifies
<1>7. ASSUME k \in {4, 12, 13, 14} PROVE Fed(c, d, 2)
  BY <1>1, <1>7
<1>8. ASSUME Fed(c, d, 2)
      PROVE  Alike(BlockMove(c, -1), BlockMove(d, -1))
  BY <1>8, AlikeMoves, FedArgs, MovesCount
<1>9. ASSUME Fed(c, d, 2)
      PROVE  /\ Alike(JumpTo(c, GET_2BYTE_ARG(c)), JumpTo(d, GET_2BYTE_ARG(d)))
             /\ Alike(EOR_INST(GET_ABS_RD(c)), EOR_INST(GET_ABS_RD(d)))
             /\ Alike(LSR_INST(GET_ABS_RD(c), Linear), LSR_INST(GET_ABS_RD(d), Linear))
  BY <1>9, AlikeJumpsTo, AlikeWord, AlikeOperand, AlikeModifies
<1>10. ASSUME k \in {15} PROVE Fed(c, d, 3)
  BY <1>1, <1>10
<1>11. ASSUME Fed(c, d, 3)
      PROVE  Alike(EOR_INST(GET_LONG_RD(c)), EOR_INST(GET_LONG_RD(d)))
  BY <1>11, AlikeThree, AlikeOperand
<1>12. ASSUME k \in {9} PROVE Fed(c, d, 4)
  BY <1>1, <1>12
<1>13. ASSUME Fed(c, d, 4)
      PROVE  Alike(EOR_INST(GET_IMM_MEM(c)), EOR_INST(GET_IMM_MEM(d)))
  BY <1>13, AlikeImmediate, AlikeOperand DEF Good
<1> QED BY <1>2, <1>3, <1>4, <1>5, <1>6, <1>7, <1>8, <1>9, <1>10, <1>11, <1>12, <1>13 DEF Row4

LEMMA AlikeRow5 ==
  ASSUME NEW c, NEW d, Alike(c, d), Good(c), NEW k \in 0 .. 15, Fed(c, d, size_tab[6][1 + k])
  PROVE  Alike(Row5(c, k), Row5(d, k))
<1>1. size_tab[6] = <<1, 1, 1, 1, 2, 1, 1, 1, 0, 2, 0, 0, 3, 2, 2, 3>>
  BY TableIs DEF LowOpcodes
<1>2. Alike(CLI(c), CLI(d))
  BY AlikeModes
<1>3. Alike(PushReg(c, c.yreg, c.psr.x = 1), PushReg(d, d.yreg, d.psr.x = 1))
  BY AlikeStacks
<1>4. Alike(TCD(c), TCD(d))
  BY AlikeImplied
<1>5. ASSUME k \in {0, 1, 2, 3, 5, 6, 7} PROVE Fed(c, d, 1)
  BY <1>1, <1>5
<1>6. ASSUME Fed(c, d, 1)
      PROVE  /\ Alike(BRANCH_DISP8(c, c.psr.v = 0), BRANCH_DISP8(d, d.psr.v = 0))
             /\ Alike(EOR_INST(GET_DLOC_IND_Y_RD(c)), EOR_INST(GET_DLOC_IND_Y_RD(d)))
             /\ Alike(EOR_INST(GET_DLOC_IND_RD(c)), EOR_INST(GET_DLOC_IND_RD(d)))
             /\ Alike(EOR_INST(GET_DISP8_S_IND_Y_RD(c)), EOR_INST(GET_DISP8_S_IND_Y_RD(d)))
             /\ Alike(EOR_INST(GET_DLOC_X_RD(c)), EOR_INST(GET_DLOC_X_RD(d)))
             /\ Alike(LSR_INST(GET_DLOC_X_RD(c), InBank), LSR_INST(GET_DLOC_X_RD(d), InBank))
             /\ Alike(EOR_INST(GET_DLOC_L_IND_Y_RD(c)), EOR_INST(GET_DLOC_L_IND_Y_RD(d)))
  BY <1>6, AlikeBranches, AlikeByte, AlikeOperand, AlikeModifies
<1>7. ASSUME k \in {4, 9, 13, 14} PROVE Fed(c, d, 2)
  BY <1>1, <1>7
<1>8. ASSUME Fed(c, d, 2)
      PROVE  Alike(BlockMove(c, 1), BlockMove(d, 1))
  BY <1>8, AlikeMoves, FedArgs, MovesCount
<1>9. ASSUME Fed(c, d, 2)
      PROVE  /\ Alike(EOR_INST(GET_ABS_Y_RD(c)), EOR_INST(GET_ABS_Y_RD(d)))
             /\ Alike(EOR_INST(GET_ABS_X_RD(c)), EOR_INST(GET_ABS_X_RD(d)))
             /\ Alike(LSR_INST(GET_ABS_X_RD_WR(c), Linear), LSR_INST(GET_ABS_X_RD_WR(d), Linear))
  BY <1>9, AlikeWord, AlikeOperand, AlikeModifies
<1>10. ASSUME k \in {12, 15} PROVE Fed(c, d, 3)
  BY <1>1, <1>10
<1>11. ASSUME Fed(c, d, 3)
      PROVE  /\ Alike([c EXCEPT !.kpc = GET_3BYTE_ARG(c)], [d EXCEPT !.kpc = GET_3BYTE_ARG(d)])
             /\ Alike(EOR_INST(GET_LONG_X_RD(c)), EOR_INST(GET_LONG_X_RD(d)))
  BY <1>11, AlikeJumpsTo, AlikeThree, AlikeOperand
<1> QED BY <1>2, <1>3, <1>4, <1>5, <1>6, <1>7, <1>8, <1>9, <1>10, <1>11 DEF Row5

LEMMA AlikeRow6 ==
  ASSUME NEW c, NEW d, Alike(c, d), Good(c), NEW k \in 0 .. 15, Fed(c, d, size_tab[7][1 + k])
  PROVE  Alike(Row6(c, k), Row6(d, k))
<1>1. size_tab[7] = <<0, 1, 2, 1, 1, 1, 1, 1, 0, 4, 0, 0, 2, 2, 2, 3>>
  BY TableIs DEF LowOpcodes
<1>2. /\ Alike(RTS(c), RTS(d)) /\ Alike(RTL(c), RTL(d))
  BY AlikeReturns
<1>3. Alike(PLA(c), PLA(d))
  BY AlikeStacks
<1>4. Alike(OnAcc(c, ShiftRight(c, Acc(c), c.psr.c), Acc(c)),
            OnAcc(d, ShiftRight(d, Acc(d), d.psr.c), Acc(d)))
  BY AlikeTransfers
<1>5. ASSUME k \in {1, 3, 4, 5, 6, 7} PROVE Fed(c, d, 1)
  BY <1>1, <1>5
<1>6. ASSUME Fed(c, d, 1)
      PROVE  /\ Alike(ADC_INST(GET_DLOC_X_IND_RD(c)), ADC_INST(GET_DLOC_X_IND_RD(d)))
             /\ Alike(ADC_INST(GET_DISP8_S_RD(c)), ADC_INST(GET_DISP8_S_RD(d)))
             /\ Alike(STZ_INST(GET_DLOC_ADDR(c), InBank), STZ_INST(GET_DLOC_ADDR(d), InBank))
             /\ Alike(ADC_INST(GET_DLOC_RD(c)), ADC_INST(GET_DLOC_RD(d)))
             /\ Alike(ROR_INST(GET_DLOC_RD(c), InBank), ROR_INST(GET_DLOC_RD(d), InBank))
             /\ Alike(ADC_INST(GET_DLOC_L_IND_RD(c)), ADC_INST(GET_DLOC_L_IND_RD(d)))
  BY <1>6, AlikeByte, AlikeOperand, AlikeDirect, AlikeStores, AlikeModifies, FedArgs
<1>7. ASSUME k \in {2, 12, 13, 14} PROVE Fed(c, d, 2)
  BY <1>1, <1>7
<1>8. ASSUME Fed(c, d, 2)
      PROVE  /\ Alike(PER(c), PER(d))
             /\ Alike(JumpTo(c, GET_MEMORY16(c, GET_2BYTE_ARG(c), InBank)),
                      JumpTo(d, GET_MEMORY16(d, GET_2BYTE_ARG(d), InBank)))
             /\ Alike(ADC_INST(GET_ABS_RD(c)), ADC_INST(GET_ABS_RD(d)))
             /\ Alike(ROR_INST(GET_ABS_RD(c), Linear), ROR_INST(GET_ABS_RD(d), Linear))
  BY <1>8, AlikeJumpsTo, AlikeWord, AlikeOperand, AlikeModifies
<1>9. ASSUME k \in {15} PROVE Fed(c, d, 3)
  BY <1>1, <1>9
<1>10. ASSUME Fed(c, d, 3)
      PROVE  Alike(ADC_INST(GET_LONG_RD(c)), ADC_INST(GET_LONG_RD(d)))
  BY <1>10, AlikeThree, AlikeOperand
<1>11. ASSUME k \in {9} PROVE Fed(c, d, 4)
  BY <1>1, <1>11
<1>12. ASSUME Fed(c, d, 4)
      PROVE  Alike(ADC_INST(GET_IMM_MEM(c)), ADC_INST(GET_IMM_MEM(d)))
  BY <1>12, AlikeImmediate, AlikeOperand DEF Good
<1> QED BY <1>2, <1>3, <1>4, <1>5, <1>6, <1>7, <1>8, <1>9, <1>10, <1>11, <1>12 DEF Row6

LEMMA AlikeRow7 ==
  ASSUME NEW c, NEW d, Alike(c, d), Good(c), NEW k \in 0 .. 15, Fed(c, d, size_tab[8][1 + k])
  PROVE  Alike(Row7(c, k), Row7(d, k))
<1>1. size_tab[8] = <<1, 1, 1, 1, 1, 1, 1, 1, 0, 2, 0, 0, 2, 2, 2, 3>>
  BY TableIs DEF LowOpcodes
<1>2. Alike([INC_KPC(c, 1) EXCEPT !.psr.i = 1], [INC_KPC(d, 1) EXCEPT !.psr.i = 1])
  BY AlikeImplied
<1>3. Alike(PullIndex(c, "y"), PullIndex(d, "y"))
  BY AlikeStacks
<1>4. Alike(WholeAcc(c, c.direct), WholeAcc(d, d.direct))
  BY AlikeTransfers
<1>5. ASSUME k \in {0, 1, 2, 3, 4, 5, 6, 7} PROVE Fed(c, d, 1)
  BY <1>1, <1>5
<1>6. ASSUME Fed(c, d, 1)
      PROVE  /\ Alike(BRANCH_DISP8(c, c.psr.v = 1), BRANCH_DISP8(d, d.psr.v = 1))
             /\ Alike(ADC_INST(GET_DLOC_IND_Y_RD(c)), ADC_INST(GET_DLOC_IND_Y_RD(d)))
             /\ Alike(ADC_INST(GET_DLOC_IND_RD(c)), ADC_INST(GET_DLOC_IND_RD(d)))
             /\ Alike(ADC_INST(GET_DISP8_S_IND_Y_RD(c)), ADC_INST(GET_DISP8_S_IND_Y_RD(d)))
             /\ Alike(ADC_INST(GET_DLOC_X_RD(c)), ADC_INST(GET_DLOC_X_RD(d)))
             /\ Alike(ROR_INST(GET_DLOC_X_RD(c), InBank), ROR_INST(GET_DLOC_X_RD(d), InBank))
             /\ Alike(ADC_INST(GET_DLOC_L_IND_Y_RD(c)), ADC_INST(GET_DLOC_L_IND_Y_RD(d)))
  BY <1>6, AlikeBranches, AlikeByte, AlikeOperand, AlikeModifies
<1>7. ASSUME Fed(c, d, 1)
      PROVE  Alike(STZ_INST(GET_DLOC_INDEX_WR(c, c.xreg), InBank),
                   STZ_INST(GET_DLOC_INDEX_WR(d, d.xreg), InBank))
  BY <1>7, AlikeDirect, AlikeStores, FedArgs, AlikeRegs
<1>8. ASSUME k \in {9, 12, 13, 14} PROVE Fed(c, d, 2)
  BY <1>1, <1>8
<1>9. ASSUME Fed(c, d, 2)
      PROVE  /\ Alike(ADC_INST(GET_ABS_Y_RD(c)), ADC_INST(GET_ABS_Y_RD(d)))
             /\ Alike(JumpTo(c, GET_MEMORY16(c, KBankX(c), InBank)),
                      JumpTo(d, GET_MEMORY16(d, KBankX(d), InBank)))
             /\ Alike(ADC_INST(GET_ABS_X_RD(c)), ADC_INST(GET_ABS_X_RD(d)))
             /\ Alike(ROR_INST(GET_ABS_X_RD_WR(c), Linear), ROR_INST(GET_ABS_X_RD_WR(d), Linear))
  BY <1>9, AlikeWord, AlikeOperand, AlikeJumpsTo, AlikeModifies
<1>10. ASSUME k \in {15} PROVE Fed(c, d, 3)
  BY <1>1, <1>10
<1>11. ASSUME Fed(c, d, 3)
      PROVE  Alike(ADC_INST(GET_LONG_X_RD(c)), ADC_INST(GET_LONG_X_RD(d)))
  BY <1>11, AlikeThree, AlikeOperand
<1> QED BY <1>2, <1>3, <1>4, <1>5, <1>6, <1>7, <1>8, <1>9, <1>10, <1>11 DEF Row7

LEMMA AlikeRow8 ==
  ASSUME NEW c, NEW d, Alike(c, d), Good(c), NEW k \in 0 .. 15, Fed(c, d, size_tab[9][1 + k])
  PROVE  Alike(Row8(c, k), Row8(d, k))
<1>1. size_tab[9] = <<1, 1, 2, 1, 1, 1, 1, 1, 0, 4, 0, 0, 2, 2, 2, 3>>
  BY TableIs DEF HighOpcodes
<1>2. /\ Alike(SET_INDEX_REG(INC_KPC(c, 1), c.yreg - 1, "y"),
               SET_INDEX_REG(INC_KPC(d, 1), d.yreg - 1, "y"))
      /\ Alike(SetAcc(INC_KPC(c, 1), c.xreg), SetAcc(INC_KPC(d, 1), d.xreg))
  BY AlikeTransfers
<1>3. Alike(PUSH8(INC_KPC(c, 1), c.dbank), PUSH8(INC_KPC(d, 1), d.dbank))
  BY AlikeStacks
<1>4. ASSUME k \in {0, 1, 3, 4, 5, 6, 7} PROVE Fed(c, d, 1)
  BY <1>1, <1>4
<1>5. ASSUME Fed(c, d, 1)
      PROVE  /\ Alike(BRA(c), BRA(d))
             /\ Alike(STA_INST(GET_DLOC_X_IND_ADDR(c), Linear),
                      STA_INST(GET_DLOC_X_IND_ADDR(d), Linear))
             /\ Alike(STA_INST(GET_DISP8_S_ADDR(c), InBank), STA_INST(GET_DISP8_S_ADDR(d), InBank))
             /\ Alike(STY_INST(GET_DLOC_ADDR(c), InBank), STY_INST(GET_DLOC_ADDR(d), InBank))
             /\ Alike(STA_INST(GET_DLOC_ADDR(c), InBank), STA_INST(GET_DLOC_ADDR(d), InBank))
             /\ Alike(STX_INST(GET_DLOC_ADDR(c), InBank), STX_INST(GET_DLOC_ADDR(d), InBank))
             /\ Alike(STA_INST(GET_DLOC_L_IND_ADDR(c), Linear),
                      STA_INST(GET_DLOC_L_IND_ADDR(d), Linear))
  BY <1>5, AlikeBranches, AlikeDirect, AlikeStores, FedArgs
<1>6. ASSUME k \in {2, 12, 13, 14} PROVE Fed(c, d, 2)
  BY <1>1, <1>6
<1>7. ASSUME Fed(c, d, 2)
      PROVE  /\ Alike(BRL(c), BRL(d))
             /\ Alike(STY_INST(GET_ABS_ADDR(c), Linear), STY_INST(GET_ABS_ADDR(d), Linear))
             /\ Alike(STA_INST(GET_ABS_ADDR(c), Linear), STA_INST(GET_ABS_ADDR(d), Linear))
             /\ Alike(STX_INST(GET_ABS_ADDR(c), Linear), STX_INST(GET_ABS_ADDR(d), Linear))
  BY <1>7, AlikeJumpsTo, AlikeAbsolute, AlikeStores, FedArgs
<1>8. ASSUME k \in {15} PROVE Fed(c, d, 3)
  BY <1>1, <1>8
<1>9. ASSUME Fed(c, d, 3)
      PROVE  Alike(STA_INST(GET_LONG_ADDR(c), Linear), STA_INST(GET_LONG_ADDR(d), Linear))
  BY <1>9, AlikeLong, AlikeStores, FedArgs
<1>10. ASSUME k \in {9} PROVE Fed(c, d, 4)
  BY <1>1, <1>10
<1>11. ASSUME Fed(c, d, 4)
      PROVE  Alike(BitImm(GET_IMM_MEM(c)), BitImm(GET_IMM_MEM(d)))
  BY <1>11, AlikeImmediate, AlikeOperand DEF Good
<1> QED BY <1>2, <1>3, <1>4, <1>5, <1>6, <1>7, <1>8, <1>9, <1>10, <1>11 DEF Row8

LEMMA AlikeRow9 ==
  ASSUME NEW c, NEW d, Alike(c, d), Good(c), NEW k \in 0 .. 15, Fed(c, d, size_tab[10][1 + k])
  PROVE  Alike(Row9(c, k), Row9(d, k))
<1>1. size_tab[10] = <<1, 1, 1, 1, 1, 1, 1, 1, 0, 2, 0, 0, 2, 2, 2, 3>>
  BY TableIs DEF HighOpcodes
<1>2. /\ Alike(SetAcc(INC_KPC(c, 1), c.yreg), SetAcc(INC_KPC(d, 1), d.yreg))
      /\ Alike(ToStack(c, c.xreg), ToStack(d, d.xreg))
      /\ Alike(SET_INDEX_REG(INC_KPC(c, 1), c.xreg, "y"), SET_INDEX_REG(INC_KPC(d, 1), d.xreg, "y"))
  BY AlikeTransfers
<1>3. ASSUME k \in {0, 1, 2, 3, 4, 5, 6, 7} PROVE Fed(c, d, 1)
  BY <1>1, <1>3
<1>4. ASSUME Fed(c, d, 1)
      PROVE  /\ Alike(BRANCH_DISP8(c, c.psr.c = 0), BRANCH_DISP8(d, d.psr.c = 0))
             /\ Alike(STA_INST(GET_DLOC_IND_Y_ADDR_FOR_WR(c), Linear),
                      STA_INST(GET_DLOC_IND_Y_ADDR_FOR_WR(d), Linear))
             /\ Alike(STA_INST(GET_DLOC_IND_ADDR(c), Linear),
                      STA_INST(GET_DLOC_IND_ADDR(d), Linear))
             /\ Alike(STA_INST(GET_DISP8_S_IND_Y_ADDR(c), Linear),
                      STA_INST(GET_DISP8_S_IND_Y_ADDR(d), Linear))
             /\ Alike(STA_INST(GET_DLOC_L_IND_Y_ADDR(c), Linear),
                      STA_INST(GET_DLOC_L_IND_Y_ADDR(d), Linear))
  BY <1>4, AlikeBranches, AlikeDirect, AlikeStores, FedArgs
<1>5. ASSUME Fed(c, d, 1)
      PROVE  /\ Alike(STY_INST(GET_DLOC_INDEX_WR(c, c.xreg), InBank),
                      STY_INST(GET_DLOC_INDEX_WR(d, d.xreg), InBank))
             /\ Alike(STA_INST(GET_DLOC_INDEX_WR(c, c.xreg), InBank),
                      STA_INST(GET_DLOC_INDEX_WR(d, d.xreg), InBank))
             /\ Alike(STX_INST(GET_DLOC_INDEX_WR(c, c.yreg), InBank),
                      STX_INST(GET_DLOC_INDEX_WR(d, d.yreg), InBank))
  BY <1>5, AlikeDirect, AlikeStores, FedArgs, AlikeRegs
<1>6. ASSUME k \in {9, 12, 13, 14} PROVE Fed(c, d, 2)
  BY <1>1, <1>6
<1>7. ASSUME Fed(c, d, 2)
      PROVE  /\ Alike(STA_INST(GET_ABS_INDEX_ADDR_FOR_WR(c, c.yreg), Linear),
                      STA_INST(GET_ABS_INDEX_ADDR_FOR_WR(d, d.yreg), Linear))
             /\ Alike(STA_INST(GET_ABS_INDEX_ADDR_FOR_WR(c, c.xreg), Linear),
                      STA_INST(GET_ABS_INDEX_ADDR_FOR_WR(d, d.xreg), Linear))
             /\ Alike(STZ_INST(GET_ABS_INDEX_ADDR_FOR_WR(c, c.xreg), Linear),
                      STZ_INST(GET_ABS_INDEX_ADDR_FOR_WR(d, d.xreg), Linear))
  BY <1>7, AlikeAbsolute, AlikeStores, FedArgs, AlikeRegs
<1>8. ASSUME Fed(c, d, 2)
      PROVE  Alike(STZ_INST(GET_ABS_ADDR(c), Linear), STZ_INST(GET_ABS_ADDR(d), Linear))
  BY <1>8, AlikeAbsolute, AlikeStores, FedArgs
<1>9. ASSUME k \in {15} PROVE Fed(c, d, 3)
  BY <1>1, <1>9
<1>10. ASSUME Fed(c, d, 3)
      PROVE  Alike(STA_INST(GET_LONG_X_ADDR_FOR_WR(c), Linear),
                   STA_INST(GET_LONG_X_ADDR_FOR_WR(d), Linear))
  BY <1>10, AlikeLong, AlikeStores, FedArgs
<1> QED BY <1>2, <1>3, <1>4, <1>5, <1>6, <1>7, <1>8, <1>9, <1>10 DEF Row9

LEMMA AlikeRowA ==
  ASSUME NEW c, NEW d, Alike(c, d), Good(c), NEW k \in 0 .. 15, Fed(c, d, size_tab[11][1 + k])
  PROVE  Alike(RowA(c, k), RowA(d, k))
<1>1. size_tab[11] = <<5, 1, 5, 1, 1, 1, 1, 1, 0, 4, 0, 0, 2, 2, 2, 3>>
  BY TableIs DEF HighOpcodes
<1>2. /\ Alike(SET_INDEX_REG(INC_KPC(c, 1), c.acc, "y"), SET_INDEX_REG(INC_KPC(d, 1), d.acc, "y"))
      /\ Alike(SET_INDEX_REG(INC_KPC(c, 1), c.acc, "x"), SET_INDEX_REG(INC_KPC(d, 1), d.acc, "x"))
  BY AlikeTransfers
<1>3. Alike(PLB(c), PLB(d))
  BY AlikeStacks
<1>4. ASSUME k \in {1, 3, 4, 5, 6, 7} PROVE Fed(c, d, 1)
  BY <1>1, <1>4
<1>5. ASSUME Fed(c, d, 1)
      PROVE  /\ Alike(LDA_INST(GET_DLOC_X_IND_RD(c)), LDA_INST(GET_DLOC_X_IND_RD(d)))
             /\ Alike(LDA_INST(GET_DISP8_S_RD(c)), LDA_INST(GET_DISP8_S_RD(d)))
             /\ Alike(C_LDY_DLOC(c), C_LDY_DLOC(d))
             /\ Alike(LDA_INST(GET_DLOC_RD(c)), LDA_INST(GET_DLOC_RD(d)))
             /\ Alike(C_LDX_DLOC(c), C_LDX_DLOC(d))
             /\ Alike(LDA_INST(GET_DLOC_L_IND_RD(c)), LDA_INST(GET_DLOC_L_IND_RD(d)))
  BY <1>5, AlikeByte, AlikeOperand, AlikeIndexed
<1>6. ASSUME k \in {12, 13, 14} PROVE Fed(c, d, 2)
  BY <1>1, <1>6
<1>7. ASSUME Fed(c, d, 2)
      PROVE  /\ Alike(C_LDY_ABS(c), C_LDY_ABS(d))
             /\ Alike(LDA_INST(GET_ABS_RD(c)), LDA_INST(GET_ABS_RD(d)))
             /\ Alike(C_LDX_ABS(c), C_LDX_ABS(d))
  BY <1>7, AlikeIndexed, AlikeWord, AlikeOperand
<1>8. ASSUME k \in {15} PROVE Fed(c, d, 3)
  BY <1>1, <1>8
<1>9. ASSUME Fed(c, d, 3)
      PROVE  Alike(LDA_INST(GET_LONG_RD(c)), LDA_INST(GET_LONG_RD(d)))
  BY <1>9, AlikeThree, AlikeOperand
<1>10. ASSUME k \in {9} PROVE Fed(c, d, 4)
  BY <1>1, <1>10
<1>11. ASSUME Fed(c, d, 4)
      PROVE  Alike(LDA_INST(GET_IMM_MEM(c)), LDA_INST(GET_IMM_MEM(d)))
  BY <1>11, AlikeImmediate, AlikeOperand DEF Good
<1>12. ASSUME k \in {0, 2} PROVE Fed(c, d, 5)
  BY <1>1, <1>12
<1>13. ASSUME Fed(c, d, 5)
      PROVE  /\ Alike(ArgToIndex(IndexImm(c), "y"), ArgToIndex(IndexImm(d), "y"))
             /\ Alike(ArgToIndex(IndexImm(c), "x"), ArgToIndex(IndexImm(d), "x"))
  BY <1>13, AlikeIndexed
<1> QED BY <1>2, <1>3, <1>4, <1>5, <1>6, <1>7, <1>8, <1>9, <1>10, <1>11, <1>12, <1>13 DEF RowA

LEMMA AlikeRowB ==
  ASSUME NEW c, NEW d, Alike(c, d), Good(c), NEW k \in 0 .. 15, Fed(c, d, size_tab[12][1 + k])
  PROVE  Alike(RowB(c, k), RowB(d, k))
<1>1. size_tab[12] = <<1, 1, 1, 1, 1, 1, 1, 1, 0, 2, 0, 0, 2, 2, 2, 3>>
  BY TableIs DEF HighOpcodes
<1>2. Alike([INC_KPC(c, 1) EXCEPT !.psr.v = 0], [INC_KPC(d, 1) EXCEPT !.psr.v = 0])
  BY AlikeImplied
<1>3. /\ Alike(SET_INDEX_REG(INC_KPC(c, 1), c.stack, "x"),
               SET_INDEX_REG(INC_KPC(d, 1), d.stack, "x"))
      /\ Alike(SET_INDEX_REG(INC_KPC(c, 1), c.yreg, "x"), SET_INDEX_REG(INC_KPC(d, 1), d.yreg, "x"))
  BY AlikeTransfers
<1>4. ASSUME k \in {0, 1, 2, 3, 4, 5, 6, 7} PROVE Fed(c, d, 1)
  BY <1>1, <1>4
<1>5. ASSUME Fed(c, d, 1)
      PROVE  /\ Alike(BRANCH_DISP8(c, c.psr.c = 1), BRANCH_DISP8(d, d.psr.c = 1))
             /\ Alike(LDA_INST(GET_DLOC_IND_Y_RD(c)), LDA_INST(GET_DLOC_IND_Y_RD(d)))
             /\ Alike(LDA_INST(GET_DLOC_IND_RD(c)), LDA_INST(GET_DLOC_IND_RD(d)))
             /\ Alike(LDA_INST(GET_DISP8_S_IND_Y_RD(c)), LDA_INST(GET_DISP8_S_IND_Y_RD(d)))
             /\ Alike(C_LDY_DLOC_X(c), C_LDY_DLOC_X(d))
             /\ Alike(LDA_INST(GET_DLOC_X_RD(c)), LDA_INST(GET_DLOC_X_RD(d)))
             /\ Alike(C_LDX_DLOC_Y(c), C_LDX_DLOC_Y(d))
             /\ Alike(LDA_INST(GET_DLOC_L_IND_Y_RD(c)), LDA_INST(GET_DLOC_L_IND_Y_RD(d)))
  BY <1>5, AlikeBranches, AlikeByte, AlikeOperand, AlikeIndexed
<1>6. ASSUME k \in {9, 12, 13, 14} PROVE Fed(c, d, 2)
  BY <1>1, <1>6
<1>7. ASSUME Fed(c, d, 2)
      PROVE  /\ Alike(LDA_INST(GET_ABS_Y_RD(c)), LDA_INST(GET_ABS_Y_RD(d)))
             /\ Alike(C_LDY_ABS_X(c), C_LDY_ABS_X(d))
             /\ Alike(LDA_INST(GET_ABS_X_RD(c)), LDA_INST(GET_ABS_X_RD(d)))
             /\ Alike(C_LDX_ABS_Y(c), C_LDX_ABS_Y(d))
  BY <1>7, AlikeWord, AlikeOperand, AlikeIndexed
<1>8. ASSUME k \in {15} PROVE Fed(c, d, 3)
  BY <1>1, <1>8
<1>9. ASSUME Fed(c, d, 3)
      PROVE  Alike(LDA_INST(GET_LONG_X_RD(c)), LDA_INST(GET_LONG_X_RD(d)))
  BY <1>9, AlikeThree, AlikeOperand
<1> QED BY <1>2, <1>3, <1>4, <1>5, <1>6, <1>7, <1>8, <1>9 DEF RowB

LEMMA AlikeRowC ==
  ASSUME NEW c, NEW d, Alike(c, d), Good(c), NEW k \in 0 .. 15, Fed(c, d, size_tab[13][1 + k])
  PROVE  Alike(RowC(c, k), RowC(d, k))
<1>1. size_tab[13] = <<5, 1, 1, 1, 1, 1, 1, 1, 0, 4, 0, 0, 2, 2, 2, 3>>
  BY TableIs DEF HighOpcodes
<1>2. /\ Alike(SET_INDEX_REG(INC_KPC(c, 1), c.yreg + 1, "y"),
               SET_INDEX_REG(INC_KPC(d, 1), d.yreg + 1, "y"))
      /\ Alike(SET_INDEX_REG(INC_KPC(c, 1), c.xreg - 1, "x"),
               SET_INDEX_REG(INC_KPC(d, 1), d.xreg - 1, "x"))
  BY AlikeTransfers
<1>3. Alike(WAI(c), WAI(d))
  BY AlikeModes
<1>4. ASSUME k \in {1, 2, 3, 4, 5, 6, 7} PROVE Fed(c, d, 1)
  BY <1>1, <1>4
<1>5. ASSUME Fed(c, d, 1)
      PROVE  /\ Alike(CMP_INST(GET_DLOC_X_IND_RD(c)), CMP_INST(GET_DLOC_X_IND_RD(d)))
             /\ Alike(REP(c), REP(d))
             /\ Alike(CMP_INST(GET_DISP8_S_RD(c)), CMP_INST(GET_DISP8_S_RD(d)))
             /\ Alike(C_CPY_DLOC(c), C_CPY_DLOC(d))
             /\ Alike(CMP_INST(GET_DLOC_RD(c)), CMP_INST(GET_DLOC_RD(d)))
             /\ Alike(DEC_INST(GET_DLOC_RD(c), InBank), DEC_INST(GET_DLOC_RD(d), InBank))
             /\ Alike(CMP_INST(GET_DLOC_L_IND_RD(c)), CMP_INST(GET_DLOC_L_IND_RD(d)))
  BY <1>5, AlikeByte, AlikeOperand, AlikeMasks, AlikeIndexed, AlikeModifies, FedArgs
<1>6. ASSUME k \in {12, 13, 14} PROVE Fed(c, d, 2)
  BY <1>1, <1>6
<1>7. ASSUME Fed(c, d, 2)
      PROVE  /\ Alike(C_CPY_ABS(c), C_CPY_ABS(d))
             /\ Alike(CMP_INST(GET_ABS_RD(c)), CMP_INST(GET_ABS_RD(d)))
             /\ Alike(DEC_INST(GET_ABS_RD(c), Linear), DEC_INST(GET_ABS_RD(d), Linear))
  BY <1>7, AlikeIndexed, AlikeWord, AlikeOperand, AlikeModifies
<1>8. ASSUME k \in {15} PROVE Fed(c, d, 3)
  BY <1>1, <1>8
<1>9. ASSUME Fed(c, d, 3)
      PROVE  Alike(CMP_INST(GET_LONG_RD(c)), CMP_INST(GET_LONG_RD(d)))
  BY <1>9, AlikeThree, AlikeOperand
<1>10. ASSUME k \in {9} PROVE Fed(c, d, 4)
  BY <1>1, <1>10
<1>11. ASSUME Fed(c, d, 4)
      PROVE  Alike(CMP_INST(GET_IMM_MEM(c)), CMP_INST(GET_IMM_MEM(d)))
  BY <1>11, AlikeImmediate, AlikeOperand DEF Good
<1>12. ASSUME k \in {0} PROVE Fed(c, d, 5)
  BY <1>1, <1>12
<1>13. ASSUME Fed(c, d, 5)
      PROVE  Alike(C_CPY_IMM(c), C_CPY_IMM(d))
  BY <1>13, AlikeIndexed
<1> QED BY <1>2, <1>3, <1>4, <1>5, <1>6, <1>7, <1>8, <1>9, <1>10, <1>11, <1>12, <1>13 DEF RowC

LEMMA AlikeRowD ==
  ASSUME NEW c, NEW d, Alike(c, d), Good(c), NEW k \in 0 .. 15, Fed(c, d, size_tab[14][1 + k])
  PROVE  Alike(RowD(c, k), RowD(d, k))
<1>1. size_tab[14] = <<1, 1, 1, 1, 1, 1, 1, 1, 0, 2, 0, 0, 2, 2, 2, 3>>
  BY TableIs DEF HighOpcodes
<1>2. Alike([INC_KPC(c, 1) EXCEPT !.psr.d = 0], [INC_KPC(d, 1) EXCEPT !.psr.d = 0])
  BY AlikeImplied
<1>3. Alike(PushReg(c, c.xreg, c.psr.x = 1), PushReg(d, d.xreg, d.psr.x = 1))
  BY AlikeStacks
<1>4. Alike(FINISH(c, "stp"), FINISH(d, "stp"))
  BY AlikeModes
<1>5. ASSUME k \in {0, 1, 2, 3, 4, 5, 6, 7} PROVE Fed(c, d, 1)
  BY <1>1, <1>5
<1>6. ASSUME Fed(c, d, 1)
      PROVE  /\ Alike(BRANCH_DISP8(c, c.zero # 0), BRANCH_DISP8(d, d.zero # 0))
             /\ Alike(CMP_INST(GET_DLOC_IND_Y_RD(c)), CMP_INST(GET_DLOC_IND_Y_RD(d)))
             /\ Alike(CMP_INST(GET_DLOC_IND_RD(c)), CMP_INST(GET_DLOC_IND_RD(d)))
             /\ Alike(CMP_INST(GET_DISP8_S_IND_Y_RD(c)), CMP_INST(GET_DISP8_S_IND_Y_RD(d)))
             /\ Alike(PEI(GET_DLOC_ADDR(c)), PEI(GET_DLOC_ADDR(d)))
             /\ Alike(CMP_INST(GET_DLOC_X_RD(c)), CMP_INST(GET_DLOC_X_RD(d)))
             /\ Alike(DEC_INST(GET_DLOC_X_RD(c), InBank), DEC_INST(GET_DLOC_X_RD(d), InBank))
             /\ Alike(CMP_INST(GET_DLOC_L_IND_Y_RD(c)), CMP_INST(GET_DLOC_L_IND_Y_RD(d)))
  BY <1>6, AlikeBranches, AlikeByte, AlikeOperand, AlikeIndexed, AlikeModifies
<1>7. ASSUME k \in {9, 12, 13, 14} PROVE Fed(c, d, 2)
  BY <1>1, <1>7
<1>8. ASSUME Fed(c, d, 2)
      PROVE  /\ Alike(CMP_INST(GET_ABS_Y_RD(c)), CMP_INST(GET_ABS_Y_RD(d)))
             /\ Alike([c EXCEPT !.kpc = GET_MEMORY24(c, GET_2BYTE_ARG(c), InBank)],
                      [d EXCEPT !.kpc = GET_MEMORY24(d, GET_2BYTE_ARG(d), InBank)])
             /\ Alike(CMP_INST(GET_ABS_X_RD(c)), CMP_INST(GET_ABS_X_RD(d)))
             /\ Alike(DEC_INST(GET_ABS_X_RD_WR(c), Linear), DEC_INST(GET_ABS_X_RD_WR(d), Linear))
  BY <1>8, AlikeWord, AlikeOperand, AlikeJumpsTo, AlikeModifies
<1>9. ASSUME k \in {15} PROVE Fed(c, d, 3)
  BY <1>1, <1>9
<1>10. ASSUME Fed(c, d, 3)
      PROVE  Alike(CMP_INST(GET_LONG_X_RD(c)), CMP_INST(GET_LONG_X_RD(d)))
  BY <1>10, AlikeThree, AlikeOperand
<1> QED BY <1>2, <1>3, <1>4, <1>5, <1>6, <1>7, <1>8, <1>9, <1>10 DEF RowD

LEMMA AlikeRowE ==
  ASSUME NEW c, NEW d, Alike(c, d), Good(c), NEW k \in 0 .. 15, Fed(c, d, size_tab[15][1 + k])
  PROVE  Alike(RowE(c, k), RowE(d, k))
<1>1. size_tab[15] = <<5, 1, 1, 1, 1, 1, 1, 1, 0, 4, 0, 0, 2, 2, 2, 3>>
  BY TableIs DEF HighOpcodes
<1>2. Alike(SET_INDEX_REG(INC_KPC(c, 1), c.xreg + 1, "x"),
            SET_INDEX_REG(INC_KPC(d, 1), d.xreg + 1, "x"))
  BY AlikeTransfers
<1>3. Alike(INC_KPC(c, 1), INC_KPC(d, 1))
  BY AlikeStep
<1>4. Alike(XBA(c), XBA(d))
  BY AlikeImplied
<1>5. ASSUME k \in {1, 2, 3, 4, 5, 6, 7} PROVE Fed(c, d, 1)
  BY <1>1, <1>5
<1>6. ASSUME Fed(c, d, 1)
      PROVE  /\ Alike(SBC_INST(GET_DLOC_X_IND_RD(c)), SBC_INST(GET_DLOC_X_IND_RD(d)))
             /\ Alike(SEP(c), SEP(d))
             /\ Alike(SBC_INST(GET_DISP8_S_RD(c)), SBC_INST(GET_DISP8_S_RD(d)))
             /\ Alike(C_CPX_DLOC(c), C_CPX_DLOC(d))
             /\ Alike(SBC_INST(GET_DLOC_RD(c)), SBC_INST(GET_DLOC_RD(d)))
             /\ Alike(INC_INST(GET_DLOC_RD(c), InBank), INC_INST(GET_DLOC_RD(d), InBank))
             /\ Alike(SBC_INST(GET_DLOC_L_IND_RD(c)), SBC_INST(GET_DLOC_L_IND_RD(d)))
  BY <1>6, AlikeByte, AlikeOperand, AlikeMasks, AlikeIndexed, AlikeModifies, FedArgs
<1>7. ASSUME k \in {12, 13, 14} PROVE Fed(c, d, 2)
  BY <1>1, <1>7
<1>8. ASSUME Fed(c, d, 2)
      PROVE  /\ Alike(C_CPX_ABS(c), C_CPX_ABS(d))
             /\ Alike(SBC_INST(GET_ABS_RD(c)), SBC_INST(GET_ABS_RD(d)))
             /\ Alike(INC_INST(GET_ABS_RD(c), Linear), INC_INST(GET_ABS_RD(d), Linear))
  BY <1>8, AlikeIndexed, AlikeWord, AlikeOperand, AlikeModifies
<1>9. ASSUME k \in {15} PROVE Fed(c, d, 3)
  BY <1>1, <1>9
<1>10. ASSUME Fed(c, d, 3)
      PROVE  Alike(SBC_INST(GET_LONG_RD(c)), SBC_INST(GET_LONG_RD(d)))
  BY <1>10, AlikeThree, AlikeOperand
<1>11. ASSUME k \in {9} PROVE Fed(c, d, 4)
  BY <1>1, <1>11
<1>12. ASSUME Fed(c, d, 4)
      PROVE  Alike(SBC_INST(GET_IMM_MEM(c)), SBC_INST(GET_IMM_MEM(d)))
  BY <1>12, AlikeImmediate, AlikeOperand DEF Good
<1>13. ASSUME k \in {0} PROVE Fed(c, d, 5)
  BY <1>1, <1>13
<1>14. ASSUME Fed(c, d, 5)
      PROVE  Alike(C_CPX_IMM(c), C_CPX_IMM(d))
  BY <1>14, AlikeIndexed
<1> QED BY <1>2, <1>3, <1>4, <1>5, <1>6, <1>7, <1>8, <1>9, <1>10, <1>11, <1>12, <1>13, <1>14 DEF RowE

LEMMA AlikeRowF ==
  ASSUME NEW c, NEW d, Alike(c, d), Good(c), NEW k \in 0 .. 15, Fed(c, d, size_tab[16][1 + k])
  PROVE  Alike(RowF(c, k), RowF(d, k))
<1>1. size_tab[16] = <<1, 1, 1, 1, 2, 1, 1, 1, 0, 2, 0, 0, 2, 2, 2, 3>>
  BY TableIs DEF HighOpcodes
<1>2. Alike([INC_KPC(c, 1) EXCEPT !.psr.d = 1], [INC_KPC(d, 1) EXCEPT !.psr.d = 1])
  BY AlikeImplied
<1>3. Alike(PullIndex(c, "x"), PullIndex(d, "x"))
  BY AlikeStacks
<1>4. Alike(XCE(c), XCE(d))
  BY AlikeModes
<1>5. ASSUME k \in {0, 1, 2, 3, 5, 6, 7} PROVE Fed(c, d, 1)
  BY <1>1, <1>5
<1>6. ASSUME Fed(c, d, 1)
      PROVE  /\ Alike(BRANCH_DISP8(c, c.zero = 0), BRANCH_DISP8(d, d.zero = 0))
             /\ Alike(SBC_INST(GET_DLOC_IND_Y_RD(c)), SBC_INST(GET_DLOC_IND_Y_RD(d)))
             /\ Alike(SBC_INST(GET_DLOC_IND_RD(c)), SBC_INST(GET_DLOC_IND_RD(d)))
             /\ Alike(SBC_INST(GET_DISP8_S_IND_Y_RD(c)), SBC_INST(GET_DISP8_S_IND_Y_RD(d)))
             /\ Alike(SBC_INST(GET_DLOC_X_RD(c)), SBC_INST(GET_DLOC_X_RD(d)))
             /\ Alike(INC_INST(GET_DLOC_X_RD(c), InBank), INC_INST(GET_DLOC_X_RD(d), InBank))
             /\ Alike(SBC_INST(GET_DLOC_L_IND_Y_RD(c)), SBC_INST(GET_DLOC_L_IND_Y_RD(d)))
  BY <1>6, AlikeBranches, AlikeByte, AlikeOperand, AlikeModifies
<1>7. ASSUME k \in {4, 9, 12, 13, 14} PROVE Fed(c, d, 2)
  BY <1>1, <1>7
<1>8. ASSUME Fed(c, d, 2)
      PROVE  /\ Alike(PUSH16_UNSAFE(INC_KPC(c, 3), GET_2BYTE_ARG(c)),
                      PUSH16_UNSAFE(INC_KPC(d, 3), GET_2BYTE_ARG(d)))
             /\ Alike(SBC_INST(GET_ABS_Y_RD(c)), SBC_INST(GET_ABS_Y_RD(d)))
             /\ Alike(JSR_ABS_X(c), JSR_ABS_X(d))
             /\ Alike(SBC_INST(GET_ABS_X_RD(c)), SBC_INST(GET_ABS_X_RD(d)))
             /\ Alike(INC_INST(GET_ABS_X_RD_WR(c), Linear), INC_INST(GET_ABS_X_RD_WR(d), Linear))
  BY <1>8, AlikeJumpsTo, AlikeWord, AlikeOperand, AlikeModifies
<1>9. ASSUME k \in {15} PROVE Fed(c, d, 3)
  BY <1>1, <1>9
<1>10. ASSUME Fed(c, d, 3)
      PROVE  Alike(SBC_INST(GET_LONG_X_RD(c)), SBC_INST(GET_LONG_X_RD(d)))
  BY <1>10, AlikeThree, AlikeOperand
<1> QED BY <1>2, <1>3, <1>4, <1>5, <1>6, <1>7, <1>8, <1>9, <1>10 DEF RowF

LEMMA AlikeInstruction ==
  ASSUME NEW c, NEW d, Alike(c, d), Good(c), NEW opcode \in Byte,
         Fed(c, d, size_tab[1 + (opcode \div 16)][1 + (opcode % 16)])
  PROVE  Alike(Instruction(c, opcode), Instruction(d, opcode))
<1> DEFINE k == opcode % 16
           row == opcode \div 16
<1>1. k \in 0 .. 15 /\ row \in 0 .. 15
  BY ByteIs, SMT
<1>2. \A x : Instruction(x, opcode) =
        CASE row = 0 -> Row0(x, k) [] row = 1 -> Row1(x, k) [] row = 2 -> Row2(x, k)
          [] row = 3 -> Row3(x, k) [] row = 4 -> Row4(x, k) [] row = 5 -> Row5(x, k)
          [] row = 6 -> Row6(x, k) [] row = 7 -> Row7(x, k) [] row = 8 -> Row8(x, k)
          [] row = 9 -> Row9(x, k) [] row = 10 -> RowA(x, k) [] row = 11 -> RowB(x, k)
          [] row = 12 -> RowC(x, k) [] row = 13 -> RowD(x, k) [] row = 14 -> RowE(x, k)
          [] row = 15 -> RowF(x, k)
  BY DEF Instruction
<1>3. Fed(c, d, size_tab[1 + row][1 + k])
  OBVIOUS
<1> HIDE DEF k, row
<1>4. /\ row = 0 => Alike(Row0(c, k), Row0(d, k))
      /\ row = 1 => Alike(Row1(c, k), Row1(d, k))
      /\ row = 2 => Alike(Row2(c, k), Row2(d, k))
      /\ row = 3 => Alike(Row3(c, k), Row3(d, k))
  BY <1>1, <1>3, AlikeRow0, AlikeRow1, AlikeRow2, AlikeRow3
<1>5. /\ row = 4 => Alike(Row4(c, k), Row4(d, k))
      /\ row = 5 => Alike(Row5(c, k), Row5(d, k))
      /\ row = 6 => Alike(Row6(c, k), Row6(d, k))
      /\ row = 7 => Alike(Row7(c, k), Row7(d, k))
  BY <1>1, <1>3, AlikeRow4, AlikeRow5, AlikeRow6, AlikeRow7
<1>6. /\ row = 8 => Alike(Row8(c, k), Row8(d, k))
      /\ row = 9 => Alike(Row9(c, k), Row9(d, k))
      /\ row = 10 => Alike(RowA(c, k), RowA(d, k))
      /\ row = 11 => Alike(RowB(c, k), RowB(d, k))
  BY <1>1, <1>3, AlikeRow8, AlikeRow9, AlikeRowA, AlikeRowB
<1>7. /\ row = 12 => Alike(RowC(c, k), RowC(d, k))
      /\ row = 13 => Alike(RowD(c, k), RowD(d, k))
      /\ row = 14 => Alike(RowE(c, k), RowE(d, k))
      /\ row = 15 => Alike(RowF(c, k), RowF(d, k))
  BY <1>1, <1>3, AlikeRowC, AlikeRowD, AlikeRowE, AlikeRowF
<1> QED BY <1>1, <1>2, <1>4, <1>5, <1>6, <1>7

\* The bytes of a long are those of the word and of the byte at its address.
LEMMA LongBytes ==
  ASSUME NEW c, Good(c), NEW a \in Int
  PROVE  LET w == GET_MEMORY24(c, a, InBank)
         IN  /\ w % 256 = GET_MEMORY8(c, a) /\ w % 65536 = GET_MEMORY16(c, a, InBank)
             /\ GET_MEMORY8(c, a) % 256 = GET_MEMORY8(c, a)
             /\ GET_MEMORY16(c, a, InBank) % 256 = GET_MEMORY8(c, a)
             /\ GET_MEMORY16(c, a, InBank) % 65536 = GET_MEMORY16(c, a, InBank)
<1> DEFINE b == NextByte(a, InBank)
           low == GET_MEMORY8(c, a)
           mid == GET_MEMORY8(c, b)
           high == GET_MEMORY8(c, NextByte(b, InBank))
<1>1. low \in Byte /\ mid \in Byte /\ high \in Byte
  BY ReadByte, NextIs DEF Good
<1>2. /\ GET_MEMORY16(c, a, InBank) = low + 256 * mid
      /\ GET_MEMORY24(c, a, InBank) = low + 256 * mid + 65536 * high
  BY DEF GET_MEMORY16, GET_MEMORY24
<1> HIDE DEF low, mid, high
<1>3. /\ (low + 256 * mid + 65536 * high) % 256 = low /\ low % 256 = low
      /\ (low + 256 * mid) % 256 = low
  BY <1>1, ByteIs, SMT
<1>4. /\ (low + 256 * mid + 65536 * high) % 65536 = low + 256 * mid
      /\ (low + 256 * mid) % 65536 = low + 256 * mid
  BY <1>1, ByteIs, SMT
<1> QED BY <1>2, <1>3, <1>4 DEF low

\* Of what is read byte by byte an instruction takes no more than the table
\* says, and that is the same behind its opcode.
LEMMA FedOperands ==
  ASSUME NEW c, Good(c), NEW opcode \in Byte
  PROVE  LET v == SetOpnd(c, get_remaining_operands(c, opcode))
             w == SetOpnd(c, GET_MEMORY24(c, INC_KPC(c, 1).kpc, InBank))
         IN  Alike(v, w) /\ Good(v) /\ Fed(v, w, size_tab[1 + (opcode \div 16)][1 + (opcode % 16)])
<1> DEFINE a == INC_KPC(c, 1).kpc
           size == size_tab[1 + (opcode \div 16)][1 + (opcode % 16)]
           narrow == size = 1 \/ (size = 4 /\ c.psr.m = 1) \/ (size = 5 /\ c.psr.x = 1)
           r == CASE size = 0 -> 0
                  [] narrow -> GET_MEMORY8(c, a)
                  [] size = 3 -> GET_MEMORY24(c, a, InBank)
                  [] OTHER -> GET_MEMORY16(c, a, InBank)
           l == GET_MEMORY24(c, a, InBank)
           v == SetOpnd(c, r)
           w == SetOpnd(c, l)
<1>1. Sized(c) /\ DOMAIN c = Fields /\ a \in Int
  BY SizedNumbers, Steps, QuietSized DEF Good, Sized
<1>2. get_remaining_operands(c, opcode) = r
  BY DEF get_remaining_operands
<1>3. /\ l % 256 = GET_MEMORY8(c, a) /\ l % 65536 = GET_MEMORY16(c, a, InBank)
      /\ GET_MEMORY8(c, a) % 256 = GET_MEMORY8(c, a)
      /\ GET_MEMORY16(c, a, InBank) % 256 = GET_MEMORY8(c, a)
      /\ GET_MEMORY16(c, a, InBank) % 65536 = GET_MEMORY16(c, a, InBank)
  BY <1>1, LongBytes
<1>4. /\ GET_MEMORY8(c, a) \in Byte /\ GET_MEMORY16(c, a, InBank) \in Word
      /\ GET_MEMORY24(c, a, InBank) \in Address
  BY <1>1, ReadByte, ReadWord, ReadLong
<1> HIDE DEF a, size
<1>5. r \in Address
  BY <1>4, ByteIs, WordIs, AddressIs
<1>6. Good(v)
  BY <1>1, <1>5, Updates, QuietGood
<1>7. Alike(v, w)
  BY <1>1 DEF Alike, SetOpnd, Fields
<1>8. v.opnd = r /\ w.opnd = l /\ v.psr = c.psr
  BY <1>1 DEF SetOpnd, Fields
<1>9. Fed(v, w, size)
  <2>1. CASE size = 0
    BY <2>1 DEF Fed
  <2>2. CASE narrow
    <3>1. r = GET_MEMORY8(c, a)
      BY <2>2
    <3> HIDE DEF r, l
    <3> QED BY <1>3, <1>8, <2>2, <3>1 DEF Fed, GET_1BYTE_ARG
  <2>3. CASE size = 3
    <3>1. r = l
      BY <2>3
    <3> HIDE DEF r, l
    <3> QED BY <1>8, <3>1 DEF Fed, GET_1BYTE_ARG, GET_2BYTE_ARG, GET_3BYTE_ARG
  <2>4. CASE size # 0 /\ ~narrow /\ size # 3
    <3>1. r = GET_MEMORY16(c, a, InBank)
      BY <2>4
    <3> HIDE DEF r, l
    <3> QED BY <1>3, <1>8, <2>4, <3>1 DEF Fed, GET_1BYTE_ARG, GET_2BYTE_ARG
  <2> QED BY <2>1, <2>2, <2>3, <2>4
<1> HIDE DEF r, l, v, w
<1> QED BY <1>2, <1>6, <1>7, <1>9 DEF a, l, v, w, size

LEMMA SaneFits ==
  ASSUME Sane
  PROVE  OperandsFit
<1> SUFFICES ASSUME inside
             PROVE  LET c == Locals(1)
                    IN  Does(c, get_remaining_operands(c, Opcode(c)))
                          = Does(c, GET_MEMORY24(c, INC_KPC(c, 1).kpc, InBank))
  BY DEF OperandsFit
<1> DEFINE c == Locals(1)
           op == Opcode(c)
           r == get_remaining_operands(c, op)
           l == GET_MEMORY24(c, INC_KPC(c, 1).kpc, InBank)
<1>1. Good(c)
  BY LocalsAre
<1> HIDE DEF c
<1>2. op \in Byte
  BY <1>1, ReadByte, SizedNumbers DEF Good, Opcode
<1>3. Alike(SetOpnd(c, r), SetOpnd(c, l)) /\ Good(SetOpnd(c, r))
      /\ Fed(SetOpnd(c, r), SetOpnd(c, l), size_tab[1 + (op \div 16)][1 + (op % 16)])
  BY <1>1, <1>2, FedOperands
<1> HIDE DEF op, r, l
<1>4. Alike(Instruction(SetOpnd(c, r), op), Instruction(SetOpnd(c, l), op))
  BY <1>2, <1>3, AlikeInstruction
<1>5. ASSUME NEW x, NEW y, Alike(x, y)
      PROVE  [x EXCEPT !.opnd = 0, !.arg = 0, !.addr_latch = 0]
               = [y EXCEPT !.opnd = 0, !.arg = 0, !.addr_latch = 0]
  BY <1>5 DEF Alike, Fields
<1>6. Does(c, r) = Does(c, l)
  BY <1>4, <1>5 DEF Does, SetOpnd, op
<1> QED BY <1>6 DEF c, op, r, l

\* The engine fetches the operands of an instruction in two ways, byte by byte
\* as size_tab says near the end of a page and four bytes at once elsewhere;
\* of every instruction, in every mode, at every address, the two do the same.
THEOREM MachineFitsOperands == MachineSpec => []OperandsFit
<1>1. Sane => OperandsFit
  BY SaneFits
<1> QED BY <1>1, MachineIsSane, PTL
=============================================================================
