------------------------------- MODULE MapProof -----------------------------
(***************************************************************************)
(* The page tables follow the switches, after any sequence of accesses,    *)
(* breakpoints and resets, with all the switches in play at once; the runs *)
(* take those of the screen and those of the cards apart.                  *)
(*                                                                         *)
(* RdWanted and WrWanted say in closed form what the switches ask of each  *)
(* page.  Every fixup_ routine makes the pages of its scope right and      *)
(* leaves the others as they are or right (relation Fixes, which composes).*)
(* What is left is the question the code answers without saying it: that a *)
(* page outside the scopes of the switches that changed did not depend on  *)
(* them (RdSame and WrSame).                                               *)
(***************************************************************************)
EXTENDS MCMachine, TLAPS

(***************************************************************************)
(* What the switches ask of each page, breakpoints apart.                  *)
(***************************************************************************)
\* The bank that bank 0 shows in reads and in writes.
AuxRd(m, a) ==
  IF (a = "txt1" /\ "st80" \in m.stat) \/ (a = "hgr1" /\ "st80" \in m.stat /\ "hires" \in m.stat)
  THEN "page2" \in m.stat ELSE RAMRD(m)
AuxWr(m, a) ==
  IF (a = "txt1" /\ "st80" \in m.stat) \/ (a = "hgr1" /\ "st80" \in m.stat /\ "hires" \in m.stat)
  THEN "page2" \in m.stat ELSE RAMWRT(m)

\* How a write to an area of main or auxiliary memory is shadowed.
Shadows(m, aux, a) ==
  CASE a = "txt1" -> MarksIf(Shadowed(m, "txt1"), IF aux THEN {"shadow2"} ELSE {"shadow"})
    [] a = "txt2" -> MarksIf(Shadowed(m, "txt2") /\ Page2Shadow, IF aux THEN {"shadow2"} ELSE {"shadow"})
    [] a = "hgr1" -> IF aux THEN MarksIf(AuxHires(m, "hires1"), {"shadow2"})
                     ELSE MarksIf(Shadowed(m, "hires1"), {"shadow"})
    [] a = "hgr2" -> IF aux THEN MarksIf(AuxHires(m, "hires2"), {"shadow2"})
                     ELSE MarksIf(Shadowed(m, "hires2"), {"shadow"})
    [] a = "shr" -> MarksIf(aux /\ Shadowed(m, "shr"), {"shadow2"})
    [] OTHER -> {}

Screens == {"txt1", "txt2"} \cup SuperHires

\* The bank in which zero page and language card of a bank are.
ZpBank(m, b) == IF b = "00" THEN BankOf(ALTZP(m)) ELSE b

HighArea(m, b, a) ==
  IF a = "e0" THEN "e0" ELSE IF b \in {"00", "01"} /\ ~Iolc(m) THEN "cx" ELSE CardArea(m)

RdWanted(m, p) ==
  LET b == p[1]
      a == p[2]
  IN IF b = "odd" THEN To(b, a, {})
     ELSE IF a = "zp" THEN To(ZpBank(m, b), a, {})
     ELSE IF a \in Screens \cup Plain THEN To(IF b = "00" THEN BankOf(AuxRd(m, a)) ELSE b, a, {})
     ELSE IF a \in Cards
          THEN IF b \notin IoBanks(m) THEN To(b, "d0", {})
               ELSE IF p = <<"00", SmartPort>> /\ Iolc(m) THEN IO
               ELSE SlotRom(m, a)
     ELSE IF b \in {"00", "01"} /\ Iolc(m) /\ RDROM(m) THEN To("rom", a, {})
     ELSE To(ZpBank(m, b), HighArea(m, b, a), {})

WrWanted(m, p) ==
  LET b == p[1]
      a == p[2]
  IN IF a = "zp" THEN To(ZpBank(m, b), a, {})
     ELSE IF a \in Screens \cup Plain
          THEN IF b = "00" THEN To(BankOf(AuxWr(m, a)), a, Shadows(m, AuxWr(m, a), a))
               ELSE To(b, a, Shadows(m, TRUE, a))
     ELSE IF a \in Cards THEN IF b \in IoBanks(m) THEN IO ELSE To(b, "d0", {})
     ELSE To(ZpBank(m, b), HighArea(m, b, a),
             IF b \in {"00", "01"} /\ Iolc(m) THEN Protect(m) ELSE {})

(***************************************************************************)
(* Tables in the middle of a fix-up, where a page that is right may or may *)
(* not be armed for its breakpoint, and after the last one.                *)
(***************************************************************************)
ArmedRd(m, p, t, u) == t = u \/ (BrokenRd(m, p) /\ t = Arm(u))
ArmedWr(m, p, t, u) == t = u \/ (Broken(m, p) /\ t = Arm(u))

RdRight(m, p) == ArmedRd(m, p, m.rd[p], RdWanted(m, p))
WrRight(m, p) == ArmedWr(m, p, m.wr[p], WrWanted(m, p))
RdDone(m, p) == m.rd[p] = IF BrokenRd(m, p) THEN Arm(RdWanted(m, p)) ELSE RdWanted(m, p)
WrDone(m, p) == m.wr[p] = IF Broken(m, p) THEN Arm(WrWanted(m, p)) ELSE WrWanted(m, p)

SameSwitches(m, n) ==
  /\ n.statereg = m.statereg /\ n.stat = m.stat /\ n.shadow = m.shadow
  /\ n.wrdefram = m.wrdefram /\ n.int_crom = m.int_crom /\ n.all_banks = m.all_banks
  /\ n.breakpts = m.breakpts

\* From m to n the pages R are made right for reads, and W for writes; others
\* are made right or stay as they are.
Fixes(m, n, R, W) ==
  /\ n \in Map /\ SameSwitches(m, n)
  /\ \A p \in Page : RdRight(n, p) \/ (p \notin R /\ ArmedRd(m, p, n.rd[p], m.rd[p]))
  /\ \A p \in Page : p[1] # "odd" =>
       WrRight(n, p) \/ (p \notin W /\ ArmedWr(m, p, n.wr[p], m.wr[p]))

\* A fix-up that does not look for breakpoints.
Puts(m, n, R, W) ==
  /\ n = [m EXCEPT !.rd = n.rd, !.wr = n.wr]
  /\ n.rd = [p \in Page |-> IF p \in R THEN RdWanted(m, p) ELSE m.rd[p]]
  /\ n.wr = [p \in Page |-> IF p \in W THEN WrWanted(m, p) ELSE m.wr[p]]

LEMMA Pairs ==
  /\ \A p \in Page : p = <<p[1], p[2]>> /\ p[2] \in Area
                     /\ p[1] \in {"00", "01", "E0", "E1", "odd"}
  /\ \A x, y, u, v : <<x, y>> = <<u, v>> <=> x = u /\ y = v
BY DEF Page, Area, Cards, SuperHires, Plain

LEMMA SlotNames ==
  /\ Slots \subseteq {"c1", "c2", "c3", "c4", "c5", "c6", "c7"}
  /\ SmartPort = "c7" /\ SmartPort \in Slots
  /\ Page2Shadow \in BOOLEAN
BY MemMapAssumption

LEMMA SameWanted ==
  ASSUME NEW m, NEW n, SameSwitches(m, n), NEW p
  PROVE  /\ RdWanted(n, p) = RdWanted(m, p) /\ WrWanted(n, p) = WrWanted(m, p)
         /\ BrokenRd(n, p) = BrokenRd(m, p) /\ Broken(n, p) = Broken(m, p)
<1>1. /\ ALTZP(n) = ALTZP(m) /\ RAMRD(n) = RAMRD(m) /\ RAMWRT(n) = RAMWRT(m) /\ RDROM(n) = RDROM(m)
      /\ LCBANK2(n) = LCBANK2(m) /\ INTCX(n) = INTCX(m) /\ Iolc(n) = Iolc(m)
      /\ IoBanks(n) = IoBanks(m) /\ CardArea(n) = CardArea(m) /\ Protect(n) = Protect(m)
  BY DEF SameSwitches, ALTZP, RAMRD, RAMWRT, RDROM, LCBANK2, INTCX, Iolc, IoBanks, CardArea, Protect
<1>2. \A a : AuxRd(n, a) = AuxRd(m, a) /\ AuxWr(n, a) = AuxWr(m, a) /\ SlotRom(n, a) = SlotRom(m, a)
  BY <1>1 DEF SameSwitches, AuxRd, AuxWr, SlotRom
<1>3. \A b : Shadowed(n, b) = Shadowed(m, b) /\ AuxHires(n, b) = AuxHires(m, b)
  BY DEF SameSwitches, Shadowed, AuxHires
<1>4. \A aux, a : Shadows(n, aux, a) = Shadows(m, aux, a)
  BY <1>3 DEF Shadows
<1>5. \A a, b : ZpBank(n, b) = ZpBank(m, b) /\ HighArea(n, b, a) = HighArea(m, b, a)
  BY <1>1 DEF ZpBank, HighArea
<1> QED BY <1>1, <1>2, <1>4, <1>5 DEF RdWanted, WrWanted, BrokenRd, Broken, SameSwitches

LEMMA ToType ==
  ASSUME NEW b \in {"00", "01", "E0", "E1", "odd", "rom", "cards", "io"},
         NEW a \in Area \cup {"cx"}, NEW f \in SUBSET {"io", "io2", "shadow", "shadow2", "break"}
  PROVE  To(b, a, f) \in Target
BY DEF To, Target

LEMMA FlagTypes ==
  ASSUME NEW m, NEW aux \in BOOLEAN, NEW a
  PROVE  /\ Shadows(m, aux, a) \in SUBSET {"shadow", "shadow2"}
         /\ Protect(m) \in SUBSET {"io", "io2"}
         /\ BankOf(aux) \in {"00", "01"}
BY DEF Shadows, Protect, BankOf, MarksIf

LEMMA WantedTypes ==
  ASSUME NEW m, NEW p \in Page
  PROVE  RdWanted(m, p) \in Target /\ WrWanted(m, p) \in Target
<1> DEFINE b == p[1]
           a == p[2]
           FlagSets == SUBSET {"io", "io2", "shadow", "shadow2", "break"}
           Banks == {"00", "01", "E0", "E1", "odd", "rom", "cards", "io"}
<1>1. a \in Area /\ b \in {"00", "01", "E0", "E1", "odd"}
  BY Pairs
<1>2. ZpBank(m, b) \in Banks /\ HighArea(m, b, a) \in Area \cup {"cx"}
  BY <1>1 DEF ZpBank, HighArea, CardArea, BankOf, Area
<1>3. IO \in Target /\ (a \in Area => SlotRom(m, a) \in Target)
  BY <1>1, ToType DEF IO, SlotRom, Area, Cards
<1>4. BankOf(AuxRd(m, a)) \in Banks /\ BankOf(AuxWr(m, a)) \in Banks
  BY DEF BankOf
<1>5. /\ {} \in FlagSets /\ Protect(m) \in FlagSets
      /\ Shadows(m, TRUE, a) \in FlagSets /\ Shadows(m, AuxWr(m, a), a) \in FlagSets
  BY DEF Shadows, Protect, MarksIf
<1>6. "d0" \in Area
  BY DEF Area
<1> HIDE DEF a, b
<1>7. RdWanted(m, p) \in Target
  BY <1>1, <1>2, <1>3, <1>4, <1>5, <1>6, ToType DEF RdWanted, a, b
<1>8. WrWanted(m, p) \in Target
  BY <1>1, <1>2, <1>3, <1>4, <1>5, <1>6, ToType DEF WrWanted, a, b
<1> QED BY <1>7, <1>8

LEMMA PutsFixes ==
  ASSUME NEW m \in Map, NEW n, NEW R, NEW W, Puts(m, n, R, W)
  PROVE  Fixes(m, n, R, W)
<1>1. n.rd \in [Page -> Target] /\ n.wr \in [Page -> Target]
  BY WantedTypes DEF Puts, Map
<1>2. n \in Map /\ SameSwitches(m, n)
  BY <1>1 DEF Puts, Map, SameSwitches
<1>3. ASSUME NEW p \in Page
      PROVE  RdRight(n, p) \/ (p \notin R /\ ArmedRd(m, p, n.rd[p], m.rd[p]))
  <2>1. RdWanted(n, p) = RdWanted(m, p)
    BY <1>2, SameWanted
  <2> QED BY <2>1 DEF Puts, RdRight, ArmedRd
<1>4. ASSUME NEW p \in Page
      PROVE  WrRight(n, p) \/ (p \notin W /\ ArmedWr(m, p, n.wr[p], m.wr[p]))
  <2>1. WrWanted(n, p) = WrWanted(m, p)
    BY <1>2, SameWanted
  <2> QED BY <2>1 DEF Puts, WrRight, ArmedWr
<1> QED BY <1>2, <1>3, <1>4 DEF Fixes

LEMMA ArmTwice ==
  \A t \in Target : Arm(t) \in Target /\ Arm(Arm(t)) = Arm(t)
BY DEF Arm, Target

LEMMA FixesChain ==
  ASSUME NEW m \in Map, NEW n, NEW o, NEW R1, NEW W1, NEW R2, NEW W2,
         Fixes(m, n, R1, W1), Fixes(n, o, R2, W2)
  PROVE  Fixes(m, o, R1 \cup R2, W1 \cup W2)
<1>1. o \in Map /\ n \in Map /\ SameSwitches(m, o) /\ SameSwitches(m, n) /\ SameSwitches(n, o)
  BY DEF Fixes, SameSwitches
<1>2. ASSUME NEW p \in Page
      PROVE  RdRight(o, p) \/ (p \notin R1 \cup R2 /\ ArmedRd(m, p, o.rd[p], m.rd[p]))
  <2>1. /\ RdWanted(o, p) = RdWanted(n, p)
        /\ BrokenRd(o, p) = BrokenRd(n, p) /\ BrokenRd(m, p) = BrokenRd(n, p)
    BY <1>1, SameWanted
  <2>2. RdWanted(n, p) \in Target /\ m.rd[p] \in Target
    BY WantedTypes DEF Map
  <2>3. RdRight(n, p) \/ (p \notin R1 /\ ArmedRd(m, p, n.rd[p], m.rd[p]))
    BY DEF Fixes
  <2>4. RdRight(o, p) \/ (p \notin R2 /\ ArmedRd(n, p, o.rd[p], n.rd[p]))
    BY DEF Fixes
  <2> QED BY <2>1, <2>2, <2>3, <2>4, ArmTwice DEF RdRight, ArmedRd
<1>3. ASSUME NEW p \in Page, p[1] # "odd"
      PROVE  WrRight(o, p) \/ (p \notin W1 \cup W2 /\ ArmedWr(m, p, o.wr[p], m.wr[p]))
  <2>1. /\ WrWanted(o, p) = WrWanted(n, p)
        /\ Broken(o, p) = Broken(n, p) /\ Broken(m, p) = Broken(n, p)
    BY <1>1, SameWanted
  <2>2. WrWanted(n, p) \in Target /\ m.wr[p] \in Target
    BY WantedTypes DEF Map
  <2>3. WrRight(n, p) \/ (p \notin W1 /\ ArmedWr(m, p, n.wr[p], m.wr[p]))
    BY <1>3 DEF Fixes
  <2>4. WrRight(o, p) \/ (p \notin W2 /\ ArmedWr(n, p, o.wr[p], n.wr[p]))
    BY <1>3 DEF Fixes
  <2> QED BY <2>1, <2>2, <2>3, <2>4, ArmTwice DEF WrRight, ArmedWr
<1> QED BY <1>1, <1>2, <1>3 DEF Fixes

LEMMA FixesNothing ==
  ASSUME NEW m \in Map
  PROVE  Fixes(m, m, {}, {})
BY DEF Fixes, SameSwitches, ArmedRd, ArmedWr

LEMMA BrksFix ==
  ASSUME NEW m \in Map
  PROVE  Fixes(m, fixup_brks(m), {}, {})
<1> DEFINE n == fixup_brks(m)
           rd == [p \in DOMAIN m.rd |-> IF BrokenRd(m, p) THEN Arm(m.rd[p]) ELSE m.rd[p]]
           wr == [p \in DOMAIN m.wr |-> IF Broken(m, p) THEN Arm(m.wr[p]) ELSE m.wr[p]]
<1>1. rd \in [Page -> Target] /\ wr \in [Page -> Target]
  BY ArmTwice DEF Map
<1>2. n = [m EXCEPT !.rd = rd, !.wr = wr]
  BY DEF fixup_brks
<1>3. \A p \in Page : ArmedRd(m, p, rd[p], m.rd[p]) /\ ArmedWr(m, p, wr[p], m.wr[p])
  BY DEF ArmedRd, ArmedWr, Map
<1> HIDE DEF rd, wr, n
<1>4. n \in Map /\ SameSwitches(m, n) /\ n.rd = rd /\ n.wr = wr
  BY <1>1, <1>2 DEF Map, SameSwitches
<1>5. Fixes(m, n, {}, {})
  BY <1>3, <1>4 DEF Fixes
<1> QED BY <1>5 DEF n

(***************************************************************************)
(* The fix-ups, one after the other.                                       *)
(***************************************************************************)
Of(banks, areas) == {p \in Page : p[1] \in banks /\ p[2] \in areas}

\* n is m with the tables rd and wr.
Tables(m, n, rd, wr) ==
  /\ n = [m EXCEPT !.rd = rd, !.wr = wr]
  /\ rd \in [Page -> Target] /\ wr \in [Page -> Target]

\* In them the pages R and W were replaced by what is wanted.
Wants(m, rd, wr, R, W) ==
  /\ \A p \in Page : rd[p] = IF p \in R THEN RdWanted(m, p) ELSE m.rd[p]
  /\ \A p \in Page : wr[p] = IF p \in W THEN WrWanted(m, p) ELSE m.wr[p]

LEMMA PutsFrom ==
  ASSUME NEW m \in Map, NEW n, NEW R, NEW W, NEW rd, NEW wr,
         Tables(m, n, rd, wr), Wants(m, rd, wr, R, W)
  PROVE  Puts(m, n, R, W)
<1>1. n.rd = rd /\ n.wr = wr /\ n = [m EXCEPT !.rd = rd, !.wr = wr]
  BY DEF Map, Tables
<1>2. rd = [p \in Page |-> rd[p]] /\ wr = [p \in Page |-> wr[p]]
  BY DEF Tables
<1> QED BY <1>1, <1>2 DEF Puts, Wants

LEMMA OnePage ==
  ASSUME NEW t \in [Page -> Target], NEW p \in Page, NEW v
  PROVE  \A q \in Page : [t EXCEPT ![p] = v][q] = IF q = p THEN v ELSE t[q]
OBVIOUS

LEMMA Bank0 == {"00"} \X Area \subseteq Page
BY DEF Page

LEMMA PutHgr1 ==
  ASSUME NEW m \in Map
  PROVE  Puts(m, fixup_bank0_2000_4000(m), Of({"00"}, {"hgr1"}), Of({"00"}, {"hgr1"}))
<1> DEFINE p0 == <<"00", "hgr1">>
           rd == [m.rd EXCEPT ![p0] = RdWanted(m, p0)]
           wr == [m.wr EXCEPT ![p0] = WrWanted(m, p0)]
<1>1. p0 \in Page /\ \A p \in Page : p \in Of({"00"}, {"hgr1"}) <=> p = p0
  BY Pairs, Bank0 DEF Of, Area, SuperHires
<1>2. /\ RdWanted(m, p0) = To(BankOf(AuxRd(m, "hgr1")), "hgr1", {})
      /\ WrWanted(m, p0) = To(BankOf(AuxWr(m, "hgr1")), "hgr1", Shadows(m, AuxWr(m, "hgr1"), "hgr1"))
  BY DEF RdWanted, WrWanted, Screens, SuperHires
<1>3. fixup_bank0_2000_4000(m) = [m EXCEPT !.rd = rd, !.wr = wr]
  BY <1>2 DEF fixup_bank0_2000_4000, AuxRd, AuxWr, Shadows, Map
<1>4. Tables(m, fixup_bank0_2000_4000(m), rd, wr)
  BY <1>1, <1>3, WantedTypes DEF Map, Tables
<1>5. Wants(m, rd, wr, Of({"00"}, {"hgr1"}), Of({"00"}, {"hgr1"}))
  BY <1>1 DEF Map, Wants
<1> HIDE DEF rd, wr, p0
<1> QED BY <1>4, <1>5, PutsFrom

LEMMA PutTxt1 ==
  ASSUME NEW m \in Map
  PROVE  Puts(m, fixup_bank0_0400_0800(m), Of({"00"}, {"txt1"}), Of({"00"}, {"txt1"}))
<1> DEFINE p0 == <<"00", "txt1">>
           rd == [m.rd EXCEPT ![p0] = RdWanted(m, p0)]
           wr == [m.wr EXCEPT ![p0] = WrWanted(m, p0)]
<1>1. p0 \in Page /\ \A p \in Page : p \in Of({"00"}, {"txt1"}) <=> p = p0
  BY Pairs, Bank0 DEF Of, Area
<1>2. /\ RdWanted(m, p0) = To(BankOf(AuxRd(m, "txt1")), "txt1", {})
      /\ WrWanted(m, p0) = To(BankOf(AuxWr(m, "txt1")), "txt1", Shadows(m, AuxWr(m, "txt1"), "txt1"))
  BY DEF RdWanted, WrWanted, Screens
<1>3. fixup_bank0_0400_0800(m) = [m EXCEPT !.rd = rd, !.wr = wr]
  BY <1>2 DEF fixup_bank0_0400_0800, AuxRd, AuxWr, Shadows, Map
<1>4. Tables(m, fixup_bank0_0400_0800(m), rd, wr)
  BY <1>1, <1>3, WantedTypes DEF Map, Tables
<1>5. Wants(m, rd, wr, Of({"00"}, {"txt1"}), Of({"00"}, {"txt1"}))
  BY <1>1 DEF Map, Wants
<1> HIDE DEF rd, wr, p0
<1> QED BY <1>4, <1>5, PutsFrom

RamAreas == Plain \cup {"txt2", "hgr2", "shr"}

LEMMA PutReadPlain ==
  ASSUME NEW m \in Map
  PROVE  Puts(m, ReadPlain(m), Of({"00"}, RamAreas), {})
<1> DEFINE rd == Lead(m.rd, "00", RamAreas, BankOf(RAMRD(m)), {})
<1>1. /\ DOMAIN rd = Page
      /\ \A p \in Page : rd[p] = IF p[1] = "00" /\ p[2] \in RamAreas THEN To(BankOf(RAMRD(m)), p[2], {}) ELSE m.rd[p]
      /\ rd = [p \in Page |-> rd[p]]
  BY DEF Lead, Map
<1>2. ReadPlain(m) = [m EXCEPT !.rd = rd, !.wr = m.wr]
  BY DEF ReadPlain, RamAreas, Map
<1> HIDE DEF rd
<1>3. ASSUME NEW p \in Page, p[1] = "00", p[2] \in RamAreas
      PROVE  RdWanted(m, p) = To(BankOf(RAMRD(m)), p[2], {})
  BY <1>3 DEF RdWanted, RamAreas, Plain, Screens, SuperHires, AuxRd
<1>4. Wants(m, rd, m.wr, Of({"00"}, RamAreas), {})
  BY <1>1, <1>3 DEF Wants, Of
<1>5. rd \in [Page -> Target] /\ m.wr \in [Page -> Target]
  BY <1>1, <1>4, WantedTypes DEF Wants, Map
<1> QED BY <1>2, <1>4, <1>5, PutsFrom DEF Tables

LEMMA PutWritePlain ==
  ASSUME NEW m \in Map
  PROVE  Puts(m, WritePlain(m), {}, Of({"00"}, Plain))
<1> DEFINE wr == Lead(m.wr, "00", Plain, BankOf(RAMWRT(m)), {})
<1>1. /\ DOMAIN wr = Page
      /\ \A p \in Page : wr[p] = IF p[1] = "00" /\ p[2] \in Plain THEN To(BankOf(RAMWRT(m)), p[2], {}) ELSE m.wr[p]
      /\ wr = [p \in Page |-> wr[p]]
  BY DEF Lead, Map
<1>2. WritePlain(m) = [m EXCEPT !.rd = m.rd, !.wr = wr]
  BY DEF WritePlain, Map
<1> HIDE DEF wr
<1>3. ASSUME NEW p \in Page, p[1] = "00", p[2] \in Plain
      PROVE  WrWanted(m, p) = To(BankOf(RAMWRT(m)), p[2], {})
  BY <1>3 DEF WrWanted, Plain, Screens, SuperHires, AuxWr, Shadows
<1>4. Wants(m, m.rd, wr, {}, Of({"00"}, Plain))
  BY <1>1, <1>3 DEF Wants, Of
<1>5. wr \in [Page -> Target] /\ m.rd \in [Page -> Target]
  BY <1>1, <1>4, WantedTypes DEF Wants, Map
<1> QED BY <1>2, <1>4, <1>5, PutsFrom DEF Tables

LEMMA PutWriteShadowed ==
  ASSUME NEW m \in Map
  PROVE  Puts(m, WriteShadowed(m), {}, Of({"00"}, {"txt2", "hgr2", "shr"}))
<1> DEFINE p1 == <<"00", "txt2">>
           p2 == <<"00", "hgr2">>
           p3 == <<"00", "shr">>
           wr == [m.wr EXCEPT ![p1] = WrWanted(m, p1), ![p2] = WrWanted(m, p2), ![p3] = WrWanted(m, p3)]
<1>1. /\ p1 \in Page /\ p2 \in Page /\ p3 \in Page /\ p1 # p2 /\ p1 # p3 /\ p2 # p3
      /\ \A p \in Page : p \in Of({"00"}, {"txt2", "hgr2", "shr"}) <=> p \in {p1, p2, p3}
  BY Pairs, Bank0 DEF Of, Area, SuperHires
<1>2. /\ WrWanted(m, p1) = To(BankOf(RAMWRT(m)), "txt2", Shadows(m, RAMWRT(m), "txt2"))
      /\ WrWanted(m, p2) = To(BankOf(RAMWRT(m)), "hgr2", Shadows(m, RAMWRT(m), "hgr2"))
      /\ WrWanted(m, p3) = To(BankOf(RAMWRT(m)), "shr", Shadows(m, RAMWRT(m), "shr"))
  BY DEF WrWanted, Screens, SuperHires, AuxWr
<1>3. WriteShadowed(m) = [m EXCEPT !.rd = m.rd, !.wr = wr]
  BY <1>2 DEF WriteShadowed, Shadows, Map
<1>4. Tables(m, WriteShadowed(m), m.rd, wr)
  BY <1>1, <1>3, WantedTypes DEF Map, Tables
<1>5. Wants(m, m.rd, wr, {}, Of({"00"}, {"txt2", "hgr2", "shr"}))
  BY <1>1 DEF Map, Wants
<1> HIDE DEF wr, p1, p2, p3
<1> QED BY <1>4, <1>5, PutsFrom

\* The pages that follow RAMRD and RAMWRT, unless 80STORE takes them.
Unstores(m) ==
  (IF "st80" \notin m.stat THEN Of({"00"}, {"txt1"}) ELSE {})
    \cup (IF "st80" \in m.stat /\ "hires" \in m.stat THEN {} ELSE Of({"00"}, {"hgr1"}))

LEMMA FixUnstored ==
  ASSUME NEW m \in Map
  PROVE  Fixes(m, Unstored(m), Unstores(m), Unstores(m))
<1> DEFINE t == TextUnstored(m)
           T == IF "st80" \notin m.stat THEN Of({"00"}, {"txt1"}) ELSE {}
           H == IF "st80" \in m.stat /\ "hires" \in m.stat THEN {} ELSE Of({"00"}, {"hgr1"})
<1>1. Fixes(m, t, T, T)
  BY PutTxt1, PutsFixes, FixesNothing DEF TextUnstored
<1>2. t \in Map /\ t.stat = m.stat
  BY <1>1 DEF Fixes, SameSwitches
<1> HIDE DEF t
<1>3. Fixes(t, HiresUnstored(t), H, H)
  BY <1>2, PutHgr1, PutsFixes, FixesNothing DEF HiresUnstored
<1> HIDE DEF T, H
<1>4. Fixes(m, HiresUnstored(t), T \cup H, T \cup H)
  BY <1>1, <1>3, FixesChain
<1> QED BY <1>4 DEF Unstored, Unstores, t, T, H

LEMMA FixRamrd ==
  ASSUME NEW m \in Map
  PROVE  Fixes(m, fixup_ramrd(m), Unstores(m) \cup Of({"00"}, RamAreas), Unstores(m))
<1>1. Fixes(m, Unstored(m), Unstores(m), Unstores(m)) /\ Unstored(m) \in Map
  BY FixUnstored DEF Fixes
<1>2. Fixes(Unstored(m), ReadPlain(Unstored(m)), Of({"00"}, RamAreas), {})
  BY <1>1, PutReadPlain, PutsFixes
<1>3. Fixes(m, ReadPlain(Unstored(m)), Unstores(m) \cup Of({"00"}, RamAreas), Unstores(m) \cup {})
  BY <1>1, <1>2, FixesChain
<1>4. Unstores(m) \cup {} = Unstores(m)
  OBVIOUS
<1> QED BY <1>3, <1>4 DEF fixup_ramrd

LEMMA FixRamwrt ==
  ASSUME NEW m \in Map
  PROVE  Fixes(m, fixup_ramwrt(m), Unstores(m), Unstores(m) \cup Of({"00"}, RamAreas))
<1> DEFINE t == Unstored(m)
           u == WritePlain(t)
           W1 == Of({"00"}, Plain)
           W2 == Of({"00"}, {"txt2", "hgr2", "shr"})
<1>1. Fixes(m, t, Unstores(m), Unstores(m)) /\ t \in Map
  BY FixUnstored DEF Fixes
<1> HIDE DEF t
<1>2. Fixes(t, u, {}, W1) /\ u \in Map
  BY <1>1, PutWritePlain, PutsFixes DEF Fixes
<1> HIDE DEF u
<1>3. Fixes(u, WriteShadowed(u), {}, W2)
  BY <1>2, PutWriteShadowed, PutsFixes
<1>4. W1 \cup W2 = Of({"00"}, RamAreas)
  BY DEF Of, RamAreas
<1> HIDE DEF W1, W2
<1>5. Fixes(m, u, Unstores(m) \cup {}, Unstores(m) \cup W1)
  BY <1>1, <1>2, FixesChain
<1>6. Fixes(m, WriteShadowed(u), (Unstores(m) \cup {}) \cup {}, (Unstores(m) \cup W1) \cup W2)
  BY <1>3, <1>5, FixesChain
<1>7. /\ (Unstores(m) \cup {}) \cup {} = Unstores(m)
      /\ (Unstores(m) \cup W1) \cup W2 = Unstores(m) \cup (W1 \cup W2)
  OBVIOUS
<1> QED BY <1>4, <1>6, <1>7 DEF fixup_ramwrt, t, u

\* After a fix-up, breakpoints are armed again.
LEMMA FixThenArm ==
  ASSUME NEW m \in Map, NEW n, NEW R, NEW W, Fixes(m, n, R, W)
  PROVE  Fixes(m, fixup_brks(n), R, W)
<1>1. Fixes(n, fixup_brks(n), {}, {})
  BY BrksFix DEF Fixes
<1>2. Fixes(m, fixup_brks(n), R \cup {}, W \cup {})
  BY <1>1, FixesChain
<1>3. R \cup {} = R /\ W \cup {} = W
  OBVIOUS
<1> QED BY <1>2, <1>3

LEMMA FixIntcx ==
  ASSUME NEW m \in Map
  PROVE  LET S == Of(IoBanks(m), Cards)
         IN Fixes(m, fixup_intcx(m), S, S) /\ \E n : fixup_intcx(m) = fixup_brks(n) /\ Fixes(m, n, S, S)
<1> DEFINE S == Of(IoBanks(m), Cards)
           rd == [p \in Page |-> IF p = <<"00", SmartPort>> /\ Iolc(m) THEN IO
                                 ELSE IF p[1] \in IoBanks(m) /\ p[2] \in Cards THEN SlotRom(m, p[2])
                                 ELSE m.rd[p]]
           wr == [p \in Page |-> IF p[1] \in IoBanks(m) /\ p[2] \in Cards THEN IO ELSE m.wr[p]]
           n == [m EXCEPT !.rd = rd, !.wr = wr]
<1>1. fixup_intcx(m) = fixup_brks(n)
  BY DEF fixup_intcx
<1>2. ASSUME NEW p \in Page
      PROVE  rd[p] = IF p \in S THEN RdWanted(m, p) ELSE m.rd[p]
  <2>1. p[1] \in IoBanks(m) /\ p[2] \in Cards =>
          RdWanted(m, p) = IF p = <<"00", SmartPort>> /\ Iolc(m) THEN IO ELSE SlotRom(m, p[2])
    BY Pairs, SlotNames DEF RdWanted, IoBanks, Cards, Screens, SuperHires, Plain
  <2>2. p = <<"00", SmartPort>> /\ Iolc(m) => p[1] \in IoBanks(m) /\ p[2] \in Cards
    BY SlotNames DEF IoBanks, Cards
  <2> QED BY <2>1, <2>2 DEF Of
<1>3. ASSUME NEW p \in Page
      PROVE  wr[p] = IF p \in S THEN WrWanted(m, p) ELSE m.wr[p]
  <2>1. p[1] \in IoBanks(m) /\ p[2] \in Cards => WrWanted(m, p) = IO
    BY Pairs, SlotNames DEF WrWanted, IoBanks, Cards, Screens, SuperHires, Plain
  <2> QED BY <2>1 DEF Of
<1>4. Wants(m, rd, wr, S, S)
  BY <1>2, <1>3 DEF Wants
<1>5. rd \in [Page -> Target] /\ wr \in [Page -> Target]
  BY <1>2, <1>3, WantedTypes DEF Map
<1>6. Tables(m, n, rd, wr)
  BY <1>5 DEF Tables
<1> HIDE DEF rd, wr, n
<1>7. Fixes(m, n, S, S)
  BY <1>4, <1>6, PutsFrom, PutsFixes
<1>8. Fixes(m, fixup_intcx(m), S, S)
  BY <1>1, <1>7, FixThenArm
<1> QED BY <1>1, <1>7, <1>8

\* The language card's areas of the fast banks.
High == Of({"00", "01"}, {"d0", "e0"})

LEMMA FixWrdefram ==
  ASSUME NEW m \in Map, NEW new \in BOOLEAN, NEW t, t = [m EXCEPT !.wrdefram = new]
  PROVE  /\ t \in Map
         /\ Fixes(t, fixup_wrdefram(m, new), {}, IF Iolc(t) THEN High ELSE {})
         /\ Iolc(m) => \E n : fixup_wrdefram(m, new) = fixup_brks(n) /\ Fixes(t, n, {}, High)
<1> DEFINE p1 == <<"01", "e0">>
           p2 == <<"00", "e0">>
           p3 == <<"01", "d0">>
           p4 == <<"00", "d0">>
           wr == [t.wr EXCEPT ![p1] = WrWanted(t, p1), ![p2] = WrWanted(t, p2),
                              ![p3] = WrWanted(t, p3), ![p4] = WrWanted(t, p4)]
           n == [t EXCEPT !.rd = t.rd, !.wr = wr]
<1>1. /\ t \in Map /\ Iolc(t) = Iolc(m) /\ ALTZP(t) = ALTZP(m) /\ CardArea(t) = CardArea(m)
      /\ t.wr = m.wr
  BY DEF Map, Iolc, ALTZP, CardArea, LCBANK2
<1>2. CASE ~Iolc(m)
  <2>1. fixup_wrdefram(m, new) = t
    BY <1>2 DEF fixup_wrdefram
  <2> QED BY <1>1, <1>2, <2>1, FixesNothing
<1>3. CASE Iolc(m)
  <2>1. /\ p1 \in Page /\ p2 \in Page /\ p3 \in Page /\ p4 \in Page
        /\ p1 # p2 /\ p1 # p3 /\ p1 # p4 /\ p2 # p3 /\ p2 # p4 /\ p3 # p4
        /\ \A p \in Page : p \in High <=> p \in {p1, p2, p3, p4}
    BY Pairs DEF Of, High, Area, Page
  <2>2. /\ WrWanted(t, p1) = To("01", "e0", Protect(t))
        /\ WrWanted(t, p2) = To(BankOf(ALTZP(m)), "e0", Protect(t))
        /\ WrWanted(t, p3) = To("01", CardArea(m), Protect(t))
        /\ WrWanted(t, p4) = To(BankOf(ALTZP(m)), CardArea(m), Protect(t))
    BY <1>1, <1>3, SlotNames DEF WrWanted, Screens, SuperHires, Plain, Cards, ZpBank, HighArea
  <2>3. fixup_wrdefram(m, new) = fixup_brks(n)
    <3>1. fixup_wrdefram(m, new) =
            fixup_brks([t EXCEPT !.wr[p1] = WrWanted(t, p1), !.wr[p2] = WrWanted(t, p2),
                                 !.wr[p3] = WrWanted(t, p3), !.wr[p4] = WrWanted(t, p4)])
      <4> HIDE DEF wr, n
      <4> QED BY <1>1, <1>3, <2>2 DEF fixup_wrdefram
    <3>2. n = [t EXCEPT !.wr[p1] = WrWanted(t, p1), !.wr[p2] = WrWanted(t, p2),
                        !.wr[p3] = WrWanted(t, p3), !.wr[p4] = WrWanted(t, p4)]
      BY <1>1 DEF Map
    <3> HIDE DEF n
    <3> QED BY <3>1, <3>2
  <2>4. Tables(t, n, t.rd, wr)
    BY <1>1, <2>1, WantedTypes DEF Map, Tables
  <2>5. Wants(t, t.rd, wr, {}, High)
    BY <1>1, <2>1 DEF Map, Wants
  <2> HIDE DEF wr, p1, p2, p3, p4, n
  <2>6. Fixes(t, n, {}, High)
    BY <1>1, <2>4, <2>5, PutsFrom, PutsFixes
  <2>7. Fixes(t, fixup_brks(n), {}, High)
    BY <1>1, <2>6, FixThenArm
  <2> QED BY <1>1, <1>3, <2>3, <2>6, <2>7
<1> QED BY <1>2, <1>3

LEMMA PutAltzp ==
  ASSUME NEW m \in Map
  PROVE  Puts(m, fixup_altzp(m), Of({"00"}, {"zp", "d0", "e0"}), Of({"00"}, {"zp", "d0", "e0"}))
<1> DEFINE p1 == <<"00", "zp">>
           p2 == <<"00", "d0">>
           p3 == <<"00", "e0">>
           S == Of({"00"}, {"zp", "d0", "e0"})
           rd == [m.rd EXCEPT ![p1] = RdWanted(m, p1), ![p2] = RdWanted(m, p2), ![p3] = RdWanted(m, p3)]
           wr == [m.wr EXCEPT ![p1] = WrWanted(m, p1), ![p2] = WrWanted(m, p2), ![p3] = WrWanted(m, p3)]
           b == BankOf(ALTZP(m))
           area == IF Iolc(m) THEN CardArea(m) ELSE "cx"
           flags == MarksIf(Iolc(m), Protect(m))
           rom == Iolc(m) /\ RDROM(m)
<1>1. /\ p1 \in Page /\ p2 \in Page /\ p3 \in Page /\ p1 # p2 /\ p1 # p3 /\ p2 # p3
      /\ \A p \in Page : p \in S <=> p \in {p1, p2, p3}
  BY Pairs, Bank0 DEF Of, Area
<1>2. /\ RdWanted(m, p1) = To(b, "zp", {}) /\ WrWanted(m, p1) = To(b, "zp", {})
      /\ RdWanted(m, p2) = IF rom THEN To("rom", "d0", {}) ELSE To(b, area, {})
      /\ WrWanted(m, p2) = To(b, area, flags)
      /\ RdWanted(m, p3) = IF rom THEN To("rom", "e0", {}) ELSE To(b, "e0", {})
      /\ WrWanted(m, p3) = To(b, "e0", flags)
  BY SlotNames DEF RdWanted, WrWanted, Screens, SuperHires, Plain, Cards, ZpBank, HighArea, MarksIf
<1>3. fixup_altzp(m) =
        [m EXCEPT !.rd[p1] = RdWanted(m, p1), !.wr[p1] = WrWanted(m, p1),
                  !.rd[p2] = RdWanted(m, p2), !.wr[p2] = WrWanted(m, p2),
                  !.rd[p3] = RdWanted(m, p3), !.wr[p3] = WrWanted(m, p3)]
  <2> HIDE DEF rd, wr
  <2> QED BY <1>2, Zenon DEF fixup_altzp
<1>4. fixup_altzp(m) = [m EXCEPT !.rd = rd, !.wr = wr]
  BY <1>3 DEF Map
<1>5. Tables(m, fixup_altzp(m), rd, wr)
  BY <1>1, <1>4, WantedTypes DEF Map, Tables
<1>6. Wants(m, rd, wr, S, S)
  BY <1>1 DEF Map, Wants
<1> HIDE DEF rd, wr, p1, p2, p3
<1> QED BY <1>5, <1>6, PutsFrom

LEMMA PutLcbank2 ==
  ASSUME NEW m \in Map
  PROVE  LET S == Of({"00", "01", "E0", "E1", "odd"}, {"d0"}) IN Puts(m, fixup_lcbank2(m), S, S)
<1> DEFINE S == Of({"00", "01", "E0", "E1", "odd"}, {"d0"})
           fast == {"00", "01"}
           to(b) == IF b = "00" THEN BankOf(ALTZP(m)) ELSE b
           area(b) == IF b \in fast /\ ~Iolc(m) THEN "cx" ELSE CardArea(m)
           r(b) == IF b \in fast /\ Iolc(m) /\ RDROM(m) THEN To("rom", "d0", {})
                   ELSE To(to(b), area(b), {})
           w(b) == To(to(b), area(b), MarksIf(b \in fast /\ Iolc(m), Protect(m)))
           rd == [p \in Page |-> IF p[2] = "d0" THEN r(p[1]) ELSE m.rd[p]]
           wr == [p \in Page |-> IF p[2] = "d0" THEN w(p[1]) ELSE m.wr[p]]
<1>1. fixup_lcbank2(m) = [m EXCEPT !.rd = rd, !.wr = wr]
  BY DEF fixup_lcbank2
<1>2. ASSUME NEW p \in Page, p[2] = "d0"
      PROVE  RdWanted(m, p) = r(p[1]) /\ WrWanted(m, p) = w(p[1]) /\ p \in S
  <2>1. p[1] # "odd" /\ p \in S
    BY <1>2, Pairs DEF Page, SuperHires, Cards, Plain, Area, Of
  <2> QED BY <1>2, <2>1, SlotNames
          DEF RdWanted, WrWanted, Screens, SuperHires, Plain, Cards, ZpBank, HighArea, MarksIf
<1>3. \A p \in S : p[2] = "d0"
  BY DEF Of
<1>4. Wants(m, rd, wr, S, S)
  <2>1. ASSUME NEW p \in Page
        PROVE  rd[p] = IF p[2] = "d0" THEN r(p[1]) ELSE m.rd[p]
    OBVIOUS
  <2>2. ASSUME NEW p \in Page
        PROVE  wr[p] = IF p[2] = "d0" THEN w(p[1]) ELSE m.wr[p]
    OBVIOUS
  <2> HIDE DEF rd, wr, r, w, S
  <2> QED BY <2>1, <2>2, <1>2, <1>3 DEF Wants
<1>5. rd \in [Page -> Target] /\ wr \in [Page -> Target]
  <2>1. rd = [p \in Page |-> rd[p]] /\ wr = [p \in Page |-> wr[p]]
    OBVIOUS
  <2> HIDE DEF rd, wr
  <2> QED BY <2>1, <1>4, WantedTypes DEF Wants, Map
<1>6. Tables(m, fixup_lcbank2(m), rd, wr)
  <2> HIDE DEF rd, wr
  <2> QED BY <1>1, <1>5 DEF Tables
<1> HIDE DEF rd, wr, S
<1>7. Puts(m, fixup_lcbank2(m), S, S)
  BY <1>4, <1>6, PutsFrom
<1> QED BY <1>7 DEF S

LEMMA PutRomPages ==
  ASSUME NEW m \in Map
  PROVE  Puts(m, RomPages(m), Of({"00", "01"}, {"e0"}), {})
<1> DEFINE p1 == <<"00", "e0">>
           p2 == <<"01", "e0">>
           S == Of({"00", "01"}, {"e0"})
           rd == [m.rd EXCEPT ![p1] = RdWanted(m, p1), ![p2] = RdWanted(m, p2)]
<1>1. /\ p1 \in Page /\ p2 \in Page /\ p1 # p2
      /\ \A p \in Page : p \in S <=> p \in {p1, p2}
  BY Pairs DEF Of, Area, Page
<1>2. /\ RdWanted(m, p1) = To(IF Iolc(m) /\ RDROM(m) THEN "rom" ELSE BankOf(ALTZP(m)), "e0", {})
      /\ RdWanted(m, p2) = To(IF Iolc(m) /\ RDROM(m) THEN "rom" ELSE "01", "e0", {})
  BY SlotNames DEF RdWanted, Screens, SuperHires, Plain, Cards, ZpBank, HighArea
<1>3. RomPages(m) = [m EXCEPT !.rd = rd, !.wr = m.wr]
  BY <1>2 DEF RomPages, Map
<1>4. Tables(m, RomPages(m), rd, m.wr)
  BY <1>1, <1>3, WantedTypes DEF Map, Tables
<1>5. Wants(m, rd, m.wr, S, {})
  BY <1>1 DEF Map, Wants
<1> HIDE DEF rd, p1, p2
<1> QED BY <1>4, <1>5, PutsFrom

D0Pages == Of({"00", "01", "E0", "E1", "odd"}, {"d0"})

LEMMA FixLcbank2 ==
  ASSUME NEW m \in Map
  PROVE  Fixes(m, fixup_lcbank2(m), D0Pages, D0Pages)
BY PutLcbank2, PutsFixes DEF D0Pages

LEMMA FixRdrom ==
  ASSUME NEW m \in Map
  PROVE  Fixes(m, fixup_rdrom(m), D0Pages \cup Of({"00", "01"}, {"e0"}), D0Pages)
<1> DEFINE t == fixup_lcbank2(m)
<1>1. Fixes(m, t, D0Pages, D0Pages) /\ t \in Map
  BY FixLcbank2 DEF Fixes
<1> HIDE DEF t
<1>2. Fixes(t, RomPages(t), Of({"00", "01"}, {"e0"}), {})
  BY <1>1, PutRomPages, PutsFixes
<1>3. Fixes(m, RomPages(t), D0Pages \cup Of({"00", "01"}, {"e0"}), D0Pages \cup {})
  BY <1>1, <1>2, FixesChain
<1>4. D0Pages \cup {} = D0Pages
  OBVIOUS
<1> QED BY <1>3, <1>4 DEF fixup_rdrom, t

\* One page of a write table.
LEMMA PutWr1 ==
  ASSUME NEW m \in Map, NEW n, NEW p1 \in Page, n = [m EXCEPT !.wr[p1] = WrWanted(m, p1)]
  PROVE  Fixes(m, n, {}, {p1})
<1> DEFINE wr == [m.wr EXCEPT ![p1] = WrWanted(m, p1)]
<1>1. n = [m EXCEPT !.rd = m.rd, !.wr = wr]
  BY DEF Map
<1>2. Tables(m, n, m.rd, wr)
  BY <1>1, WantedTypes DEF Map, Tables
<1>3. Wants(m, m.rd, wr, {}, {p1})
  BY DEF Map, Wants
<1> HIDE DEF wr
<1> QED BY <1>2, <1>3, PutsFrom, PutsFixes

TwoWrites(m, n, p1, p2) ==
  p1 # p2 /\ n = [m EXCEPT !.wr[p1] = WrWanted(m, p1), !.wr[p2] = WrWanted(m, p2)]

LEMMA PutWr2 ==
  ASSUME NEW m \in Map, NEW n, NEW p1 \in Page, NEW p2 \in Page, TwoWrites(m, n, p1, p2)
  PROVE  Fixes(m, n, {}, {p1, p2})
<1> DEFINE wr == [m.wr EXCEPT ![p1] = WrWanted(m, p1), ![p2] = WrWanted(m, p2)]
<1>1. n = [m EXCEPT !.rd = m.rd, !.wr = wr]
  BY DEF Map, TwoWrites
<1>2. Tables(m, n, m.rd, wr)
  BY <1>1, WantedTypes DEF Map, Tables
<1>3. Wants(m, m.rd, wr, {}, {p1, p2})
  BY DEF Map, Wants, TwoWrites
<1> HIDE DEF wr
<1> QED BY <1>2, <1>3, PutsFrom, PutsFixes

LEMMA OwnPages ==
  \A a \in Screens : <<"00", a>> \in Page /\ <<"01", a>> \in Page /\ <<"00", a>> # <<"01", a>>
                     /\ Of({"00", "01"}, {a}) = {<<"00", a>>, <<"01", a>>}
                     /\ Of({"01"}, {a}) = {<<"01", a>>} /\ Of({"00"}, {a}) = {<<"00", a>>}
<1> SUFFICES ASSUME NEW a \in Screens
             PROVE  /\ <<"00", a>> \in Page /\ <<"01", a>> \in Page /\ <<"00", a>> # <<"01", a>>
                    /\ Of({"00", "01"}, {a}) = {<<"00", a>>, <<"01", a>>}
                    /\ Of({"01"}, {a}) = {<<"01", a>>} /\ Of({"00"}, {a}) = {<<"00", a>>}
  OBVIOUS
<1>1. <<"00", a>> \in Page /\ <<"01", a>> \in Page
  BY DEF Screens, Page, Area, SuperHires
<1> QED BY <1>1, Pairs DEF Of

LEMMA FixTxt1 ==
  ASSUME NEW m \in Map
  PROVE  Fixes(m, fixup_shadow_txt1(m), Of({"00"}, {"txt1"}), Of({"00", "01"}, {"txt1"}))
<1> DEFINE t == fixup_bank0_0400_0800(m)
           p1 == <<"01", "txt1">>
<1>1. Fixes(m, t, Of({"00"}, {"txt1"}), Of({"00"}, {"txt1"})) /\ t \in Map /\ SameSwitches(m, t)
  BY PutTxt1, PutsFixes DEF Fixes
<1> HIDE DEF t
<1>2. Shadowed(t, "txt1") = Shadowed(m, "txt1")
  BY <1>1 DEF SameSwitches, Shadowed
<1>3. WrWanted(t, p1) = To("01", "txt1", MarksIf(Shadowed(m, "txt1"), {"shadow2"}))
  BY <1>2 DEF WrWanted, Screens, Shadows
<1>4. fixup_shadow_txt1(m) = [t EXCEPT !.wr[p1] = WrWanted(t, p1)]
  BY <1>3 DEF fixup_shadow_txt1, t
<1>5. p1 \in Page /\ Of({"00"}, {"txt1"}) \cup {p1} = Of({"00", "01"}, {"txt1"})
  BY OwnPages DEF Screens
<1> HIDE DEF p1
<1>6. Fixes(t, fixup_shadow_txt1(m), {}, {p1})
  BY <1>1, <1>4, <1>5, PutWr1
<1>7. Fixes(m, fixup_shadow_txt1(m), Of({"00"}, {"txt1"}) \cup {}, Of({"00"}, {"txt1"}) \cup {p1})
  BY <1>1, <1>6, FixesChain
<1>8. Of({"00"}, {"txt1"}) \cup {} = Of({"00"}, {"txt1"})
  OBVIOUS
<1> QED BY <1>5, <1>7, <1>8

LEMMA FixHires1 ==
  ASSUME NEW m \in Map
  PROVE  Fixes(m, fixup_shadow_hires1(m), Of({"00"}, {"hgr1"}), Of({"00", "01"}, {"hgr1"}))
<1> DEFINE t == fixup_bank0_2000_4000(m)
           p1 == <<"01", "hgr1">>
<1>1. Fixes(m, t, Of({"00"}, {"hgr1"}), Of({"00"}, {"hgr1"})) /\ t \in Map /\ SameSwitches(m, t)
  BY PutHgr1, PutsFixes DEF Fixes
<1> HIDE DEF t
<1>2. AuxHires(t, "hires1") = AuxHires(m, "hires1")
  BY <1>1 DEF SameSwitches, AuxHires, Shadowed
<1>3. WrWanted(t, p1) = To("01", "hgr1", MarksIf(AuxHires(m, "hires1"), {"shadow2"}))
  BY <1>2 DEF WrWanted, Screens, SuperHires, Shadows
<1>4. fixup_shadow_hires1(m) = [t EXCEPT !.wr[p1] = WrWanted(t, p1)]
  BY <1>3 DEF fixup_shadow_hires1, t
<1>5. p1 \in Page /\ Of({"00"}, {"hgr1"}) \cup {p1} = Of({"00", "01"}, {"hgr1"})
  BY OwnPages DEF Screens, SuperHires
<1> HIDE DEF p1
<1>6. Fixes(t, fixup_shadow_hires1(m), {}, {p1})
  BY <1>1, <1>4, <1>5, PutWr1
<1>7. Fixes(m, fixup_shadow_hires1(m), Of({"00"}, {"hgr1"}) \cup {}, Of({"00"}, {"hgr1"}) \cup {p1})
  BY <1>1, <1>6, FixesChain
<1>8. Of({"00"}, {"hgr1"}) \cup {} = Of({"00"}, {"hgr1"})
  OBVIOUS
<1> QED BY <1>5, <1>7, <1>8

LEMMA FixTxt2 ==
  ASSUME NEW m \in Map
  PROVE  Fixes(m, fixup_shadow_txt2(m), {}, Of({"00", "01"}, {"txt2"}))
<1> DEFINE p1 == <<"00", "txt2">>
           p2 == <<"01", "txt2">>
<1>1. /\ WrWanted(m, p1) = To(BankOf(RAMWRT(m)), "txt2", Shadows(m, RAMWRT(m), "txt2"))
      /\ WrWanted(m, p2) = To("01", "txt2", Shadows(m, TRUE, "txt2"))
  BY DEF WrWanted, Screens, AuxWr
<1>2. TwoWrites(m, fixup_shadow_txt2(m), p1, p2)
  BY <1>1 DEF TwoWrites, fixup_shadow_txt2, Shadows
<1>3. /\ p1 \in Page /\ p2 \in Page /\ p1 # p2
      /\ Of({"00", "01"}, {"txt2"}) = {p1, p2}
  BY OwnPages DEF Screens
<1> HIDE DEF p1, p2
<1> QED BY <1>2, <1>3, PutWr2

LEMMA FixHires2 ==
  ASSUME NEW m \in Map
  PROVE  Fixes(m, fixup_shadow_hires2(m), {}, Of({"00", "01"}, {"hgr2"}))
<1> DEFINE p1 == <<"00", "hgr2">>
           p2 == <<"01", "hgr2">>
<1>1. /\ WrWanted(m, p1) = To(BankOf(RAMWRT(m)), "hgr2", Shadows(m, RAMWRT(m), "hgr2"))
      /\ WrWanted(m, p2) = To("01", "hgr2", Shadows(m, TRUE, "hgr2"))
  BY DEF WrWanted, Screens, SuperHires, AuxWr
<1>2. TwoWrites(m, fixup_shadow_hires2(m), p1, p2)
  BY <1>1 DEF TwoWrites, fixup_shadow_hires2, Shadows
<1>3. /\ p1 \in Page /\ p2 \in Page /\ p1 # p2
      /\ Of({"00", "01"}, {"hgr2"}) = {p1, p2}
  BY OwnPages DEF Screens, SuperHires
<1> HIDE DEF p1, p2
<1> QED BY <1>2, <1>3, PutWr2

LEMMA FixShr ==
  ASSUME NEW m \in Map
  PROVE  Fixes(m, fixup_shadow_shr(m), {}, Of({"00", "01"}, {"shr"}))
<1> DEFINE p1 == <<"00", "shr">>
           p2 == <<"01", "shr">>
<1>1. /\ WrWanted(m, p1) = To(BankOf(RAMWRT(m)), "shr", MarksIf(RAMWRT(m) /\ Shadowed(m, "shr"), {"shadow2"}))
      /\ WrWanted(m, p2) = To("01", "shr", MarksIf(Shadowed(m, "shr"), {"shadow2"}))
  BY DEF WrWanted, Screens, SuperHires, AuxWr, Shadows, MarksIf
<1>2. TwoWrites(m, fixup_shadow_shr(m), p1, p2)
  BY <1>1 DEF TwoWrites, fixup_shadow_shr, MarksIf
<1>3. /\ p1 \in Page /\ p2 \in Page /\ p1 # p2
      /\ Of({"00", "01"}, {"shr"}) = {p1, p2}
  BY OwnPages DEF Screens, SuperHires
<1> HIDE DEF p1, p2
<1> QED BY <1>2, <1>3, PutWr2

LEMMA FixHires12 ==
  ASSUME NEW m \in Map
  PROVE  Fixes(m, Hires12(m), Of({"00"}, {"hgr1"}), Of({"00", "01"}, {"hgr1", "hgr2"}))
<1> DEFINE t == fixup_shadow_hires1(m)
<1>1. Fixes(m, t, Of({"00"}, {"hgr1"}), Of({"00", "01"}, {"hgr1"})) /\ t \in Map
  BY FixHires1 DEF Fixes
<1> HIDE DEF t
<1>2. Fixes(t, fixup_shadow_hires2(t), {}, Of({"00", "01"}, {"hgr2"}))
  BY <1>1, FixHires2
<1>3. Fixes(m, fixup_shadow_hires2(t), Of({"00"}, {"hgr1"}) \cup {},
            Of({"00", "01"}, {"hgr1"}) \cup Of({"00", "01"}, {"hgr2"}))
  BY <1>1, <1>2, FixesChain
<1>4. /\ Of({"00"}, {"hgr1"}) \cup {} = Of({"00"}, {"hgr1"})
      /\ Of({"00", "01"}, {"hgr1"}) \cup Of({"00", "01"}, {"hgr2"}) = Of({"00", "01"}, {"hgr1", "hgr2"})
  BY DEF Of
<1> QED BY <1>3, <1>4 DEF Hires12, t

LEMMA FixesLess ==
  ASSUME NEW m, NEW n, NEW R, NEW W, NEW R2, NEW W2, Fixes(m, n, R, W), R2 \subseteq R, W2 \subseteq W
  PROVE  Fixes(m, n, R2, W2)
BY DEF Fixes

\* What changes places with the language card.
IolcPages == Of({"00", "01"}, Cards \cup {"d0", "e0"})

LEMMA FixIolc ==
  ASSUME NEW m \in Map
  PROVE  Fixes(m, fixup_shadow_iolc(m), IolcPages, IolcPages)
<1>1. CASE Iolc(m)
  <2> DEFINE t == fixup_intcx(m)
             u == fixup_rdrom(t)
             n == fixup_wrdefram(u, m.wrdefram)
             C == Of(IoBanks(m), Cards)
             E == Of({"00", "01"}, {"e0"})
  <2>1. Fixes(m, t, C, C) /\ t \in Map /\ t.wrdefram = m.wrdefram /\ Iolc(t)
    BY <1>1, FixIntcx DEF Fixes, SameSwitches, Iolc
  <2> HIDE DEF t
  <2>2. Fixes(t, u, D0Pages \cup E, D0Pages) /\ u \in Map /\ u.wrdefram = m.wrdefram /\ Iolc(u)
    BY <2>1, FixRdrom DEF Fixes, SameSwitches, Iolc
  <2> HIDE DEF u
  <2>3. u = [u EXCEPT !.wrdefram = m.wrdefram] /\ m.wrdefram \in BOOLEAN
    BY <2>2 DEF Map
  <2>4. Fixes(u, n, {}, High)
    BY <2>2, <2>3, FixWrdefram
  <2>5. fixup_shadow_iolc(m) = n
    BY <1>1 DEF fixup_shadow_iolc, t, u
  <2> HIDE DEF n, C, E
  <2>6. Fixes(m, u, C \cup (D0Pages \cup E), C \cup D0Pages)
    BY <2>1, <2>2, FixesChain
  <2>7. Fixes(m, n, (C \cup (D0Pages \cup E)) \cup {}, (C \cup D0Pages) \cup High)
    BY <2>4, <2>6, FixesChain
  <2>8. /\ IolcPages \subseteq (C \cup (D0Pages \cup E)) \cup {}
        /\ IolcPages \subseteq (C \cup D0Pages) \cup High
    BY <1>1 DEF IolcPages, C, E, D0Pages, High, Of, IoBanks
  <2> QED BY <2>5, <2>7, <2>8, FixesLess
<1>2. CASE ~Iolc(m)
  <2> DEFINE zp(b) == IF b = "00" THEN BankOf(ALTZP(m)) ELSE b
             ram(p) == CASE p[2] \in Cards -> To(p[1], "d0", {})
                         [] p[2] = "d0" -> To(zp(p[1]), "cx", {})
                         [] p[2] = "e0" -> To(zp(p[1]), "e0", {})
             gone(p) == p[1] \in {"00", "01"} /\ p[2] \in Cards \cup {"d0", "e0"}
             rd == [p \in Page |-> IF gone(p) THEN ram(p) ELSE m.rd[p]]
             wr == [p \in Page |-> IF gone(p) THEN ram(p) ELSE m.wr[p]]
             n == fixup_shadow_iolc(m)
  <2>1. n = [m EXCEPT !.rd = rd, !.wr = wr]
    BY <1>2 DEF fixup_shadow_iolc
  <2>2. \A p \in Page : gone(p) <=> p \in IolcPages
    BY DEF IolcPages, Of
  <2>3. ASSUME NEW p \in Page, gone(p)
        PROVE  RdWanted(m, p) = ram(p) /\ WrWanted(m, p) = ram(p)
    <3>1. /\ p[2] \in Cards => ram(p) = To(p[1], "d0", {})
          /\ p[2] = "d0" => ram(p) = To(zp(p[1]), "cx", {})
          /\ p[2] = "e0" => ram(p) = To(zp(p[1]), "e0", {})
      BY SlotNames DEF Cards
    <3>2. p[2] \in Cards => RdWanted(m, p) = To(p[1], "d0", {}) /\ WrWanted(m, p) = To(p[1], "d0", {})
      BY <1>2, <2>3, SlotNames DEF RdWanted, WrWanted, Cards, Screens, SuperHires, Plain, IoBanks
    <3>3. p[2] = "d0" => RdWanted(m, p) = To(zp(p[1]), "cx", {}) /\ WrWanted(m, p) = To(zp(p[1]), "cx", {})
      BY <1>2, <2>3, SlotNames
         DEF RdWanted, WrWanted, Cards, Screens, SuperHires, Plain, IoBanks, HighArea, ZpBank
    <3>4. p[2] = "e0" => RdWanted(m, p) = To(zp(p[1]), "e0", {}) /\ WrWanted(m, p) = To(zp(p[1]), "e0", {})
      BY <1>2, <2>3, SlotNames
         DEF RdWanted, WrWanted, Cards, Screens, SuperHires, Plain, IoBanks, HighArea, ZpBank
    <3> HIDE DEF ram
    <3> QED BY <2>3, <3>1, <3>2, <3>3, <3>4
  <2>4. Wants(m, rd, wr, IolcPages, IolcPages)
    <3>1. \A p \in Page : rd[p] = (IF gone(p) THEN ram(p) ELSE m.rd[p])
                          /\ wr[p] = (IF gone(p) THEN ram(p) ELSE m.wr[p])
      OBVIOUS
    <3> HIDE DEF rd, wr, ram, gone
    <3> QED BY <3>1, <2>2, <2>3 DEF Wants
  <2>5. rd = [p \in Page |-> rd[p]] /\ wr = [p \in Page |-> wr[p]]
    OBVIOUS
  <2> HIDE DEF rd, wr
  <2>6. rd \in [Page -> Target] /\ wr \in [Page -> Target]
    BY <2>4, <2>5, WantedTypes DEF Wants, Map
  <2>7. Tables(m, n, rd, wr)
    BY <2>1, <2>6 DEF Tables
  <2> HIDE DEF n
  <2>8. Fixes(m, n, IolcPages, IolcPages)
    BY <2>4, <2>7, PutsFrom, PutsFixes
  <2> QED BY <2>8 DEF n
<1> QED BY <1>1, <1>2

\* The pages of the display that 80STORE hands to page 2.
Stores(m) ==
  (IF "st80" \in m.stat THEN Of({"00"}, {"txt1"}) ELSE {})
    \cup (IF "st80" \in m.stat /\ "hires" \in m.stat THEN Of({"00"}, {"hgr1"}) ELSE {})

LEMMA FixPage2 ==
  ASSUME NEW m \in Map
  PROVE  Fixes(m, fixup_page2(m), Stores(m), Stores(m))
<1> DEFINE t == fixup_bank0_0400_0800(m)
           T == Of({"00"}, {"txt1"})
           H == Of({"00"}, {"hgr1"})
<1>1. Fixes(m, t, T, T) /\ t \in Map
  BY PutTxt1, PutsFixes DEF Fixes
<1>2. CASE "st80" \in m.stat /\ "hires" \in m.stat
  <2>1. fixup_page2(m) = fixup_bank0_2000_4000(t)
    BY <1>2 DEF fixup_page2
  <2> HIDE DEF t
  <2>2. Fixes(t, fixup_bank0_2000_4000(t), H, H)
    BY <1>1, PutHgr1, PutsFixes
  <2> HIDE DEF T, H
  <2>3. Fixes(m, fixup_bank0_2000_4000(t), T \cup H, T \cup H)
    BY <1>1, <2>2, FixesChain
  <2>4. Stores(m) = T \cup H
    BY <1>2 DEF Stores, T, H
  <2> QED BY <2>1, <2>3, <2>4
<1>3. CASE "st80" \in m.stat /\ "hires" \notin m.stat
  <2>1. fixup_page2(m) = t
    BY <1>3 DEF fixup_page2
  <2>2. Stores(m) = T
    BY <1>3 DEF Stores
  <2> QED BY <1>1, <2>1, <2>2
<1>4. CASE "st80" \notin m.stat
  <2>1. fixup_page2(m) = m
    BY <1>4 DEF fixup_page2
  <2>2. Stores(m) = {}
    BY <1>4 DEF Stores
  <2> QED BY <2>1, <2>2, FixesNothing
<1> QED BY <1>2, <1>3, <1>4

LEMMA FixSt80pages ==
  ASSUME NEW m \in Map
  PROVE  LET S == Of({"00"}, {"txt1"}) \cup (IF "hires" \in m.stat THEN Of({"00"}, {"hgr1"}) ELSE {})
         IN Fixes(m, HiresPages(fixup_bank0_0400_0800(m)), S, S)
<1> DEFINE t == fixup_bank0_0400_0800(m)
           T == Of({"00"}, {"txt1"})
           H == IF "hires" \in m.stat THEN Of({"00"}, {"hgr1"}) ELSE {}
<1>1. Fixes(m, t, T, T) /\ t \in Map /\ t.stat = m.stat
  BY PutTxt1, PutsFixes DEF Fixes, SameSwitches
<1> HIDE DEF t
<1>2. Fixes(t, HiresPages(t), H, H)
  BY <1>1, PutHgr1, PutsFixes, FixesNothing DEF HiresPages
<1> HIDE DEF T, H
<1>3. Fixes(m, HiresPages(t), T \cup H, T \cup H)
  BY <1>1, <1>2, FixesChain
<1> QED BY <1>3 DEF t, T, H

\* Only the odd banks, which no one looks at again.
LEMMA FixAllBanks ==
  ASSUME NEW m \in Map
  PROVE  \E n : fixup_shadow_all_banks(m) = fixup_brks(n) /\ Fixes(m, n, {}, {})
<1> DEFINE flags == MarksIf(m.all_banks /\ Shadowed(m, "shr"), {"shadow2"})
           wr == Lead(m.wr, "odd", SuperHires, "odd", flags)
           n == [m EXCEPT !.wr = wr]
<1>1. flags \in SUBSET {"io", "io2", "shadow", "shadow2", "break"}
  BY DEF MarksIf
<1> HIDE DEF flags
<1>2. /\ DOMAIN wr = Page /\ wr = [p \in Page |-> wr[p]]
      /\ \A p \in Page : wr[p] = IF p[1] = "odd" /\ p[2] \in SuperHires THEN To("odd", p[2], flags) ELSE m.wr[p]
  BY DEF Lead, Map
<1>3. fixup_shadow_all_banks(m) = fixup_brks(n)
  BY DEF fixup_shadow_all_banks, flags
<1> HIDE DEF wr
<1>4. ASSUME NEW p \in Page
      PROVE  wr[p] \in Target
  <2>1. m.wr[p] \in Target /\ p[2] \in Area
    BY Pairs DEF Map
  <2> QED BY <1>1, <1>2, <2>1, ToType
<1>5. wr \in [Page -> Target]
  BY <1>2, <1>4
<1>6. n \in Map /\ SameSwitches(m, n) /\ n.rd = m.rd /\ n.wr = wr
  BY <1>5 DEF Map, SameSwitches
<1> HIDE DEF n
<1>7. Fixes(m, n, {}, {})
  BY <1>2, <1>6 DEF Fixes, ArmedRd, ArmedWr
<1> QED BY <1>3, <1>7

\* The last fix-up leaves every page that is right as it has to be.
LEMMA BrksDone ==
  ASSUME NEW m \in Map, NEW p \in Page
  PROVE  /\ RdRight(m, p) => RdDone(fixup_brks(m), p)
         /\ WrRight(m, p) => WrDone(fixup_brks(m), p)
         /\ RdDone(m, p) => RdRight(m, p)
         /\ WrDone(m, p) => WrRight(m, p)
<1> DEFINE n == fixup_brks(m)
<1>1. /\ n.rd[p] = IF BrokenRd(m, p) THEN Arm(m.rd[p]) ELSE m.rd[p]
      /\ n.wr[p] = IF Broken(m, p) THEN Arm(m.wr[p]) ELSE m.wr[p]
  BY DEF fixup_brks, Map
<1>2. SameSwitches(m, n)
  BY BrksFix DEF Fixes
<1> HIDE DEF n
<1>3. /\ RdWanted(n, p) = RdWanted(m, p) /\ WrWanted(n, p) = WrWanted(m, p)
      /\ BrokenRd(n, p) = BrokenRd(m, p) /\ Broken(n, p) = Broken(m, p)
  BY <1>2, SameWanted
<1>4. RdWanted(m, p) \in Target /\ WrWanted(m, p) \in Target
  BY WantedTypes
<1>5. /\ RdRight(m, p) => RdDone(n, p)
      /\ WrRight(m, p) => WrDone(n, p)
  BY <1>1, <1>3, <1>4, ArmTwice DEF RdRight, WrRight, RdDone, WrDone, ArmedRd, ArmedWr
<1>6. /\ RdDone(m, p) => RdRight(m, p)
      /\ WrDone(m, p) => WrRight(m, p)
  BY DEF RdRight, WrRight, RdDone, WrDone, ArmedRd, ArmedWr
<1> QED BY <1>5, <1>6 DEF n

(***************************************************************************)
(* The handlers.                                                           *)
(***************************************************************************)
RightOutside(m, R, W) ==
  \A p \in Page : (p \in R \/ RdRight(m, p)) /\ (p \in W \/ p[1] = "odd" \/ WrRight(m, p))
AllRight(m) == \A p \in Page : RdRight(m, p) /\ (p[1] = "odd" \/ WrRight(m, p))
AllDone(m) == \A p \in Page : RdDone(m, p) /\ (p[1] = "odd" \/ WrDone(m, p))
PageTwo(m) == ("page2" \in m.stat) <=> ("page2" \in m.statereg)

\* Between two handlers.
MapGood(m) == m \in Map /\ PageTwo(m) /\ AllDone(m)

LEMMA Settles ==
  ASSUME NEW t \in Map, NEW n, NEW R, NEW W, RightOutside(t, R, W), Fixes(t, n, R, W)
  PROVE  n \in Map /\ SameSwitches(t, n) /\ AllRight(n)
<1>1. n \in Map /\ SameSwitches(t, n)
  BY DEF Fixes
<1>2. ASSUME NEW p \in Page
      PROVE  RdRight(n, p) /\ (p[1] = "odd" \/ WrRight(n, p))
  <2>1. /\ RdWanted(n, p) = RdWanted(t, p) /\ WrWanted(n, p) = WrWanted(t, p)
        /\ BrokenRd(n, p) = BrokenRd(t, p) /\ Broken(n, p) = Broken(t, p)
    BY <1>1, SameWanted
  <2>2. RdWanted(t, p) \in Target /\ WrWanted(t, p) \in Target
    BY WantedTypes
  <2>3. RdRight(n, p)
    BY <2>1, <2>2, ArmTwice DEF Fixes, RightOutside, RdRight, ArmedRd
  <2>4. p[1] = "odd" \/ WrRight(n, p)
    BY <2>1, <2>2, ArmTwice DEF Fixes, RightOutside, WrRight, ArmedWr
  <2> QED BY <2>3, <2>4
<1> QED BY <1>1, <1>2 DEF AllRight

LEMMA ArmedDone ==
  ASSUME NEW n \in Map, AllRight(n)
  PROVE  fixup_brks(n) \in Map /\ SameSwitches(n, fixup_brks(n)) /\ AllDone(fixup_brks(n))
BY BrksFix, BrksDone DEF Fixes, AllRight, AllDone

\* From m a handler changes switches, to t, and then fixes pages up, to n.
Alters(m, t, R, W) ==
  /\ t \in Map /\ t.rd = m.rd /\ t.wr = m.wr
  /\ m.breakpts \subseteq t.breakpts
  /\ \A p \in Page : /\ p \in R \/ RdWanted(t, p) = RdWanted(m, p)
                     /\ p \in W \/ p[1] = "odd" \/ WrWanted(t, p) = WrWanted(m, p)

LEMMA AltersRight ==
  ASSUME NEW m, MapGood(m), NEW t, NEW R, NEW W, Alters(m, t, R, W)
  PROVE  RightOutside(t, R, W)
<1>1. ASSUME NEW p \in Page
      PROVE  (p \in R \/ RdRight(t, p)) /\ (p \in W \/ p[1] = "odd" \/ WrRight(t, p))
  <2>1. RdDone(m, p) /\ (p[1] = "odd" \/ WrDone(m, p))
    BY DEF MapGood, AllDone
  <2>2. (BrokenRd(m, p) => BrokenRd(t, p)) /\ (Broken(m, p) => Broken(t, p))
    BY DEF Alters, BrokenRd, Broken
  <2> QED BY <2>1, <2>2 DEF Alters, RdDone, WrDone, RdRight, WrRight, ArmedRd, ArmedWr
<1> QED BY <1>1 DEF RightOutside

LEMMA AltersFixed ==
  ASSUME NEW m, MapGood(m), NEW t, NEW n, NEW R, NEW W, Alters(m, t, R, W), PageTwo(t),
         Fixes(t, n, R, W)
  PROVE  /\ MapGood(fixup_brks(n)) /\ SameSwitches(t, fixup_brks(n))
         /\ n \in Map /\ SameSwitches(t, n) /\ AllRight(n)
<1>1. RightOutside(t, R, W) /\ t \in Map
  BY AltersRight DEF Alters
<1>2. n \in Map /\ SameSwitches(t, n) /\ AllRight(n)
  BY <1>1, Settles
<1>3. fixup_brks(n) \in Map /\ SameSwitches(n, fixup_brks(n)) /\ AllDone(fixup_brks(n))
  BY <1>2, ArmedDone
<1> QED BY <1>2, <1>3 DEF MapGood, PageTwo, SameSwitches

\* A change that asks for nothing needs no fix-up.
LEMMA AltersNothing ==
  ASSUME NEW m, MapGood(m), NEW t, Alters(m, t, {}, {}), PageTwo(t), t.breakpts = m.breakpts
  PROVE  MapGood(t)
<1>1. ASSUME NEW p \in Page
      PROVE  RdDone(t, p) /\ (p[1] = "odd" \/ WrDone(t, p))
  <2>1. RdDone(m, p) /\ (p[1] = "odd" \/ WrDone(m, p))
    BY DEF MapGood, AllDone
  <2>2. (BrokenRd(m, p) <=> BrokenRd(t, p)) /\ (Broken(m, p) <=> Broken(t, p))
    BY DEF BrokenRd, Broken
  <2> QED BY <2>1, <2>2 DEF Alters, RdDone, WrDone
<1> QED BY <1>1 DEF MapGood, AllDone, Alters

\* What a page depends on.
RdSame(m, t, p) ==
  LET b == p[1]
      a == p[2]
  IN  /\ b = "00" /\ a \in {"zp", "d0", "e0"} => ALTZP(t) = ALTZP(m)
      /\ b = "00" /\ a \in Screens \cup Plain => AuxRd(t, a) = AuxRd(m, a)
      /\ b \in {"00", "01"} /\ a \in Cards \cup {"d0", "e0"} => Iolc(t) = Iolc(m)
      /\ b \in IoBanks(t) /\ a \in Cards => SlotRom(t, a) = SlotRom(m, a)
      /\ b \in {"00", "01"} /\ a \in {"d0", "e0"} => RDROM(t) = RDROM(m)
      /\ a = "d0" => LCBANK2(t) = LCBANK2(m)

WrSame(m, t, p) ==
  LET b == p[1]
      a == p[2]
  IN  /\ b = "00" /\ a \in {"zp", "d0", "e0"} => ALTZP(t) = ALTZP(m)
      /\ b = "00" /\ a \in Screens \cup Plain => AuxWr(t, a) = AuxWr(m, a)
      /\ b = "00" /\ a \in Screens \cup Plain =>
           Shadows(t, AuxWr(t, a), a) = Shadows(m, AuxWr(t, a), a)
      /\ b = "01" /\ a \in Screens \cup Plain => Shadows(t, TRUE, a) = Shadows(m, TRUE, a)
      /\ b \in {"00", "01"} /\ a \in Cards \cup {"d0", "e0"} => Iolc(t) = Iolc(m)
      /\ b \in {"00", "01"} /\ a \in {"d0", "e0"} /\ Iolc(t) => Protect(t) = Protect(m)
      /\ a = "d0" => LCBANK2(t) = LCBANK2(m)

LEMMA SameAsked ==
  ASSUME NEW m, NEW t, NEW p \in Page
  PROVE  /\ RdSame(m, t, p) => RdWanted(t, p) = RdWanted(m, p)
         /\ p[1] # "odd" /\ WrSame(m, t, p) => WrWanted(t, p) = WrWanted(m, p)
<1> DEFINE b == p[1]
           a == p[2]
<1>1. a \in Area /\ b \in {"00", "01", "E0", "E1", "odd"}
  BY Pairs
<1>2. /\ b \in {"E0", "E1"} => a \in Cards \cup {"d0"}
      /\ b = "odd" => a \in SuperHires
  BY Pairs DEF Page
<1>3. b \in {"00", "01"} /\ Iolc(t) = Iolc(m) => (b \in IoBanks(t) <=> b \in IoBanks(m))
  BY DEF IoBanks
<1>4. b \in {"E0", "E1"} => b \in IoBanks(t) /\ b \in IoBanks(m)
  BY DEF IoBanks
<1>5. /\ a \in Area <=> a \in {"zp"} \cup (Screens \cup Plain) \cup Cards \cup {"d0", "e0"}
      /\ "zp" \notin Screens \cup Plain /\ "d0" \notin Screens \cup Plain /\ "e0" \notin Screens \cup Plain
      /\ SuperHires \subseteq Screens \cup Plain
      /\ \A x \in Cards : x \notin Screens \cup Plain /\ x \notin {"zp", "d0", "e0"}
  BY SlotNames DEF Area, Screens, Plain, SuperHires, Cards
<1>6. ASSUME RdSame(m, t, p)
      PROVE  RdWanted(t, p) = RdWanted(m, p)
  <2>1. CASE b = "odd"
    BY <2>1 DEF RdWanted
  <2>2. CASE b # "odd" /\ a = "zp"
    BY <1>6, <2>2 DEF RdSame, RdWanted, ZpBank
  <2>3. CASE b # "odd" /\ a \in Screens \cup Plain
    BY <1>5, <1>6, <2>3 DEF RdSame, RdWanted
  <2>4. CASE b # "odd" /\ a \in Cards
    BY <1>1, <1>2, <1>3, <1>4, <1>5, <1>6, <2>4 DEF RdSame, RdWanted
  <2>5. CASE b # "odd" /\ a \in {"d0", "e0"}
    BY <1>1, <1>2, <1>5, <1>6, <2>5 DEF RdSame, RdWanted, ZpBank, HighArea, CardArea
  <2> QED BY <1>1, <1>5, <2>1, <2>2, <2>3, <2>4, <2>5
<1>7. ASSUME p[1] # "odd", WrSame(m, t, p)
      PROVE  WrWanted(t, p) = WrWanted(m, p)
  <2>2. CASE a = "zp"
    BY <1>7, <2>2 DEF WrSame, WrWanted, ZpBank
  <2>3. CASE a \in Screens \cup Plain
    BY <1>1, <1>2, <1>5, <1>7, <2>3 DEF WrSame, WrWanted
  <2>4. CASE a \in Cards
    BY <1>1, <1>2, <1>3, <1>4, <1>5, <1>7, <2>4 DEF WrSame, WrWanted
  <2>5. CASE a \in {"d0", "e0"}
    BY <1>1, <1>2, <1>5, <1>7, <2>5 DEF WrSame, WrWanted, ZpBank, HighArea, CardArea
  <2> QED BY <1>1, <1>5, <2>2, <2>3, <2>4, <2>5
<1> QED BY <1>6, <1>7

\* A handler that changes one switch, as far as the pages outside R and W can tell.
Asks(m, t, R, W) ==
  \A p \in Page : (p \in R \/ RdSame(m, t, p)) /\ (p \in W \/ p[1] = "odd" \/ WrSame(m, t, p))

LEMMA AsksAlters ==
  ASSUME NEW m, NEW t \in Map, NEW R, NEW W, Asks(m, t, R, W),
         t.rd = m.rd, t.wr = m.wr, m.breakpts \subseteq t.breakpts
  PROVE  Alters(m, t, R, W)
BY SameAsked DEF Asks, Alters

LEMMA HiresGood ==
  ASSUME NEW m, MapGood(m), NEW on \in BOOLEAN, NEW t,
         t = [m EXCEPT !.stat = (m.stat \ {"hires"}) \cup MarksIf(on, {"hires"})]
  PROVE  MapGood(fixup_hires_on(t))
<1> DEFINE S == IF "st80" \in t.stat THEN Of({"00"}, {"hgr1"}) ELSE {}
<1>0. m \in Map /\ PageTwo(m)
  BY DEF MapGood
<1>1. /\ t \in Map /\ t.statereg = m.statereg /\ t.shadow = m.shadow /\ t.wrdefram = m.wrdefram
      /\ t.int_crom = m.int_crom /\ t.all_banks = m.all_banks /\ t.breakpts = m.breakpts
      /\ t.rd = m.rd /\ t.wr = m.wr /\ t.stat \ {"hires"} = m.stat \ {"hires"}
  BY <1>0 DEF Map, MarksIf
<1>2. PageTwo(t) /\ (("st80" \in t.stat) <=> ("st80" \in m.stat))
  BY <1>0, <1>1 DEF PageTwo
<1>3. ASSUME NEW p \in Page
      PROVE  p \in S \/ (RdSame(m, t, p) /\ WrSame(m, t, p))
  <2>1. p \in S \/ p[1] # "00" \/ (AuxRd(t, p[2]) = AuxRd(m, p[2]) /\ AuxWr(t, p[2]) = AuxWr(m, p[2]))
    BY <1>1, <1>2 DEF AuxRd, AuxWr, Of, RAMRD, RAMWRT
  <2> HIDE DEF S
  <2> QED BY <1>1, <2>1
          DEF RdSame, WrSame, ALTZP, RDROM, LCBANK2, INTCX, Iolc, Protect, SlotRom, Shadows, Shadowed, AuxHires
<1>4. Alters(m, t, S, S)
  BY <1>1, <1>3, AsksAlters DEF Asks
<1>5. CASE "st80" \in t.stat
  <2>1. fixup_hires_on(t) = fixup_brks(fixup_bank0_2000_4000(t))
    BY <1>5 DEF fixup_hires_on
  <2>2. Fixes(t, fixup_bank0_2000_4000(t), S, S)
    BY <1>1, <1>5, PutHgr1, PutsFixes
  <2> QED BY <1>2, <1>4, <2>1, <2>2, AltersFixed
<1>6. CASE "st80" \notin t.stat
  <2>1. fixup_hires_on(t) = t /\ S = {}
    BY <1>6 DEF fixup_hires_on
  <2> QED BY <1>1, <1>2, <1>4, <2>1, AltersNothing
<1> QED BY <1>5, <1>6

LEMMA Store80Good ==
  ASSUME NEW m, MapGood(m), NEW on \in BOOLEAN, NEW t,
         t = [m EXCEPT !.stat = (m.stat \ {"st80"}) \cup MarksIf(on, {"st80"})]
  PROVE  MapGood(fixup_st80col(t))
<1> DEFINE S == Of({"00"}, {"txt1"}) \cup (IF "hires" \in t.stat THEN Of({"00"}, {"hgr1"}) ELSE {})
           n == fixup_st80col(t)
<1>0. m \in Map /\ PageTwo(m)
  BY DEF MapGood
<1>1. /\ t \in Map /\ t.statereg = m.statereg /\ t.shadow = m.shadow /\ t.wrdefram = m.wrdefram
      /\ t.int_crom = m.int_crom /\ t.all_banks = m.all_banks /\ t.breakpts = m.breakpts
      /\ t.rd = m.rd /\ t.wr = m.wr /\ t.stat \ {"st80"} = m.stat \ {"st80"}
  BY <1>0 DEF Map, MarksIf
<1>2. PageTwo(t) /\ (("hires" \in t.stat) <=> ("hires" \in m.stat))
  BY <1>0, <1>1 DEF PageTwo
<1>3. ASSUME NEW p \in Page
      PROVE  p \in S \/ (RdSame(m, t, p) /\ WrSame(m, t, p))
  <2>1. p \in S \/ p[1] # "00" \/ (AuxRd(t, p[2]) = AuxRd(m, p[2]) /\ AuxWr(t, p[2]) = AuxWr(m, p[2]))
    BY <1>1, <1>2 DEF AuxRd, AuxWr, Of, RAMRD, RAMWRT
  <2> HIDE DEF S
  <2> QED BY <1>1, <2>1
          DEF RdSame, WrSame, ALTZP, RDROM, LCBANK2, INTCX, Iolc, Protect, SlotRom, Shadows, Shadowed, AuxHires
<1>4. Alters(m, t, S, S)
  BY <1>1, <1>3, AsksAlters DEF Asks
<1>5. n = fixup_brks(HiresPages(fixup_bank0_0400_0800(t)))
  BY DEF fixup_st80col
<1>6. Fixes(t, HiresPages(fixup_bank0_0400_0800(t)), S, S)
  BY <1>1, FixSt80pages
<1> QED BY <1>2, <1>4, <1>5, <1>6, AltersFixed

LEMMA IntcxGood ==
  ASSUME NEW m, MapGood(m), NEW crom \in SUBSET Slots, NEW t, t = [m EXCEPT !.int_crom = crom]
  PROVE  MapGood(fixup_intcx(t))
<1> DEFINE S == Of(IoBanks(t), Cards)
<1>0. m \in Map /\ PageTwo(m)
  BY DEF MapGood
<1>1. /\ t \in Map /\ t.statereg = m.statereg /\ t.shadow = m.shadow /\ t.wrdefram = m.wrdefram
      /\ t.stat = m.stat /\ t.breakpts = m.breakpts /\ t.rd = m.rd /\ t.wr = m.wr
  BY <1>0 DEF Map
<1>2. PageTwo(t)
  BY <1>0, <1>1 DEF PageTwo
<1>3. ASSUME NEW p \in Page
      PROVE  p \in S \/ (RdSame(m, t, p) /\ WrSame(m, t, p))
  <2>1. p \in S \/ ~(p[1] \in IoBanks(t) /\ p[2] \in Cards)
    BY DEF Of
  <2> HIDE DEF S
  <2> QED BY <1>1, <2>1
          DEF RdSame, WrSame, ALTZP, RDROM, LCBANK2, Iolc, Protect, Shadows, Shadowed,
              AuxHires, AuxRd, AuxWr, RAMRD, RAMWRT
<1>4. Alters(m, t, S, S)
  BY <1>1, <1>3, AsksAlters DEF Asks
<1>5. \E n : fixup_intcx(t) = fixup_brks(n) /\ Fixes(t, n, S, S)
  BY <1>1, FixIntcx
<1> QED BY <1>2, <1>4, <1>5, AltersFixed

LEMMA AllBanksGood ==
  ASSUME NEW m, MapGood(m), NEW on \in BOOLEAN, NEW t, t = [m EXCEPT !.all_banks = on]
  PROVE  MapGood(fixup_shadow_all_banks(t))
<1>0. m \in Map /\ PageTwo(m)
  BY DEF MapGood
<1>1. /\ t \in Map /\ t.statereg = m.statereg /\ t.shadow = m.shadow /\ t.wrdefram = m.wrdefram
      /\ t.int_crom = m.int_crom /\ t.stat = m.stat /\ t.breakpts = m.breakpts /\ t.rd = m.rd /\ t.wr = m.wr
  BY <1>0 DEF Map
<1>2. PageTwo(t)
  BY <1>0, <1>1 DEF PageTwo
<1>3. \A p \in Page : RdSame(m, t, p) /\ WrSame(m, t, p)
  BY <1>1 DEF RdSame, WrSame, ALTZP, RDROM, LCBANK2, INTCX, Iolc, Protect, SlotRom, Shadows, Shadowed,
              AuxHires, AuxRd, AuxWr, RAMRD, RAMWRT
<1>4. Alters(m, t, {}, {})
  BY <1>1, <1>3, AsksAlters DEF Asks
<1>5. \E n : fixup_shadow_all_banks(t) = fixup_brks(n) /\ Fixes(t, n, {}, {})
  BY <1>1, FixAllBanks
<1> QED BY <1>2, <1>4, <1>5, AltersFixed

LEMMA BreakGood ==
  ASSUME NEW m, MapGood(m), NEW b \in Breakpoint
  PROVE  MapGood(fixup_brks([m EXCEPT !.breakpts = m.breakpts \cup {b}]))
<1> DEFINE t == [m EXCEPT !.breakpts = m.breakpts \cup {b}]
<1>0. m \in Map /\ PageTwo(m)
  BY DEF MapGood
<1>1. /\ t \in Map /\ t.statereg = m.statereg /\ t.shadow = m.shadow /\ t.wrdefram = m.wrdefram
      /\ t.int_crom = m.int_crom /\ t.stat = m.stat /\ m.breakpts \subseteq t.breakpts
      /\ t.rd = m.rd /\ t.wr = m.wr
  BY <1>0 DEF Map
<1> HIDE DEF t
<1>2. PageTwo(t)
  BY <1>0, <1>1 DEF PageTwo
<1>3. \A p \in Page : RdSame(m, t, p) /\ WrSame(m, t, p)
  BY <1>1 DEF RdSame, WrSame, ALTZP, RDROM, LCBANK2, INTCX, Iolc, Protect, SlotRom, Shadows, Shadowed,
              AuxHires, AuxRd, AuxWr, RAMRD, RAMWRT
<1>4. Alters(m, t, {}, {})
  BY <1>1, <1>3, AsksAlters DEF Asks
<1>5. Fixes(t, t, {}, {})
  BY <1>1, FixesNothing
<1>6. MapGood(fixup_brks(t))
  BY <1>2, <1>4, <1>5, AltersFixed
<1> QED BY <1>6 DEF t

LEMMA WrdeframGood ==
  ASSUME NEW m, MapGood(m), NEW new \in BOOLEAN
  PROVE  MapGood(fixup_wrdefram(m, new))
<1> DEFINE t == [m EXCEPT !.wrdefram = new]
           W == IF Iolc(t) THEN High ELSE {}
<1>0. m \in Map /\ PageTwo(m)
  BY DEF MapGood
<1>1. /\ t \in Map /\ t.statereg = m.statereg /\ t.shadow = m.shadow /\ t.int_crom = m.int_crom
      /\ t.stat = m.stat /\ t.breakpts = m.breakpts /\ t.rd = m.rd /\ t.wr = m.wr
  BY <1>0 DEF Map
<1>2. t = [m EXCEPT !.wrdefram = new]
  OBVIOUS
<1> HIDE DEF t
<1>3. PageTwo(t)
  BY <1>0, <1>1 DEF PageTwo
<1>4. ASSUME NEW p \in Page
      PROVE  RdSame(m, t, p) /\ (p \in W \/ WrSame(m, t, p))
  <2>1. p \in W \/ ~(p[1] \in {"00", "01"} /\ p[2] \in {"d0", "e0"} /\ Iolc(t))
    BY DEF Of, High
  <2> HIDE DEF W
  <2> QED BY <1>1, <2>1
          DEF RdSame, WrSame, ALTZP, RDROM, LCBANK2, INTCX, Iolc, SlotRom, Shadows, Shadowed,
              AuxHires, AuxRd, AuxWr, RAMRD, RAMWRT
<1>5. Alters(m, t, {}, W)
  BY <1>1, <1>4, AsksAlters DEF Asks
<1>6. CASE Iolc(m)
  <2>1. \E n : fixup_wrdefram(m, new) = fixup_brks(n) /\ Fixes(t, n, {}, High)
    BY <1>0, <1>2, <1>6, FixWrdefram
  <2>2. W = High
    BY <1>1, <1>6 DEF Iolc
  <2> QED BY <1>3, <1>5, <2>1, <2>2, AltersFixed
<1>7. CASE ~Iolc(m)
  <2>1. fixup_wrdefram(m, new) = t /\ W = {}
    BY <1>1, <1>2, <1>7 DEF fixup_wrdefram, Iolc
  <2> QED BY <1>1, <1>3, <1>5, <2>1, AltersNothing
<1> QED BY <1>6, <1>7

(***************************************************************************)
(* The state register.                                                     *)
(***************************************************************************)
\* The pages that a switch's fix-up makes right.
RdScope(m, bit) ==
  CASE bit = "altzp" -> Of({"00"}, {"zp", "d0", "e0"})
    [] bit = "page2" -> Stores(m)
    [] bit = "ramrd" -> Unstores(m) \cup Of({"00"}, RamAreas)
    [] bit = "ramwrt" -> Unstores(m)
    [] bit = "rdrom" -> D0Pages \cup Of({"00", "01"}, {"e0"})
    [] bit = "lcbank2" -> D0Pages
    [] bit = "intcx" -> Of(IoBanks(m), Cards)
WrScope(m, bit) ==
  CASE bit = "altzp" -> Of({"00"}, {"zp", "d0", "e0"})
    [] bit = "page2" -> Stores(m)
    [] bit = "ramrd" -> Unstores(m)
    [] bit = "ramwrt" -> Unstores(m) \cup Of({"00"}, RamAreas)
    [] bit = "rdrom" -> D0Pages
    [] bit = "lcbank2" -> D0Pages
    [] bit = "intcx" -> Of(IoBanks(m), Cards)

LEMMA SameScope ==
  ASSUME NEW m, NEW n, SameSwitches(m, n), NEW bit \in Switch
  PROVE  RdScope(n, bit) = RdScope(m, bit) /\ WrScope(n, bit) = WrScope(m, bit)
<1>1. Stores(n) = Stores(m) /\ Unstores(n) = Unstores(m) /\ IoBanks(n) = IoBanks(m)
  BY DEF SameSwitches, Stores, Unstores, IoBanks, Iolc
<1> QED BY <1>1 DEF RdScope, WrScope

LEMMA FixOfSwitch ==
  ASSUME NEW m \in Map, NEW bit \in Switch \ {"page2"}
  PROVE  Fixes(m, FixSwitch(m, bit), RdScope(m, bit), WrScope(m, bit))
<1>1. CASE bit = "altzp"
  <2>1. Fixes(m, fixup_altzp(m), Of({"00"}, {"zp", "d0", "e0"}), Of({"00"}, {"zp", "d0", "e0"}))
    BY PutAltzp, PutsFixes
  <2> QED BY <1>1, <2>1 DEF FixSwitch, RdScope, WrScope
<1>2. CASE bit = "ramrd"
  BY <1>2, FixRamrd DEF FixSwitch, RdScope, WrScope
<1>3. CASE bit = "ramwrt"
  BY <1>3, FixRamwrt DEF FixSwitch, RdScope, WrScope
<1>4. CASE bit = "rdrom"
  BY <1>4, FixRdrom DEF FixSwitch, RdScope, WrScope
<1>5. CASE bit = "lcbank2"
  BY <1>5, FixLcbank2 DEF FixSwitch, RdScope, WrScope
<1>6. CASE bit = "intcx"
  BY <1>6, FixIntcx DEF FixSwitch, RdScope, WrScope
<1> QED BY <1>1, <1>2, <1>3, <1>4, <1>5, <1>6 DEF Switch

Due(on, S) == IF on THEN S ELSE {}
Changed(bit, old, val) == (bit \in old) # (bit \in val)

\* One step of set_statereg, after the pages R and W.
LEMMA SwitchStep ==
  ASSUME NEW u \in Map, NEW t, NEW R, NEW W, Fixes(u, t, R, W),
         NEW bit \in Switch \ {"page2"}, NEW old, NEW val
  PROVE  Fixes(u, FixSwitched(t, bit, old, val),
               R \cup Due(Changed(bit, old, val), RdScope(u, bit)),
               W \cup Due(Changed(bit, old, val), WrScope(u, bit)))
<1>1. t \in Map /\ SameSwitches(u, t)
  BY DEF Fixes
<1>2. CASE Changed(bit, old, val)
  <2>1. FixSwitched(t, bit, old, val) = FixSwitch(t, bit)
    BY <1>2 DEF FixSwitched, When, Changed
  <2>2. Fixes(t, FixSwitch(t, bit), RdScope(u, bit), WrScope(u, bit))
    BY <1>1, FixOfSwitch, SameScope
  <2>3. Fixes(u, FixSwitch(t, bit), R \cup RdScope(u, bit), W \cup WrScope(u, bit))
    BY <2>2, FixesChain
  <2> QED BY <1>2, <2>1, <2>3 DEF Due
<1>3. CASE ~Changed(bit, old, val)
  <2>1. FixSwitched(t, bit, old, val) = t
    BY <1>3 DEF FixSwitched, When, Changed
  <2>2. R \cup {} = R /\ W \cup {} = W
    OBVIOUS
  <2> QED BY <1>3, <2>1, <2>2 DEF Due
<1> QED BY <1>2, <1>3

\* While ALTZP is fixed up, the copy of the page 2 switch is still the old one;
\* the order does not matter.
LEMMA AltzpFirst ==
  ASSUME NEW t0 \in Map, NEW u, u = CopyPage2(t0), NEW on \in BOOLEAN, NEW t1,
         t1 = When(on, fixup_altzp(t0), t0)
  PROVE  /\ u \in Map /\ u.rd = t0.rd /\ u.wr = t0.wr /\ t1 \in Map /\ SameSwitches(t0, t1)
         /\ Fixes(u, CopyPage2(t1), Due(on, RdScope(u, "altzp")), Due(on, WrScope(u, "altzp")))
<1> DEFINE S == Of({"00"}, {"zp", "d0", "e0"})
           n == fixup_altzp(t0)
           v == CopyPage2(n)
<1>1. u \in Map /\ u.rd = t0.rd /\ u.wr = t0.wr
  BY DEF CopyPage2, Map
<1>2. CASE ~on
  <2>1. t1 = t0
    BY <1>2 DEF When
  <2> QED BY <1>1, <1>2, <2>1, FixesNothing DEF Due, SameSwitches
<1>3. CASE on
  <2>1. t1 = n
    BY <1>3 DEF When
  <2>2. Puts(t0, n, S, S) /\ n \in Map /\ SameSwitches(t0, n)
    BY PutAltzp, PutsFixes DEF Fixes
  <2> HIDE DEF n
  <2>3. ASSUME NEW p \in S
        PROVE  RdWanted(u, p) = RdWanted(t0, p) /\ WrWanted(u, p) = WrWanted(t0, p)
    <3>1. /\ ALTZP(u) = ALTZP(t0) /\ Iolc(u) = Iolc(t0) /\ RDROM(u) = RDROM(t0)
          /\ LCBANK2(u) = LCBANK2(t0) /\ Protect(u) = Protect(t0)
      BY DEF CopyPage2, Map, ALTZP, Iolc, RDROM, LCBANK2, Protect
    <3>2. p \in Page /\ p[1] = "00" /\ p[2] \in {"zp", "d0", "e0"}
      BY DEF Of
    <3>3. p[2] \notin Screens \cup Plain /\ p[2] \notin Cards
      BY <3>2, SlotNames DEF Screens, Plain, SuperHires, Cards
    <3>4. RdSame(t0, u, p) /\ WrSame(t0, u, p) /\ p[1] # "odd"
      BY <3>1, <3>2, <3>3 DEF RdSame, WrSame
    <3> QED BY <3>2, <3>4, SameAsked
  <2>4. v = [u EXCEPT !.rd = n.rd, !.wr = n.wr] /\ v.rd = n.rd /\ v.wr = n.wr
    BY <2>2 DEF SameSwitches, CopyPage2, Map
  <2> HIDE DEF v
  <2>5. /\ n.rd = [p \in Page |-> IF p \in S THEN RdWanted(t0, p) ELSE t0.rd[p]]
        /\ n.wr = [p \in Page |-> IF p \in S THEN WrWanted(t0, p) ELSE t0.wr[p]]
    BY <2>2 DEF Puts
  <2> HIDE DEF S
  <2>6. Wants(u, n.rd, n.wr, S, S)
    BY <1>1, <2>3, <2>5 DEF Wants
  <2>7. Tables(u, v, n.rd, n.wr)
    BY <2>2, <2>4 DEF Tables, Map
  <2>8. Fixes(u, v, S, S)
    BY <1>1, <2>6, <2>7, PutsFrom, PutsFixes
  <2> QED BY <1>1, <1>3, <2>1, <2>2, <2>8 DEF Due, RdScope, WrScope, S, v
<1> QED BY <1>2, <1>3

\* The pages outside the scopes of the switches that changed.
RdScopes(m, old, val) ==
  Due(Changed("altzp", old, val), RdScope(m, "altzp"))
    \cup Due(Changed("page2", old, val), RdScope(m, "page2"))
    \cup Due(Changed("ramrd", old, val), RdScope(m, "ramrd"))
    \cup Due(Changed("ramwrt", old, val), RdScope(m, "ramwrt"))
    \cup Due(Changed("rdrom", old, val), RdScope(m, "rdrom"))
    \cup Due(Changed("lcbank2", old, val), RdScope(m, "lcbank2"))
    \cup Due(Changed("intcx", old, val), RdScope(m, "intcx"))
WrScopes(m, old, val) ==
  Due(Changed("altzp", old, val), WrScope(m, "altzp"))
    \cup Due(Changed("page2", old, val), WrScope(m, "page2"))
    \cup Due(Changed("ramrd", old, val), WrScope(m, "ramrd"))
    \cup Due(Changed("ramwrt", old, val), WrScope(m, "ramwrt"))
    \cup Due(Changed("rdrom", old, val), WrScope(m, "rdrom"))
    \cup Due(Changed("lcbank2", old, val), WrScope(m, "lcbank2"))
    \cup Due(Changed("intcx", old, val), WrScope(m, "intcx"))

\* u has the switches of m but for the state register and the copy of page 2.
Switched(m, u, val) ==
  /\ u \in Map /\ m \in Map /\ PageTwo(m) /\ PageTwo(u)
  /\ u.statereg = val /\ u.shadow = m.shadow /\ u.wrdefram = m.wrdefram
  /\ u.int_crom = m.int_crom /\ u.breakpts = m.breakpts /\ u.rd = m.rd /\ u.wr = m.wr
  /\ "st80" \in u.stat <=> "st80" \in m.stat
  /\ "hires" \in u.stat <=> "hires" \in m.stat

LEMMA SwitchAsks ==
  ASSUME NEW m, NEW u, NEW val, Switched(m, u, val)
  PROVE  Asks(m, u, RdScopes(u, m.statereg, val), WrScopes(u, m.statereg, val))
<1> DEFINE C(bit) == Changed(bit, m.statereg, val)
<1>1. /\ C("altzp") \/ ALTZP(u) = ALTZP(m)
      /\ C("ramrd") \/ RAMRD(u) = RAMRD(m)
      /\ C("ramwrt") \/ RAMWRT(u) = RAMWRT(m)
      /\ C("rdrom") \/ RDROM(u) = RDROM(m)
      /\ C("lcbank2") \/ LCBANK2(u) = LCBANK2(m)
      /\ C("intcx") \/ INTCX(u) = INTCX(m)
      /\ C("page2") \/ (("page2" \in u.stat) <=> ("page2" \in m.stat))
  BY DEF Changed, Switched, PageTwo, ALTZP, RAMRD, RAMWRT, RDROM, LCBANK2, INTCX
<1>2. /\ Iolc(u) = Iolc(m) /\ Protect(u) = Protect(m)
      /\ \A aux, a : Shadows(u, aux, a) = Shadows(m, aux, a)
      /\ C("intcx") \/ \A a : SlotRom(u, a) = SlotRom(m, a)
  BY <1>1 DEF Switched, Iolc, Protect, Shadows, Shadowed, AuxHires, SlotRom
<1> HIDE DEF C
<1>3. ASSUME NEW p \in Page
      PROVE  p \in RdScopes(u, m.statereg, val) \/ RdSame(m, u, p)
  <2>1. C("altzp") /\ p[1] = "00" /\ p[2] \in {"zp", "d0", "e0"} => p \in RdScopes(u, m.statereg, val)
    BY DEF RdScopes, Due, RdScope, Of, C
  <2>2. C("page2") /\ p[1] = "00" /\ "st80" \in u.stat
          /\ (p[2] = "txt1" \/ (p[2] = "hgr1" /\ "hires" \in u.stat)) => p \in RdScopes(u, m.statereg, val)
    BY DEF RdScopes, Due, RdScope, Of, C, Stores
  <2>3. C("ramrd") /\ p[1] = "00" /\ p[2] \in Screens \cup Plain
          /\ ~("st80" \in u.stat /\ (p[2] = "txt1" \/ (p[2] = "hgr1" /\ "hires" \in u.stat)))
          => p \in RdScopes(u, m.statereg, val)
    <3>1. Screens \cup Plain = {"txt1", "hgr1"} \cup RamAreas
      BY DEF Screens, SuperHires, RamAreas
    <3> QED BY <3>1 DEF RdScopes, Due, RdScope, Of, C, Unstores
  <2>4. (C("rdrom") /\ p[1] \in {"00", "01"} /\ p[2] \in {"d0", "e0"}) => p \in RdScopes(u, m.statereg, val)
    BY DEF RdScopes, Due, RdScope, Of, C, D0Pages
  <2>5. (C("lcbank2") /\ p[2] = "d0") => p \in RdScopes(u, m.statereg, val)
    BY Pairs DEF RdScopes, Due, RdScope, Of, C, D0Pages
  <2>6. (C("intcx") /\ p[1] \in IoBanks(u) /\ p[2] \in Cards) => p \in RdScopes(u, m.statereg, val)
    BY DEF RdScopes, Due, RdScope, Of, C
  <2>7. p \in RdScopes(u, m.statereg, val) \/ p[1] # "00" \/ p[2] \notin Screens \cup Plain
          \/ AuxRd(u, p[2]) = AuxRd(m, p[2])
    BY <1>1, <2>2, <2>3 DEF Switched, AuxRd
  <2> QED BY <1>1, <1>2, <2>1, <2>4, <2>5, <2>6, <2>7 DEF RdSame
<1>4. ASSUME NEW p \in Page
      PROVE  p \in WrScopes(u, m.statereg, val) \/ WrSame(m, u, p)
  <2>1. C("altzp") /\ p[1] = "00" /\ p[2] \in {"zp", "d0", "e0"} => p \in WrScopes(u, m.statereg, val)
    BY DEF WrScopes, Due, WrScope, Of, C
  <2>2. C("page2") /\ p[1] = "00" /\ "st80" \in u.stat
          /\ (p[2] = "txt1" \/ (p[2] = "hgr1" /\ "hires" \in u.stat)) => p \in WrScopes(u, m.statereg, val)
    BY DEF WrScopes, Due, WrScope, Of, C, Stores
  <2>3. C("ramwrt") /\ p[1] = "00" /\ p[2] \in Screens \cup Plain
          /\ ~("st80" \in u.stat /\ (p[2] = "txt1" \/ (p[2] = "hgr1" /\ "hires" \in u.stat)))
          => p \in WrScopes(u, m.statereg, val)
    <3>1. Screens \cup Plain = {"txt1", "hgr1"} \cup RamAreas
      BY DEF Screens, SuperHires, RamAreas
    <3> QED BY <3>1 DEF WrScopes, Due, WrScope, Of, C, Unstores
  <2>5. (C("lcbank2") /\ p[2] = "d0") => p \in WrScopes(u, m.statereg, val)
    BY Pairs DEF WrScopes, Due, WrScope, Of, C, D0Pages
  <2>7. p \in WrScopes(u, m.statereg, val) \/ p[1] # "00" \/ p[2] \notin Screens \cup Plain
          \/ AuxWr(u, p[2]) = AuxWr(m, p[2])
    BY <1>1, <2>2, <2>3 DEF Switched, AuxWr
  <2> QED BY <1>1, <1>2, <2>1, <2>5, <2>7 DEF WrSame
<1> QED BY <1>3, <1>4 DEF Asks

LEMMA StateregGood ==
  ASSUME NEW m, MapGood(m), NEW val \in SUBSET Switch
  PROVE  MapGood(set_statereg(m, val))
<1> DEFINE old == m.statereg
           t0 == [m EXCEPT !.statereg = val]
           u == CopyPage2(t0)
           t1 == FixSwitched(t0, "altzp", old, val)
           t2 == FixSwitched(t1, "page2", old, val)
           t3 == FixSwitched(t2, "ramrd", old, val)
           t4 == FixSwitched(t3, "ramwrt", old, val)
           t5 == FixSwitched(t4, "rdrom", old, val)
           t6 == FixSwitched(t5, "lcbank2", old, val)
           t7 == FixSwitched(t6, "intcx", old, val)
           D(bit) == Due(Changed(bit, old, val), RdScope(u, bit))
           E(bit) == Due(Changed(bit, old, val), WrScope(u, bit))
<1>1. set_statereg(m, val) = IF m.statereg = val THEN m ELSE fixup_brks(t7)
  BY DEF set_statereg, When
<1>2. m \in Map /\ PageTwo(m)
  BY DEF MapGood
<1>3. t0 \in Map /\ t0.statereg = val /\ t0.stat = m.stat /\ t0.shadow = m.shadow
      /\ t0.wrdefram = m.wrdefram /\ t0.int_crom = m.int_crom /\ t0.breakpts = m.breakpts
      /\ t0.rd = m.rd /\ t0.wr = m.wr
  BY <1>2 DEF Map
<1> HIDE DEF t0
<1>4. /\ u.statereg = val /\ u.shadow = m.shadow /\ u.wrdefram = m.wrdefram /\ u.int_crom = m.int_crom
      /\ u.breakpts = m.breakpts /\ u.stat = (m.stat \ {"page2"}) \cup (val \cap {"page2"})
  BY <1>3 DEF CopyPage2, Map
<1>5. t1 = When(Changed("altzp", old, val), fixup_altzp(t0), t0)
  <2>1. FixSwitch(t0, "altzp") = fixup_altzp(t0)
    BY DEF FixSwitch
  <2>2. t1 = IF Changed("altzp", old, val) THEN FixSwitch(t0, "altzp") ELSE t0
    BY DEF FixSwitched, Changed, When
  <2> QED BY <2>1, <2>2 DEF When
<1>6. u = CopyPage2(t0) /\ Changed("altzp", old, val) \in BOOLEAN
  BY DEF Changed
<1> HIDE DEF u, t1
<1>7. /\ u \in Map /\ u.rd = m.rd /\ u.wr = m.wr /\ t1 \in Map /\ SameSwitches(t0, t1)
      /\ Fixes(u, CopyPage2(t1), D("altzp"), E("altzp"))
  BY <1>3, <1>5, <1>6, AltzpFirst
<1>8. Switched(m, u, val) /\ PageTwo(u)
  BY <1>2, <1>4, <1>7 DEF Switched, PageTwo
<1>9. Fixes(u, t2, D("altzp") \cup D("page2"), E("altzp") \cup E("page2"))
  <2> DEFINE v == CopyPage2(t1)
  <2>1. v \in Map /\ SameSwitches(u, v)
    BY <1>7 DEF Fixes
  <2>2. CASE Changed("page2", old, val)
    <3>1. t2 = fixup_page2(v)
      <4>1. FixSwitch(t1, "page2") = fixup_page2(v)
        BY DEF FixSwitch
      <4>2. t2 = FixSwitch(t1, "page2")
        BY <2>2 DEF FixSwitched, Changed, When
      <4> QED BY <4>1, <4>2
    <3> HIDE DEF v, t2
    <3>2. Fixes(v, t2, RdScope(u, "page2"), WrScope(u, "page2"))
      <4>1. Stores(v) = Stores(u)
        BY <2>1 DEF SameSwitches, Stores
      <4> QED BY <2>1, <3>1, <4>1, FixPage2 DEF RdScope, WrScope
    <3>3. Fixes(u, t2, D("altzp") \cup RdScope(u, "page2"), E("altzp") \cup WrScope(u, "page2"))
      <4> HIDE DEF D, E
      <4> QED BY <1>7, <3>2, FixesChain DEF v
    <3> QED BY <2>2, <3>3 DEF Due
  <2>3. CASE ~Changed("page2", old, val)
    <3>1. t2 = t1
      BY <2>3 DEF FixSwitched, Changed, When
    <3>2. v = t1
      <4>1. t1.stat = m.stat /\ t1.statereg = val /\ t1 \in Map
        BY <1>3, <1>7 DEF SameSwitches
      <4>2. (t1.stat \ {"page2"}) \cup (t1.statereg \cap {"page2"}) = t1.stat
        BY <1>2, <2>3, <4>1 DEF PageTwo, Changed
      <4>3. v = [t1 EXCEPT !.stat = t1.stat]
        BY <4>2 DEF CopyPage2
      <4> QED BY <4>1, <4>3 DEF Map
    <3> HIDE DEF v, t2
    <3>3. D("page2") = {} /\ E("page2") = {}
      BY <2>3 DEF Due
    <3>4. D("altzp") \cup {} = D("altzp") /\ E("altzp") \cup {} = E("altzp")
      OBVIOUS
    <3> QED BY <1>7, <3>1, <3>2, <3>3, <3>4 DEF v
  <2> QED BY <2>2, <2>3
<1> HIDE DEF t2
<1>10. {"altzp", "ramrd", "ramwrt", "rdrom", "lcbank2", "intcx"} \subseteq Switch \ {"page2"}
  BY DEF Switch
<1> DEFINE R2 == D("altzp") \cup D("page2")
           R3 == R2 \cup D("ramrd")
           R4 == R3 \cup D("ramwrt")
           R5 == R4 \cup D("rdrom")
           R6 == R5 \cup D("lcbank2")
           R7 == R6 \cup D("intcx")
           W2 == E("altzp") \cup E("page2")
           W3 == W2 \cup E("ramrd")
           W4 == W3 \cup E("ramwrt")
           W5 == W4 \cup E("rdrom")
           W6 == W5 \cup E("lcbank2")
           W7 == W6 \cup E("intcx")
<1>11. R7 = RdScopes(u, old, val) /\ W7 = WrScopes(u, old, val)
  BY DEF RdScopes, WrScopes
<1>12. Fixes(u, t2, R2, W2)
  BY <1>9
<1> HIDE DEF R2, W2
<1>13. Fixes(u, t3, R3, W3)
  BY <1>7, <1>10, <1>12, SwitchStep
<1> HIDE DEF t3, R3, W3
<1>14. Fixes(u, t4, R4, W4)
  BY <1>7, <1>10, <1>13, SwitchStep
<1> HIDE DEF t4, R4, W4
<1>15. Fixes(u, t5, R5, W5)
  BY <1>7, <1>10, <1>14, SwitchStep
<1> HIDE DEF t5, R5, W5
<1>16. Fixes(u, t6, R6, W6)
  BY <1>7, <1>10, <1>15, SwitchStep
<1> HIDE DEF t6, R6, W6
<1>17. Fixes(u, t7, R7, W7)
  BY <1>7, <1>10, <1>16, SwitchStep
<1> HIDE DEF t7, R7, W7, old
<1>18. Alters(m, u, R7, W7)
  BY <1>4, <1>7, <1>8, <1>11, SwitchAsks, AsksAlters DEF old
<1>19. MapGood(fixup_brks(t7))
  BY <1>8, <1>17, <1>18, AltersFixed
<1> QED BY <1>1, <1>19

(***************************************************************************)
(* The shadow register.                                                    *)
(***************************************************************************)
RdInhibited(bit) ==
  CASE bit \in {"shr", "aux", "hires1"} -> Of({"00"}, {"hgr1"})
    [] bit = "txt1" -> Of({"00"}, {"txt1"})
    [] bit \in {"hires2", "txt2"} -> {}
    [] bit = "iolc" -> IolcPages
WrInhibited(bit) ==
  CASE bit = "shr" -> Of({"00", "01"}, {"hgr1", "hgr2", "shr"})
    [] bit = "aux" -> Of({"00", "01"}, {"hgr1", "hgr2"})
    [] bit = "hires1" -> Of({"00", "01"}, {"hgr1"})
    [] bit = "hires2" -> Of({"00", "01"}, {"hgr2"})
    [] bit = "txt1" -> Of({"00", "01"}, {"txt1"})
    [] bit = "txt2" -> IF Page2Shadow THEN Of({"00", "01"}, {"txt2"}) ELSE {}
    [] bit = "iolc" -> IolcPages

LEMMA FixOfInhibit ==
  ASSUME NEW m \in Map, NEW bit \in Inhibit
  PROVE  Fixes(m, FixInhibit(m, bit), RdInhibited(bit), WrInhibited(bit))
<1>1. CASE bit = "shr"
  <2> DEFINE t == Hires12(m)
             H == Of({"00"}, {"hgr1"})
             W1 == Of({"00", "01"}, {"hgr1", "hgr2"})
             W2 == Of({"00", "01"}, {"shr"})
  <2>1. Fixes(m, t, H, W1) /\ t \in Map
    BY FixHires12 DEF Fixes
  <2>2. FixInhibit(m, bit) = fixup_shadow_shr(t)
    BY <1>1 DEF FixInhibit
  <2> HIDE DEF t
  <2>3. Fixes(t, fixup_shadow_shr(t), {}, W2)
    BY <2>1, FixShr
  <2>4. W1 \cup W2 = WrInhibited(bit) /\ H \cup {} = RdInhibited(bit)
    BY <1>1 DEF Of, WrInhibited, RdInhibited
  <2> HIDE DEF W1, W2, H
  <2>5. Fixes(m, fixup_shadow_shr(t), H \cup {}, W1 \cup W2)
    BY <2>1, <2>3, FixesChain
  <2> QED BY <2>2, <2>4, <2>5
<1>2. CASE bit = "aux"
  BY <1>2, FixHires12 DEF FixInhibit, RdInhibited, WrInhibited
<1>3. CASE bit = "hires1"
  BY <1>3, FixHires1 DEF FixInhibit, RdInhibited, WrInhibited
<1>4. CASE bit = "hires2"
  BY <1>4, FixHires2 DEF FixInhibit, RdInhibited, WrInhibited
<1>5. CASE bit = "txt1"
  BY <1>5, FixTxt1 DEF FixInhibit, RdInhibited, WrInhibited
<1>6. CASE bit = "txt2"
  BY <1>6, FixTxt2, FixesNothing DEF FixInhibit, RdInhibited, WrInhibited, When
<1>7. CASE bit = "iolc"
  BY <1>7, FixIolc DEF FixInhibit, RdInhibited, WrInhibited
<1> QED BY <1>1, <1>2, <1>3, <1>4, <1>5, <1>6, <1>7 DEF Inhibit

LEMMA InhibitStep ==
  ASSUME NEW u \in Map, NEW t, NEW R, NEW W, Fixes(u, t, R, W),
         NEW bit \in Inhibit, NEW old, NEW val
  PROVE  Fixes(u, FixInhibited(t, bit, old, val),
               R \cup Due(Inhibits(bit, old, val), RdInhibited(bit)),
               W \cup Due(Inhibits(bit, old, val), WrInhibited(bit)))
<1>1. t \in Map
  BY DEF Fixes
<1>2. CASE Inhibits(bit, old, val)
  <2>1. FixInhibited(t, bit, old, val) = FixInhibit(t, bit)
    BY <1>2 DEF FixInhibited, When
  <2>2. Fixes(u, FixInhibit(t, bit), R \cup RdInhibited(bit), W \cup WrInhibited(bit))
    BY <1>1, FixOfInhibit, FixesChain
  <2> QED BY <1>2, <2>1, <2>2 DEF Due
<1>3. CASE ~Inhibits(bit, old, val)
  <2>1. FixInhibited(t, bit, old, val) = t
    BY <1>3 DEF FixInhibited, When
  <2>2. R \cup {} = R /\ W \cup {} = W
    OBVIOUS
  <2> QED BY <1>3, <2>1, <2>2 DEF Due
<1> QED BY <1>2, <1>3

RdInhibits(old, val) ==
  Due(Inhibits("shr", old, val), RdInhibited("shr"))
    \cup Due(Inhibits("aux", old, val), RdInhibited("aux"))
    \cup Due(Inhibits("hires1", old, val), RdInhibited("hires1"))
    \cup Due(Inhibits("hires2", old, val), RdInhibited("hires2"))
    \cup Due(Inhibits("txt1", old, val), RdInhibited("txt1"))
    \cup Due(Inhibits("txt2", old, val), RdInhibited("txt2"))
    \cup Due(Inhibits("iolc", old, val), RdInhibited("iolc"))
WrInhibits(old, val) ==
  Due(Inhibits("shr", old, val), WrInhibited("shr"))
    \cup Due(Inhibits("aux", old, val), WrInhibited("aux"))
    \cup Due(Inhibits("hires1", old, val), WrInhibited("hires1"))
    \cup Due(Inhibits("hires2", old, val), WrInhibited("hires2"))
    \cup Due(Inhibits("txt1", old, val), WrInhibited("txt1"))
    \cup Due(Inhibits("txt2", old, val), WrInhibited("txt2"))
    \cup Due(Inhibits("iolc", old, val), WrInhibited("iolc"))

\* A bit that is not looked at again was done with another.
LEMMA InhibitAsks ==
  ASSUME NEW m \in Map, NEW u \in Map, NEW val,
         u.statereg = m.statereg, u.stat = m.stat, u.shadow = val, u.wrdefram = m.wrdefram,
         u.int_crom = m.int_crom
  PROVE  Asks(m, u, RdInhibits(m.shadow, val), WrInhibits(m.shadow, val))
<1> DEFINE old == m.shadow
           I(bit) == Inhibits(bit, old, val)
           C(bit) == Changed(bit, old, val)
<1>1. \A bit : C(bit) \/ Shadowed(u, bit) = Shadowed(m, bit)
  BY DEF Changed, Shadowed
<1>2. /\ ALTZP(u) = ALTZP(m) /\ RDROM(u) = RDROM(m) /\ LCBANK2(u) = LCBANK2(m) /\ Protect(u) = Protect(m)
      /\ \A a : AuxRd(u, a) = AuxRd(m, a) /\ AuxWr(u, a) = AuxWr(m, a) /\ SlotRom(u, a) = SlotRom(m, a)
      /\ C("iolc") \/ Iolc(u) = Iolc(m)
  BY <1>1 DEF ALTZP, RDROM, LCBANK2, Protect, AuxRd, AuxWr, RAMRD, RAMWRT, SlotRom, INTCX, Iolc, Shadowed
<1>3. /\ C("shr") => I("shr")
      /\ C("aux") /\ ~C("shr") => I("aux")
      /\ C("hires1") /\ ~C("shr") /\ ~C("aux") => I("hires1")
      /\ C("hires2") /\ ~C("shr") /\ ~C("aux") => I("hires2")
      /\ C("txt1") => I("txt1")
      /\ C("txt2") => I("txt2")
      /\ C("iolc") => I("iolc")
  BY DEF Inhibits, AlreadyDone, Changed
<1>4. /\ \A aux : C("txt1") \/ Shadows(u, aux, "txt1") = Shadows(m, aux, "txt1")
      /\ \A aux : (C("txt2") /\ Page2Shadow) \/ Shadows(u, aux, "txt2") = Shadows(m, aux, "txt2")
      /\ \A aux : C("shr") \/ C("aux") \/ C("hires1") \/ Shadows(u, aux, "hgr1") = Shadows(m, aux, "hgr1")
      /\ \A aux : C("shr") \/ C("aux") \/ C("hires2") \/ Shadows(u, aux, "hgr2") = Shadows(m, aux, "hgr2")
      /\ \A aux : C("shr") \/ Shadows(u, aux, "shr") = Shadows(m, aux, "shr")
      /\ \A aux, a : a \in Plain => Shadows(u, aux, a) = Shadows(m, aux, a)
  <2> HIDE DEF C
  <2> QED BY <1>1, SlotNames DEF Shadows, AuxHires, Plain, MarksIf
<1> HIDE DEF C, I
<1>5. ASSUME NEW p \in Page
      PROVE  p \in RdInhibits(old, val) \/ RdSame(m, u, p)
  <2>1. I("iolc") /\ p[1] \in {"00", "01"} /\ p[2] \in Cards \cup {"d0", "e0"} => p \in RdInhibits(old, val)
    BY DEF RdInhibits, RdInhibited, Due, I, IolcPages, Of
  <2> QED BY <1>2, <1>3, <2>1 DEF RdSame
<1>6. ASSUME NEW p \in Page
      PROVE  p \in WrInhibits(old, val) \/ p[1] = "odd" \/ WrSame(m, u, p)
  <2>1. I("iolc") /\ p[1] \in {"00", "01"} /\ p[2] \in Cards \cup {"d0", "e0"} => p \in WrInhibits(old, val)
    BY DEF WrInhibits, WrInhibited, Due, I, IolcPages, Of
  <2>2. /\ I("txt1") /\ p[1] \in {"00", "01"} /\ p[2] = "txt1" => p \in WrInhibits(old, val)
        /\ I("txt2") /\ Page2Shadow /\ p[1] \in {"00", "01"} /\ p[2] = "txt2" => p \in WrInhibits(old, val)
        /\ I("shr") /\ p[1] \in {"00", "01"} /\ p[2] \in {"hgr1", "hgr2", "shr"} => p \in WrInhibits(old, val)
        /\ I("aux") /\ p[1] \in {"00", "01"} /\ p[2] \in {"hgr1", "hgr2"} => p \in WrInhibits(old, val)
        /\ I("hires1") /\ p[1] \in {"00", "01"} /\ p[2] = "hgr1" => p \in WrInhibits(old, val)
        /\ I("hires2") /\ p[1] \in {"00", "01"} /\ p[2] = "hgr2" => p \in WrInhibits(old, val)
    BY DEF WrInhibits, WrInhibited, Due, I, Of
  <2>3. p \in WrInhibits(old, val) \/ p[1] \notin {"00", "01"} \/ p[2] \notin Screens \cup Plain
          \/ \A aux : Shadows(u, aux, p[2]) = Shadows(m, aux, p[2])
    BY <1>3, <1>4, <2>2 DEF Screens, SuperHires
  <2> QED BY <1>2, <1>3, <2>1, <2>3 DEF WrSame
<1> QED BY <1>5, <1>6 DEF Asks

LEMMA ShadowGood ==
  ASSUME NEW m, MapGood(m), NEW val \in SUBSET Inhibit
  PROVE  MapGood(update_shadow_reg(m, val))
<1> DEFINE old == m.shadow
           u == [m EXCEPT !.shadow = val]
           t1 == FixInhibited(u, "shr", old, val)
           t2 == FixInhibited(t1, "aux", old, val)
           t3 == FixInhibited(t2, "hires1", old, val)
           t4 == FixInhibited(t3, "hires2", old, val)
           t5 == FixInhibited(t4, "txt1", old, val)
           t6 == FixInhibited(t5, "txt2", old, val)
           t7 == FixInhibited(t6, "iolc", old, val)
           D(bit) == Due(Inhibits(bit, old, val), RdInhibited(bit))
           E(bit) == Due(Inhibits(bit, old, val), WrInhibited(bit))
           R1 == D("shr")
           R2 == R1 \cup D("aux")
           R3 == R2 \cup D("hires1")
           R4 == R3 \cup D("hires2")
           R5 == R4 \cup D("txt1")
           R6 == R5 \cup D("txt2")
           R7 == R6 \cup D("iolc")
           W1 == E("shr")
           W2 == W1 \cup E("aux")
           W3 == W2 \cup E("hires1")
           W4 == W3 \cup E("hires2")
           W5 == W4 \cup E("txt1")
           W6 == W5 \cup E("txt2")
           W7 == W6 \cup E("iolc")
<1>1. update_shadow_reg(m, val) = IF m.shadow = val THEN m ELSE fixup_brks(t7)
  BY DEF update_shadow_reg, When
<1>2. m \in Map /\ PageTwo(m)
  BY DEF MapGood
<1>3. u \in Map /\ u.statereg = m.statereg /\ u.stat = m.stat /\ u.shadow = val
      /\ u.wrdefram = m.wrdefram /\ u.int_crom = m.int_crom /\ u.breakpts = m.breakpts
      /\ u.rd = m.rd /\ u.wr = m.wr
  BY <1>2 DEF Map
<1> HIDE DEF u
<1>4. PageTwo(u)
  BY <1>2, <1>3 DEF PageTwo
<1>5. {"shr", "aux", "hires1", "hires2", "txt1", "txt2", "iolc"} \subseteq Inhibit
  BY DEF Inhibit
<1>6. R7 = RdInhibits(old, val) /\ W7 = WrInhibits(old, val)
  BY DEF RdInhibits, WrInhibits
<1>7. Fixes(u, t1, R1, W1)
  <2>1. Fixes(u, t1, {} \cup R1, {} \cup W1)
    BY <1>3, <1>5, FixesNothing, InhibitStep
  <2>2. {} \cup R1 = R1 /\ {} \cup W1 = W1
    OBVIOUS
  <2> HIDE DEF t1, R1, W1
  <2> QED BY <2>1, <2>2
<1> HIDE DEF t1, R1, W1
<1>8. Fixes(u, t2, R2, W2)
  BY <1>3, <1>5, <1>7, InhibitStep
<1> HIDE DEF t2, R2, W2
<1>9. Fixes(u, t3, R3, W3)
  BY <1>3, <1>5, <1>8, InhibitStep
<1> HIDE DEF t3, R3, W3
<1>10. Fixes(u, t4, R4, W4)
  BY <1>3, <1>5, <1>9, InhibitStep
<1> HIDE DEF t4, R4, W4
<1>11. Fixes(u, t5, R5, W5)
  BY <1>3, <1>5, <1>10, InhibitStep
<1> HIDE DEF t5, R5, W5
<1>12. Fixes(u, t6, R6, W6)
  BY <1>3, <1>5, <1>11, InhibitStep
<1> HIDE DEF t6, R6, W6
<1>13. Fixes(u, t7, R7, W7)
  BY <1>3, <1>5, <1>12, InhibitStep
<1> HIDE DEF t7, R7, W7, old
<1>14. Alters(m, u, R7, W7)
  BY <1>2, <1>3, <1>6, InhibitAsks, AsksAlters DEF old
<1>15. MapGood(fixup_brks(t7))
  BY <1>4, <1>13, <1>14, AltersFixed
<1> QED BY <1>1, <1>15

(***************************************************************************)
(* Everything anew.                                                        *)
(***************************************************************************)
LEMMA SelfType == Self \in [Page -> Target]
<1>1. \A p \in Page : To(p[1], p[2], {}) \in Target
  BY Pairs, ToType
<1> QED BY <1>1 DEF Self

Twins(areas) == Of({"00", "01"}, areas)
Main(areas) == Of({"00"}, areas)

LEMMA SetupSteps ==
  ASSUME NEW m \in Map
  PROVE  /\ Fixes(m, fixup_shadow_all_banks(m), {}, {})
         /\ Fixes(m, fixup_intcx(m), Of({"E0", "E1"}, Cards), Of({"E0", "E1"}, Cards))
         /\ Fixes(m, fixup_lcbank2(m), D0Pages, D0Pages)
         /\ Fixes(m, fixup_bank0_2000_4000(m), Main({"hgr1"}), {})
         /\ Fixes(m, fixup_bank0_0400_0800(m), Main({"txt1"}), {})
         /\ Fixes(m, FixCard(m), {}, {})
         /\ Fixes(m, FixSwitches(m), Main({"zp"} \cup RamAreas), Main({"zp"} \cup Plain))
<1>1. Fixes(m, fixup_shadow_all_banks(m), {}, {})
  BY FixAllBanks, FixThenArm
<1>2. Fixes(m, fixup_intcx(m), Of({"E0", "E1"}, Cards), Of({"E0", "E1"}, Cards))
  <2>1. Of({"E0", "E1"}, Cards) \subseteq Of(IoBanks(m), Cards)
    BY DEF Of, IoBanks
  <2> QED BY <2>1, FixIntcx, FixesLess
<1>3. Fixes(m, fixup_bank0_2000_4000(m), Main({"hgr1"}), {})
  BY PutHgr1, PutsFixes, FixesLess DEF Main
<1>4. Fixes(m, fixup_bank0_0400_0800(m), Main({"txt1"}), {})
  BY PutTxt1, PutsFixes, FixesLess DEF Main
<1>5. Fixes(m, FixCard(m), {}, {})
  <2>1. m = [m EXCEPT !.wrdefram = m.wrdefram] /\ m.wrdefram \in BOOLEAN
    BY DEF Map
  <2>2. Fixes(m, FixCard(m), {}, IF Iolc(m) THEN High ELSE {})
    BY <2>1, FixWrdefram DEF FixCard
  <2> QED BY <2>2, FixesLess
<1>6. Fixes(m, FixSwitches(m), Main({"zp"} \cup RamAreas), Main({"zp"} \cup Plain))
  <2> DEFINE t1 == fixup_altzp(m)
             t2 == fixup_ramrd(t1)
             t3 == fixup_ramwrt(t2)
             t4 == fixup_rdrom(t3)
  <2>1. Fixes(m, t1, Main({"zp"}), Main({"zp"})) /\ t1 \in Map
    <3>1. Fixes(m, t1, Of({"00"}, {"zp", "d0", "e0"}), Of({"00"}, {"zp", "d0", "e0"}))
      BY PutAltzp, PutsFixes
    <3>2. Main({"zp"}) \subseteq Of({"00"}, {"zp", "d0", "e0"})
      BY DEF Main, Of
    <3> QED BY <3>1, <3>2, FixesLess DEF Fixes
  <2> HIDE DEF t1
  <2>2. Fixes(t1, t2, Main(RamAreas), {}) /\ t2 \in Map
    <3>1. Fixes(t1, t2, Unstores(t1) \cup Of({"00"}, RamAreas), Unstores(t1))
      BY <2>1, FixRamrd
    <3> QED BY <3>1, FixesLess DEF Main, Fixes
  <2> HIDE DEF t2
  <2>3. Fixes(t2, t3, {}, Main(Plain)) /\ t3 \in Map
    <3>1. Fixes(t2, t3, Unstores(t2), Unstores(t2) \cup Of({"00"}, RamAreas))
      BY <2>2, FixRamwrt
    <3>2. Main(Plain) \subseteq Of({"00"}, RamAreas)
      BY DEF Main, Of, RamAreas
    <3> QED BY <3>1, <3>2, FixesLess DEF Fixes
  <2> HIDE DEF t3
  <2>4. Fixes(t3, t4, {}, {})
    BY <2>3, FixRdrom, FixesLess
  <2>5. FixSwitches(m) = t4
    BY DEF FixSwitches, t1, t2, t3
  <2> HIDE DEF t4
  <2>6. Fixes(m, t2, Main({"zp"}) \cup Main(RamAreas), Main({"zp"}) \cup {})
    BY <2>1, <2>2, FixesChain
  <2>7. Fixes(m, t3, (Main({"zp"}) \cup Main(RamAreas)) \cup {}, (Main({"zp"}) \cup {}) \cup Main(Plain))
    BY <2>3, <2>6, FixesChain
  <2>8. Fixes(m, t4, ((Main({"zp"}) \cup Main(RamAreas)) \cup {}) \cup {},
                     ((Main({"zp"}) \cup {}) \cup Main(Plain)) \cup {})
    BY <2>4, <2>7, FixesChain
  <2>9. /\ Main({"zp"} \cup RamAreas) \subseteq ((Main({"zp"}) \cup Main(RamAreas)) \cup {}) \cup {}
        /\ Main({"zp"} \cup Plain) \subseteq ((Main({"zp"}) \cup {}) \cup Main(Plain)) \cup {}
    BY DEF Main, Of
  <2> QED BY <2>5, <2>8, <2>9, FixesLess
<1> QED BY <1>1, <1>2, <1>3, <1>4, <1>5, <1>6, FixLcbank2

LEMMA SetupShadows ==
  ASSUME NEW m \in Map
  PROVE  Fixes(m, FixShadows(m), IolcPages, Twins(Screens) \cup IolcPages)
<1> DEFINE t1 == fixup_shadow_txt1(m)
           t2 == fixup_shadow_txt2(t1)
           t3 == Hires12(t2)
           t4 == fixup_shadow_shr(t3)
           t5 == fixup_shadow_iolc(t4)
           W1 == Twins({"txt1"})
           W2 == Twins({"txt2"})
           W3 == Twins({"hgr1", "hgr2"})
           W4 == Twins({"shr"})
<1>1. Fixes(m, t1, {}, W1) /\ t1 \in Map
  BY FixTxt1, FixesLess DEF Fixes, Twins
<1> HIDE DEF t1
<1>2. Fixes(t1, t2, {}, W2) /\ t2 \in Map
  BY <1>1, FixTxt2 DEF Fixes, Twins
<1> HIDE DEF t2
<1>3. Fixes(t2, t3, {}, W3) /\ t3 \in Map
  BY <1>2, FixHires12, FixesLess DEF Fixes, Twins
<1> HIDE DEF t3
<1>4. Fixes(t3, t4, {}, W4) /\ t4 \in Map
  BY <1>3, FixShr DEF Fixes, Twins
<1> HIDE DEF t4
<1>5. Fixes(t4, t5, IolcPages, IolcPages)
  BY <1>4, FixIolc
<1>6. FixShadows(m) = t5
  BY DEF FixShadows, t1, t2, t3, t4
<1>7. Twins(Screens) \cup IolcPages \subseteq (((W1 \cup W2) \cup W3) \cup W4) \cup IolcPages
  BY DEF Twins, Of, Screens, SuperHires
<1>8. IolcPages \subseteq ((({} \cup {}) \cup {}) \cup {}) \cup IolcPages
  OBVIOUS
<1> HIDE DEF t5, W1, W2, W3, W4
<1>9. Fixes(m, t2, {} \cup {}, W1 \cup W2)
  BY <1>1, <1>2, FixesChain
<1>10. Fixes(m, t3, ({} \cup {}) \cup {}, (W1 \cup W2) \cup W3)
  BY <1>3, <1>9, FixesChain
<1>11. Fixes(m, t4, (({} \cup {}) \cup {}) \cup {}, ((W1 \cup W2) \cup W3) \cup W4)
  BY <1>4, <1>10, FixesChain
<1>12. Fixes(m, t5, ((({} \cup {}) \cup {}) \cup {}) \cup IolcPages,
                    (((W1 \cup W2) \cup W3) \cup W4) \cup IolcPages)
  BY <1>5, <1>11, FixesChain
<1> QED BY <1>6, <1>7, <1>8, <1>12, FixesLess

\* The pages that no fix-up touches show themselves, and have to.
LEMMA SelfRight ==
  ASSUME NEW m \in Map, m.rd = Self, m.wr = Self, NEW p \in Page
  PROVE  /\ \/ RdRight(m, p)
            \/ p \in Of({"E0", "E1"}, Cards) \/ p \in D0Pages \/ p \in Main({"hgr1"}) \/ p \in Main({"txt1"})
            \/ p \in Main({"zp"} \cup RamAreas) \/ p \in IolcPages
         /\ \/ WrRight(m, p) \/ p[1] = "odd"
            \/ p \in Of({"E0", "E1"}, Cards) \/ p \in D0Pages
            \/ p \in Main({"zp"} \cup Plain) \/ p \in Twins(Screens) \/ p \in IolcPages
<1>1. /\ p[2] \in Area /\ p[1] \in {"00", "01", "E0", "E1", "odd"}
      /\ p[1] \in {"E0", "E1"} => p[2] \in Cards \cup {"d0"}
      /\ p[1] = "odd" => p[2] \in SuperHires
  BY Pairs DEF Page
<1>2. /\ p[2] \in {"zp"} \cup (Screens \cup Plain) \cup Cards \cup {"d0", "e0"}
      /\ Screens \cup Plain = {"txt1", "hgr1"} \cup RamAreas
      /\ "zp" \notin Screens \cup Plain
  BY <1>1 DEF Area, Screens, Plain, SuperHires, Cards, RamAreas
<1>3. Self[p] = To(p[1], p[2], {})
  BY DEF Self
<1>4. /\ p[1] \in {"E0", "E1"} => p \in Of({"E0", "E1"}, Cards) \/ p \in D0Pages
      /\ p[1] \in {"00", "01"} /\ p[2] \in Cards \cup {"d0", "e0"} => p \in IolcPages
      /\ p[1] = "00" /\ p[2] \in {"zp"} \cup Plain => p \in Main({"zp"} \cup Plain)
      /\ p[1] = "00" /\ p[2] \in {"zp"} \cup RamAreas => p \in Main({"zp"} \cup RamAreas)
      /\ p[1] = "00" /\ p[2] = "hgr1" => p \in Main({"hgr1"})
      /\ p[1] = "00" /\ p[2] = "txt1" => p \in Main({"txt1"})
      /\ p[1] \in {"00", "01"} /\ p[2] \in Screens => p \in Twins(Screens)
  BY <1>1 DEF Of, Main, Twins, D0Pages, IolcPages
<1>5. p[1] = "01" /\ p[2] \in {"zp"} \cup Screens \cup Plain => RdWanted(m, p) = To(p[1], p[2], {})
  BY <1>2 DEF RdWanted, ZpBank
<1>6. p[1] = "odd" => RdWanted(m, p) = To(p[1], p[2], {})
  BY DEF RdWanted
<1>7. p[1] = "01" /\ p[2] \in {"zp"} \cup Plain => WrWanted(m, p) = To(p[1], p[2], {})
  <2>1. p[2] \in Plain => Shadows(m, TRUE, p[2]) = {}
    BY DEF Shadows, Plain
  <2> QED BY <1>2, <2>1 DEF WrWanted, ZpBank
<1>8. RdWanted(m, p) = Self[p] => RdRight(m, p)
  BY DEF RdRight, ArmedRd
<1>9. WrWanted(m, p) = Self[p] => WrRight(m, p)
  BY DEF WrRight, ArmedWr
<1> QED BY <1>1, <1>2, <1>3, <1>4, <1>5, <1>6, <1>7, <1>8, <1>9

LEMMA SetupGood ==
  ASSUME NEW m \in Map, PageTwo(m)
  PROVE  MapGood(setup_pageinfo(m)) /\ SameSwitches(m, setup_pageinfo(m))
<1> DEFINE t0 == [m EXCEPT !.rd = Self, !.wr = Self]
           t1 == fixup_shadow_all_banks(t0)
           t2 == fixup_intcx(t1)
           t3 == fixup_lcbank2(t2)
           t4 == fixup_bank0_2000_4000(t3)
           t5 == fixup_bank0_0400_0800(t4)
           t6 == FixCard(t5)
           t7 == FixSwitches(t6)
           t8 == FixShadows(t7)
           E == Of({"E0", "E1"}, Cards)
           R3 == ({} \cup E) \cup D0Pages
           R6 == ((R3 \cup Main({"hgr1"})) \cup Main({"txt1"})) \cup {}
           R8 == (R6 \cup Main({"zp"} \cup RamAreas)) \cup IolcPages
           W6 == ((R3 \cup {}) \cup {}) \cup {}
           W8 == (W6 \cup Main({"zp"} \cup Plain)) \cup (Twins(Screens) \cup IolcPages)
<1>1. setup_pageinfo(m) = fixup_brks(t8)
  BY DEF setup_pageinfo
<1>2. t0 \in Map /\ SameSwitches(m, t0) /\ t0.rd = Self /\ t0.wr = Self
  BY SelfType DEF Map, SameSwitches
<1>3. RightOutside(t0, R8, W8)
  <2> HIDE DEF t0
  <2> QED BY <1>2, SelfRight DEF RightOutside
<1> HIDE DEF t0
<1>4. Fixes(t0, t1, {}, {}) /\ t1 \in Map
  BY <1>2, SetupSteps DEF Fixes
<1> HIDE DEF t1
<1>5. Fixes(t1, t2, E, E) /\ t2 \in Map
  BY <1>4, SetupSteps DEF Fixes
<1> HIDE DEF t2, E
<1>6. Fixes(t0, t2, {} \cup E, {} \cup E)
  BY <1>2, <1>4, <1>5, FixesChain
<1>7. Fixes(t2, t3, D0Pages, D0Pages) /\ t3 \in Map
  BY <1>5, SetupSteps DEF Fixes
<1> HIDE DEF t3
<1>8. Fixes(t0, t3, R3, R3)
  BY <1>2, <1>6, <1>7, FixesChain
<1> HIDE DEF R3
<1>9. Fixes(t3, t4, Main({"hgr1"}), {}) /\ t4 \in Map
  BY <1>7, SetupSteps DEF Fixes
<1> HIDE DEF t4
<1>10. Fixes(t0, t4, R3 \cup Main({"hgr1"}), R3 \cup {})
  BY <1>2, <1>8, <1>9, FixesChain
<1>11. Fixes(t4, t5, Main({"txt1"}), {}) /\ t5 \in Map
  BY <1>9, SetupSteps DEF Fixes
<1> HIDE DEF t5
<1>12. Fixes(t0, t5, (R3 \cup Main({"hgr1"})) \cup Main({"txt1"}), (R3 \cup {}) \cup {})
  BY <1>2, <1>10, <1>11, FixesChain
<1>13. Fixes(t5, t6, {}, {}) /\ t6 \in Map
  BY <1>11, SetupSteps DEF Fixes
<1> HIDE DEF t6
<1>14. Fixes(t0, t6, R6, W6)
  BY <1>2, <1>12, <1>13, FixesChain
<1> HIDE DEF R6, W6
<1>15. Fixes(t6, t7, Main({"zp"} \cup RamAreas), Main({"zp"} \cup Plain)) /\ t7 \in Map
  BY <1>13, SetupSteps DEF Fixes
<1> HIDE DEF t7
<1>16. Fixes(t0, t7, R6 \cup Main({"zp"} \cup RamAreas), W6 \cup Main({"zp"} \cup Plain))
  BY <1>2, <1>14, <1>15, FixesChain
<1>17. Fixes(t7, t8, IolcPages, Twins(Screens) \cup IolcPages)
  BY <1>15, SetupShadows
<1> HIDE DEF t8
<1>18. Fixes(t0, t8, R8, W8)
  BY <1>2, <1>16, <1>17, FixesChain
<1> HIDE DEF R8, W8
<1>19. t8 \in Map /\ SameSwitches(t0, t8) /\ AllRight(t8)
  BY <1>2, <1>3, <1>18, Settles
<1>20. fixup_brks(t8) \in Map /\ SameSwitches(t8, fixup_brks(t8)) /\ AllDone(fixup_brks(t8))
  BY <1>19, ArmedDone
<1> QED BY <1>1, <1>2, <1>19, <1>20 DEF MapGood, PageTwo, SameSwitches

(***************************************************************************)
(* The theorems.                                                           *)
(***************************************************************************)
LEMMA ResetGood ==
  ASSUME NEW m \in Map
  PROVE  MapGood(ResetMap(m))
<1> DEFINE t == [m EXCEPT !.statereg = {"rdrom", "lcbank2", "intcx"}, !.stat = {}, !.shadow = {},
                          !.wrdefram = TRUE, !.int_crom = {}]
<1>1. t \in Map /\ t.stat = {} /\ t.statereg = {"rdrom", "lcbank2", "intcx"}
  BY DEF Map, Switch
<1>2. ResetMap(m) = setup_pageinfo(t)
  BY DEF ResetMap
<1> HIDE DEF t
<1> QED BY <1>1, <1>2, SetupGood DEF PageTwo

LEMMA PowerOnGood == MapGood(PowerOn)
<1> DEFINE m == [statereg |-> {}, stat |-> {}, shadow |-> {"shr"}, wrdefram |-> FALSE,
                 int_crom |-> {}, all_banks |-> FALSE, breakpts |-> {}, rd |-> Self, wr |-> Self]
<1>1. m \in Map
  BY SelfType DEF Map, Inhibit
<1>2. PowerOn = ResetMap(m)
  BY DEF PowerOn
<1> HIDE DEF m
<1> QED BY <1>1, <1>2, ResetGood

LEMMA GoodStep ==
  ASSUME MapGood(map), MapNext
  PROVE  MapGood(map')
<1>0. map \in Map /\ PageTwo(map)
  BY DEF MapGood
<1>1. ASSUME NEW val \in SUBSET Switch, WriteC068(val)
      PROVE  MapGood(map')
  BY <1>1, StateregGood DEF WriteC068
<1>2. ASSUME NEW bit \in Switch \ {"lcbank2", "rdrom"}, NEW on \in BOOLEAN, SetSwitch(bit, on)
      PROVE  MapGood(map')
  <2> DEFINE val == IF on THEN map.statereg \cup {bit} ELSE map.statereg \ {bit}
  <2>1. val \in SUBSET Switch /\ map' = set_statereg(map, val)
    BY <1>0, <1>2 DEF Map, SetSwitch
  <2> HIDE DEF val
  <2> QED BY <2>1, StateregGood
<1>3. ASSUME NEW lcbank2 \in BOOLEAN, NEW wrdefram \in BOOLEAN, NEW rdrom \in BOOLEAN,
             LanguageCard(lcbank2, wrdefram, rdrom)
      PROVE  MapGood(map')
  <2> DEFINE m == When(wrdefram # map.wrdefram, fixup_wrdefram(map, wrdefram), map)
             val == (map.statereg \ {"lcbank2", "rdrom"})
                      \cup MarksIf(lcbank2, {"lcbank2"}) \cup MarksIf(rdrom, {"rdrom"})
  <2>1. MapGood(m)
    BY WrdeframGood DEF When
  <2>2. val \in SUBSET Switch
    BY <1>0 DEF Map, MarksIf, Switch
  <2>3. map' = set_statereg(m, val)
    BY <1>3 DEF LanguageCard
  <2> HIDE DEF m, val
  <2> QED BY <2>1, <2>2, <2>3, StateregGood
<1>4. ASSUME NEW on \in BOOLEAN, Store80(on)
      PROVE  MapGood(map')
  BY <1>4, Store80Good DEF Store80
<1>5. ASSUME NEW on \in BOOLEAN, Hires(on)
      PROVE  MapGood(map')
  BY <1>5, HiresGood DEF Hires
<1>6. ASSUME NEW on \in BOOLEAN, WriteC036(on)
      PROVE  MapGood(map')
  BY <1>6, AllBanksGood DEF WriteC036
<1>7. ASSUME NEW crom \in SUBSET Slots, WriteC02d(crom)
      PROVE  MapGood(map')
  BY <1>7, IntcxGood DEF WriteC02d
<1>8. ASSUME NEW val \in SUBSET Inhibit, WriteC035(val)
      PROVE  MapGood(map')
  BY <1>8, ShadowGood DEF WriteC035
<1>9. ASSUME NEW b \in Breakpoint, set_bp(b)
      PROVE  MapGood(map')
  BY <1>9, BreakGood DEF set_bp
<1>10. ASSUME NEW b \in Breakpoint, delete_bp(b)
       PROVE  MapGood(map')
  <2>1. PICK kept \in {map.breakpts, map.breakpts \ {b}} :
          map' = setup_pageinfo([map EXCEPT !.breakpts = kept])
    BY <1>10 DEF delete_bp
  <2> DEFINE t == [map EXCEPT !.breakpts = kept]
  <2>2. t \in Map /\ t.stat = map.stat /\ t.statereg = map.statereg
    BY <1>0, <2>1 DEF Map
  <2>3. PageTwo(t)
    BY <1>0, <2>2 DEF PageTwo
  <2> HIDE DEF t
  <2>4. MapGood(setup_pageinfo(t))
    BY <2>2, <2>3, SetupGood
  <2> QED BY <2>1, <2>4 DEF t
<1>11. ASSUME DoReset
       PROVE  MapGood(map')
  BY <1>0, <1>11, ResetGood DEF DoReset
<1> QED BY <1>1, <1>2, <1>3, <1>4, <1>5, <1>6, <1>7, <1>8, <1>9, <1>10, <1>11 DEF MapNext

\* Nothing else than the switches decides what a page is.
LEMMA GoodFollows ==
  ASSUME MapGood(map)
  PROVE  TablesFollowSwitches
<1> DEFINE m == setup_pageinfo(map)
<1>1. MapGood(m) /\ SameSwitches(map, m)
  BY SetupGood DEF MapGood
<1> HIDE DEF m
<1>2. ASSUME NEW p \in Page, p[1] # "odd"
      PROVE  map.rd[p] = m.rd[p] /\ map.wr[p] = m.wr[p]
  <2>1. /\ RdWanted(m, p) = RdWanted(map, p) /\ WrWanted(m, p) = WrWanted(map, p)
        /\ BrokenRd(m, p) = BrokenRd(map, p) /\ Broken(m, p) = Broken(map, p)
    BY <1>1, SameWanted
  <2>2. RdDone(m, p) /\ WrDone(m, p) /\ RdDone(map, p) /\ WrDone(map, p)
    BY <1>1, <1>2 DEF MapGood, AllDone
  <2> QED BY <2>1, <2>2 DEF RdDone, WrDone
<1> QED BY <1>2 DEF TablesFollowSwitches, m

LEMMA SeenArmed ==
  ASSUME NEW t \in Target
  PROVE  Seen(Arm(t)) = Seen(t) /\ Arm(t).bank = t.bank
<1>1. Arm(t).bank = t.bank /\ Arm(t).area = t.area /\ Arm(t).flags = t.flags \cup {"io", "break"}
  BY DEF Arm, Target
<1>2. (t.flags \cup {"io", "break"}) \ {"io", "break"} = t.flags \ {"io", "break"}
  OBVIOUS
<1> QED BY <1>1, <1>2 DEF Seen

\* The auxiliary bank is wanted as it is, wherever it is shown.
LEMMA AuxWanted ==
  ASSUME NEW m, NEW a \in Area
  PROVE  /\ RdWanted(m, <<"00", a>>).bank = "01" => RdWanted(m, <<"00", a>>) = RdWanted(m, <<"01", a>>)
         /\ WrWanted(m, <<"00", a>>).bank = "01" => WrWanted(m, <<"00", a>>) = WrWanted(m, <<"01", a>>)
<1>1. \A b, x, f : To(b, x, f).bank = b
  BY DEF To
<1>2. /\ a \in {"zp"} \cup (Screens \cup Plain) \cup Cards \cup {"d0", "e0"}
      /\ "zp" \notin Screens \cup Plain
      /\ \A x \in Cards : x \notin Screens \cup Plain /\ x \notin {"zp", "d0", "e0"}
      /\ "d0" \notin Screens \cup Plain /\ "e0" \notin Screens \cup Plain
  BY SlotNames DEF Area, Screens, Plain, SuperHires, Cards
<1>3. IO.bank = "io" /\ \A x : SlotRom(m, x).bank \in {"io", "rom", "cards"}
  BY <1>1 DEF IO, SlotRom
<1>4. \A aux : BankOf(aux) = "01" => aux
  BY DEF BankOf
<1>5. /\ <<"00", a>>[1] = "00" /\ <<"00", a>>[2] = a /\ <<"01", a>>[1] = "01" /\ <<"01", a>>[2] = a
  OBVIOUS
<1>6. CASE a = "zp"
  BY <1>1, <1>6 DEF RdWanted, WrWanted, ZpBank
<1>7. CASE a \in Screens \cup Plain
  <2>2. /\ RdWanted(m, <<"00", a>>) = To(BankOf(AuxRd(m, a)), a, {})
        /\ RdWanted(m, <<"01", a>>) = To("01", a, {})
        /\ WrWanted(m, <<"00", a>>) = To(BankOf(AuxWr(m, a)), a, Shadows(m, AuxWr(m, a), a))
        /\ WrWanted(m, <<"01", a>>) = To("01", a, Shadows(m, TRUE, a))
    BY <1>2, <1>5, <1>7 DEF RdWanted, WrWanted
  <2>3. BankOf(AuxWr(m, a)) = "01" => Shadows(m, AuxWr(m, a), a) = Shadows(m, TRUE, a)
    BY DEF BankOf, Shadows
  <2>4. RdWanted(m, <<"00", a>>).bank = "01" => RdWanted(m, <<"00", a>>) = RdWanted(m, <<"01", a>>)
    BY <1>1, <2>2
  <2>5. WrWanted(m, <<"00", a>>).bank = "01" => WrWanted(m, <<"00", a>>) = WrWanted(m, <<"01", a>>)
    <3> DEFINE bank == BankOf(AuxWr(m, a))
               own == Shadows(m, AuxWr(m, a), a)
               flags == Shadows(m, TRUE, a)
    <3>1. /\ WrWanted(m, <<"00", a>>) = To(bank, a, own)
          /\ WrWanted(m, <<"01", a>>) = To("01", a, flags)
          /\ bank = "01" => own = flags
      BY <2>2, <2>3
    <3> HIDE DEF bank, own, flags
    <3> QED BY <1>1, <3>1
  <2> QED BY <2>4, <2>5
<1>8. CASE a \in Cards
  BY <1>1, <1>2, <1>3, <1>5, <1>8 DEF RdWanted, WrWanted
<1>9. CASE a \in {"d0", "e0"}
  <2>1. HighArea(m, "00", a) = HighArea(m, "01", a)
    BY DEF HighArea
  <2>2. a \notin Screens \cup Plain /\ a \notin Cards /\ a # "zp"
    BY <1>2, <1>9
  <2>3. /\ ZpBank(m, "00") = "01" \/ ZpBank(m, "00") = "00"
        /\ ZpBank(m, "01") = "01"
    BY DEF ZpBank, BankOf
  <2>4. ASSUME NEW b \in {"00", "01"}
        PROVE  /\ RdWanted(m, <<b, a>>) = IF Iolc(m) /\ RDROM(m) THEN To("rom", a, {})
                                          ELSE To(ZpBank(m, b), HighArea(m, b, a), {})
               /\ WrWanted(m, <<b, a>>) = To(ZpBank(m, b), HighArea(m, b, a),
                                            IF Iolc(m) THEN Protect(m) ELSE {})
    <3>1. <<b, a>>[1] = b /\ <<b, a>>[2] = a
      OBVIOUS
    <3> QED BY <2>2, <3>1 DEF RdWanted, WrWanted
  <2> QED BY <1>1, <2>1, <2>3, <2>4
<1> QED BY <1>2, <1>6, <1>7, <1>8, <1>9

LEMMA GoodAux ==
  ASSUME MapGood(map)
  PROVE  AuxIsBank1
<1> SUFFICES ASSUME NEW a \in Area
             PROVE  /\ map.rd[<<"00", a>>].bank = "01" =>
                         Seen(map.rd[<<"00", a>>]) = Seen(map.rd[<<"01", a>>])
                    /\ map.wr[<<"00", a>>].bank = "01" =>
                         Seen(map.wr[<<"00", a>>]) = Seen(map.wr[<<"01", a>>])
  BY DEF AuxIsBank1
<1> DEFINE p == <<"00", a>>
           q == <<"01", a>>
<1>1. p \in Page /\ q \in Page /\ p[1] # "odd" /\ q[1] # "odd"
  BY DEF Page
<1> HIDE DEF p, q
<1>2. RdDone(map, p) /\ WrDone(map, p) /\ RdDone(map, q) /\ WrDone(map, q)
  BY <1>1 DEF MapGood, AllDone
<1>3. /\ RdWanted(map, p) \in Target /\ WrWanted(map, p) \in Target
      /\ RdWanted(map, q) \in Target /\ WrWanted(map, q) \in Target
  BY <1>1, WantedTypes
<1>4. /\ RdWanted(map, p).bank = "01" => RdWanted(map, p) = RdWanted(map, q)
      /\ WrWanted(map, p).bank = "01" => WrWanted(map, p) = WrWanted(map, q)
  BY AuxWanted DEF p, q
<1>5. /\ Seen(map.rd[p]) = Seen(RdWanted(map, p)) /\ map.rd[p].bank = RdWanted(map, p).bank
      /\ Seen(map.rd[q]) = Seen(RdWanted(map, q))
      /\ Seen(map.wr[p]) = Seen(WrWanted(map, p)) /\ map.wr[p].bank = WrWanted(map, p).bank
      /\ Seen(map.wr[q]) = Seen(WrWanted(map, q))
  BY <1>2, <1>3, SeenArmed DEF RdDone, WrDone
<1> QED BY <1>4, <1>5 DEF p, q

LEMMA GoodMap ==
  ASSUME MapGood(map)
  PROVE  MapTypeOK /\ TablesFollowSwitches /\ AuxIsBank1
BY GoodFollows, GoodAux DEF MapGood, MapTypeOK, PageTwo

(* Whatever the program and the debugger do, in any order: the types, the
   tables that a computation from nothing would give, and auxiliary memory the
   same in bank 0 as in bank 1. *)
THEOREM MapTables == MapSpec => [](MapTypeOK /\ TablesFollowSwitches /\ AuxIsBank1)
<1>1. MapInit => MapGood(map)
  BY PowerOnGood DEF MapInit
<1>2. MapGood(map) /\ [MapNext]_map => MapGood(map)'
  <2>1. MapGood(map) /\ map' = map => MapGood(map)'
    OBVIOUS
  <2> QED BY <2>1, GoodStep
<1>3. MapGood(map) => MapTypeOK /\ TablesFollowSwitches /\ AuxIsBank1
  BY GoodMap
<1> QED BY <1>1, <1>2, <1>3, PTL DEF MapSpec

(***************************************************************************)
(* In the run, a behaviour keeps to the switches of its focus.             *)
(***************************************************************************)
MachineInv == focus = "cpu" \/ MapGood(map)

LEMMA FocusStep ==
  ASSUME MapGood(map), MapStep
  PROVE  MapNext
<1>0. /\ map.statereg \in SUBSET Switch /\ map.breakpts \in SUBSET Breakpoint
      /\ map.shadow \in SUBSET Inhibit
  BY DEF MapGood, Map
<1>1. ASSUME Screen
      PROVE  MapNext
  <2>1. ASSUME NEW val \in SUBSET {"ramrd", "ramwrt", "page2"},
               WriteC068(val \cup (map.statereg \ {"ramrd", "ramwrt", "page2"}))
        PROVE  MapNext
    <3>1. val \cup (map.statereg \ {"ramrd", "ramwrt", "page2"}) \in SUBSET Switch
      BY <1>0 DEF Switch
    <3> QED BY <2>1, <3>1 DEF MapNext
  <2>2. ASSUME NEW bit \in {"ramrd", "ramwrt", "page2"}, NEW on \in BOOLEAN, SetSwitch(bit, on)
        PROVE  MapNext
    <3>1. bit \in Switch \ {"lcbank2", "rdrom"}
      BY DEF Switch
    <3> QED BY <2>2, <3>1 DEF MapNext
  <2>3. ASSUME NEW on \in BOOLEAN, Store80(on) \/ Hires(on) \/ WriteC036(on)
        PROVE  MapNext
    BY <2>3 DEF MapNext
  <2>4. ASSUME NEW val \in Near(map.shadow, Inhibit \ {"iolc"}), WriteC035(val)
        PROVE  MapNext
    <3>1. val \in SUBSET Inhibit
      BY <1>0, <2>4 DEF Near
    <3> QED BY <2>4, <3>1 DEF MapNext
  <2> QED BY <1>1, <2>1, <2>2, <2>3, <2>4 DEF Screen
<1>2. ASSUME CardsAndSlots
      PROVE  MapNext
  <2>1. ASSUME NEW val \in SUBSET {"altzp", "rdrom", "lcbank2", "intcx"}, WriteC068(val)
        PROVE  MapNext
    <3>1. val \in SUBSET Switch
      BY DEF Switch
    <3> QED BY <2>1, <3>1 DEF MapNext
  <2>2. ASSUME NEW bit \in {"altzp", "intcx"}, NEW on \in BOOLEAN, SetSwitch(bit, on)
        PROVE  MapNext
    <3>1. bit \in Switch \ {"lcbank2", "rdrom"}
      BY DEF Switch
    <3> QED BY <2>2, <3>1 DEF MapNext
  <2>3. ASSUME NEW lcbank2 \in BOOLEAN, NEW wrdefram \in BOOLEAN, NEW rdrom \in BOOLEAN,
               LanguageCard(lcbank2, wrdefram, rdrom)
        PROVE  MapNext
    BY <2>3 DEF MapNext
  <2>4. ASSUME NEW crom \in SUBSET Slots, WriteC02d(crom)
        PROVE  MapNext
    BY <2>4 DEF MapNext
  <2>5. ASSUME NEW val \in Near(map.shadow, {"iolc", "txt1"}), WriteC035(val)
        PROVE  MapNext
    <3>1. val \in SUBSET Inhibit
      BY <1>0, <2>5 DEF Near, Inhibit
    <3> QED BY <2>5, <3>1 DEF MapNext
  <2> QED BY <1>2, <2>1, <2>2, <2>3, <2>4, <2>5 DEF CardsAndSlots
<1>3. ASSUME Debugger
      PROVE  MapNext
  BY <1>0, <1>3 DEF Debugger, MapNext
<1> QED BY <1>1, <1>2, <1>3 DEF MapStep

(* The behaviours of the run are among those. *)
THEOREM MachineTables == MachineSpec => []TablesAreRight
<1>1. MachineInit => MachineInv
  BY PowerOnGood DEF MachineInit, MachineInv
<1>2. MachineInv /\ [MachineNext]_machineVars => MachineInv'
  <2> SUFFICES ASSUME MachineInv, [MachineNext]_machineVars
               PROVE  MachineInv'
    OBVIOUS
  <2>1. CASE focus = "cpu" /\ focus' = focus
    BY <2>1 DEF MachineInv
  <2>2. CASE focus # "cpu" /\ focus' = focus /\ MapStep
    BY <2>2, FocusStep, GoodStep DEF MachineInv
  <2>3. CASE focus' = focus /\ map' = map
    BY <2>3 DEF MachineInv
  <2> QED BY <2>1, <2>2, <2>3 DEF MachineNext, machineVars
<1>3. MachineInv => TablesAreRight
  BY GoodMap DEF MachineInv, TablesAreRight
<1> QED BY <1>1, <1>2, <1>3, PTL DEF MachineSpec
=============================================================================
