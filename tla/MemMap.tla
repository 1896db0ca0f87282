------------------------------- MODULE MemMap -------------------------------
(***************************************************************************)
(* The memory map of src/src/moremem.c: the soft switches of the Apple     *)
(* II, and the page tables through which the CPU finds every byte.         *)
(*                                                                         *)
(* An access to a switch does not compute the tables again; it calls those *)
(* fixup_ routines that it believes to matter.  setup_pageinfo computes    *)
(* all of them, at a reset and when a breakpoint goes.                     *)
(*                                                                         *)
(* Pages that every routine treats alike are one area.  A routine is an    *)
(* operator on the record m of switches and tables; the display, and the   *)
(* memory the switches do not reach, are left out.                         *)
(***************************************************************************)
EXTENDS Integers

CONSTANTS
  Slots,          \* pages c1 to c7, one for each slot
  SmartPort,      \* page c7, which bank 0 always traps
  Page2Shadow     \* g_rom_version >= 3 or g_user_page2_shadow, which do not change

ASSUME MemMapAssumption ==
  /\ Slots \subseteq {"c1", "c2", "c3", "c4", "c5", "c6", "c7"}
  /\ SmartPort = "c7" /\ SmartPort \in Slots
  /\ Page2Shadow \in BOOLEAN

\* The areas of a bank: zero page and stack, 02-03, text pages 04-07 and 08-0b,
\* 0c-1f, hires pages 20-3f and 40-5f, the rest of super hires 60-9f, a0-bf,
\* c0, the slots, c8-cf, language card d0-df and e0-ff.
Plain == {"02", "0c", "a0"}
Cards == {"c0", "c8"} \cup Slots
SuperHires == {"hgr1", "hgr2", "shr"}
Area == {"zp", "txt1", "txt2", "d0", "e0"} \cup Plain \cup SuperHires \cup Cards

\* Banks 0 and 1 and their slow counterparts, of which only c0-df changes; odd
\* stands for the banks 3, 5, ...
Page == ({"00", "01"} \X Area) \cup ({"E0", "E1"} \X (Cards \cup {"d0"}))
          \cup ({"odd"} \X SuperHires)

Switch == {"altzp", "page2", "ramrd", "ramwrt", "rdrom", "lcbank2", "intcx"}
Inhibit == {"txt1", "hires1", "hires2", "shr", "aux", "txt2", "iolc"}
Breakpoint == [page : Page, wr_only : BOOLEAN]

\* Where a page leads: "cx" is the RAM at c0-cf, the language card's bank 1.
Target ==
  [bank : {"00", "01", "E0", "E1", "odd", "rom", "cards", "io"},
   area : Area \cup {"cx"},
   flags : SUBSET {"io", "io2", "shadow", "shadow2", "break"}]

Map ==
  [statereg : SUBSET Switch,                       \* c068
   stat : SUBSET {"st80", "hires", "page2"},       \* of g_cur_a2_stat
   shadow : SUBSET Inhibit,                        \* c035
   wrdefram : BOOLEAN,
   int_crom : SUBSET Slots,                        \* c02d
   all_banks : BOOLEAN,                            \* bit 4 of c036
   breakpts : SUBSET Breakpoint,
   rd : [Page -> Target], wr : [Page -> Target]]

VARIABLE map

To(bank, area, flags) == [bank |-> bank, area |-> area, flags |-> flags]
IO == To("io", "c0", {"io", "io2"})
BankOf(aux) == IF aux THEN "01" ELSE "00"
MarksIf(on, flags) == IF on THEN flags ELSE {}
Protect(m) == MarksIf(~m.wrdefram, {"io", "io2"})

\* fixup_any_bank_any_page: areas of a bank lead to the same areas elsewhere.
Lead(t, bank, areas, to, flags) ==
  [p \in DOMAIN t |-> IF p[1] = bank /\ p[2] \in areas THEN To(to, p[2], flags) ELSE t[p]]

ALTZP(m) == "altzp" \in m.statereg
RAMRD(m) == "ramrd" \in m.statereg
RAMWRT(m) == "ramwrt" \in m.statereg
RDROM(m) == "rdrom" \in m.statereg
LCBANK2(m) == "lcbank2" \in m.statereg
INTCX(m) == "intcx" \in m.statereg
Iolc(m) == "iolc" \notin m.shadow
Shadowed(m, bit) == bit \notin m.shadow

\* Writes to the auxiliary bank are shadowed in a hires page of its own, or as
\* part of super hires.
AuxHires(m, bit) == (Shadowed(m, bit) /\ Shadowed(m, "aux")) \/ Shadowed(m, "shr")

Broken(m, p) == \E b \in m.breakpts : b.page = p
BrokenRd(m, p) == \E b \in m.breakpts : b.page = p /\ ~b.wr_only
Arm(t) == [t EXCEPT !.flags = t.flags \cup {"io", "break"}]

fixup_brks(m) ==
  [m EXCEPT !.rd = [p \in DOMAIN m.rd |-> IF BrokenRd(m, p) THEN Arm(m.rd[p]) ELSE m.rd[p]],
            !.wr = [p \in DOMAIN m.wr |-> IF Broken(m, p) THEN Arm(m.wr[p]) ELSE m.wr[p]]]

(***************************************************************************)
(* Bank 0: main or auxiliary memory.                                       *)
(***************************************************************************)
fixup_bank0_2000_4000(m) ==
  LET store == {"st80", "hires"} \subseteq m.stat
      rd == IF store THEN "page2" \in m.stat ELSE RAMRD(m)
      wr == IF store THEN "page2" \in m.stat ELSE RAMWRT(m)
      flags == IF wr THEN MarksIf(AuxHires(m, "hires1"), {"shadow2"})
               ELSE MarksIf(Shadowed(m, "hires1"), {"shadow"})
  IN [m EXCEPT !.rd[<<"00", "hgr1">>] = To(BankOf(rd), "hgr1", {}),
               !.wr[<<"00", "hgr1">>] = To(BankOf(wr), "hgr1", flags)]

fixup_bank0_0400_0800(m) ==
  LET store == "st80" \in m.stat
      rd == IF store THEN "page2" \in m.stat ELSE RAMRD(m)
      wr == IF store THEN "page2" \in m.stat ELSE RAMWRT(m)
      flags == MarksIf(Shadowed(m, "txt1"), IF wr THEN {"shadow2"} ELSE {"shadow"})
  IN [m EXCEPT !.rd[<<"00", "txt1">>] = To(BankOf(rd), "txt1", {}),
               !.wr[<<"00", "txt1">>] = To(BankOf(wr), "txt1", flags)]

fixup_hires_on(m) ==
  IF "st80" \in m.stat THEN fixup_brks(fixup_bank0_2000_4000(m)) ELSE m

HiresPages(m) == IF "hires" \in m.stat THEN fixup_bank0_2000_4000(m) ELSE m
fixup_st80col(m) == fixup_brks(HiresPages(fixup_bank0_0400_0800(m)))

\* Mutant: page 2 is noted, but its pages stay.
OnlyDisplaysPage2(m) == m

fixup_page2(m) ==
  CASE {"st80", "hires"} \subseteq m.stat ->
         fixup_bank0_2000_4000(fixup_bank0_0400_0800(m))
    [] m.stat \cap {"st80", "hires"} = {"st80"} -> fixup_bank0_0400_0800(m)
    [] OTHER -> m

\* The first part of fixup_ramrd and fixup_ramwrt.
TextUnstored(m) == IF "st80" \notin m.stat THEN fixup_bank0_0400_0800(m) ELSE m
HiresUnstored(m) ==
  IF ~({"st80", "hires"} \subseteq m.stat) THEN fixup_bank0_2000_4000(m) ELSE m
Unstored(m) == HiresUnstored(TextUnstored(m))

ReadPlain(m) ==
  [m EXCEPT !.rd = Lead(m.rd, "00", Plain \cup {"txt2", "hgr2", "shr"}, BankOf(RAMRD(m)), {})]
fixup_ramrd(m) == ReadPlain(Unstored(m))

WritePlain(m) == [m EXCEPT !.wr = Lead(m.wr, "00", Plain, BankOf(RAMWRT(m)), {})]
WriteShadowed(m) ==
  LET wr == RAMWRT(m)
      txt2 == MarksIf(Shadowed(m, "txt2") /\ Page2Shadow, IF wr THEN {"shadow2"} ELSE {"shadow"})
      hgr2 == IF wr THEN MarksIf(AuxHires(m, "hires2"), {"shadow2"})
              ELSE MarksIf(Shadowed(m, "hires2"), {"shadow"})
      shr == MarksIf(wr /\ Shadowed(m, "shr"), {"shadow2"})
  IN [m EXCEPT !.wr[<<"00", "txt2">>] = To(BankOf(wr), "txt2", txt2),
               !.wr[<<"00", "hgr2">>] = To(BankOf(wr), "hgr2", hgr2),
               !.wr[<<"00", "shr">>] = To(BankOf(wr), "shr", shr)]
fixup_ramwrt(m) == WriteShadowed(WritePlain(Unstored(m)))

(***************************************************************************)
(* Slots and language card.                                                *)
(***************************************************************************)
\* The banks whose c0-cf is I/O.
IoBanks(m) == IF Iolc(m) THEN {"00", "01", "E0", "E1"} ELSE {"E0", "E1"}

\* What a read of a slot's page finds, in a bank where it is I/O.
SlotRom(m, a) ==
  CASE a = "c0" -> IO
    [] a = "c8" \/ a \notin m.int_crom \/ INTCX(m) -> To("rom", a, {})
    [] OTHER -> To("cards", a, {})

fixup_intcx(m) ==
  LET io(p) == p[1] \in IoBanks(m) /\ p[2] \in Cards
      rd == [p \in Page |-> IF p = <<"00", SmartPort>> /\ Iolc(m) THEN IO
                            ELSE IF io(p) THEN SlotRom(m, p[2]) ELSE m.rd[p]]
      wr == [p \in Page |-> IF io(p) THEN IO ELSE m.wr[p]]
  IN fixup_brks([m EXCEPT !.rd = rd, !.wr = wr])

\* The 4K at d0: language card bank 2 where it is, bank 1 at c0.
CardArea(m) == IF LCBANK2(m) THEN "d0" ELSE "cx"

fixup_wrdefram(m, new) ==
  LET t == [m EXCEPT !.wrdefram = new]
      f == Protect(t)
      zp == BankOf(ALTZP(m))
  IN IF ~Iolc(m) THEN t
     ELSE fixup_brks(
       [t EXCEPT !.wr[<<"01", "e0">>] = To("01", "e0", f),
                 !.wr[<<"00", "e0">>] = To(zp, "e0", f),
                 !.wr[<<"01", "d0">>] = To("01", CardArea(m), f),
                 !.wr[<<"00", "d0">>] = To(zp, CardArea(m), f)])

fixup_altzp(m) ==
  LET b == BankOf(ALTZP(m))
      area == IF Iolc(m) THEN CardArea(m) ELSE "cx"
      flags == MarksIf(Iolc(m), Protect(m))
      rom == Iolc(m) /\ RDROM(m)
  IN [m EXCEPT !.rd[<<"00", "zp">>] = To(b, "zp", {}),
               !.wr[<<"00", "zp">>] = To(b, "zp", {}),
               !.rd[<<"00", "d0">>] = IF rom THEN To("rom", "d0", {}) ELSE To(b, area, {}),
               !.wr[<<"00", "d0">>] = To(b, area, flags),
               !.rd[<<"00", "e0">>] = IF rom THEN To("rom", "e0", {}) ELSE To(b, "e0", {}),
               !.wr[<<"00", "e0">>] = To(b, "e0", flags)]

fixup_lcbank2(m) ==
  LET fast == {"00", "01"}
      to(b) == IF b = "00" THEN BankOf(ALTZP(m)) ELSE b
      area(b) == IF b \in fast /\ ~Iolc(m) THEN "cx" ELSE CardArea(m)
      rd(b) == IF b \in fast /\ Iolc(m) /\ RDROM(m) THEN To("rom", "d0", {})
               ELSE To(to(b), area(b), {})
      wr(b) == To(to(b), area(b), MarksIf(b \in fast /\ Iolc(m), Protect(m)))
  IN [m EXCEPT !.rd = [p \in Page |-> IF p[2] = "d0" THEN rd(p[1]) ELSE m.rd[p]],
               !.wr = [p \in Page |-> IF p[2] = "d0" THEN wr(p[1]) ELSE m.wr[p]]]

RomPages(m) ==
  LET rom == Iolc(m) /\ RDROM(m)
      rd(b) == To(IF rom THEN "rom" ELSE IF b = "00" THEN BankOf(ALTZP(m)) ELSE b, "e0", {})
  IN [m EXCEPT !.rd[<<"00", "e0">>] = rd("00"), !.rd[<<"01", "e0">>] = rd("01")]
fixup_rdrom(m) == RomPages(fixup_lcbank2(m))

(***************************************************************************)
(* c068, the state register, which the single switches change as well.     *)
(***************************************************************************)
When(on, new, old) == IF on THEN new ELSE old

\* The copy of the page 2 switch among those of the display.
CopyPage2(m) ==
  [m EXCEPT !.stat = (m.stat \ {"page2"}) \cup (m.statereg \cap {"page2"})]

FixSwitch(m, bit) ==
  CASE bit = "altzp" -> fixup_altzp(m)
    [] bit = "page2" -> fixup_page2(CopyPage2(m))
    [] bit = "ramrd" -> fixup_ramrd(m)
    [] bit = "ramwrt" -> fixup_ramwrt(m)
    [] bit = "rdrom" -> fixup_rdrom(m)
    [] bit = "lcbank2" -> fixup_lcbank2(m)
    [] bit = "intcx" -> fixup_intcx(m)

\* The switches that changed, in the order in which the code looks at them.
FixSwitched(t, bit, old, val) == When((bit \in old) # (bit \in val), FixSwitch(t, bit), t)
set_statereg(m, val) ==
  LET Fix(t, bit) == FixSwitched(t, bit, m.statereg, val)
      banks == Fix(Fix(Fix(Fix([m EXCEPT !.statereg = val], "altzp"), "page2"), "ramrd"), "ramwrt")
  IN When(m.statereg = val, m, fixup_brks(Fix(Fix(Fix(banks, "rdrom"), "lcbank2"), "intcx")))

(***************************************************************************)
(* c035, the shadow register.                                              *)
(***************************************************************************)
fixup_shadow_txt1(m) ==
  LET t == fixup_bank0_0400_0800(m)
  IN [t EXCEPT !.wr[<<"01", "txt1">>] =
        To("01", "txt1", MarksIf(Shadowed(m, "txt1"), {"shadow2"}))]

fixup_shadow_txt2(m) ==
  LET on == Shadowed(m, "txt2") /\ Page2Shadow
      own == IF RAMWRT(m) THEN {"shadow2"} ELSE {"shadow"}
  IN [m EXCEPT !.wr[<<"00", "txt2">>] = To(BankOf(RAMWRT(m)), "txt2", MarksIf(on, own)),
               !.wr[<<"01", "txt2">>] = To("01", "txt2", MarksIf(on, {"shadow2"}))]

fixup_shadow_hires1(m) ==
  LET t == fixup_bank0_2000_4000(m)
  IN [t EXCEPT !.wr[<<"01", "hgr1">>] =
        To("01", "hgr1", MarksIf(AuxHires(m, "hires1"), {"shadow2"}))]

fixup_shadow_hires2(m) ==
  LET flags == IF RAMWRT(m) THEN MarksIf(AuxHires(m, "hires2"), {"shadow2"})
               ELSE MarksIf(Shadowed(m, "hires2"), {"shadow"})
  IN [m EXCEPT !.wr[<<"00", "hgr2">>] = To(BankOf(RAMWRT(m)), "hgr2", flags),
               !.wr[<<"01", "hgr2">>] =
                  To("01", "hgr2", MarksIf(AuxHires(m, "hires2"), {"shadow2"}))]

fixup_shadow_shr(m) ==
  LET flags == MarksIf(Shadowed(m, "shr"), {"shadow2"})
  IN [m EXCEPT !.wr[<<"00", "shr">>] =
                  To(BankOf(RAMWRT(m)), "shr", MarksIf(RAMWRT(m), flags)),
               !.wr[<<"01", "shr">>] = To("01", "shr", flags)]

\* Without the language card, c0-cf and d0-df change places.
fixup_shadow_iolc(m) ==
  LET zp(b) == IF b = "00" THEN BankOf(ALTZP(m)) ELSE b
      ram(p) == CASE p[2] \in Cards -> To(p[1], "d0", {})
                  [] p[2] = "d0" -> To(zp(p[1]), "cx", {})
                  [] p[2] = "e0" -> To(zp(p[1]), "e0", {})
      gone(p) == p[1] \in {"00", "01"} /\ p[2] \in Cards \cup {"d0", "e0"}
  IN IF Iolc(m) THEN fixup_wrdefram(fixup_rdrom(fixup_intcx(m)), m.wrdefram)
     ELSE [m EXCEPT !.rd = [p \in Page |-> IF gone(p) THEN ram(p) ELSE m.rd[p]],
                    !.wr = [p \in Page |-> IF gone(p) THEN ram(p) ELSE m.wr[p]]]

Hires12(m) == fixup_shadow_hires2(fixup_shadow_hires1(m))
FixInhibit(m, bit) ==
  CASE bit = "shr" -> fixup_shadow_shr(Hires12(m))
    [] bit = "aux" -> Hires12(m)
    [] bit = "hires1" -> fixup_shadow_hires1(m)
    [] bit = "hires2" -> fixup_shadow_hires2(m)
    [] bit = "txt1" -> fixup_shadow_txt1(m)
    [] bit = "txt2" -> When(Page2Shadow, fixup_shadow_txt2(m), m)
    [] bit = "iolc" -> fixup_shadow_iolc(m)

\* Hires pages done with shr and aux are not done again.
AlreadyDone(bit, old, val) ==
  LET changes(b) == (b \in old) # (b \in val)
  IN  \/ bit = "aux" /\ changes("shr")
      \/ bit \in {"hires1", "hires2"} /\ (changes("shr") \/ changes("aux"))
Inhibits(bit, old, val) == (bit \in old) # (bit \in val) /\ ~AlreadyDone(bit, old, val)
FixInhibited(t, bit, old, val) == When(Inhibits(bit, old, val), FixInhibit(t, bit), t)
update_shadow_reg(m, val) ==
  LET Fix(t, bit) == FixInhibited(t, bit, m.shadow, val)
      hires == Fix(Fix(Fix(Fix([m EXCEPT !.shadow = val], "shr"), "aux"), "hires1"), "hires2")
  IN When(m.shadow = val, m, fixup_brks(Fix(Fix(Fix(hires, "txt1"), "txt2"), "iolc")))

\* Bit 4 of c036: super hires is shadowed from the odd banks as well.
fixup_shadow_all_banks(m) ==
  LET flags == MarksIf(m.all_banks /\ Shadowed(m, "shr"), {"shadow2"})
  IN fixup_brks([m EXCEPT !.wr = Lead(m.wr, "odd", SuperHires, "odd", flags)])

Self == [p \in Page |-> To(p[1], p[2], {})]
FixShadows(m) ==
  fixup_shadow_iolc(fixup_shadow_shr(Hires12(fixup_shadow_txt2(fixup_shadow_txt1(m)))))
FixSwitches(m) == fixup_rdrom(fixup_ramwrt(fixup_ramrd(fixup_altzp(m))))
FixCard(m) == fixup_wrdefram(m, m.wrdefram)

setup_pageinfo(m) ==
  fixup_brks(FixShadows(FixSwitches(FixCard(
    fixup_bank0_0400_0800(fixup_bank0_2000_4000(fixup_lcbank2(fixup_intcx(
      fixup_shadow_all_banks([m EXCEPT !.rd = Self, !.wr = Self])))))))))

ResetMap(m) ==
  setup_pageinfo([m EXCEPT !.statereg = {"rdrom", "lcbank2", "intcx"}, !.stat = {},
                           !.shadow = {}, !.wrdefram = TRUE, !.int_crom = {}])

(***************************************************************************)
(* Actions: the CPU's accesses, the debugger, the machine's reset.         *)
(***************************************************************************)
PowerOn ==
  ResetMap([statereg |-> {}, stat |-> {}, shadow |-> {"shr"}, wrdefram |-> FALSE,
            int_crom |-> {}, all_banks |-> FALSE, breakpts |-> {},
            rd |-> Self, wr |-> Self])

MapInit == map = PowerOn

WriteC068(val) == map' = set_statereg(map, val)

\* c002-c009, c054 and c055.
SetSwitch(bit, on) ==
  map' = set_statereg(map, IF on THEN map.statereg \cup {bit} ELSE map.statereg \ {bit})

\* c080-c08f.
LanguageCard(lcbank2, new_wrdefram, rdrom) ==
  map' = set_statereg(
           When(new_wrdefram # map.wrdefram, fixup_wrdefram(map, new_wrdefram), map),
           (map.statereg \ {"lcbank2", "rdrom"})
             \cup MarksIf(lcbank2, {"lcbank2"}) \cup MarksIf(rdrom, {"rdrom"}))

\* c000, c001.
Store80(on) ==
  /\ on # ("st80" \in map.stat)
  /\ map' = fixup_st80col([map EXCEPT !.stat = (map.stat \ {"st80"}) \cup MarksIf(on, {"st80"})])

\* c056, c057.
Hires(on) ==
  /\ on # ("hires" \in map.stat)
  /\ map' = fixup_hires_on([map EXCEPT !.stat = (map.stat \ {"hires"}) \cup MarksIf(on, {"hires"})])

\* c02d, and c00a, c00b for slot 3.
WriteC02d(crom) ==
  crom # map.int_crom /\ map' = fixup_intcx([map EXCEPT !.int_crom = crom])

WriteC035(val) == map' = update_shadow_reg(map, val)

WriteC036(on) ==
  on # map.all_banks /\ map' = fixup_shadow_all_banks([map EXCEPT !.all_banks = on])

\* Thirty-two may be set; breakpts are their pages.
set_bp(b) == map' = fixup_brks([map EXCEPT !.breakpts = map.breakpts \cup {b}])

\* Another breakpoint, on the same page, may remain.
delete_bp(b) ==
  /\ b \in map.breakpts
  /\ \E left \in {map.breakpts, map.breakpts \ {b}} :
       map' = setup_pageinfo([map EXCEPT !.breakpts = left])

DoReset == map' = ResetMap(map)

MapNext ==
  \/ \E val \in SUBSET Switch : WriteC068(val)
  \/ \E bit \in Switch \ {"lcbank2", "rdrom"}, on \in BOOLEAN : SetSwitch(bit, on)
  \/ \E lcbank2, wrdefram, rdrom \in BOOLEAN : LanguageCard(lcbank2, wrdefram, rdrom)
  \/ \E on \in BOOLEAN : Store80(on) \/ Hires(on) \/ WriteC036(on)
  \/ \E crom \in SUBSET Slots : WriteC02d(crom)
  \/ \E val \in SUBSET Inhibit : WriteC035(val)
  \/ \E b \in Breakpoint : set_bp(b) \/ delete_bp(b)
  \/ DoReset

\* Whatever the program and the debugger do, in any order.
MapSpec == MapInit /\ [][MapNext]_map

(***************************************************************************)
(* Properties.                                                             *)
(***************************************************************************)
(* Switches and tables have their types, and the two copies of the page 2
   switch, in c068 and in g_cur_a2_stat, agree. *)
MapTypeOK == map \in Map /\ (("page2" \in map.stat) <=> ("page2" \in map.statereg))

(* After every access to a switch, and after a breakpoint is set or goes, the
   tables are what a computation from nothing would give: the fix-ups of one
   switch do all that the others' positions ask for, no page keeps what an
   earlier position left, and no breakpoint is forgotten by a fix-up.  The odd
   banks are another matter: update_shadow_reg, which changes whether super
   hires is shadowed at all, does nothing for them. *)
TablesFollowSwitches ==
  \A m \in {setup_pageinfo(map)}, p \in Page :
    p[1] # "odd" => map.rd[p] = m.rd[p] /\ map.wr[p] = m.wr[p]

\* A page as the program sees it: breakpoints apart.
Seen(t) == <<t.bank, t.area, t.flags \ {"io", "break"}>>

(* Whatever bank 0 shows of the auxiliary memory is what bank 1 shows there:
   the same bytes, with the same write protection and the same shadowing.  The
   two banks are fixed up by different lines, at different times. *)
AuxIsBank1 ==
  \A a \in Area :
    /\ map.rd[<<"00", a>>].bank = "01" => Seen(map.rd[<<"00", a>>]) = Seen(map.rd[<<"01", a>>])
    /\ map.wr[<<"00", a>>].bank = "01" => Seen(map.wr[<<"00", a>>]) = Seen(map.wr[<<"01", a>>])
=============================================================================
