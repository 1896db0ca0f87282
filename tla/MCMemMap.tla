------------------------------ MODULE MCMemMap ------------------------------
(***************************************************************************)
(* Finite instances of module MemMap.  The switches of the language card   *)
(* and the slots, and those of the screen's pages, have no page in common; *)
(* a behaviour works at length on the ones of its focus.                   *)
(***************************************************************************)
EXTENDS MemMap

CONSTANT Focus
VARIABLE focus

\* Where breakpoints are set: a page with every switch of the focus.
BreakPage == IF focus = "screen" THEN <<"00", "hgr1">> ELSE <<"00", "d0">>

\* Changes of at most two bits at once.
Near(old, bits) ==
  {(old \ {b, c}) \cup (({b, c} \cap bits) \ old) : b \in bits, c \in bits}

Screen ==
  \/ \E val \in SUBSET {"ramrd", "ramwrt", "page2"} :
       WriteC068(val \cup (map.statereg \ {"ramrd", "ramwrt", "page2"}))
  \/ \E bit \in {"ramrd", "ramwrt", "page2"}, on \in BOOLEAN : SetSwitch(bit, on)
  \/ \E on \in BOOLEAN : Store80(on) \/ Hires(on) \/ WriteC036(on)
  \/ \E val \in Near(map.shadow, Inhibit \ {"iolc"}) : WriteC035(val)

CardsAndSlots ==
  \/ \E val \in SUBSET {"altzp", "rdrom", "lcbank2", "intcx"} : WriteC068(val)
  \/ \E bit \in {"altzp", "intcx"}, on \in BOOLEAN : SetSwitch(bit, on)
  \/ \E lcbank2, wrdefram, rdrom \in BOOLEAN : LanguageCard(lcbank2, wrdefram, rdrom)
  \/ \E crom \in SUBSET Slots : WriteC02d(crom)
  \/ \E val \in Near(map.shadow, {"iolc", "txt1"}) : WriteC035(val)

Debugger ==
  \/ \E b \in Breakpoint : b.page = BreakPage /\ set_bp(b)
  \/ \E b \in map.breakpts : delete_bp(b)
  \/ DoReset

MapStep ==
  /\ (focus = "screen" /\ Screen) \/ (focus = "cards" /\ CardsAndSlots) \/ Debugger

=============================================================================
