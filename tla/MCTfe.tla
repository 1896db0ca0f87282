------------------------------- MODULE MCTfe -------------------------------
(***************************************************************************)
(* The Ethernet card with a driver, for TLC.  The driver moves words, as   *)
(* two bytes, and single bytes where that is of interest; a behaviour has  *)
(* one focus, a set of such accesses.                                      *)
(***************************************************************************)
EXTENDS Tfe

CONSTANTS Foci,
          MaxBytes   \* bound: bytes of a long frame that are written

VARIABLES focus,
          todo,      \* the accesses that the driver's operation still has to make
          setup      \* what the driver has stored last to the registers of the filter
vars == <<tfeVars, focus, todo, setup>>

-----------------------------------------------------------------------------
MCHosts ==
  LET card(n, e) == [name |-> n, opens |-> TRUE, ethernet |-> e]
  IN  {[installed |-> TRUE, adapters |-> <<card("lo", FALSE), card("eth", TRUE)>>],
       [installed |-> FALSE, adapters |-> <<card("eth", TRUE)>>],
       [installed |-> TRUE, adapters |-> << >>]}

Mine == <<2, 0, 0, 0, 0, 0>>
Others == {<<2, 0, 0, 0, 0, 1>>,     \* passes the hash filter at 29
           <<128, 0, 0, 0, 0, 0>>,   \* at 20, and counts as a group's address
           <<2, 0, 0, 0, 0, 2>>}     \* at 59
Body(n) == [i \in 1 .. n |-> 10 + i]
MCFrames == {<< >>} \cup {to \o Body(8) : to \in {Mine, Broadcast} \cup Others} \cup {Mine \o Body(9)}

\* Accesses: a port and a byte to store there, or -1 to read.
Read(port) == <<port, -1>>
Store(port, word) == <<<<port, word % 256>>, <<port + 1, word \div 256>>>>
Point(pp) == Store(PP_PTR, pp)
PutWord(pp, word) == Point(pp) \o Store(PP_DATA, word)
LowFirst(pp) == Point(pp) \o <<Read(PP_DATA), Read(PP_DATA + 1)>>
HighFirst(pp) == Point(pp) \o <<Read(PP_DATA + 1), Read(PP_DATA)>>

MacWords(a) == LET w(i) == a[i] + 256 * a[i + 1] IN Store(PP_DATA, w(1)) \o Store(PP_DATA2, w(3)) \o Store(PP_DATA, w(5))
Operations ==
  [send |-> {PutWord(LINECTL, 192), LowFirst(BUSST)}
            \cup {Store(TXCMD, w) : w \in {201, 4096}} \cup {Store(TXLENGTH, w) : w \in {3, 5, 1515}}
            \cup {Store(RXTXDATA, w) : w \in {513, 770}} \cup {<<<<RXTXDATA2, 4>>>>},
   skip |-> {PutWord(LINECTL, w) : w \in {192, 64}} \cup {PutWord(RXCFG, 67)}
            \cup {Store(TXCMD, 201), Store(TXLENGTH, 4), Point(BUSST) \o <<Read(PP_DATA2 + 1)>>}
            \cup {Store(RXTXDATA, w) : w \in {513, 770}},
   receive |-> {PutWord(LINECTL, w) : w \in {0, 64}} \cup {PutWord(RXCTL, 128)}
            \cup {LowFirst(RXEVENT), Point(RXEVENT) \o <<Read(PP_DATA + 1)>>}
            \cup {<<Read(RXTXDATA + 1), Read(RXTXDATA)>>, <<Read(RXTXDATA), Read(RXTXDATA + 1)>>},
   filter |-> {PutWord(LINECTL, 64), HighFirst(RXEVENT), PutWord(ADDR_FILTER + 2, 8208),
               PutWord(ADDR_FILTER + 6, 2048), Point(32768 + MAC_ADDR) \o MacWords(Mine)}
            \cup {PutWord(RXCTL, w) : w \in {1088, 2560}},
   fail |-> {PutWord(LINECTL, 64), HighFirst(RXEVENT)} \cup {PutWord(RXCTL, w) : w \in {128, 1024, 2048}},
   reset |-> {PutWord(LINECTL, 64), PutWord(SELFCTL, 64), HighFirst(RXEVENT), <<Read(INTSTQUEUE)>>, Store(TXCMD, 4096)}
             \cup {LowFirst(pp) : pp \in {0, RXCFG, 278, CC_TXCMD, 310, PP_TXCMD, PP_TXLENGTH, MAC_ADDR}},
   again |-> {PutWord(LINECTL, 64), PutWord(SELFCTL, 64), HighFirst(RXEVENT), PutWord(ADDR_FILTER + 2, 8208)}
             \cup {PutWord(RXCTL, w) : w \in {5, 128, 1088}}]

\* The driver keeps to the order of bytes the card expects.
Sensible(op) ==
  CASE op[1][1] \in {RXTXDATA, RXTXDATA2} /\ op[1][2] >= 0 ->
         /\ tx.state = "READ_BUSST" => tx.count < MaxBytes
         /\ op[1][2] = 2 => tx.count = 0
         /\ Len(op) = 1 => tx.state = "READ_BUSST" /\ tx.count + 1 = tx.length
    [] op[1] = Read(RXTXDATA) -> rx.state = "GOT_FRAME" => rx.count >= 4
    [] op[1] = Read(RXTXDATA + 1) -> rx.state = "GOT_FRAME" /\ rx.count < 4
    [] OTHER -> TRUE

\* setup keeps the word of RXCTL, the bits of the hash filter below 32 and the
\* address.  A store that leaves RXCTL as it was is none, and a reset of the card
\* is none either, although it changes what the registers of all but the address
\* read as.  The bits from 32 on are an undefined shift: nobody knows them.
Stored(at, byte, word) ==
  CASE at - (at % 2) = RXCTL /\ word # GET_PP_16(packetpage, RXCTL) -> [setup EXCEPT !.control = word]
    [] at \in ADDR_FILTER .. ADDR_FILTER + 3 ->
         LET base == 8 * (at - ADDR_FILTER)
         IN  [setup EXCEPT !.hash = (@ \ base .. base + 7)
                                    \cup {base + i : i \in {j \in 0 .. 7 : BitOf(byte, j) = 1}}]
    [] at \in MAC_ADDR .. MAC_ADDR + 5 -> [setup EXCEPT !.mac[at - MAC_ADDR + 1] = byte]
    [] OTHER -> setup

Does(access) ==
  LET port == Port(access[1])
      at == PPAddress(port) + (access[1] % 2)
  IN  IF access[2] < 0 THEN tfe_read(access[1]) /\ UNCHANGED setup
      ELSE /\ tfe_store(access[1], access[2])
           /\ setup' = IF port \notin {PP_DATA, PP_DATA2} THEN setup
                       ELSE Stored(at, access[2], GET_PP_16(packetpage', at - (at % 2)))
Driver ==
  /\ IF todo # << >> THEN Does(Head(todo)) /\ todo' = Tail(todo)
     ELSE \E op \in Operations[focus] : Sensible(op) /\ Does(Head(op)) /\ todo' = Tail(op)
  /\ Len(sent') <= MaxSent
  /\ UNCHANGED focus
Starts == (\E number \in 0 .. 2 : tfe_init(number)) /\ UNCHANGED <<focus, todo, setup>>
NetSends ==
  /\ todo = << >>
  /\ \/ focus = "receive" /\ wire = << >>
     \/ focus \in {"filter", "fail", "reset", "again"}
  /\ FrameArrives
  /\ focus = "receive" => wire'[1] \in {Broadcast \o Body(8), Mine \o Body(9)}
  /\ focus \in {"filter", "reset", "again"} => Len(wire'[1]) = 14 /\ (wire # << >> => wire'[2] = Mine \o Body(8))
  /\ focus = "fail" => \A i \in DOMAIN wire' : wire'[i] \in {<< >>, Mine \o Body(9)}
  /\ UNCHANGED <<focus, todo, setup>>

-----------------------------------------------------------------------------
(* Properties. *)

Phase == [IDLE |-> "idle", GOT_CMD |-> "command", GOT_LEN |-> "length", READ_BUSST |-> "bytes"]
Bytes(a, n) == [i \in 1 .. n |-> GET_PP_8(packetpage, a + i - 1)]

\* The card does what a driver of words is promised (Ethernet), whatever was
\* given up, replaced or disabled half-way.
Card == INSTANCE Ethernet WITH
  MinLength <- MIN_TXLENGTH, MaxLength <- MAX_TXLENGTH,
  phase <- Phase[tx.state],
  want <- IF tx.state \in {"GOT_LEN", "READ_BUSST"} THEN tx.length ELSE 0,
  given <- IF tx.state = "READ_BUSST" THEN Bytes(TX_FRAMELOC, tx.count) ELSE << >>,
  on <- tx.enabled,
  frame <- IF rx.state = "GOT_FRAME"
           THEN [i \in 1 .. rx.length + 4 |->
                   GET_PP_8(packetpage, IF i > 4 THEN RXSTATUS + i - 1
                                        ELSE RXSTATUS + i - 1 + (IF i % 2 = 1 THEN 1 ELSE -1))]
           ELSE << >>,
  at <- IF rx.state = "GOT_FRAME" THEN rx.count ELSE 0,
  value <- result
Promise == Card!Spec

\* Is f for the driver, if the filter is set up as it was told last?  The bits of
\* the hash filter from 32 on are taken to be all unknown.
WantedWith(f, unknown) ==
  LET to == SubSeq(f, 1, 6)
      asked == FlagsOf(setup.control)
      index == HashIndex(to)
      passes == to # Broadcast /\ (IF index < 32 THEN index \in setup.hash ELSE unknown)
  IN  \/ "promiscuous" \in asked
      \/ to = Broadcast /\ "broadcast" \in asked
      \/ to = setup.mac /\ "mac" \in asked
      \/ passes /\ to[1] < 128 /\ "hashfilter" \in asked
      \/ passes /\ to[1] >= 128 /\ "multicast" \in asked

\* Of the frames that wait, the first is taken that the driver has asked for, and
\* those before it are dropped.  What it has asked for is setup: a reset of the
\* card takes nothing of it back, though RXCTL reads as 5 again (tfe.c:85,
\* 443-445), and so a store of 5 to it then asks for nothing.  Nothing is said of
\* a frame that only an unknown bit of the hash decides, or of a call that fails.
TakesWanted ==
  [][Len(wire') < Len(wire) =>
       LET gone == Len(wire) - Len(wire')
           arrived == {i \in 1 .. gone : wire[i] # << >>}
           taken(i) == i = gone /\ Has(GET_PP_16(packetpage', RXEVENT), 256)
       IN  \A i \in arrived : /\ WantedWith(wire[i], FALSE) => taken(i)
                              /\ taken(i) => WantedWith(wire[i], TRUE)]_vars

\* No assert() fails for a driver of words.
NoAssertFails == ~failed

\* A frame on its way has bytes left where the card looks for them, and the
\* card's assertions about ports and states hold for a driver of words.
FramesFit == CountsInFrame /\ NoAssertFails

-----------------------------------------------------------------------------
MCInit ==
  /\ Init /\ focus \in Foci /\ todo = << >>
  /\ setup = [control |-> 0, hash |-> {}, mac |-> <<0, 0, 0, 0, 0, 0>>]
MCNext == Driver \/ Starts \/ NetSends
MCSpec == MCInit /\ [][MCNext]_vars
=============================================================================
