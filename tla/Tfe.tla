-------------------------------- MODULE Tfe --------------------------------
(***************************************************************************)
(* The Ethernet card, a CS8900a in I/O mode (tfe/tfe.c).  The guest sees   *)
(* sixteen bytes, eight words, at c0b0: a pointer into the packet page and *)
(* a window on it, the command and the length of a frame to send, and one  *)
(* port through which the bytes of a frame go in either direction.         *)
(*                                                                         *)
(* tfe_read and tfe_store are called for one byte at a time, so a word is  *)
(* two accesses, and what a register does happens at each of them.  The    *)
(* packet page is a function of the bytes that were written since the last *)
(* reset cleared it; all others are 0.                                     *)
(***************************************************************************)
EXTENDS Nic, CpuAlu, SequencesExt

VARIABLES tfe_enabled, tfe_cannot_use,
          io,     \* tfe, the word last moved through each port, and tfe_packetpage_ptr
          packetpage, \* tfe_packetpage, or NoPage before it is allocated
          tx,     \* tx_state, tx_enabled, tx_buffer, tx_count, tx_length
          rx,     \* rx_state, rx_enabled, rx_buffer, rx_count, rx_length, rxevent_read_mask
          filter, \* tfe_ia_mac, tfe_hash_mask, tfe_recv_control, its flags
          result, \* the byte the guest read
          failed  \* an assert() ended the program
tfeVars == <<tfe_enabled, tfe_cannot_use, io, packetpage, tx, rx, filter, result, failed, nicVars>>

NoPage == << >>

\* The ports.
RXTXDATA == 0     RXTXDATA2 == 2
TXCMD == 4        TXLENGTH == 6
INTSTQUEUE == 8   PP_PTR == 10
PP_DATA == 12     PP_DATA2 == 14

\* The packet page.
MAX_PACKETPAGE_ARRAY == 4096
RXCFG == 258      \* 0x0102
RXCTL == 260
CC_TXCMD == 264
LINECTL == 274    \* 0x0112
SELFCTL == 276
SE_ISQ == 288     \* 0x0120
RXEVENT == 292
BUSST == 312      \* 0x0138
PP_TXCMD == 324   \* 0x0144
PP_TXLENGTH == 326
ADDR_FILTER == 336 \* 0x0150
MAC_ADDR == 344   \* 0x0158
RXSTATUS == 1024  \* 0x0400
RXLENGTH == 1026
RX_FRAMELOC == 1028
TX_FRAMELOC == 2560 \* 0x0a00

MIN_TXLENGTH == 4
MAX_TXLENGTH == 1518

GET_PP_8(page, a) == IF a \in DOMAIN page THEN page[a] ELSE 0
GET_PP_16(page, a) == GET_PP_8(page, a) + 256 * GET_PP_8(page, a + 1)
SET_PP_8(page, a, byte) == (a :> byte) @@ page
SET_PP_16(page, a, word) == (a :> word % 256) @@ (a + 1 :> word \div 256) @@ page

Has(word, mask) == (word \div mask) % 2 = 1
Without(word, mask) == IF Has(word, mask) THEN word - mask ELSE word
With(word, mask, wanted) == Without(word, mask) + (IF wanted THEN mask ELSE 0)

-----------------------------------------------------------------------------
(* Reset and start. *)

tfe_set_tx_status(page, ready, error) ==
  SET_PP_16(page, BUSST, With(With(GET_PP_16(page, BUSST), 256, ready), 128, error))

\* What tfe_set_transmitter and tfe_set_receiver leave.
Transmitter(enabled) == [tx EXCEPT !.enabled = enabled, !.state = "IDLE"]
Receiver(enabled) == [rx EXCEPT !.enabled = enabled, !.state = "IDLE", !.mask = {"L", "H"}]

ResetWords ==
  (0 :> 25358) @@ (2 :> 2304) @@ (32 :> 768) @@ (34 :> 4) @@ (36 :> 3)
  @@ (RXCFG :> 3) @@ (RXCTL :> 5) @@ (262 :> 7) @@ (CC_TXCMD :> 9) @@ (266 :> 11)
  @@ (LINECTL :> 19) @@ (SELFCTL :> 21) @@ (278 :> 23) @@ (280 :> 25)
  @@ (SE_ISQ :> 0) @@ (RXEVENT :> 4) @@ (296 :> 8) @@ (300 :> 12) @@ (304 :> 16)
  @@ (306 :> 18) @@ (308 :> 20) @@ (310 :> 2198) @@ (BUSST :> 24) @@ (316 :> 28)
  @@ (PP_TXCMD :> 9)
ResetPage(mac) ==
  LET words == [a \in DOMAIN ResetWords \cup {b + 1 : b \in DOMAIN ResetWords} |->
                  IF a % 2 = 0 THEN ResetWords[a] % 256 ELSE ResetWords[a - 1] \div 256]
  IN  [a \in {MAC_ADDR + i : i \in 0 .. 5} |-> mac[a - MAC_ADDR + 1]] @@ words

\* The page is cleared, and so are the ports (tfe_init, tfe_store); the address,
\* the hash filter and the flags the filter was set up with stay.
NoPorts == [i \in 0 .. 15 |-> 0]
tfe_reset ==
  /\ packetpage' = ResetPage(filter.mac)
  /\ tx' = Transmitter(FALSE)
  /\ rx' = Receiver(FALSE)
  /\ filter' = [filter EXCEPT !.control = 5]

\* The page is allocated and kept if the adapter can be used.
tfe_activate_i(name) ==
  LET usable == TfePcapOpenAdapter(host, name)
  IN  /\ tfe_enabled' = usable /\ tfe_cannot_use' = ~usable
      /\ fp' = TfePcapOpened(host, name)
      /\ IF usable THEN tfe_reset ELSE UNCHANGED <<packetpage, tx, rx, filter>>

\* main: with the name of the configured adapter, once.
tfe_init(number) ==
  /\ packetpage = NoPage /\ ~tfe_cannot_use
  /\ tfe_activate_i(ConfiguredName(host, number))
  /\ UNCHANGED <<io, host, wire, sent, result, failed>>

Init ==
  /\ NicInit
  /\ tfe_enabled = FALSE /\ tfe_cannot_use = FALSE /\ packetpage = NoPage
  /\ io = [tfe |-> NoPorts, ptr |-> 0]
  /\ tx = [state |-> "IDLE", enabled |-> FALSE, buffer |-> TX_FRAMELOC, count |-> 0, length |-> 0]
  /\ rx = [state |-> "IDLE", enabled |-> FALSE, buffer |-> RXSTATUS, count |-> 0, length |-> 0,
           mask |-> {"L", "H"}]
  /\ filter = [mac |-> <<0, 0, 0, 0, 0, 0>>, hash |-> {}, control |-> 0, flags |-> {}]
  /\ result = 0 /\ failed = FALSE

-----------------------------------------------------------------------------
(* Which frames are taken. *)

\* crc32_buf's register after the bytes, bit 0 first: the polynomial 0xedb88320.
Poly == {31, 30, 29, 27, 26, 24, 23, 21, 20, 19, 15, 9, 8, 5}
crc32_buf(bytes) ==
  LET Shift(reg, bit) ==
        LET out == (reg[0] + bit) % 2
        IN  [i \in 0 .. 31 |-> ((IF i = 31 THEN 0 ELSE reg[i + 1])
                                + (IF i \in Poly THEN out ELSE 0)) % 2]
  IN  FoldLeft(LAMBDA reg, n : Shift(reg, BitOf(bytes[(n \div 8) + 1], n % 8)),
               [i \in 0 .. 31 |-> 1], [n \in 1 .. 8 * Len(bytes) |-> n - 1])
HashIndex(address) ==
  LET crc == crc32_buf(address)
  IN  crc[26] + 2 * crc[27] + 4 * crc[28] + 8 * crc[29] + 16 * crc[30] + 32 * crc[31]

Broadcast == <<255, 255, 255, 255, 255, 255>>

\* Whether the frame is taken, and what is told of its address.
tfe_should_accept(frame) ==
  LET address == SubSeq(frame, 1, 6)
      any(flag) == {flag, "promiscuous"} \cap filter.flags # {}
      mine == address = filter.mac
      index == HashIndex(address)
      fits == index \in filter.hash
      many == fits /\ address[1] >= 128
      plain == [take |-> TRUE, mac |-> mine, broadcast |-> FALSE, multicast |-> FALSE,
                hashed |-> FALSE, index |-> 0]
  IN  IF mine /\ any("mac") THEN plain
      ELSE IF address = Broadcast
           THEN [plain EXCEPT !.take = any("broadcast"), !.broadcast = TRUE]
      ELSE [plain EXCEPT !.multicast = many, !.hashed = fits /\ ~many,
                         !.index = IF fits THEN index ELSE 0,
                         !.take = any(IF many THEN "multicast"
                                      ELSE IF fits THEN "hashfilter" ELSE "promiscuous")]

\* The status of a good frame of that length: bits 9 to 14 have two uses.
RxStatus(about, length) ==
  260 + (IF about.multicast THEN 512 ELSE 0)
  + (IF about.hashed THEN 64 + 512 * about.index
     ELSE (IF about.mac THEN 1024 ELSE 0) + (IF about.broadcast THEN 2048 ELSE 0)
          + (IF length < 64 THEN 8192 ELSE 0))

\* tfe_receive: frames of the host up to the first that is taken, which replaces
\* the one that the guest may still be reading.  One stray byte stands for all.
Fetch(stray) ==
  LET frame(i) == tfe_arch_receive(i, stray)
      taken == {i \in DOMAIN wire : tfe_should_accept(frame(i)).take}
      first == CHOOSE i \in taken : \A j \in taken : i <= j
  IN  IF taken = {} THEN [frame |-> << >>, status |-> 4, left |-> << >>]
      ELSE [frame |-> frame(first), left |-> SubSeq(wire, first + 1, Len(wire)),
            status |-> RxStatus(tfe_should_accept(frame(first)), Len(frame(first)))]
tfe_receive(access) ==
  \E stray \in Stray : \E new \in {Fetch(stray)} :
    LET length == Len(new.frame)
        stored == IF length = 0 THEN packetpage
                  ELSE [a \in RX_FRAMELOC .. RX_FRAMELOC + length - 1 |->
                          new.frame[a - RX_FRAMELOC + 1]]
                       @@ SET_PP_16(packetpage, RXLENGTH, length)
        event == [rx EXCEPT !.mask = {access}]
    IN  /\ wire' = new.left
        /\ packetpage' = SET_PP_16(SET_PP_16(stored, RXSTATUS, new.status), RXEVENT, new.status)
        /\ rx' = IF length = 0 THEN event
                 ELSE [event EXCEPT !.state = "GOT_FRAME", !.buffer = RXSTATUS, !.count = 0,
                                    !.length = length]

-----------------------------------------------------------------------------
(* The bytes of frames. *)

\* tfe_write_tx_buffer: a byte that nobody waits for takes the ready bit away; the
\* last one of a frame sends it.
tfe_write_tx_buffer(value, odd) ==
  LET a == tx.buffer + odd
      put == SET_PP_8(packetpage, a, value)
  IN  /\ IF tx.state # "READ_BUSST"
         THEN packetpage' = tfe_set_tx_status(packetpage, FALSE, FALSE) /\ UNCHANGED <<tx, sent, failed>>
         ELSE /\ failed' = (a >= MAX_PACKETPAGE_ARRAY)
              /\ tx' = [tx EXCEPT !.count = @ + 1, !.buffer = @ + 2 * odd,
                                  !.state = IF tx.count + 1 = tx.length THEN "IDLE" ELSE @]
              /\ IF tx.count + 1 # tx.length THEN packetpage' = put /\ UNCHANGED sent
                 ELSE /\ packetpage' = tfe_set_tx_status(put, FALSE, FALSE)
                      /\ IF tx.enabled
                         THEN tfe_arch_transmit([i \in 1 .. tx.length |->
                                                   GET_PP_8(put, TX_FRAMELOC + i - 1)])
                         ELSE UNCHANGED sent
      /\ UNCHANGED <<io, rx, filter, wire, result>>

\* The place moves on before each low byte of the frame, the first one too.
StepsEarly(odd) ==
  LET header == rx.count < 4
      at == IF ~header /\ odd = 0 THEN rx.buffer + 2 ELSE rx.buffer
  IN  /\ IF rx.state # "GOT_FRAME" THEN result' = 0 /\ UNCHANGED rx
         ELSE /\ result' = GET_PP_8(packetpage, at + odd)
              /\ rx' = [rx EXCEPT !.count = @ + 1,
                                  !.buffer = IF header /\ odd = 0 THEN at + 2 ELSE at,
                                  !.state = IF rx.count + 1 >= rx.length + 4 THEN "IDLE" ELSE @]
      /\ UNCHANGED <<io, packetpage, tx, filter, wire, sent, failed>>

\* tfe_read_rx_buffer: status and length are read high byte first, the frame low
\* byte first; the place moves on after the former, before the latter.
tfe_read_rx_buffer(odd) ==
  LET header == rx.count < 4
      at == IF ~header /\ rx.count >= 6 /\ odd = 0 THEN rx.buffer + 2 ELSE rx.buffer
  IN  /\ IF rx.state # "GOT_FRAME" THEN result' = 0 /\ UNCHANGED rx
         ELSE /\ result' = GET_PP_8(packetpage, at + odd)
              /\ rx' = [rx EXCEPT !.count = @ + 1,
                                  !.buffer = IF header /\ odd = 0 THEN at + 2 ELSE at,
                                  !.state = IF rx.count + 1 >= rx.length + 4 THEN "IDLE" ELSE @]
      /\ UNCHANGED <<io, packetpage, tx, filter, wire, sent, failed>>

-----------------------------------------------------------------------------
(* What the registers do. *)

Plain(page) == packetpage' = page /\ UNCHANGED <<tx, rx, filter>>

\* RXCFG: the skip bit gives up what is being sent.
Skip(page) ==
  LET content == GET_PP_16(page, RXCFG)
  IN  IF ~Has(content, 64) THEN Plain(page)
      ELSE /\ tx' = Transmitter(tx.enabled)
           /\ packetpage' = SET_PP_16(tfe_set_tx_status(page, FALSE, FALSE), RXCFG, content - 64)
           /\ UNCHANGED <<rx, filter>>

FlagMask == [broadcast |-> 2048, mac |-> 1024, multicast |-> 512, correct |-> 256,
             promiscuous |-> 128, hashfilter |-> 64]
FlagsOf(control) == {f \in DOMAIN FlagMask : Has(control, FlagMask[f])}
ReceiveControl(page) ==
  LET content == GET_PP_16(page, RXCTL)
  IN  /\ packetpage' = page
      /\ filter' = IF filter.control = content THEN filter
                   ELSE [filter EXCEPT !.control = content, !.flags = FlagsOf(content)]
      /\ UNCHANGED <<tx, rx>>

\* Either enable bit that changes resets both halves.
LineControl(page) ==
  LET send == Has(GET_PP_16(page, LINECTL), 128)
      receive == Has(GET_PP_16(page, LINECTL), 64)
  IN  IF send = tx.enabled /\ receive = rx.enabled THEN Plain(page)
      ELSE /\ tx' = Transmitter(send) /\ rx' = Receiver(receive)
           /\ packetpage' = tfe_set_tx_status(page, FALSE, FALSE)
           /\ UNCHANGED filter

Resets(page, a) == a = SELFCTL /\ Has(GET_PP_16(page, SELFCTL), 64)
SelfControl(page) == IF Resets(page, SELFCTL) THEN tfe_reset ELSE Plain(page)

TransmitCommand(page, odd) ==
  IF odd = 0 THEN Plain(page)
  ELSE /\ packetpage' = tfe_set_tx_status(SET_PP_16(page, CC_TXCMD, GET_PP_16(page, PP_TXCMD)), FALSE, FALSE)
       /\ tx' = [tx EXCEPT !.state = "GOT_CMD"]
       /\ UNCHANGED <<rx, filter>>

\* The count of the frame before goes on.
KeepsCount(page, odd) ==
  LET length == GET_PP_16(page, PP_TXLENGTH)
  IN  IF odd = 0 \/ tx.state # "GOT_CMD" THEN Plain(page)
      ELSE /\ packetpage' = tfe_set_tx_status(page, length <= MAX_TXLENGTH, length > MAX_TXLENGTH)
           /\ tx' = IF length \notin MIN_TXLENGTH .. MAX_TXLENGTH THEN [tx EXCEPT !.state = "IDLE"]
                    ELSE [tx EXCEPT !.state = "GOT_LEN", !.buffer = TX_FRAMELOC, !.length = length]
           /\ UNCHANGED <<rx, filter>>

TransmitLength(page, odd) ==
  LET length == GET_PP_16(page, PP_TXLENGTH)
      crc == IF Has(GET_PP_16(page, CC_TXCMD), 4096) THEN 0 ELSE 4
      short == length < MIN_TXLENGTH
      long == length > MAX_TXLENGTH - crc
  IN  IF odd = 0 \/ tx.state # "GOT_CMD" THEN Plain(page)
      ELSE /\ packetpage' = tfe_set_tx_status(page, ~long, long)
           /\ tx' = IF short \/ long THEN [tx EXCEPT !.state = "IDLE"]
                    ELSE [tx EXCEPT !.state = "GOT_LEN", !.buffer = TX_FRAMELOC, !.count = 0,
                                    !.length = length]
           /\ UNCHANGED <<rx, filter>>

\* A shift of 32 or more is undefined: it counts modulo 32, or leaves nothing.
HashFilter(page, a, odd) ==
  LET pos == 8 * (a - ADDR_FILTER + odd)
      byte == GET_PP_8(page, a + odd)
      set == (filter.hash \ pos .. pos + 7) \cup {pos + i : i \in {j \in 0 .. 7 : BitOf(byte, j) = 1}}
  IN  /\ packetpage' = page
      /\ filter' = [filter EXCEPT !.hash = set] \/ (pos >= 32 /\ filter' = filter)
      /\ UNCHANGED <<tx, rx>>

\* The bytes of a word change places.
SwapsBytes(page, a, odd) ==
  /\ packetpage' = page
  /\ filter' = [filter EXCEPT !.mac[a - MAC_ADDR + 2 - odd] = GET_PP_8(page, a + odd)]
  /\ UNCHANGED <<tx, rx>>

\* Only the byte that was written counts.
MacAddress(page, a, odd) ==
  /\ packetpage' = page
  /\ filter' = [filter EXCEPT !.mac[a - MAC_ADDR + odd + 1] = GET_PP_8(page, a + odd)]
  /\ UNCHANGED <<tx, rx>>

tfe_sideeffects_write_pp(page, a, odd) ==
  CASE a = RXCFG -> Skip(page)
    [] a = RXCTL -> ReceiveControl(page)
    [] a = LINECTL -> LineControl(page)
    [] a = SELFCTL -> SelfControl(page)
    [] a = PP_TXCMD -> TransmitCommand(page, odd)
    [] a = PP_TXLENGTH -> TransmitLength(page, odd)
    [] a \in {ADDR_FILTER, ADDR_FILTER + 2, ADDR_FILTER + 4, ADDR_FILTER + 6} -> HashFilter(page, a, odd)
    [] a \in {MAC_ADDR, MAC_ADDR + 2, MAC_ADDR + 4} -> MacAddress(page, a, odd)
    [] OTHER -> Plain(page)

\* tfe_sideeffects_read_pp.  RXEVENT: a new frame is looked for, unless this is
\* the other byte of a word of which one was read before.
ReadsRxEvent(access) ==
  /\ IF access \in rx.mask /\ rx.enabled THEN tfe_receive(access)
     ELSE /\ rx' = [rx EXCEPT !.mask = IF access \in @ THEN {access} ELSE @ \cup {access}]
          /\ UNCHANGED <<packetpage, wire>>
  /\ UNCHANGED tx
\* BUSST: the guest has seen that it may write the frame.
ReadsBusStatus(odd) ==
  /\ tx' = IF odd = 1 /\ tx.state = "GOT_LEN" /\ Has(GET_PP_16(packetpage, BUSST), 256)
           THEN [tx EXCEPT !.state = "READ_BUSST"] ELSE tx
  /\ UNCHANGED <<packetpage, rx, wire>>

-----------------------------------------------------------------------------
(* The ports. *)

\* Control registers have odd numbers, status registers even ones, kept in the
\* low six bits.
RegNum(a) == IF a < SE_ISQ THEN a - 255 ELSE a - SE_ISQ
IsControl(a) == a \in 256 .. 287
IsStatus(a) == a \in SE_ISQ .. 319
NoRegister(a) ==
  \/ a \in 4 .. 31
  \/ IsControl(a) /\ (RegNum(a) \in {1, 17} \/ RegNum(a) > 25)
  \/ IsStatus(a) /\ RegNum(a) \in {2, 6, 10, 14, 26, 30}
  \/ a \in 320 .. 335 /\ a \notin {PP_TXCMD, PP_TXLENGTH}
  \/ a \in 350 .. 1023

tfe_read_register(page, a) ==
  IF NoRegister(a) THEN 768 ELSE IF a >= RXSTATUS THEN 0 ELSE GET_PP_16(page, a)
\* assert((value&0x3f) == regNum)
WrongId(page, a) ==
  /\ ~NoRegister(a)
  /\ \/ (IsControl(a) \/ IsStatus(a)) /\ GET_PP_16(page, a) % 64 # RegNum(a)
     \/ a = PP_TXCMD /\ GET_PP_16(page, a) % 64 # 9

ReadOnly(a) ==
  \/ a < 256 /\ (a < 32 \/ a \in 38 .. 43 \/ a = 56 \/ a >= 68)
  \/ a >= 256 /\ NoRegister(a)
  \/ IsStatus(a)
  \/ a >= RXSTATUS

tfe_write_register(page, a, word) ==
  IF ReadOnly(a) THEN page
  ELSE SET_PP_16(page, a,
         IF IsControl(a) THEN word - (word % 64) + RegNum(a)
         ELSE IF a = PP_TXCMD THEN BitAnd(word - (word % 64) + 9, 13311)
         ELSE IF a = PP_TXLENGTH THEN word % 4096
         ELSE word)

\* Both data ports show the word the pointer is at, and move it by one.
PPAddress(port) ==
  CASE port = TXCMD -> PP_TXCMD
    [] port = TXLENGTH -> PP_TXLENGTH
    [] port = INTSTQUEUE -> SE_ISQ
    [] OTHER -> (io.ptr % 4096) - (io.ptr % 2)
\* Bit 12 is among the flags, so the address wraps.
tfe_auto_incr_pp_ptr(port) ==
  IF port \in {PP_DATA, PP_DATA2} /\ Has(io.ptr, 32768)
  THEN io.ptr - (io.ptr % 4096) + ((io.ptr + 1) % 4096) ELSE io.ptr
Port(a) == a - (a % 2)
ByteOf(word, odd) == IF odd = 1 THEN word \div 256 ELSE word % 256
Shown(ports, port, word) == [ports EXCEPT ![port] = word % 256, ![port + 1] = word \div 256]

\* A byte goes into the word the port moved last, whatever register that was for.
Combined(a, byte) ==
  IF a % 2 = 0 THEN byte + 256 * io.tfe[a + 1] ELSE io.tfe[a - 1] + 256 * byte

ReadWord(a, word) ==
  /\ result' = ByteOf(word, a % 2)
  /\ io' = [tfe |-> Shown(io.tfe, Port(a), word), ptr |-> tfe_auto_incr_pp_ptr(Port(a))]
ReadPP(a) ==
  LET pp == PPAddress(Port(a))
  IN  /\ IF pp = RXEVENT THEN ReadsRxEvent(IF a % 2 = 1 THEN "H" ELSE "L")
         ELSE IF pp = BUSST THEN ReadsBusStatus(a % 2)
         ELSE UNCHANGED <<packetpage, tx, rx, wire>>
      /\ failed' = WrongId(packetpage', pp)
      /\ ReadWord(a, tfe_read_register(packetpage', pp))
      /\ UNCHANGED <<filter, sent>>

Alive == tfe_enabled /\ ~failed
tfe_read(a) ==
  /\ Alive
  /\ CASE Port(a) \in {RXTXDATA, RXTXDATA2} -> tfe_read_rx_buffer(a % 2)
       [] Port(a) = PP_PTR ->
            ReadWord(a, io.ptr) /\ UNCHANGED <<packetpage, tx, rx, filter, wire, sent, failed>>
       [] OTHER -> ReadPP(a)
  /\ UNCHANGED <<tfe_enabled, tfe_cannot_use, host, fp>>

WritePP(a, word) ==
  LET pp == PPAddress(Port(a))
      page == tfe_write_register(packetpage, pp, word)
  IN  /\ tfe_sideeffects_write_pp(page, pp, a % 2)
      /\ io' = [tfe |-> Shown(IF Resets(page, pp) THEN NoPorts ELSE io.tfe, Port(a),
                              GET_PP_16(packetpage', pp)),
                ptr |-> tfe_auto_incr_pp_ptr(Port(a))]

\* Bits 12 and 13 of the pointer are always set.
SetPointer(a, word) ==
  LET pointer == With(With(word, 4096, TRUE), 8192, TRUE)
  IN  /\ io' = [tfe |-> Shown(io.tfe, PP_PTR, pointer), ptr |-> pointer]
      /\ UNCHANGED <<packetpage, tx, rx, filter>>

tfe_store(a, byte) ==
  /\ Alive
  /\ IF Port(a) \in {RXTXDATA, RXTXDATA2} THEN tfe_write_tx_buffer(byte, a % 2)
     ELSE /\ \E word \in {Combined(a, byte)} :
               IF Port(a) = PP_PTR THEN SetPointer(a, word) ELSE WritePP(a, word)
          /\ UNCHANGED <<wire, sent, result, failed>>
  /\ UNCHANGED <<tfe_enabled, tfe_cannot_use, host, fp>>

FrameArrives ==
  /\ ~failed /\ Arrive
  /\ UNCHANGED <<tfe_enabled, tfe_cannot_use, io, packetpage, tx, rx, filter, result, failed>>

Next ==
  \/ \E number \in Nat : tfe_init(number)
  \/ \E a \in 0 .. 15 : tfe_read(a) \/ \E byte \in Byte : tfe_store(a, byte)
  \/ FrameArrives
Spec == Init /\ [][Next]_tfeVars

-----------------------------------------------------------------------------
\* A frame that is being sent or read has bytes left, and its place in the page
\* is at most that many words further on.
CountsInFrame ==
  /\ tx.state \in {"GOT_LEN", "READ_BUSST"} =>
       /\ tx.length \in MIN_TXLENGTH .. MAX_TXLENGTH /\ tx.count < tx.length
       /\ tx.buffer <= TX_FRAMELOC + 2 * tx.count
  /\ rx.state = "GOT_FRAME" =>
       rx.count < rx.length + 4 /\ rx.length <= MAX_RXLENGTH /\ rx.buffer <= RXSTATUS + 2 * rx.count
=============================================================================
