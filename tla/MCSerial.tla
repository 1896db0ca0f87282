------------------------------ MODULE MCSerial ------------------------------
(***************************************************************************)
(* What a serial port may lead to, for TLC: a LocalTalk link, with the chip *)
(* of module Scc, or the Internet, with the driver of module Modem.  A     *)
(* behaviour is about the one or the other.                                *)
(***************************************************************************)
EXTENDS Modem, SccSafety

CONSTANTS byteA, byteB, Foci
VARIABLE focus

linkVars == vars
all == <<linkVars, modemVars, focus>>

-----------------------------------------------------------------------------
\* A port that receives LocalTalk packets of three and four bytes.
Packets == {<<byteA, byteA, byteA, byteA>>, <<byteB, byteB, byteB>>}
LinkType == [p \in Port |-> 1]
LinkWr1 == [tx_int_en : {FALSE}, rx_int_mode : {0, 1}]
LinkWr9 == [mie : {TRUE}, reset : {{}, {0}}]
LinkWr14 == [br_en : {FALSE}, loop : BOOLEAN]

-----------------------------------------------------------------------------
MSays == {<<0, 65>>, <<255, 255>>, <<255, 250, 24, 1, 255, 240>>, <<255, 253, 34>>}
SlcSays == {<<65>>, <<255, 250, 34, 3, 3, 98, 3, 255, 240>>}

\* Calls in and out, with every failure of the host.
OnTheLine ==
  \/ \E f \in Fault : Reads(1, f) \/ Vbl(MaxWire, f) \/ \E c \in Typed : Writes(c, f)
  \/ Hangs

\* Lines with one command, typed to the end.
Types(commands) ==
  modem.out = << >> /\ \E c \in <<{"at"}, commands, {"cr"}>>[Len(modem.line) + 1] : Writes(c, "none")

\* +++ and back, and resets of the machine.
Escapes ==
  \/ \E f \in {"none", "partial"} :
       \/ Reads(1, f) \/ Vbl(MaxWire, f)
       \/ modem.socket_state = 1 /\ \E c \in {"+", "x"} : Writes(c, f)
  \/ modem.socket_state < 1 /\ Types({"a", "o", "h"})
  \/ Resets \/ ShortPause \/ Hangs \/ Listens(FALSE)

\* ATA, ATD or an answer at the first ring, and then both ends talk about options.
Negotiates ==
  \/ Vbl(MaxWire, "none") \/ Reads(1, "none")
  \/ modem.socket_state < 1 /\ Types({"a", "d", "s0=1"})
  \/ modem.out = << >> /\ host.peer.fromDriver = << >> /\ host.peer.toDriver = << >> /\ \E bytes \in Says : Talks(bytes)
  \/ \E accepts \in BOOLEAN : Listens(accepts)
  \/ \E o \in Asks : Requests(o)

ModemStep ==
  \/ focus = "calls" /\ OnTheLine
  \/ focus = "escape" /\ Escapes
  \/ focus = "telnet" /\ Negotiates
  \/ focus # "link" /\ (Calls \/ ((modem.socket_num_rings > 0 \/ focus # "telnet") /\ TwoSeconds))

SerialNext ==
  /\ UNCHANGED focus
  /\ \/ focus = "link" /\ Next /\ UNCHANGED modemVars
     \/ ModemStep /\ UNCHANGED linkVars

SerialInit == Init /\ ModemInit /\ focus \in Foci /\ (host.late => focus = "calls")

\* The 60 Hz update comes again and again, where a fault of the host need not
\* happen again, and time goes on.  (Of the update's weak fairness this is what
\* matters: a ring that is due.)
AtModem(A) == focus # "link" /\ A /\ UNCHANGED <<linkVars, focus>>
RingIsDue == modem.socket_num_rings > 0 /\ modem.ring_due
SerialSpec ==
  /\ SerialInit /\ [][SerialNext]_all
  /\ <>[]RingIsDue => []<><<AtModem(Vbl(MaxWire, "none"))>>_all
  /\ WF_all(AtModem(TwoSeconds))
=============================================================================
