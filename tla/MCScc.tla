------------------------------- MODULE MCScc -------------------------------
(***************************************************************************)
(* The serial chip for TLC.  A behaviour works on the receive path of a    *)
(* port at length, with two byte values and a ring of its own size, or on  *)
(* everything else of the port, as the cfg file says.                      *)
(***************************************************************************)
EXTENDS SccSafety

CONSTANTS a, b
VARIABLE focus
all == <<vars, focus>>

NoFrames == {}
SocketPorts == [p \in Port |-> 1]
TxRxWr1 == [tx_int_en : BOOLEAN, rx_int_mode : {0, 2}]
AllWr9 == Wr9Value
BrWr14 == [br_en : BOOLEAN, loop : {FALSE}]

MaxRxBurst == 1
Rx == INSTANCE SccSafety WITH
  Byte <- {a, b}, OutByte <- {}, MaxBurst <- MaxRxBurst, SCC_INBUF_SIZE <- 3, Warm <- {0},
  Regs <- {1, 3, 9}, Commands <- {0, 1, 4},
  Wr1 <- [tx_int_en : {FALSE}, rx_int_mode : 0..2],
  Wr9 <- [mie : {TRUE}, reset : {{}, {0}}],
  Wr14 <- [br_en : {FALSE}, loop : BOOLEAN]

-----------------------------------------------------------------------------
ChipInit ==
  \/ focus = "registers" /\ Init
  \/ focus = "receive" /\ Rx!Init

ChipNext ==
  /\ UNCHANGED focus
  /\ (focus = "registers" /\ Next) \/ (focus = "receive" /\ Rx!Next)

\* run_prog pops every event that is due, whatever the CPU does.
EventComes(p, k) ==
  /\ UNCHANGED focus
  /\ \/ focus = "registers" /\ do_scc_event(p, k)
     \/ focus = "receive" /\ Rx!do_scc_event(p, k)

ChipSpec ==
  /\ ChipInit /\ [][ChipNext]_all
  /\ \A p \in Port, k \in Kind : WF_all(EventComes(p, k))

=============================================================================
