-------------------------------- MODULE Nic --------------------------------
(***************************************************************************)
(* The host's side of the Ethernet card: the packet library that is loaded *)
(* when it is first called (atbridge/pcap_delay.c), the adapter that is    *)
(* opened at the start and the frames that go through it (tfe/tfearch.c).  *)
(* A frame is a sequence of bytes.  The host, its library and its adapters *)
(* are external and stay as they are.                                      *)
(***************************************************************************)
EXTENDS Naturals, Sequences

CONSTANTS Hosts,      \* hosts to run on: is there a library, what are its adapters
          Frames,     \* frames that others send; << >> is a call that fails
          Stray,      \* bytes that a stack array may hold before it is written
          NoName,     \* a null pointer for a name
          MaxWire,    \* bound: calls that pcap_dispatch has an answer for
          MaxSent     \* bound: frames sent

\* An Ethernet frame has a header of 14 bytes, so that the assertion at the head
\* of tfe_should_accept, at least 6 of them, holds.
ASSUME FramesAssumption == \A f \in Frames : f = << >> \/ Len(f) >= 14

VARIABLES host,  \* the host: [installed, adapters]
          fp,    \* TfePcapFP: the name of the open adapter or NoName
          wire,  \* what pcap_dispatch will give, a frame or a failure at a time
          sent   \* the frames given to pcap_sendpacket, whose answer is ignored
nicVars == <<host, fp, wire, sent>>

MAX_RXLENGTH == 1518

\* delay_load: a call into the library, or what is returned without one.
Library(h, call, without) == IF h.installed THEN call ELSE without

\* tfe_arch_enumadapter_open and the adapters one after another.
Enumerated(h) == Library(h, h.adapters, << >>)
tfe_enumadapter_open(h) == Enumerated(h) # << >>

\* The adapter of the configured number; the last one when there are fewer.
ConfiguredName(h, number) ==
  IF ~tfe_enumadapter_open(h) THEN NoName
  ELSE LET all == Enumerated(h)
       IN  all[IF number < Len(all) THEN number + 1 ELSE Len(all)].name

\* The adapter of that name, or else the first one.
Device(h, name) ==
  LET all == Enumerated(h)
      called == {i \in DOMAIN all : all[i].name = name}
  IN  IF called = {} THEN all[1]
      ELSE all[CHOOSE i \in called : \A j \in called : i <= j]

\* An adapter of another kind stays open, although it cannot be used.
TfePcapOpened(h, name) ==
  IF tfe_enumadapter_open(h) /\ Device(h, name).opens THEN Device(h, name).name ELSE NoName
TfePcapOpenAdapter(h, name) ==
  TfePcapOpened(h, name) # NoName /\ Device(h, name).ethernet

\* tfe_receive has one array for all frames of its loop.  Byte n of it after call
\* i is of the last frame that was long enough (TfePcapPacketHandler), or stray.
InArray(i, n, stray) ==
  LET wrote == {j \in 1 .. i : Len(wire[j]) >= n}
  IN  IF wrote = {} THEN stray ELSE wire[CHOOSE j \in wrote : \A k \in wrote : k <= j][n]

\* tfe_arch_receive_frame: a call that fails is not told from one that wrote the
\* whole array.
ReceivedLength(frame) ==
  IF frame = << >> \/ Len(frame) > MAX_RXLENGTH THEN MAX_RXLENGTH ELSE Len(frame)

\* tfe_arch_receive: the length is made even, by a byte of what was there before.
tfe_arch_receive(i, stray) ==
  LET length == ReceivedLength(wire[i])
  IN  [n \in 1 .. length + (length % 2) |-> InArray(i, n, stray)]

tfe_arch_transmit(frame) == sent' = Append(sent, frame)

\* Somebody on the net sends a frame, or the adapter is going to fail once.
Arrive ==
  /\ fp # NoName /\ Len(wire) < MaxWire
  /\ \E f \in Frames : wire' = Append(wire, f)
  /\ UNCHANGED <<host, fp, sent>>

NicInit == host \in Hosts /\ fp = NoName /\ wire = << >> /\ sent = << >>
=============================================================================
