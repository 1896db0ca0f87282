------------------------------ MODULE Ethernet ------------------------------
(***************************************************************************)
(* What the Ethernet card promises a driver that moves whole words.  A     *)
(* frame goes out when a command, a length and a look at the ready bit     *)
(* were followed by that many bytes, and consists of these bytes.  A frame *)
(* that came in is read as a status, a length and its bytes, each once and *)
(* in order, until a later frame takes its place.                          *)
(***************************************************************************)
EXTENDS Integers, Sequences

CONSTANTS Byte, MinLength, MaxLength

VARIABLES phase,   \* of sending: "idle", "command", "length" or "bytes"
          want,    \* the length of the frame to send
          given,   \* its bytes so far
          on,      \* is the transmitter enabled?
          sent,    \* the frames sent
          wire,    \* the frames that wait in the host
          frame,   \* what came in, as it is read
          at,      \* how much of it was read
          value    \* the byte that was read last
sending == <<phase, want, given, on, sent>>
receiving == <<wire, frame, at>>

Idle == phase' = "idle" /\ want' = 0 /\ given' = << >>
Nothing == frame' = << >> /\ at' = 0

Init == /\ phase = "idle" /\ want = 0 /\ given = << >> /\ ~on /\ sent = << >>
        /\ wire = << >> /\ frame = << >> /\ at = 0 /\ value = 0

Command == phase' = "command" /\ want' = 0 /\ given' = << >> /\ UNCHANGED <<on, sent>>
Length ==
  /\ phase = "command" /\ UNCHANGED <<on, sent>>
  /\ \/ Idle
     \/ phase' = "length" /\ want' \in MinLength .. MaxLength /\ given' = << >>
Ready == phase = "length" /\ phase' = "bytes" /\ UNCHANGED <<want, given, on, sent>>
Put ==
  /\ phase = "bytes"
  /\ \E b \in Byte :
       IF Len(given) + 1 < want
       THEN given' = Append(given, b) /\ UNCHANGED <<phase, want, on, sent>>
       ELSE /\ Idle /\ UNCHANGED on
            /\ sent' = IF on THEN Append(sent, Append(given, b)) ELSE sent
Abort == Idle /\ on' \in BOOLEAN /\ UNCHANGED sent

\* A frame as it is read; a byte is added to one of odd length.  A call of the
\* host that fails, << >>, may be read as anything.
ReadsAs(f, bytes) == f = << >> \/
  LET length == Len(f) + (Len(f) % 2)
  IN  /\ Len(bytes) = length + 4
      /\ bytes[3] = length \div 256 /\ bytes[4] = length % 256
      /\ SubSeq(bytes, 5, Len(f) + 4) = f
Take ==
  /\ \E i \in DOMAIN wire : ReadsAs(wire[i], frame') /\ wire' = SubSeq(wire, i + 1, Len(wire))
  /\ at' = 0
\* No frame is wanted: only the status of the one at hand, if any, can change.
Miss ==
  /\ wire' = << >> /\ at' = at /\ Len(frame') = Len(frame)
  /\ \A i \in DOMAIN frame \ {1, 2} : frame'[i] = frame[i]
Read ==
  /\ frame # << >> /\ value' = frame[at + 1]
  /\ IF at + 1 = Len(frame) THEN Nothing ELSE at' = at + 1 /\ frame' = frame
Arrive == Len(wire') = Len(wire) + 1 /\ SubSeq(wire', 1, Len(wire)) = wire

Next ==
  \/ (Command \/ Length \/ Ready \/ Put \/ Abort) /\ UNCHANGED receiving
  \/ Abort /\ Nothing /\ UNCHANGED <<wire, value>>
  \/ (Take \/ Miss) /\ UNCHANGED sending
  \/ Read /\ UNCHANGED <<wire, sending>>
  \/ Arrive /\ UNCHANGED <<frame, at, value, sending>>
  \/ value' \in Byte /\ UNCHANGED <<sending, receiving>>

Spec == Init /\ [][Next]_<<sending, receiving, value>>
=============================================================================
