------------------------------- MODULE Modem -------------------------------
(***************************************************************************)
(* The driver that connects a serial port to the Internet,                 *)
(* src/src/scc_socket_driver.c: on the modem port a Hayes modem with       *)
(* commands, rings and an escape, on the other port a plain socket, and on *)
(* both the telnet options.                                                *)
(*                                                                         *)
(* A routine is an operator on the record s:                               *)
(*   s.m  the driver's part of scc_stat[port]                              *)
(*   s.h  the host and whoever is at the other end of the line (external)  *)
(* fault names a host call that fails during a step.  What the driver puts *)
(* into the receive ring (echo, codes, data) is an input of module Scc and *)
(* left out here.                                                          *)
(***************************************************************************)
EXTENDS Integers, Sequences, SequencesExt

CONSTANTS
  g_serial_modem,  \* whether the port is a modem
  MaxLine,         \* SCC_MODEM_MAX_CMD_STR: 128
  OutSize,         \* SCC_OUTBUF_SIZE, less the slot that stays free
  Rings,           \* 4: rings before an unanswered call is dropped
  Late,            \* may the machine have run for 36 minutes
  Fault,           \* host calls that may fail
  Typed,           \* what the emulated software writes
  Says,            \* what the other end sends, as byte sequences
  Asks,            \* telnet options it wants to switch
  MaxWire,         \* bound: bytes on the way from it
  MaxOut           \* bound: what waits in the ring when the software writes,
                   \* and what the other end has not read is below MaxWire

ASSUME ModemAssumption ==
  /\ Rings \in Nat \ {0}
  /\ MaxLine \in Nat /\ OutSize \in Nat /\ MaxWire \in Nat

VARIABLES modem, host
modemVars == <<modem, host>>
Both == [m |-> modem, h |-> host]
Do(s) == modem' = s.m /\ host' = s.h

NoFd == -1
Lowest(open) == CHOOSE fd \in 0 .. 3 : fd \notin DOMAIN open /\ \A low \in 0 .. fd - 1 : low \in DOMAIN open
Opened(open, fd, kind) == [f \in DOMAIN open \cup {fd} |-> IF f = fd THEN kind ELSE open[f]]

-----------------------------------------------------------------------------
(* The other end: nobody, a caller that is not accepted yet, somebody who  *)
(* is connected, or who has closed his end.  For each option it knows what *)
(* either side does: us is the driver's side, him its own.                 *)

Nobody == [is |-> "none", us |-> [o \in Asks |-> "no"], him |-> [o \in Asks |-> "no"],
           toDriver |-> << >>, fromDriver |-> << >>]
Caller == [Nobody EXCEPT !.is = "calling"]
Callee == [Nobody EXCEPT !.is = "talking"]

-----------------------------------------------------------------------------
(* Sockets. *)

\* Closing a socket ends the calls on it.  One that is closed already is not
\* closed again.
scc_socket_close_handle(s, fd) ==
  IF fd \notin DOMAIN s.h.open THEN s
  ELSE [s EXCEPT !.h.open = [f \in DOMAIN @ \ {fd} |-> @[f]],
                 !.h.peer = IF s.h.open[fd] = "stream" \/ @.is = "calling" THEN Nobody ELSE @]

Hung(s, full_close) ==
  [s EXCEPT !.m = [@ EXCEPT !.line = << >>, !.telnet_mode = 0, !.telnet_iac = FALSE,
                            !.local = {}, !.remote = {}, !.reqwill = {}, !.reqdo = {},
                            !.rdwrfd = NoFd, !.sockfd = NoFd, !.dcd = FALSE, !.socket_num_rings = 0,
                            !.at_once = FALSE,
                            !.socket_state = IF full_close THEN 0 ELSE s.m.socket_state]]
scc_socket_close(s, full_close) ==
  Hung(scc_socket_close_handle(scc_socket_close_handle(s, s.m.rdwrfd), s.m.sockfd), full_close)

Failed(s) == [s EXCEPT !.m.socket_state = -1]

scc_socket_make_nonblock(s, fault) ==
  IF fault = "fcntl" THEN Failed(scc_socket_close(s, TRUE)) ELSE s

\* A socket that cannot be told to reuse its address stays open and is forgotten.
Lost(s) == [s EXCEPT !.h.open = Opened(@, Lowest(@), "lost")]

\* A port to listen at; "bind" stands for ten that are taken.
ListensAt(s, fd) == [s EXCEPT !.m.sockfd = fd, !.h.open = Opened(@, fd, "listen")]
OpensIncoming(s, fault) ==
  IF fault \in {"socket", "bind"} THEN Failed(s)
  ELSE IF fault = "setsockopt" THEN Failed(Lost(s))
  ELSE scc_socket_make_nonblock(ListensAt(s, Lowest(s.h.open)), fault)

Closed(s) == [scc_socket_close(s, FALSE) EXCEPT !.m.socket_state = 0]
scc_socket_maybe_open_incoming(s, fault) ==
  IF s.m.sockfd # NoFd THEN s ELSE OpensIncoming(Closed(s), fault)

\* "port" and "lookup" stand for a host or port that does not exist.
Connected(s, fd) ==
  [s EXCEPT !.m = [@ EXCEPT !.dcd = TRUE, !.socket_state = 1, !.socket_num_rings = 0, !.sockfd = fd],
            !.h.open = Opened(@, fd, "stream"), !.h.peer = Callee]
OneSocket(s) == [s EXCEPT !.m.rdwrfd = s.m.sockfd]
OpensOutgoing(s, fault) ==
  CASE fault \in {"socket", "port", "lookup", "connect"} -> scc_socket_close(s, TRUE)
    [] fault = "setsockopt" -> scc_socket_close(Lost(s), TRUE)
    [] OTHER -> OneSocket(scc_socket_make_nonblock(Connected(s, Lowest(s.h.open)), fault))
scc_socket_open_outgoing(s, fault) == OpensOutgoing(Closed(s), fault)

-----------------------------------------------------------------------------
(* Calls that come in. *)

Out(s, what) == [s EXCEPT !.m.out = IF Len(@) < OutSize THEN Append(@, what) ELSE @]

\* An element of the ring is a character that the software wrote or the three
\* bytes of a telnet command.
Asked(s, o, options, what) == IF o \in options THEN Out(s, <<what, o>>) ELSE s
scc_socket_telnet_reqs(s) ==
  LET asked == FoldLeft(LAMBDA t, o : Asked(Asked(t, o, s.m.reqwill, "will"), o, s.m.reqdo, "do"),
                        s, SetToSortSeq(s.m.reqwill \cup s.m.reqdo, <))
  IN  [s EXCEPT !.m.out = asked.m.out]

Carrier(s) == [s EXCEPT !.m.dcd = TRUE, !.m.socket_num_rings = 0]
Answered(s) == Carrier(scc_socket_telnet_reqs([s EXCEPT !.m.socket_state = 1]))

\* Mutant: a call that nobody takes is not closed.
StopsRinging(s) ==
  LET left == IF g_serial_modem THEN s.m.socket_num_rings - 1 ELSE 0
      rung == [s EXCEPT !.m.socket_num_rings = left, !.m.ring_due = s.h.late]
  IN  IF s.m.socket_num_rings = 0 \/ s.m.socket_state # 0 \/ (~s.m.ring_due /\ g_serial_modem) THEN s
      ELSE IF left = 0 /\ (s.m.modem_s0_val > 0 \/ ~g_serial_modem) THEN Answered(rung) ELSE rung

\* Mutant: the rings left are not counted down.
RingsForever(s) ==
  IF s.m.socket_num_rings = 0 \/ s.m.socket_state # 0 \/ ~s.m.ring_due THEN s
  ELSE [s EXCEPT !.m.ring_due = s.h.late]

\* What the last ring leads to.
Rung(s) ==
  IF s.m.socket_num_rings > 0 THEN s
  ELSE IF s.m.modem_s0_val > 0 \/ ~g_serial_modem THEN Answered(s)
  ELSE scc_socket_close(s, FALSE)

\* A call that rings is accepted already, so that do_answer's accept changes
\* nothing.  The time of the last ring is kept as an int of microseconds: after
\* 36 minutes it is always long ago.
scc_socket_modem_do_ring(s) ==
  IF \/ s.m.socket_num_rings = 0 \/ s.m.socket_state # 0
     \/ ~s.m.ring_due /\ g_serial_modem
  THEN s
  ELSE Rung([s EXCEPT !.m.socket_num_rings = IF g_serial_modem THEN @ - 1 ELSE 0,
                      !.m.ring_due = s.h.late])

\* GO_AHEAD and ECHO are asked for, both ways, but only after the first ring: if
\* that one answers the call, the requests stay open and are never sent.  (at_once:
\* it did; kept for SidesAgree, and not the code's.)
Requested == {1, 3}
Taken(s, fd) == [s EXCEPT !.h.open = Opened(@, fd, "stream"), !.h.peer.is = "talking"]
FirstRing(s, fd) ==
  scc_socket_modem_do_ring(
    [Taken(s, fd) EXCEPT
       !.m.rdwrfd = fd, !.m.ring_due = TRUE,
       !.m.socket_num_rings = IF s.m.modem_s0_val > 0 THEN s.m.modem_s0_val ELSE Rings])
Accepts(s, fault) ==
  IF \/ s.m.sockfd = NoFd \/ s.m.rdwrfd # NoFd
     \/ s.h.peer.is # "calling" \/ fault = "accept"
  THEN s
  ELSE IF fault = "fcntl of the call" THEN Taken(s, Lowest(s.h.open))
  ELSE LET rung == FirstRing(s, Lowest(s.h.open))
       IN  [rung EXCEPT !.m.reqwill = Requested, !.m.reqdo = Requested,
                        !.m.at_once = rung.m.socket_state = 1]
scc_accept_socket(s, fault) == Accepts(scc_socket_maybe_open_incoming(s, fault), fault)

AnswersOn(s) == IF s.m.rdwrfd = NoFd THEN scc_socket_close(s, TRUE) ELSE Answered(s)
scc_socket_do_answer(s, fault) == AnswersOn(scc_accept_socket(s, fault))

-----------------------------------------------------------------------------
(* Telnet: the bytes from the other end. *)

IAC == 255
DONT == 254
DO == 253
WONT == 252
WILL == 251
SB == 250
SE == 240
LINEMODE == 34
SLC == 3
EAT == 238

Option(c) == c % 64
Acks(c) == c \in {1, 3}

\* Mutant: what was asked for counts as open after the answer.
KeepsAsking(on, asked, c, yes, no, mode) ==
  [reply |-> << >>,
   on |-> IF mode \in {DO, WILL} /\ Option(c) \in asked THEN on \cup {Option(c)} ELSE on \ {Option(c)},
   asked |-> asked]

\* The option byte after DO, DON'T, WILL or WON'T: on is the set of options that
\* are on at that side, asked those the driver has asked for.
Turned(on, asked, c, yes, no, mode) ==
  LET o == Option(c)
      turnsOn == mode \in {DO, WILL}
      reply == CASE turnsOn /\ o \notin on /\ o \notin asked -> <<IF Acks(c) THEN yes ELSE no, c>>
                 [] ~turnsOn /\ o \in on /\ o \notin asked -> <<no, c>>
                 [] OTHER -> << >>
  IN  [reply |-> reply,
       on |-> IF turnsOn
              THEN IF o \in asked \/ reply = <<yes, c>> THEN on \cup {o} ELSE on
              ELSE on \ {o},
       asked |-> asked \ {o}]

Replied(s, reply) == IF reply = << >> THEN s ELSE Out(s, reply)

SwitchedLocal(s, turned) ==
  [Replied(s, turned.reply) EXCEPT !.m.local = turned.on, !.m.reqwill = turned.asked]
SwitchedRemote(s, turned) ==
  [Replied(s, turned.reply) EXCEPT !.m.remote = turned.on, !.m.reqdo = turned.asked]
Switched(s, c, mode) ==
  CASE mode \in {DO, DONT} ->
         SwitchedLocal(s, Turned(s.m.local, s.m.reqwill, c, "will", "wont", mode))
    [] mode \in {WILL, WONT} ->
         SwitchedRemote(s, Turned(s.m.remote, s.m.reqdo, c, "do", "dont", mode))
    [] OTHER -> s

\* The next telnet_mode, for a byte that follows an IAC or does not.
NextMode(mode, iac, c) ==
  LET ends == iac /\ c = SE
  IN  CASE mode = 0 -> IF iac /\ c \in SB .. DONT THEN c ELSE 0
        [] mode = 3 -> 4   \* SE is seen here, and forgotten
        [] mode = 4 -> IF ends THEN 0 ELSE 5
        [] mode = 5 -> IF ends THEN 0 ELSE 3
        [] mode = LINEMODE -> IF c = SLC THEN 3 ELSE EAT
        [] mode = SB -> IF c = LINEMODE THEN LINEMODE ELSE EAT
        [] mode = EAT -> IF ends THEN 0 ELSE EAT
        [] OTHER -> 0

\* Two IACs are one byte 255.
Parsed(s, c) ==
  IF c = IAC /\ ~s.m.telnet_iac THEN [s EXCEPT !.m.telnet_iac = TRUE]
  ELSE [Switched(s, c, s.m.telnet_mode) EXCEPT
          !.m.telnet_iac = FALSE,
          !.m.telnet_mode = NextMode(@, s.m.telnet_iac /\ c # IAC, c)]
scc_socket_recvd_char(s, c, fault) == Parsed(scc_socket_maybe_open_incoming(s, fault), c)

\* Up to n bytes are read; null bytes are skipped.
Takes(s, n) == [s EXCEPT !.h.peer.toDriver = SubSeq(@, n + 1, Len(@))]
Receives(s, n, fault) ==
  LET bytes == s.h.peer.toDriver
      after[i \in 0 .. n] ==
        IF i = 0 THEN Takes(s, n)
        ELSE IF i > Len(bytes) \/ bytes[i] = 0 THEN after[i - 1]
        ELSE scc_socket_recvd_char(after[i - 1], bytes[i], fault)
  IN  after[n]
FillsFrom(s, n, fault) ==
  IF (s.m.socket_state = 0 /\ g_serial_modem) \/ s.m.rdwrfd < 0 THEN s
  ELSE IF s.h.peer.toDriver # << >> THEN Receives(s, n, fault)
  ELSE IF s.h.peer.is = "gone" THEN scc_socket_close(s, TRUE)
  ELSE s
scc_socket_fill_readbuf(s, n, fault) ==
  FillsFrom(scc_socket_modem_do_ring(scc_accept_socket(s, fault)), n, fault)

-----------------------------------------------------------------------------
(* The modem's commands.  A command with its digits, and the AT in front   *)
(* of a line, are one element of what is typed; what the commands for echo *)
(* and wording change is left out.                                         *)

\* One command of a line: ATZ and ATD end it.
Online(m) == m.dcd /\ m.rdwrfd # NoFd /\ m.socket_state = 0
Obeyed(s, c, fault) ==
  CASE c = "z" -> [s EXCEPT !.m.modem_s0_val = 0]
    [] c = "o" -> [s EXCEPT !.m.socket_state = IF Online(s.m) THEN 1 ELSE @]
    [] c = "h" -> scc_socket_close(s, s.m.rdwrfd # NoFd)
    [] c = "a" -> scc_socket_do_answer(s, fault)
    [] c = "d" -> scc_socket_open_outgoing(s, fault)
    [] c \in {"s0=0", "s0=1", "s0=2"} ->
         [s EXCEPT !.m.modem_s0_val = CHOOSE v \in 0 .. 2 : c = <<"s0=0", "s0=1", "s0=2">>[v + 1]]
    [] OTHER -> s

\* r is the state and whether the line goes on.
Obeys(r, c, fault) ==
  IF r.goes THEN [s |-> Obeyed(r.s, c, fault), goes |-> c \notin {"z", "d"}] ELSE r

scc_socket_do_cmd_str(s, fault) ==
  IF s.m.line = << >> \/ s.m.line[1] # "at" THEN s
  ELSE LET after[i \in 0 .. MaxLine] ==
             IF i = 0 THEN [s |-> s, goes |-> TRUE]
             ELSE IF i >= Len(s.m.line) THEN after[i - 1]
             ELSE Obeys(after[i - 1], s.m.line[i + 1], fault)
       IN  after[MaxLine].s

\* A telnet command that is left of an earlier call is a character like others.
Typed1(e) == IF e[1] = "char" THEN e[2] ELSE "x"
InLine(s, c, fault) ==
  CASE c = "cr" -> [scc_socket_do_cmd_str(s, fault) EXCEPT !.m.line = << >>]
    [] c = "bs" -> IF s.m.line \in {<< >>, <<"at">>} THEN s ELSE [s EXCEPT !.m.line = Front(@)]
    [] c \notin {"cr", "bs"} /\ (c = "ctrl" \/ Len(s.m.line) >= MaxLine) -> s
    [] OTHER -> [s EXCEPT !.m.line = Append(@, c)]
Listening(s, fault) ==
  IF s.m.sockfd # NoFd THEN s
  ELSE scc_socket_maybe_open_incoming([s EXCEPT !.m.socket_state = 0], fault)
scc_socket_modem_write(s, e, fault) == InLine(Listening(s, fault), Typed1(e), fault)

-----------------------------------------------------------------------------
(* What the software writes.  pause is how long it has written nothing:    *)
(* up to half a second, up to 0.8 seconds, up to 0.9 or more.              *)

Plus(m, e) ==
  [m EXCEPT !.pause = 0,
            !.modem_plus_mode = IF e # <<"char", "+">> THEN 0
                                ELSE IF @ = 0 THEN IF m.pause > 0 THEN 1 ELSE 0
                                ELSE IF m.pause < 2 THEN IF @ < 4 THEN @ + 1 ELSE @
                                ELSE @]

\* The ring is sent element after element to the modem, or as a whole to the
\* other end, unless the host takes a part only or nothing.
Scanned(s) ==
  LET m == FoldLeft(Plus, s.m, s.m.out)
  IN  [s EXCEPT !.m.pause = m.pause, !.m.modem_plus_mode = m.modem_plus_mode]
Sent(s, n) ==
  [s EXCEPT !.m.out = SubSeq(@, n + 1, Len(@)),
            !.h.peer.fromDriver = @ \o SelectSeq(SubSeq(s.m.out, 1, n), LAMBDA e : e[1] # "char")]
ToModem(s, fault) == [scc_socket_modem_write(s, s.m.out[1], fault) EXCEPT !.m.out = Tail(@)]

\* One round of the loop, r being the state and whether the loop goes on.
DrainsOne(r, fault) ==
  LET s == r.s
  IN  IF ~r.goes \/ s.m.out = << >> THEN r
      ELSE IF s.m.socket_state < 1 /\ g_serial_modem THEN [r EXCEPT !.s = ToModem(s, fault)]
      ELSE IF s.m.rdwrfd = NoFd
           THEN [s |-> scc_socket_maybe_open_incoming([s EXCEPT !.m.socket_state = 0], fault), goes |-> FALSE]
      ELSE IF fault = "send" THEN [s |-> scc_socket_close(Scanned(s), TRUE), goes |-> FALSE]
      ELSE [r EXCEPT !.s = Sent(Scanned(s), IF fault = "partial" THEN 1 ELSE Len(s.m.out))]

\* Twice the ring's size is enough: only an answer adds to the ring on the way,
\* and from there on every round sends.
DrainOut(s, fault) ==
  LET after[n \in 0 .. 2 * OutSize] ==
        IF n = 0 THEN [s |-> s, goes |-> TRUE] ELSE DrainsOne(after[n - 1], fault)
  IN  after[2 * OutSize].s

Escaped(s) ==
  IF s.m.pause = 3 /\ s.m.modem_plus_mode = 3 /\ s.m.socket_state >= 1 /\ g_serial_modem
  THEN [s EXCEPT !.m.socket_state = 0, !.m.modem_plus_mode = 0] ELSE s
scc_socket_empty_writebuf(s, fault) == DrainOut(Escaped(s), fault)

-----------------------------------------------------------------------------
(* Steps of the emulator. *)

\* A read of the port.
Reads(n, fault) == Do(scc_socket_fill_readbuf(Both, n, fault))

\* The 60 Hz update.
Vbl(n, fault) == Do(scc_socket_empty_writebuf(scc_socket_fill_readbuf(Both, n, fault), fault))

\* A write; the ring is emptied if it was not since the last update.
Writes(c, fault) ==
  LET t == Out(Both, <<"char", c>>)
  IN  /\ Len(modem.out) <= MaxOut /\ Len(host.peer.fromDriver) <= MaxWire
      /\ Do(t) \/ Do(scc_socket_empty_writebuf(t, fault))

\* The machine is reset, scc_reset, which leaves the call alone.
Resets ==
  modem' = [modem EXCEPT !.out = << >>, !.dcd = FALSE, !.was_reset = TRUE] /\ UNCHANGED host

ShortPause == modem.pause < 3 /\ modem' = [modem EXCEPT !.pause = @ + 1] /\ UNCHANGED host
TwoSeconds == modem' = [modem EXCEPT !.pause = 3, !.ring_due = TRUE] /\ UNCHANGED host

-----------------------------------------------------------------------------
(* Steps of the other end, which answers telnet commands as it should: it  *)
(* asks for one change of an option at a time and answers each change that *)
(* the driver asks for.                                                    *)

Peer(p) == host' = [host EXCEPT !.peer = p] /\ UNCHANGED modem

Calls == host.peer.is = "none" /\ "listen" \in {host.open[f] : f \in DOMAIN host.open} /\ Peer(Caller)

Hangs == host.peer.is = "talking" /\ Peer([Nobody EXCEPT !.is = "gone", !.toDriver = host.peer.toDriver])

Sends(p, bytes) == [p EXCEPT !.toDriver = @ \o bytes]

Room == host.peer.is \in {"calling", "talking"} /\ Len(host.peer.toDriver) < MaxWire

Talks(bytes) == Room /\ Peer(Sends(host.peer, bytes))

\* What one side does with an option turns: its new state and the answer.
Turn(state, offered, accepts, yes, no) ==
  CASE offered /\ state = "no" -> IF accepts THEN <<"yes", yes>> ELSE <<"no", no>>
    [] offered /\ state = "wantyes" -> <<"yes", 0>>
    [] ~offered /\ state = "yes" -> <<"no", no>>
    [] offered /\ state = "yes" -> <<"yes", 0>>
    [] OTHER -> <<"no", 0>>

Listens(accepts) ==
  LET e == Head(host.peer.fromDriver)
      p == [host.peer EXCEPT !.fromDriver = Tail(@)]
      o == e[2]
      ours == e[1] \in {"will", "wont"}
      turn == IF ours THEN Turn(p.us[o], e[1] = "will", accepts, DO, DONT)
              ELSE Turn(p.him[o], e[1] = "do", accepts, WILL, WONT)
      q == IF ours THEN [p EXCEPT !.us[o] = turn[1]] ELSE [p EXCEPT !.him[o] = turn[1]]
  IN  /\ Room /\ host.peer.fromDriver # << >>
      /\ Peer(IF o \notin Asks THEN IF e[1] \in {"wont", "dont"} THEN p
                                    ELSE Sends(p, <<IAC, IF ours THEN DONT ELSE WONT, o>>)
              ELSE IF turn[2] = 0 THEN q ELSE Sends(q, <<IAC, turn[2], o>>))

\* It asks for a change of what the driver does, or announces one of its own.
Requests(o) ==
  LET p == host.peer
      wants(state) == IF state = "no" THEN "wantyes" ELSE "wantno"
  IN  /\ Room
      /\ \/ p.us[o] \in {"no", "yes"}
            /\ Peer(Sends([p EXCEPT !.us[o] = wants(@)], <<IAC, IF p.us[o] = "no" THEN DO ELSE DONT, o>>))
         \/ p.him[o] \in {"no", "yes"}
            /\ Peer(Sends([p EXCEPT !.him[o] = wants(@)], <<IAC, IF p.him[o] = "no" THEN WILL ELSE WONT, o>>))

-----------------------------------------------------------------------------
scc_socket_init ==
  [sockfd |-> NoFd, rdwrfd |-> NoFd, socket_state |-> -2, socket_num_rings |-> 0, ring_due |-> TRUE,
   dcd |-> FALSE, modem_s0_val |-> 0, line |-> << >>, modem_plus_mode |-> 0, pause |-> 0,
   telnet_mode |-> 0, telnet_iac |-> FALSE, local |-> {}, remote |-> {}, reqwill |-> {}, reqdo |-> {},
   out |-> << >>, was_reset |-> FALSE, at_once |-> FALSE]

ModemInit == modem = scc_socket_init /\ \E late \in Late : host = [open |-> << >>, peer |-> Nobody, late |-> late]

-----------------------------------------------------------------------------
(* Properties. *)

(* The driver knows each socket that it has open, has open each that it
   knows, and listens and talks at the right ones, whichever host call of an
   answer, a dial or a listen failed, the two that leak a socket excepted
   (scc_socket_close, the two opens and the accept). *)
SocketsMatch ==
  LET fds == {modem.sockfd, modem.rdwrfd} \ {NoFd}
  IN  /\ DOMAIN host.open = fds
      /\ \A fd \in fds : host.open[fd] = IF fd = modem.rdwrfd THEN "stream" ELSE "listen"

(* A call is rung, talked to or held after +++, and none of the three goes on
   without a call: no order of rings, commands, failures and hang-ups leaves a
   call that nobody can take or carrier without a line.  (A reset of the
   machine takes the carrier away from a call that goes on.) *)
CallIsKept ==
  LET on == modem.rdwrfd # NoFd
  IN  /\ modem.socket_state = 1 => on
      /\ modem.dcd => on
      /\ modem.socket_num_rings > 0 => on /\ modem.socket_state = 0
      /\ on => modem.socket_num_rings > 0 \/ modem.socket_state = 1 \/ modem.dcd \/ modem.was_reset

(* The line as a whole: sockets, carrier and state tell the same story. *)
LineIsWhole == SocketsMatch /\ CallIsKept

(* When all is said, the driver's four telnet masks agree with what the other
   end believes, no request is open and the parser is between commands, after
   requests that crossed and options it refused (scc_socket_recvd_char).  Of a
   call that was answered at once (S0=1, or a port without the modem) this holds
   for the options the driver does not ask for: its own two requests stay open
   there and were never sent (scc_socket_driver.c:427), so that it takes what the
   other end asks of them for an answer. *)
SidesAgree ==
  LET p == host.peer
      quiet == /\ p.is = "talking" /\ p.toDriver = << >> /\ p.fromDriver = << >>
               /\ modem.socket_state = 1 /\ ~modem.was_reset
               /\ \A i \in DOMAIN modem.out : modem.out[i][1] = "char"
      settled == IF modem.at_once THEN Asks \ Requested ELSE Asks
  IN  quiet => /\ modem.telnet_mode = 0 /\ ~modem.telnet_iac
               /\ modem.at_once \/ (modem.reqwill = {} /\ modem.reqdo = {})
               /\ modem.local \cap settled = {o \in settled : p.us[o] = "yes"}
               /\ modem.remote \cap settled = {o \in settled : p.him[o] = "yes"}
               /\ \A o \in settled : {p.us[o], p.him[o]} \subseteq {"no", "yes"}

(* A call that rings is answered or dropped, with nobody at the keyboard. *)
RingingEnds == (modem.socket_num_rings > 0) ~> (modem.socket_num_rings = 0)

(* "SE, the end" (scc_socket_driver.c, the three cases of LINEMODE SLC): behind
   a subnegotiation that has come whole, the next byte is a byte of data. *)
EndIsSeen == host.peer.is = "talking" /\ host.peer.toDriver = << >> /\ modem.socket_state = 1
               => modem.telnet_mode = 0
=============================================================================
