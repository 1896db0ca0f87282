------------------------------ MODULE AdbProof ------------------------------
(***************************************************************************)
(* The ADB controller, the keyboard latch and the mouse keep their         *)
(* promises for every number of keys, addresses, buffer slots, FIFO        *)
(* entries and steps of the mouse: the properties that MCAdb checks, of    *)
(* the whole specification of module Mouse.                                *)
(*                                                                         *)
(* The routines of the model are operators on the controller's record, so  *)
(* the inductive invariant is a predicate of that record, Sound, and each  *)
(* routine has a lemma: it keeps Sound, does to the latch what LatchStep   *)
(* allows, and drops the mouse's flag only in a reset.                     *)
(***************************************************************************)
EXTENDS Mouse, NatFacts, SequenceTheorems

(***************************************************************************)
(* The inductive invariant, as predicates of the controller's record.      *)
(***************************************************************************)
\* SrqWhileKeysWait.
Asks(d) ==
  /\ d.kbd_reg0 # <<>> <=> "kbd_srq" \in d.irq
  /\ "kbd_srq" \in d.irq <=> "srq" \in d.interrupt_byte

\* DataIntHasData.
DataFed(d) == "data" \in d.irq =>
                "data" \in d.c027 /\ (d.data_pending > 0 \/ d.interrupt_byte # {})
Sends(d) == d.state = "SENDING_DATA" => d.data_pending > 0
MouseFed(d) == "mouse" \in d.irq => "mouse" \in d.c027 /\ d.mouse_valid_data

\* KeysAreOffered, of every buffered character.
Offers(d) ==
  /\ \A i \in 0..d.chars_buffered - 1 : d.kbd_buf[i].strobe /\ d.kbd_buf[i].key # NoKey
  /\ d.key_down => d.hard_key_down
  /\ d.hard_key_down => d.a2code_down \in d.down

Sound(d) ==
  d \in Controller /\ Asks(d) /\ DataFed(d) /\ Sends(d) /\ MouseFed(d) /\ Offers(d)

\* The latch and its buffer stay as they are, and so does the mouse's flag.
SameLatch(d, e) == e.kbd_buf = d.kbd_buf /\ e.chars_buffered = d.chars_buffered
SameFlag(d, e) == e.mouse_valid_data = d.mouse_valid_data

\* The characters in the buffer, and what may become of them in a step.
Typed(d) == [i \in 1..d.chars_buffered |-> d.kbd_buf[i - 1].key]
LatchStep(d, e) ==
  \/ Typed(e) = Typed(d)
  \/ /\ d.chars_buffered < MAX_KBD_BUF - 1
     /\ \E k \in Hard : Typed(e) = Append(Typed(d), k)
  \/ d.chars_buffered > 0 /\ Typed(e) = Tail(Typed(d))

LEMMA Constants ==
  /\ MAX_KBD_BUF \in Nat /\ MAX_KBD_BUF > 1
  /\ MAX_ADB_KBD_REG3 \in Nat \ {0} /\ PatientReads \in Nat
  /\ Address \subseteq Nat /\ 2 \in Address /\ 3 \in Address
  /\ Plain \subseteq 0..127 /\ Key \subseteq 0..127 /\ Hard \subseteq Key
  /\ NoKey \notin Key /\ NoKey \notin Hard
BY AdbAssumption DEF AdbAssumption, Key, Hard, ESC, CTRL, CMD, RESET, NoKey

LEMMA Fields ==
  ASSUME NEW d \in Controller
  PROVE  /\ d.state \in {"IDLE", "IN_CMD", "SENDING_DATA"}
         /\ d.cmd \in AdbCommand /\ d.cmd_so_far \in 0..8 /\ d.data_pending \in 0..4
         /\ d.interrupt_byte \in SUBSET {"response", "desk", "srq"}
         /\ d.c027 \in SUBSET {"mouse", "data"} /\ d.mode \in SUBSET Mode
         /\ d.kbd_dev \in Address /\ d.kbd_ctl \in Address /\ d.mouse_ctl \in Address
         /\ d.irq \in SUBSET {"kbd_srq", "data", "mouse"}
         /\ d.kbd_reg0 \in Seq([key : Key, up : BOOLEAN])
         /\ d.mouse_valid_data \in BOOLEAN /\ d.mouse_coord \in BOOLEAN
         /\ d.down \in SUBSET Key
         /\ d.kbd_buf \in [0..MAX_KBD_BUF - 1 -> Slot]
         /\ d.chars_buffered \in 0..MAX_KBD_BUF - 1
         /\ d.read_no_update \in 0..PatientReads + 1
         /\ d.key_down \in BOOLEAN /\ d.hard_key_down \in BOOLEAN
         /\ d.a2code_down \in Hard \cup {NoKey} /\ d.repeats \in BOOLEAN
BY DEF Controller

LEMMA DataInt ==
  ASSUME NEW d \in Controller, Asks(d), Sends(d), MouseFed(d), Offers(d),
         "data" \in d.irq => "data" \in d.c027,
         d.data_pending > 0 \/ d.interrupt_byte # {},
         NEW e, e = adb_add_data_int(d)
  PROVE  Sound(e) /\ SameLatch(d, e) /\ SameFlag(d, e) /\ e.kbd_reg0 = d.kbd_reg0
<1> DEFINE i == d.irq \cup {"data"}
<1>1. CASE "data" \in d.c027
  <2>1. e = [d EXCEPT !.irq = IF d.irq \cap {"data"} # {} THEN d.irq ELSE i]
    BY <1>1 DEF adb_add_data_int, add_irq
  <2>2. (IF d.irq \cap {"data"} # {} THEN d.irq ELSE i) = i
    OBVIOUS
  <2>3. i \in SUBSET {"kbd_srq", "data", "mouse"}
    BY Fields
  <2>4. /\ "kbd_srq" \in i <=> "kbd_srq" \in d.irq
        /\ "mouse" \in i <=> "mouse" \in d.irq
    OBVIOUS
  <2> HIDE DEF i
  <2>5. e = [d EXCEPT !.irq = i]
    BY <2>1, <2>2
  <2>6. [d EXCEPT !.irq = i] \in Controller
    BY <2>3 DEF Controller
  <2> QED BY <1>1, <2>4, <2>5, <2>6 DEF Controller, Sound, Asks, DataFed, Sends, MouseFed, Offers, SameLatch, SameFlag
<1>2. CASE "data" \notin d.c027
  <2>1. e = d
    BY <1>2 DEF adb_add_data_int
  <2> QED BY <1>2, <2>1 DEF Sound, DataFed, SameLatch, SameFlag
<1> QED BY <1>1, <1>2

LEMMA SameLatchStep ==
  ASSUME NEW d, NEW e, SameLatch(d, e)
  PROVE  LatchStep(d, e)
BY DEF SameLatch, LatchStep, Typed

-----------------------------------------------------------------------------
\* Resets.
LEMMA Reset ==
  ASSUME NEW d, Sound(d), NEW e, e = adb_reset(d)
  PROVE  Sound(e) /\ SameLatch(d, e) /\ e.down = d.down
<1>1. d \in Controller
  BY DEF Sound
<1> DEFINE i == ((d.irq \ {"data"}) \ {"mouse"}) \ {"kbd_srq"}
           none == <<>>
           no == {}
<1>2. /\ i \in SUBSET {"kbd_srq", "data", "mouse"} /\ i \cap {"data", "mouse", "kbd_srq"} = {}
      /\ none \in Seq([key : Key, up : BOOLEAN]) /\ none = <<>>
      /\ no \subseteq {"response", "desk", "srq"} /\ no \subseteq {"mouse", "data"} /\ no = {}
  BY <1>1, Fields
<1>3. e = [adb_clear_kbd_srq(adb_clear_mouse_int(adb_clear_data_int(d))) EXCEPT
             !.c027 = no, !.key_down = FALSE,
             !.kbd_dev = 2, !.kbd_ctl = 2, !.mouse_ctl = 3,
             !.data_pending = 0, !.interrupt_byte = no, !.state = "IDLE",
             !.mouse_coord = FALSE, !.mouse_valid_data = FALSE, !.kbd_reg0 = none]
  BY DEF adb_reset
<1>4. adb_clear_kbd_srq(adb_clear_mouse_int(adb_clear_data_int(d)))
        = [d EXCEPT !.irq = i, !.interrupt_byte = d.interrupt_byte \ {"srq"}]
  BY <1>1 DEF adb_clear_kbd_srq, adb_clear_mouse_int, adb_clear_data_int, remove_irq, Controller
<1> HIDE DEF i, none, no
<1>5. /\ e \in Controller /\ e.irq = i /\ e.c027 = no /\ e.kbd_reg0 = none
      /\ e.interrupt_byte = no /\ e.state = "IDLE" /\ SameLatch(d, e) /\ e.down = d.down
      /\ e.key_down = FALSE /\ e.hard_key_down = d.hard_key_down
      /\ e.a2code_down = d.a2code_down
  <2> DEFINE t == adb_clear_kbd_srq(adb_clear_mouse_int(adb_clear_data_int(d)))
             b == d.interrupt_byte \ {"srq"}
             kbd == 2
             mse == 3
             zero == 0
  <2>1. t = [d EXCEPT !.irq = i, !.interrupt_byte = b]
    BY <1>4
  <2>2. b \in SUBSET {"response", "desk", "srq"} /\ zero \in 0..4 /\ kbd \in Address /\ mse \in Address
    BY <1>1, Fields, Constants
  <2>3. e = [t EXCEPT !.c027 = no, !.key_down = FALSE, !.kbd_dev = kbd, !.kbd_ctl = kbd,
               !.mouse_ctl = mse, !.data_pending = zero, !.interrupt_byte = no, !.state = "IDLE",
               !.mouse_coord = FALSE, !.mouse_valid_data = FALSE, !.kbd_reg0 = none]
    BY <1>3
  <2> HIDE DEF t, b, kbd, mse, zero
  <2>4. /\ t \in Controller /\ t.irq = i /\ SameLatch(d, t) /\ t.down = d.down
        /\ t.hard_key_down = d.hard_key_down /\ t.a2code_down = d.a2code_down
    BY <1>1, <1>2, <2>1, <2>2 DEF Controller, SameLatch
  <2>5. e \in Controller
    <3>1. [t EXCEPT !.c027 = no, !.key_down = FALSE, !.kbd_dev = kbd, !.kbd_ctl = kbd,
               !.mouse_ctl = mse, !.data_pending = zero, !.interrupt_byte = no, !.state = "IDLE",
               !.mouse_coord = FALSE, !.mouse_valid_data = FALSE, !.kbd_reg0 = none] \in Controller
      BY <1>2, <2>2, <2>4 DEF Controller
    <3> QED BY <2>3, <3>1
  <2>6. /\ e.irq = t.irq /\ e.c027 = no /\ e.kbd_reg0 = none
        /\ e.interrupt_byte = no /\ e.state = "IDLE" /\ SameLatch(t, e) /\ e.down = t.down
        /\ e.key_down = FALSE /\ e.hard_key_down = t.hard_key_down
        /\ e.a2code_down = t.a2code_down
    BY <2>3, <2>4 DEF Controller, SameLatch
  <2> QED BY <2>4, <2>5, <2>6 DEF SameLatch
<1> QED BY <1>1, <1>2, <1>5 DEF Sound, Asks, DataFed, Sends, MouseFed, Offers, SameLatch

LEMMA MachineReset ==
  ASSUME NEW d, Sound(d), NEW e, e = do_reset(d)
  PROVE  Sound(e) /\ SameLatch(d, e) /\ e.down = d.down
<1> DEFINE r == adb_reset(d)
           no == {}
<1>1. Sound(r) /\ SameLatch(d, r) /\ r.down = d.down /\ r.kbd_reg0 = <<>> /\ r.interrupt_byte = {}
  <2>1. d \in Controller
    BY DEF Sound
  <2>2. r.kbd_reg0 = <<>> /\ r.interrupt_byte = {}
    BY <2>1 DEF adb_reset, adb_clear_kbd_srq, adb_clear_mouse_int, adb_clear_data_int, Controller
  <2> QED BY <2>2, Reset
<1>2. e = [r EXCEPT !.irq = no] /\ no = {} /\ no \subseteq {"kbd_srq", "data", "mouse"}
  BY DEF do_reset
<1> HIDE DEF r, no
<1>3. e \in Controller
  BY <1>1, <1>2 DEF Sound, Controller
<1> QED BY <1>1, <1>2, <1>3 DEF Sound, Asks, DataFed, Sends, MouseFed, Offers, SameLatch, Controller

-----------------------------------------------------------------------------
\* Answers.
LEMMA SendBytes ==
  ASSUME NEW d, Sound(d), NEW n \in 1..4, NEW e, e = adb_send_bytes(d, n)
  PROVE  Sound(e) /\ SameLatch(d, e) /\ SameFlag(d, e)
<1> DEFINE t == [d EXCEPT !.state = "SENDING_DATA", !.data_pending = n]
<1>1. d \in Controller /\ t \in Controller
  <2>1. d \in Controller /\ n \in 0..4
    BY DEF Sound
  <2> QED BY <2>1 DEF Controller
<1>2. /\ Asks(t) /\ Sends(t) /\ MouseFed(t) /\ Offers(t) /\ t.data_pending > 0
      /\ "data" \in t.irq => "data" \in t.c027
      /\ SameLatch(d, t) /\ SameFlag(d, t)
  BY <1>1 DEF Sound, Asks, DataFed, Sends, MouseFed, Offers, SameLatch, SameFlag, Controller
<1>3. e = adb_add_data_int(t)
  BY DEF adb_send_bytes
<1> HIDE DEF t
<1> QED BY <1>1, <1>2, <1>3, DataInt DEF SameLatch, SameFlag

LEMMA Response ==
  ASSUME NEW d \in Controller, Sends(d), MouseFed(d), Offers(d), DataFed(d),
         "kbd_srq" \in d.irq <=> "srq" \in d.interrupt_byte,
         NEW n \in 0..4, NEW e, e = adb_response_packet(d, n)
  PROVE  /\ e \in Controller /\ DataFed(e) /\ Sends(e) /\ MouseFed(e) /\ Offers(e)
         /\ SameLatch(d, e) /\ SameFlag(d, e)
         /\ e.kbd_reg0 = d.kbd_reg0 /\ "response" \in e.interrupt_byte
         /\ "kbd_srq" \in e.irq <=> "kbd_srq" \in d.irq
         /\ "srq" \in e.interrupt_byte <=> "srq" \in d.interrupt_byte
         /\ e.state = "IDLE"
<1> DEFINE b == d.interrupt_byte \cup {"response"}
           t == [d EXCEPT !.state = "IDLE", !.data_pending = n, !.interrupt_byte = b]
           i == add_irq(t.irq, {"data"})
<1>1. /\ b \in SUBSET {"response", "desk", "srq"} /\ "response" \in b
      /\ "srq" \in b <=> "srq" \in d.interrupt_byte
  BY Fields
<1> HIDE DEF b
<1>2. t \in Controller
  BY <1>1 DEF Controller
<1>3. i \in SUBSET {"kbd_srq", "data", "mouse"} /\ (\A x \in i : x # "data" => x \in t.irq) /\ t.irq \subseteq i
  BY <1>2, Fields DEF add_irq
<1>4. e = IF "data" \in t.c027 THEN [t EXCEPT !.irq = i] ELSE t
  BY DEF adb_response_packet, adb_add_data_int, b
<1>5. /\ Sends(t) /\ MouseFed(t) /\ Offers(t) /\ DataFed(t)
      /\ SameLatch(d, t) /\ SameFlag(d, t) /\ t.kbd_reg0 = d.kbd_reg0 /\ t.interrupt_byte = b
      /\ t.irq = d.irq /\ t.state = "IDLE"
  BY <1>1, <1>2 DEF DataFed, Sends, MouseFed, Offers, SameLatch, SameFlag, Controller
<1> HIDE DEF t, i
<1>6. CASE "data" \in t.c027
  <2>1. e = [t EXCEPT !.irq = i] /\ e \in Controller
    <3>1. e = [t EXCEPT !.irq = i]
      BY <1>4, <1>6
    <3>2. i \in SUBSET {"kbd_srq", "data", "mouse"}
      BY <1>3
    <3>3. [t EXCEPT !.irq = i] \in Controller
      BY <1>2, <3>2 DEF Controller
    <3> QED BY <3>1, <3>3
  <2>2. /\ e.irq = i /\ e.state = "IDLE" /\ e.c027 = t.c027 /\ e.interrupt_byte = b
        /\ e.kbd_reg0 = d.kbd_reg0 /\ SameLatch(d, e) /\ SameFlag(d, e) /\ Offers(e)
    BY <1>2, <1>5, <2>1 DEF Controller, SameLatch, SameFlag, Offers
  <2>3. /\ "mouse" \in i <=> "mouse" \in t.irq
        /\ "kbd_srq" \in i <=> "kbd_srq" \in t.irq
    BY <1>3
  <2>4. e.mouse_valid_data = t.mouse_valid_data
    BY <1>5, <2>2 DEF SameFlag
  <2> QED BY <1>1, <1>5, <1>6, <2>1, <2>2, <2>3, <2>4 DEF DataFed, Sends, MouseFed
<1>7. CASE "data" \notin t.c027
  BY <1>1, <1>2, <1>4, <1>5, <1>7
<1> QED BY <1>6, <1>7

-----------------------------------------------------------------------------
\* Keys that wait for a talk command.
LEMMA AddSrq ==
  ASSUME NEW d \in Controller, d.kbd_reg0 # <<>>,
         DataFed(d), Sends(d), MouseFed(d), Offers(d), NEW e, e = adb_add_kbd_srq(d)
  PROVE  Sound(e) /\ SameLatch(d, e) /\ SameFlag(d, e) /\ e.down = d.down
<1> DEFINE b == d.interrupt_byte \cup {"srq"}
           i == add_irq(d.irq, {"kbd_srq"})
<1>1. /\ b \in SUBSET {"response", "desk", "srq"} /\ "srq" \in b
      /\ d.interrupt_byte \subseteq b
  BY Fields
<1>2. /\ i \in SUBSET {"kbd_srq", "data", "mouse"} /\ "kbd_srq" \in i
      /\ "data" \in i <=> "data" \in d.irq
      /\ "mouse" \in i <=> "mouse" \in d.irq
  BY Fields DEF add_irq
<1>3. e = [d EXCEPT !.interrupt_byte = b, !.irq = i]
  BY DEF adb_add_kbd_srq
<1> HIDE DEF b, i
<1>4. [d EXCEPT !.interrupt_byte = b, !.irq = i] \in Controller
  BY <1>1, <1>2 DEF Controller
<1>5. /\ e.irq = i /\ e.interrupt_byte = b /\ e.kbd_reg0 = d.kbd_reg0
      /\ SameLatch(d, e) /\ SameFlag(d, e) /\ e.down = d.down /\ Offers(e)
      /\ e.state = d.state /\ e.data_pending = d.data_pending /\ e.c027 = d.c027
  BY <1>3 DEF Controller, SameLatch, SameFlag, Offers
<1>6. DataFed(e) /\ Sends(e) /\ MouseFed(e)
  BY <1>1, <1>2, <1>5 DEF DataFed, Sends, MouseFed, SameFlag
<1> QED BY <1>1, <1>2, <1>3, <1>4, <1>5, <1>6 DEF Sound, Asks

LEMMA KeyWaits ==
  ASSUME NEW d, Sound(d), NEW k \in Key, NEW up \in BOOLEAN,
         NEW e, e = adb_kbd_reg0_data(d, k, up)
  PROVE  Sound(e) /\ SameLatch(d, e) /\ SameFlag(d, e) /\ e.down = d.down
<1>1. d \in Controller /\ d.kbd_reg0 \in Seq([key : Key, up : BOOLEAN])
  BY Fields DEF Sound
<1>2. CASE Len(d.kbd_reg0) >= MAX_ADB_KBD_REG3
  BY <1>2 DEF adb_kbd_reg0_data, SameLatch, SameFlag
<1>3. CASE ~(Len(d.kbd_reg0) >= MAX_ADB_KBD_REG3)
  <2> DEFINE r == Append(d.kbd_reg0, [key |-> k, up |-> up])
             t == [d EXCEPT !.kbd_reg0 = r]
  <2>1. e = adb_add_kbd_srq(t)
    BY <1>3 DEF adb_kbd_reg0_data
  <2>2. r \in Seq([key : Key, up : BOOLEAN]) /\ r # <<>>
    <3>1. [key |-> k, up |-> up] \in [key : Key, up : BOOLEAN]
      OBVIOUS
    <3>2. Len(r) = Len(d.kbd_reg0) + 1 /\ Len(d.kbd_reg0) \in Nat
      BY <1>1, <3>1
    <3> QED BY <1>1, <3>1, <3>2
  <2> HIDE DEF r
  <2>3. t \in Controller
    BY <1>1, <2>2 DEF Controller
  <2>4. /\ t.kbd_reg0 = r /\ DataFed(t) /\ Sends(t) /\ MouseFed(t) /\ Offers(t)
        /\ SameLatch(d, t) /\ SameFlag(d, t) /\ t.down = d.down
    BY <1>1 DEF Controller, Sound, DataFed, Sends, MouseFed, Offers, SameLatch, SameFlag
  <2> HIDE DEF t
  <2>5. Sound(e) /\ SameLatch(t, e) /\ SameFlag(t, e) /\ e.down = t.down
    BY <2>1, <2>2, <2>3, <2>4, AddSrq
  <2> QED BY <2>4, <2>5 DEF SameLatch, SameFlag
<1> QED BY <1>2, <1>3

\* What stays of the queue is a queue.
LEMMA Answered ==
  ASSUME NEW S, NEW q \in Seq(S)
  PROVE  AfterAnswer(q) \in Seq(S)
<1> DEFINE num == AnswerKeys(q)
           left == [i \in 1..Len(q) - num |-> IF i < num THEN q[i] ELSE q[i + 1]]
<1>1. Len(q) \in Nat /\ num \in 0..2 /\ num <= Len(q) /\ (Len(q) > 0 => num > 0)
  <2>1. Len(q) \in Nat
    OBVIOUS
  <2>2. (num = Len(q) /\ Len(q) < 2) \/ (num \in {1, 2} /\ Len(q) >= 2)
    <3>1. CASE Len(q) < 2
      <4>1. num = Len(q)
        BY <3>1 DEF AnswerKeys
      <4> HIDE DEF num
      <4> QED BY <3>1, <4>1
    <3>2. CASE ~(Len(q) < 2)
      <4> DEFINE alone == q[1].key = RESET \/ q[2].key = RESET
      <4>1. num = IF alone THEN 1 ELSE 2
        BY <3>2 DEF AnswerKeys
      <4> HIDE DEF num, alone
      <4> QED BY <2>1, <3>2, <4>1
    <3> QED BY <3>1, <3>2
  <2> HIDE DEF num
  <2> QED BY <2>1, <2>2
<1> HIDE DEF num
<1>2. Len(q) - num \in Nat
  BY <1>1
<1>3. ASSUME NEW i \in 1..Len(q) - num
      PROVE  (IF i < num THEN q[i] ELSE q[i + 1]) \in S
  <2>1. i \in 1..Len(q) /\ i + 1 \in 1..Len(q)
    BY <1>1
  <2>2. q[i] \in S /\ q[i + 1] \in S
    BY <2>1, ElementOfSeq
  <2> QED BY <2>2
<1>4. left \in [1..Len(q) - num -> S]
  BY <1>3
<1>5. left \in Seq(S)
  BY <1>2, <1>4, SeqDef
<1> QED BY <1>5 DEF AfterAnswer, num

LEMMA Talk ==
  ASSUME NEW d, Sound(d), NEW e, e = adb_kbd_talk_reg0(d)
  PROVE  Sound(e) /\ SameLatch(d, e) /\ SameFlag(d, e)
<1> DEFINE left == AfterAnswer(d.kbd_reg0)
           t == [d EXCEPT !.kbd_reg0 = left]
           n == IF d.kbd_reg0 = <<>> THEN 0 ELSE 2
           sent == adb_response_packet(t, n)
<1>1. d \in Controller /\ left \in Seq([key : Key, up : BOOLEAN]) /\ n \in 0..4
  <2>1. d \in Controller
    BY DEF Sound
  <2>2. d.kbd_reg0 \in Seq([key : Key, up : BOOLEAN])
    BY <2>1, Fields
  <2> QED BY <2>1, <2>2, Answered
<1>2. e = IF left = <<>> THEN adb_clear_kbd_srq(sent) ELSE sent
  BY DEF adb_kbd_talk_reg0
<1>3. d.kbd_reg0 = <<>> => left = <<>>
  <2>1. SUFFICES ASSUME d.kbd_reg0 = <<>> PROVE left = <<>>
    OBVIOUS
  <2>2. Len(d.kbd_reg0) = 0 /\ AnswerKeys(d.kbd_reg0) = 0
    BY <2>1 DEF AnswerKeys
  <2>3. DOMAIN left = 1..0
    BY <2>2 DEF AfterAnswer
  <2>4. Len(left) = 0
    BY <2>3, <1>1
  <2> QED BY <2>4, <1>1, EmptySeq
<1> HIDE DEF left, n
<1>4. t \in Controller
  BY <1>1 DEF Controller
<1>5. /\ t.kbd_reg0 = left /\ DataFed(t) /\ Sends(t) /\ MouseFed(t) /\ Offers(t)
      /\ t.irq = d.irq /\ t.interrupt_byte = d.interrupt_byte
      /\ SameLatch(d, t) /\ SameFlag(d, t)
  BY <1>1 DEF Controller, Sound, DataFed, Sends, MouseFed, Offers, SameLatch, SameFlag
<1>6. "kbd_srq" \in d.irq <=> "srq" \in d.interrupt_byte
  BY DEF Sound, Asks
<1> HIDE DEF t
<1>7. /\ sent \in Controller /\ DataFed(sent) /\ Sends(sent) /\ MouseFed(sent) /\ Offers(sent)
      /\ SameLatch(t, sent) /\ SameFlag(t, sent)
      /\ sent.kbd_reg0 = left /\ "response" \in sent.interrupt_byte
      /\ "kbd_srq" \in sent.irq <=> "kbd_srq" \in d.irq
      /\ "srq" \in sent.interrupt_byte <=> "srq" \in d.interrupt_byte
  BY <1>1, <1>4, <1>5, <1>6, Response
<1> HIDE DEF sent
<1>8. CASE left # <<>>
  <2>1. e = sent /\ d.kbd_reg0 # <<>>
    BY <1>2, <1>3, <1>8
  <2>2. Asks(e)
    BY <1>6, <1>7, <1>8, <2>1 DEF Sound, Asks
  <2> QED BY <1>5, <1>7, <2>1, <2>2 DEF Sound, SameLatch, SameFlag
<1>9. CASE left = <<>>
  <2> DEFINE b == sent.interrupt_byte \ {"srq"}
             i == sent.irq \ {"kbd_srq"}
  <2>1. e = [sent EXCEPT !.interrupt_byte = b, !.irq = i]
    BY <1>2, <1>9 DEF adb_clear_kbd_srq, remove_irq
  <2>2. /\ b \in SUBSET {"response", "desk", "srq"} /\ "srq" \notin b /\ b # {}
        /\ i \in SUBSET {"kbd_srq", "data", "mouse"} /\ "kbd_srq" \notin i
        /\ "data" \in i => "data" \in sent.irq
        /\ "mouse" \in i => "mouse" \in sent.irq
    BY <1>7, Fields
  <2> HIDE DEF b, i
  <2>3. [sent EXCEPT !.interrupt_byte = b, !.irq = i] \in Controller
    BY <1>7, <2>2 DEF Controller
  <2>4. /\ e.irq = i /\ e.interrupt_byte = b /\ e.kbd_reg0 = left
        /\ SameLatch(sent, e) /\ SameFlag(sent, e) /\ Offers(e)
        /\ e.state = sent.state /\ e.data_pending = sent.data_pending /\ e.c027 = sent.c027
    BY <1>7, <2>1 DEF Controller, SameLatch, SameFlag, Offers
  <2>5. DataFed(e) /\ Sends(e) /\ MouseFed(e) /\ Asks(e)
    BY <1>7, <1>9, <2>2, <2>4 DEF DataFed, Sends, MouseFed, SameFlag, Asks
  <2> QED BY <1>5, <1>7, <2>1, <2>3, <2>4, <2>5 DEF Sound, SameLatch, SameFlag
<1> QED BY <1>8, <1>9

-----------------------------------------------------------------------------
\* Keys that the controller polls.
LEMMA Types ==
  ASSUME NEW d, Sound(d), NEW k \in Hard, k \in d.down, NEW e, e = TypeAhead(d, k)
  PROVE  Sound(e) /\ LatchStep(d, e) /\ SameFlag(d, e)
<1> DEFINE n == d.chars_buffered
           c == IF n + 1 >= MAX_KBD_BUF THEN MAX_KBD_BUF - 1 ELSE n + 1
           s == [key |-> k, strobe |-> TRUE]
           b == [d.kbd_buf EXCEPT ![n] = s]
           rep == d.repeats
<1>1. /\ d \in Controller /\ n \in 0..MAX_KBD_BUF - 1 /\ rep \in BOOLEAN
      /\ d.kbd_buf \in [0..MAX_KBD_BUF - 1 -> Slot] /\ MAX_KBD_BUF \in Nat /\ MAX_KBD_BUF > 1
  BY Fields, Constants DEF Sound
<1>2. /\ c \in 0..MAX_KBD_BUF - 1
      /\ \/ n < MAX_KBD_BUF - 1 /\ c = n + 1
         \/ n = MAX_KBD_BUF - 1 /\ c = n
  BY <1>1
<1>3. s \in Slot
  BY DEF Slot
<1>4. /\ b \in [0..MAX_KBD_BUF - 1 -> Slot] /\ b[n] = s
      /\ \A i \in 0..n - 1 : b[i] = d.kbd_buf[i]
  BY <1>1, <1>3
<1>5. e = [d EXCEPT !.kbd_buf = b, !.chars_buffered = c, !.key_down = rep,
                    !.hard_key_down = TRUE, !.a2code_down = k]
  BY DEF TypeAhead
<1>6. s.strobe /\ s.key = k /\ k # NoKey
  BY Constants
<1>7. k \in Hard \cup {NoKey}
  OBVIOUS
<1> HIDE DEF n, c, b, s, rep
<1>8. [d EXCEPT !.kbd_buf = b, !.chars_buffered = c, !.key_down = rep,
                !.hard_key_down = TRUE, !.a2code_down = k] \in Controller
  BY <1>1, <1>2, <1>4, <1>7 DEF Controller
<1>9. /\ e.kbd_buf = b /\ e.chars_buffered = c /\ e.hard_key_down /\ e.a2code_down = k
      /\ e.down = d.down /\ SameFlag(d, e) /\ e.irq = d.irq /\ e.c027 = d.c027
      /\ e.kbd_reg0 = d.kbd_reg0 /\ e.state = d.state /\ e.data_pending = d.data_pending
      /\ e.interrupt_byte = d.interrupt_byte
  BY <1>1, <1>5 DEF Controller, SameFlag
<1>10. Asks(e) /\ DataFed(e) /\ Sends(e) /\ MouseFed(e)
  BY <1>9 DEF Sound, Asks, DataFed, Sends, MouseFed, SameFlag
<1>11. Offers(e)
  <2>1. ASSUME NEW i \in 0..c - 1 PROVE b[i].strobe /\ b[i].key # NoKey
    <3>1. i = n \/ i \in 0..n - 1
      BY <1>1, <1>2
    <3>2. \A j \in 0..n - 1 : d.kbd_buf[j].strobe /\ d.kbd_buf[j].key # NoKey
      BY DEF Sound, Offers, n
    <3> QED BY <1>4, <1>6, <3>1, <3>2
  <2> QED BY <1>9, <2>1 DEF Offers
<1>12. LatchStep(d, e)
  <2>1. CASE n < MAX_KBD_BUF - 1 /\ c = n + 1
    <3>1. Typed(e) = Append(Typed(d), k)
      <4>1. Typed(d) = [i \in 1..n |-> d.kbd_buf[i - 1].key]
        BY DEF Typed, n
      <4>2. Typed(e) = [i \in 1..n + 1 |-> b[i - 1].key]
        BY <1>9, <2>1 DEF Typed
      <4>3. \A i \in 1..n : b[i - 1].key = d.kbd_buf[i - 1].key
        BY <1>1, <1>4
      <4>4. n + 1 - 1 = n /\ n \in Nat
        BY <1>1
      <4>5. Append(Typed(d), k) = [i \in 1..n + 1 |-> IF i = n + 1 THEN k ELSE Typed(d)[i]]
        BY <4>1, <4>4
      <4> QED BY <1>4, <1>6, <4>1, <4>2, <4>3, <4>4, <4>5
    <3> QED BY <2>1, <3>1 DEF LatchStep, n
  <2>2. CASE n = MAX_KBD_BUF - 1 /\ c = n
    <3>1. \A i \in 1..n : b[i - 1] = d.kbd_buf[i - 1]
      BY <1>1, <1>4
    <3> QED BY <1>9, <2>2, <3>1 DEF LatchStep, Typed, n
  <2> QED BY <1>2, <2>1, <2>2
<1> QED BY <1>5, <1>8, <1>9, <1>10, <1>11, <1>12 DEF Sound

LEMMA KeyDown ==
  ASSUME NEW d, Sound(d), NEW k \in Key, k \in d.down, NEW e, e = adb_key_event(d, k, FALSE)
  PROVE  Sound(e) /\ LatchStep(d, e) /\ SameFlag(d, e)
<1> DEFINE b == d.interrupt_byte \cup {"desk"}
           asked == [d EXCEPT !.interrupt_byte = b]
           t == DeskManager(d, k)
<1>1. d \in Controller
  BY DEF Sound
<1>2. Sound(t) /\ SameLatch(d, t) /\ SameFlag(d, t) /\ t.down = d.down
  <2>1. CASE k = ESC /\ CTRL_DOWN(d) /\ CMD_DOWN(d)
    <3>1. t = adb_add_data_int(asked)
      BY <2>1 DEF DeskManager
    <3>2. /\ b \in SUBSET {"response", "desk", "srq"} /\ b # {}
          /\ "srq" \in b <=> "srq" \in d.interrupt_byte
      BY <1>1, Fields
    <3> HIDE DEF b
    <3>3. asked \in Controller
      BY <1>1, <3>2 DEF Controller
    <3>4. /\ Asks(asked) /\ Sends(asked) /\ MouseFed(asked) /\ Offers(asked)
          /\ "data" \in asked.irq => "data" \in asked.c027
          /\ asked.interrupt_byte # {} /\ SameLatch(d, asked) /\ SameFlag(d, asked)
          /\ asked.down = d.down
      BY <1>1, <3>2 DEF Sound, Asks, DataFed, Sends, MouseFed, Offers, SameLatch, SameFlag, Controller
    <3>5. t.down = asked.down
      BY <3>1, <3>3 DEF adb_add_data_int, Controller
    <3> HIDE DEF asked, t
    <3>6. Sound(t) /\ SameLatch(asked, t) /\ SameFlag(asked, t)
      BY <3>1, <3>3, <3>4, DataInt
    <3> QED BY <3>4, <3>5, <3>6 DEF SameLatch, SameFlag
  <2>2. CASE ~(k = ESC /\ CTRL_DOWN(d) /\ CMD_DOWN(d))
    BY <2>2 DEF DeskManager, SameLatch, SameFlag
  <2> QED BY <2>1, <2>2
<1>3. e = IF k \in Hard THEN TypeAhead(t, k) ELSE t
  BY DEF adb_key_event
<1> HIDE DEF t
<1>4. CASE k \in Hard
  <2>1. Sound(e) /\ LatchStep(t, e) /\ SameFlag(t, e)
    BY <1>2, <1>3, <1>4, Types
  <2> QED BY <1>2, <2>1 DEF LatchStep, Typed, SameLatch, SameFlag
<1>5. CASE k \notin Hard
  BY <1>2, <1>3, <1>5, SameLatchStep
<1> QED BY <1>4, <1>5

LEMMA VirtualKey ==
  ASSUME NEW d, Sound(d), NEW k \in Key, NEW up \in BOOLEAN,
         NEW e, e = adb_virtual_key_update(d, k, up)
  PROVE  /\ Sound(e) /\ LatchStep(d, e) /\ SameFlag(d, e)
         /\ up => SameLatch(d, e) /\ e.down \subseteq d.down
<1> DEFINE keys == IF up THEN d.down \ {k} ELSE d.down \cup {k}
           t == [d EXCEPT !.down = keys]
<1>1. d \in Controller /\ keys \in SUBSET Key
  <2>1. d \in Controller
    BY DEF Sound
  <2> QED BY <2>1, Fields
<1>2. CASE up = (k \notin d.down)
  BY <1>2 DEF adb_virtual_key_update, SameLatch, LatchStep, SameFlag
<1>3. CASE ~(up = (k \notin d.down))
  <2>1. e = adb_key_event(t, k, up)
    BY <1>3 DEF adb_virtual_key_update
  <2> HIDE DEF keys
  <2>2. t \in Controller
    BY <1>1 DEF Controller
  <2>3. /\ t.down = keys /\ SameLatch(d, t) /\ SameFlag(d, t)
        /\ Asks(t) /\ DataFed(t) /\ Sends(t) /\ MouseFed(t)
        /\ t.a2code_down = d.a2code_down /\ t.hard_key_down = d.hard_key_down
        /\ t.key_down = d.key_down
        /\ t.irq = d.irq /\ t.c027 = d.c027 /\ t.state = d.state /\ t.kbd_reg0 = d.kbd_reg0
        /\ t.data_pending = d.data_pending /\ t.interrupt_byte = d.interrupt_byte
    BY <1>1 DEF Controller, Sound, Asks, DataFed, Sends, MouseFed, SameLatch, SameFlag
  <2> HIDE DEF t
  <2>4. CASE up
    <3>1. keys = d.down \ {k} /\ keys \subseteq d.down
      BY <2>4 DEF keys
    <3>2. CASE k \in Hard /\ k = t.a2code_down
      <4>1. e = [t EXCEPT !.hard_key_down = FALSE, !.key_down = FALSE]
        BY <2>1, <2>4, <3>2 DEF adb_key_event
      <4>2. e \in Controller
        <5>1. [t EXCEPT !.hard_key_down = FALSE, !.key_down = FALSE] \in Controller
          BY <2>2 DEF Controller
        <5> QED BY <4>1, <5>1
      <4>3. /\ ~e.hard_key_down /\ ~e.key_down /\ SameLatch(t, e) /\ SameFlag(t, e)
            /\ Asks(e) /\ DataFed(e) /\ Sends(e) /\ MouseFed(e) /\ e.down = t.down
        BY <2>2, <2>3, <4>1 DEF Controller, SameLatch, SameFlag, Asks, DataFed, Sends, MouseFed
      <4>4. Offers(e) /\ SameLatch(d, e) /\ SameFlag(d, e)
        BY <2>3, <4>3 DEF Sound, Offers, SameLatch, SameFlag
      <4> QED BY <2>3, <3>1, <4>2, <4>3, <4>4, SameLatchStep DEF Sound
    <3>3. CASE ~(k \in Hard /\ k = t.a2code_down)
      <4>1. e = t
        BY <2>1, <2>4, <3>3 DEF adb_key_event
      <4>2. t.a2code_down # k
        <5>1. t.a2code_down \in Hard \cup {NoKey}
          BY <2>2, Fields
        <5> QED BY <3>3, <5>1, Constants
      <4>3. Offers(t)
        BY <2>3, <3>1, <4>2 DEF Sound, Offers, SameLatch
      <4> QED BY <2>2, <2>3, <3>1, <4>1, <4>3, SameLatchStep DEF Sound
    <3> QED BY <3>2, <3>3
  <2>5. CASE ~up
    <3>1. keys = d.down \cup {k}
      BY <2>5 DEF keys
    <3>2. Sound(t) /\ k \in t.down
      BY <2>2, <2>3, <3>1 DEF Sound, Offers, SameLatch
    <3>3. Sound(e) /\ LatchStep(t, e) /\ SameFlag(t, e)
      <4>1. e = adb_key_event(t, k, FALSE)
        BY <2>1, <2>5
      <4> QED BY <3>2, <4>1, KeyDown
    <3> QED BY <2>3, <2>5, <3>3 DEF LatchStep, Typed, SameLatch, SameFlag
  <2> QED BY <2>4, <2>5
<1> QED BY <1>2, <1>3

-----------------------------------------------------------------------------
\* What the data interrupt tells: NothingIsLost, of two records.
Tells(d, e) == "data" \in e.c027 => Told(d, e)

Heard == {"irq", "c027", "data_pending", "interrupt_byte"}
Has(d) == Heard \subseteq DOMAIN d

\* What all but a few routines do: answer and enables stay as they are, an
\* interrupt stays, and there is one if a response or a request is new.
Keeps(d, e) ==
  /\ Has(e) /\ e.c027 = d.c027 /\ e.data_pending = d.data_pending
  /\ "data" \in d.irq => "data" \in e.irq
  /\ \A x \in {"response", "desk"} :
       x \in e.interrupt_byte /\ x \notin d.interrupt_byte /\ "data" \in e.c027
         => "data" \in e.irq

LEMMA KeepsTells ==
  ASSUME NEW d \in Controller, NEW e, Keeps(d, e)
  PROVE  Tells(d, e)
<1>1. d.data_pending \in 0..4
  BY Fields
<1> QED BY <1>1 DEF Keeps, Tells, Told, Came

LEMMA KeepsTwice ==
  ASSUME NEW d, NEW t, NEW e, Keeps(d, t), Keeps(t, e)
  PROVE  Keeps(d, e)
BY DEF Keeps

LEMMA KeepsItself ==
  ASSUME NEW d, Has(d)
  PROVE  Keeps(d, d)
BY DEF Keeps

LEMMA SoundHas ==
  ASSUME NEW d, Sound(d)
  PROVE  Has(d) /\ d \in Controller
<1>1. d \in Controller
  BY DEF Sound
<1> QED BY <1>1 DEF Has, Heard, Controller

LEMMA DataIntTells ==
  ASSUME NEW d, Has(d), NEW e, e = adb_add_data_int(d)
  PROVE  /\ Has(e) /\ e.c027 = d.c027 /\ e.data_pending = d.data_pending
         /\ e.interrupt_byte = d.interrupt_byte
         /\ "data" \in d.irq => "data" \in e.irq
         /\ "data" \in e.c027 => "data" \in e.irq
<1> DEFINE i == add_irq(d.irq, {"data"})
<1>1. "data" \in i
  BY DEF add_irq
<1> HIDE DEF i
<1>2. e = IF "data" \in d.c027 THEN [d EXCEPT !.irq = i] ELSE d
  BY DEF adb_add_data_int, i
<1>3. CASE "data" \in d.c027
  <2>1. e = [d EXCEPT !.irq = i]
    BY <1>2, <1>3
  <2> QED BY <1>1, <2>1 DEF Has, Heard
<1>4. CASE "data" \notin d.c027
  BY <1>2, <1>4
<1> QED BY <1>3, <1>4

LEMMA SrqKeeps ==
  ASSUME NEW d, Has(d), NEW e, e = adb_add_kbd_srq(d)
  PROVE  Keeps(d, e)
<1> DEFINE b == d.interrupt_byte \cup {"srq"}
           i == add_irq(d.irq, {"kbd_srq"})
<1>1. /\ "data" \in d.irq => "data" \in i
      /\ \A x \in {"response", "desk"} : x \in b => x \in d.interrupt_byte
  BY DEF add_irq
<1>2. e = [d EXCEPT !.interrupt_byte = b, !.irq = i]
  BY DEF adb_add_kbd_srq
<1> HIDE DEF b, i
<1>3. /\ Has(e) /\ e.c027 = d.c027 /\ e.data_pending = d.data_pending
      /\ e.irq = i /\ e.interrupt_byte = b
  BY <1>2 DEF Has, Heard
<1> QED BY <1>1, <1>3 DEF Keeps

LEMMA KeyWaitsKeeps ==
  ASSUME NEW d, Has(d), NEW k, NEW up, NEW e, e = adb_kbd_reg0_data(d, k, up)
  PROVE  Keeps(d, e)
<1> DEFINE r == Append(d.kbd_reg0, [key |-> k, up |-> up])
           t == [d EXCEPT !.kbd_reg0 = r]
<1>1. e = d \/ e = adb_add_kbd_srq(t)
  BY DEF adb_kbd_reg0_data
<1> HIDE DEF r
<1>2. Keeps(d, t)
  BY DEF Keeps, Has, Heard
<1> HIDE DEF t
<1>3. e = adb_add_kbd_srq(t) => Keeps(t, e)
  BY <1>2, SrqKeeps DEF Keeps
<1> QED BY <1>1, <1>2, <1>3, KeepsTwice, KeepsItself

LEMMA TypeAheadKeeps ==
  ASSUME NEW d, Has(d), NEW k, NEW e, e = TypeAhead(d, k)
  PROVE  Keeps(d, e)
<1> DEFINE n == d.chars_buffered + 1
           m == IF n >= MAX_KBD_BUF THEN MAX_KBD_BUF - 1 ELSE n
           b == [d.kbd_buf EXCEPT ![d.chars_buffered] = [key |-> k, strobe |-> TRUE]]
           r == d.repeats
<1>1. e = [d EXCEPT !.kbd_buf = b, !.chars_buffered = m,
                    !.key_down = r, !.hard_key_down = TRUE, !.a2code_down = k]
  BY DEF TypeAhead
<1> HIDE DEF n, m, b, r
<1> QED BY <1>1 DEF Keeps, Has, Heard

LEMMA DeskManagerKeeps ==
  ASSUME NEW d, Has(d), NEW k, NEW e, e = DeskManager(d, k)
  PROVE  Keeps(d, e)
<1> DEFINE b == d.interrupt_byte \cup {"desk"}
           t == [d EXCEPT !.interrupt_byte = b]
<1>1. e = d \/ e = adb_add_data_int(t)
  BY DEF DeskManager
<1> HIDE DEF b
<1>2. Has(t) /\ t.c027 = d.c027 /\ t.data_pending = d.data_pending /\ t.irq = d.irq
  BY DEF Has, Heard
<1> HIDE DEF t
<1>3. CASE e = adb_add_data_int(t)
  BY <1>2, <1>3, DataIntTells DEF Keeps
<1> QED BY <1>1, <1>3, KeepsItself

LEMMA KeyKeeps ==
  ASSUME NEW d, Has(d), NEW k, NEW up \in BOOLEAN, NEW e, e = adb_key_event(d, k, up)
  PROVE  Keeps(d, e)
<1>1. CASE up
  <2> DEFINE t == [d EXCEPT !.hard_key_down = FALSE, !.key_down = FALSE]
  <2>1. e = d \/ e = t
    BY <1>1 DEF adb_key_event
  <2>2. Keeps(d, t)
    BY DEF Keeps, Has, Heard
  <2> HIDE DEF t
  <2> QED BY <2>1, <2>2, KeepsItself
<1>2. CASE ~up
  <2> DEFINE t == DeskManager(d, k)
  <2>1. e = t \/ e = TypeAhead(t, k)
    BY <1>2 DEF adb_key_event
  <2>2. Keeps(d, t)
    BY DeskManagerKeeps
  <2> HIDE DEF t
  <2>3. e = TypeAhead(t, k) => Keeps(t, e)
    BY <2>2, TypeAheadKeeps DEF Keeps
  <2> QED BY <2>1, <2>2, <2>3, KeepsTwice
<1> QED BY <1>1, <1>2

LEMMA VirtualKeyKeeps ==
  ASSUME NEW d, Has(d), NEW k, NEW up \in BOOLEAN, NEW e, e = adb_virtual_key_update(d, k, up)
  PROVE  Keeps(d, e)
<1> DEFINE keys == IF up THEN d.down \ {k} ELSE d.down \cup {k}
           t == [d EXCEPT !.down = keys]
<1>1. e = d \/ e = adb_key_event(t, k, up)
  BY DEF adb_virtual_key_update
<1> HIDE DEF keys
<1>2. Keeps(d, t)
  BY DEF Keeps, Has, Heard
<1> HIDE DEF t
<1>3. e = adb_key_event(t, k, up) => Keeps(t, e)
  BY <1>2, KeyKeeps DEF Keeps
<1> QED BY <1>1, <1>2, <1>3, KeepsTwice, KeepsItself

\* A key of the host: only the machine's reset does not keep what is told.
LEMMA PhysicalKeyKeeps ==
  ASSUME NEW d, Has(d), NEW k, NEW up \in BOOLEAN, NEW e, e = adb_physical_key_update(d, k, up)
  PROVE  Keeps(d, e) \/ (~up /\ e = do_reset(d))
<1>1. \/ ~up /\ e = do_reset(d)
      \/ e = adb_virtual_key_update(d, k, up)
      \/ e = adb_kbd_reg0_data(d, k, up)
  BY DEF adb_physical_key_update
<1> QED BY <1>1, VirtualKeyKeeps, KeyWaitsKeeps

-----------------------------------------------------------------------------
\* A key goes up or down; only the reset drops the mouse's flag.
LEMMA PhysicalKeys ==
  ASSUME NEW d, Sound(d), NEW k \in Key, NEW up \in BOOLEAN,
         NEW e, e = adb_physical_key_update(d, k, up)
  PROVE  /\ Sound(e) /\ LatchStep(d, e)
         /\ SameFlag(d, e) \/ e = do_reset(d)
         /\ up => SameLatch(d, e) /\ SameFlag(d, e)
<1>1. CASE ~up /\ k = RESET /\ CTRL_DOWN(d)
  <2>1. e = do_reset(d)
    BY <1>1 DEF adb_physical_key_update
  <2> QED BY <1>1, <2>1, MachineReset, SameLatchStep
<1>2. CASE ~(~up /\ k = RESET /\ CTRL_DOWN(d)) /\ autopoll(d)
  <2>1. e = adb_virtual_key_update(d, k, up)
    BY <1>2 DEF adb_physical_key_update
  <2> QED BY <2>1, VirtualKey
<1>3. CASE ~(~up /\ k = RESET /\ CTRL_DOWN(d)) /\ ~autopoll(d)
  <2>1. e = adb_kbd_reg0_data(d, k, up)
    BY <1>3 DEF adb_physical_key_update
  <2> QED BY <2>1, KeyWaits, SameLatchStep
<1> QED BY <1>1, <1>2, <1>3

\* The keys go up one after the other.
LEMMA KeysUp ==
  ASSUME NEW d, Sound(d), NEW e, e = adb_all_keys_up(d)
  PROVE  Sound(e) /\ SameLatch(d, e) /\ SameFlag(d, e) /\ Keeps(d, e)
<1> DEFINE below(n) == {k \in d.down : k < n}
           body(f, n) == IF below(n) = {} THEN d
                         ELSE adb_physical_key_update(f[Max(below(n))], Max(below(n)), TRUE)
           Loop(f, n) == f = [i \in 0..n |-> body(f, i)]
           released == CHOOSE f : Loop(f, 128)
<1>1. e = released[128]
  BY DEF adb_all_keys_up
<1>2. ASSUME NEW n \in Nat, below(n) # {}
      PROVE  Max(below(n)) \in 0..n - 1 /\ Max(below(n)) \in Key
  <2>1. d.down \subseteq Key /\ Key \subseteq Nat
    <3>1. d \in Controller
      BY DEF Sound
    <3> QED BY <3>1, Fields, Constants
  <2>2. below(n) \subseteq 0..n /\ below(n) \subseteq 0..n - 1 /\ below(n) \subseteq Key
    <3>1. ASSUME NEW k \in below(n) PROVE k \in 0..n /\ k \in 0..n - 1 /\ k \in Key
      <4>1. k \in Nat /\ k < n /\ k \in Key
        BY <2>1
      <4> HIDE DEF below
      <4> QED BY <4>1
    <3> QED BY <3>1
  <2> HIDE DEF below
  <2>3. PICK x \in below(n) : \A y \in below(n) : y <= x
    BY <1>2, <2>2, GreatestNumber
  <2>4. \A y \in below(n) : x >= y
    BY <2>2, <2>3
  <2>5. Max(below(n)) \in below(n)
    BY <2>4 DEF Max
  <2> QED BY <2>2, <2>5
<1> HIDE DEF below
<1> DEFINE S == {n \in Nat : \E f : Loop(f, n)}
<1>3. 0 \in S
  <2> DEFINE f == [i \in 0..0 |-> d]
  <2>1. below(0) = {}
    <3>1. 0 \in Nat /\ 0..0 - 1 = {}
      OBVIOUS
    <3> QED BY <1>2, <3>1
  <2>2. ASSUME NEW i \in 0..0 PROVE body(f, i) = d
    <3>1. i = 0
      OBVIOUS
    <3> QED BY <2>1, <3>1
  <2>3. Loop(f, 0)
    <3> HIDE DEF body
    <3> QED BY <2>2
  <2> HIDE DEF f, Loop
  <2>4. \E g : Loop(g, 0)
    BY <2>3
  <2> QED BY <2>4
<1>4. ASSUME NEW n \in Nat, n \in S PROVE n + 1 \in S
  <2>1. PICK f : Loop(f, n)
    BY <1>4
  <2> DEFINE h == [i \in 0..n + 1 |-> body(f, i)]
  <2>2. ASSUME NEW i \in 0..n + 1 PROVE h[i] = body(h, i)
    <3>1. CASE below(i) = {}
      BY <3>1
    <3>2. CASE below(i) # {}
      <4>1. i \in Nat /\ Max(below(i)) \in 0..n /\ Max(below(i)) \in 0..n + 1
        BY <1>2, <3>2
      <4>2. h[Max(below(i))] = f[Max(below(i))]
        BY <2>1, <4>1
      <4> QED BY <4>2
    <3> QED BY <3>1, <3>2
  <2>3. Loop(h, n + 1)
    BY <2>2
  <2> HIDE DEF h, Loop
  <2>4. \E g : Loop(g, n + 1)
    BY <2>3
  <2> QED BY <2>4
<1>5. Loop(released, 128)
  <2>1. 128 \in S
    <3>1. Nat \subseteq S
      <4> HIDE DEF S
      <4> QED BY <1>3, <1>4, SetInduction
    <3> HIDE DEF S
    <3> QED BY <3>1
  <2>2. \E f : Loop(f, 128)
    BY <2>1
  <2> HIDE DEF Loop
  <2> QED BY <2>2
<1> DEFINE Holds(x) == Sound(x) /\ SameLatch(d, x) /\ SameFlag(d, x) /\ Keeps(d, x)
           H == {n \in Nat : \A i \in 0..n : i <= 128 => Holds(released[i])}
<1> HIDE DEF released
<1>6. \A i \in 0..128 : released[i] = body(released, i)
  BY <1>5
<1>7. 0 \in H
  <2>1. below(0) = {}
    <3>1. 0 \in Nat /\ 0..0 - 1 = {}
      OBVIOUS
    <3> QED BY <1>2, <3>1
  <2>2. released[0] = d
    <3>1. released[0] = body(released, 0)
      <4> HIDE DEF body
      <4> QED BY <1>6
    <3> QED BY <2>1, <3>1
  <2>3. Holds(d)
    BY SoundHas, KeepsItself DEF SameLatch, SameFlag
  <2> QED BY <2>2, <2>3
<1>8. ASSUME NEW n \in Nat, n \in H PROVE n + 1 \in H
  <2>1. SUFFICES ASSUME n + 1 <= 128 PROVE Holds(released[n + 1])
    BY <1>8
  <2>2. released[n + 1] = body(released, n + 1)
    <3> HIDE DEF body
    <3> QED BY <1>6, <2>1
  <2>3. CASE below(n + 1) = {}
    BY <2>2, <2>3, SoundHas, KeepsItself DEF SameLatch, SameFlag
  <2>4. CASE below(n + 1) # {}
    <3> DEFINE k == Max(below(n + 1))
               t == released[k]
    <3>1. k \in 0..n /\ k \in Key
      BY <1>2, <2>4
    <3>2. Holds(t)
      BY <1>8, <2>1, <3>1
    <3>3. released[n + 1] = adb_physical_key_update(t, k, TRUE)
      BY <2>2, <2>4
    <3> HIDE DEF k, t
    <3>4. /\ Sound(released[n + 1]) /\ SameLatch(t, released[n + 1])
          /\ SameFlag(t, released[n + 1])
      BY <3>1, <3>2, <3>3, PhysicalKeys
    <3>5. Keeps(t, released[n + 1])
      BY <3>2, <3>3, SoundHas, PhysicalKeyKeeps
    <3> QED BY <3>2, <3>4, <3>5, KeepsTwice DEF SameLatch, SameFlag
  <2> QED BY <2>3, <2>4
<1>9. 128 \in H
  <2> HIDE DEF H
  <2> QED BY <1>7, <1>8, SetInduction
<1> QED BY <1>1, <1>9

-----------------------------------------------------------------------------
\* The program's accesses.
LEMMA ReadsC010 ==
  ASSUME NEW d, Sound(d), NEW e, e = adb_access_c010(d)
  PROVE  Sound(e) /\ LatchStep(d, e) /\ SameFlag(d, e)
<1> DEFINE n == d.chars_buffered
           slot == [d.kbd_buf[0] EXCEPT !.strobe = FALSE]
           read == [d.kbd_buf EXCEPT ![0] = slot]
           b == [i \in DOMAIN read |-> IF i + 1 < n THEN read[i + 1] ELSE read[i]]
           c == IF n > 0 THEN n - 1 ELSE 0
           zero == 0
<1>1. /\ d \in Controller /\ n \in 0..MAX_KBD_BUF - 1
      /\ d.kbd_buf \in [0..MAX_KBD_BUF - 1 -> Slot] /\ MAX_KBD_BUF \in Nat /\ MAX_KBD_BUF > 1
      /\ zero \in 0..PatientReads + 1
  BY Fields, Constants DEF Sound
<1>2. slot \in Slot
  <2>1. d.kbd_buf[0] \in Slot
    BY <1>1
  <2> QED BY <2>1 DEF Slot
<1>3. read \in [0..MAX_KBD_BUF - 1 -> Slot] /\ \A i \in 1..MAX_KBD_BUF - 1 : read[i] = d.kbd_buf[i]
  BY <1>1, <1>2
<1>4. e = [d EXCEPT !.read_no_update = zero, !.kbd_buf = b, !.chars_buffered = c]
  BY DEF adb_access_c010
<1> HIDE DEF read
<1>5. b \in [0..MAX_KBD_BUF - 1 -> Slot]
  <2>1. DOMAIN read = 0..MAX_KBD_BUF - 1
    BY <1>3
  <2>2. ASSUME NEW i \in 0..MAX_KBD_BUF - 1
        PROVE  (IF i + 1 < n THEN read[i + 1] ELSE read[i]) \in Slot
    <3>1. i + 1 < n => i + 1 \in 0..MAX_KBD_BUF - 1
      BY <1>1
    <3> QED BY <1>3, <3>1
  <2> QED BY <2>1, <2>2
<1>6. \A i \in 0..c - 1 : b[i] = d.kbd_buf[i + 1] /\ i + 1 \in 0..n - 1
  <2> SUFFICES ASSUME NEW i \in 0..c - 1 PROVE b[i] = d.kbd_buf[i + 1] /\ i + 1 \in 0..n - 1
    OBVIOUS
  <2>1. i + 1 \in 0..n - 1 /\ i + 1 \in 1..MAX_KBD_BUF - 1 /\ i \in 0..MAX_KBD_BUF - 1 /\ i + 1 < n
    <3>1. (n > 0 /\ c = n - 1) \/ (n = 0 /\ c = 0)
      BY <1>1
    <3> HIDE DEF b, c, n
    <3>2. i \in 0..n - 2 /\ n > 0
      BY <1>1, <3>1
    <3> QED BY <1>1, <3>2
  <2>2. i \in DOMAIN read
    BY <1>3, <2>1
  <2> QED BY <1>3, <2>1, <2>2
<1>7. c \in 0..MAX_KBD_BUF - 1
  BY <1>1
<1>8. (n > 0 /\ c = n - 1) \/ (n = 0 /\ c = 0)
  BY <1>1
<1> HIDE DEF b, c, zero, n
<1>9. [d EXCEPT !.read_no_update = zero, !.kbd_buf = b, !.chars_buffered = c] \in Controller
  BY <1>1, <1>5, <1>7 DEF Controller
<1>10. /\ e.kbd_buf = b /\ e.chars_buffered = c /\ e.hard_key_down = d.hard_key_down
       /\ e.key_down = d.key_down /\ e.a2code_down = d.a2code_down
       /\ e.down = d.down /\ SameFlag(d, e) /\ e.irq = d.irq /\ e.c027 = d.c027
       /\ e.kbd_reg0 = d.kbd_reg0 /\ e.state = d.state /\ e.data_pending = d.data_pending
       /\ e.interrupt_byte = d.interrupt_byte
  BY <1>1, <1>4 DEF Controller, SameFlag
<1>11. Asks(e) /\ DataFed(e) /\ Sends(e) /\ MouseFed(e)
  BY <1>10 DEF Sound, Asks, DataFed, Sends, MouseFed, SameFlag
<1>12. Offers(e)
  <2>1. \A j \in 0..n - 1 : d.kbd_buf[j].strobe /\ d.kbd_buf[j].key # NoKey
    BY DEF Sound, Offers, n
  <2>2. \A i \in 0..c - 1 : b[i].strobe /\ b[i].key # NoKey
    BY <1>6, <2>1
  <2> QED BY <1>10, <2>2 DEF Sound, Offers
<1>13. LatchStep(d, e)
  <2>1. Typed(d) = [i \in 1..n |-> d.kbd_buf[i - 1].key]
    BY DEF Typed, n
  <2>2. Typed(e) = [i \in 1..c |-> b[i - 1].key]
    BY <1>10 DEF Typed
  <2>3. CASE n > 0 /\ c = n - 1
    <3>1. Typed(d) \in Seq(Hard \cup {NoKey}) /\ Len(Typed(d)) = n
      <4>1. ASSUME NEW i \in 1..n PROVE d.kbd_buf[i - 1].key \in Hard \cup {NoKey}
        <5>1. i - 1 \in 0..MAX_KBD_BUF - 1
          BY <1>1
        <5>2. d.kbd_buf[i - 1] \in Slot
          BY <1>1, <5>1
        <5> QED BY <5>2 DEF Slot
      <4>2. n \in Nat
        BY <1>1
      <4> QED BY <2>1, <4>1, <4>2
    <3>2. Tail(Typed(d)) = [i \in 1..n - 1 |-> Typed(d)[i + 1]]
      <4>1. Typed(d) # <<>>
        BY <2>3, <3>1
      <4>2. n \in Nat /\ n > 0
        BY <1>1, <2>3
      <4> HIDE DEF Typed
      <4>3. /\ Tail(Typed(d)) \in Seq(Hard \cup {NoKey}) /\ Len(Tail(Typed(d))) = n - 1
            /\ \A i \in 1..n - 1 : Tail(Typed(d))[i] = Typed(d)[i + 1]
        BY <3>1, <4>1, HeadTailProperties
      <4>4. DOMAIN Tail(Typed(d)) = 1..n - 1
        BY <4>3, LenProperties
      <4>5. Tail(Typed(d)) = [i \in 1..n - 1 |-> Tail(Typed(d))[i]]
        BY <4>3, <4>4, LenProperties
      <4> QED BY <4>3, <4>5
    <3>3. \A i \in 1..n - 1 : Typed(d)[i + 1] = d.kbd_buf[i].key /\ b[i - 1] = d.kbd_buf[i]
      <4> SUFFICES ASSUME NEW i \in 1..n - 1
                   PROVE  Typed(d)[i + 1] = d.kbd_buf[i].key /\ b[i - 1] = d.kbd_buf[i]
        OBVIOUS
      <4>1. i + 1 \in 1..n /\ i - 1 \in 0..c - 1 /\ (i + 1) - 1 = i /\ (i - 1) + 1 = i
        BY <1>1, <2>3
      <4>2. b[i - 1] = d.kbd_buf[(i - 1) + 1]
        BY <1>6, <4>1
      <4> QED BY <2>1, <4>1, <4>2
    <3>4. Typed(e) = Tail(Typed(d))
      BY <2>2, <2>3, <3>2, <3>3
    <3> QED BY <2>3, <3>4 DEF LatchStep, n
  <2>4. CASE n = 0 /\ c = 0
    <3>1. Typed(e) = Typed(d)
      BY <2>1, <2>2, <2>4
    <3> QED BY <3>1 DEF LatchStep
  <2> QED BY <1>8, <2>3, <2>4
<1> QED BY <1>4, <1>9, <1>10, <1>11, <1>12, <1>13 DEF Sound

LEMMA ReadsC000 ==
  ASSUME NEW d, Sound(d), NEW e \in adb_read_c000(d)
  PROVE  Sound(e) /\ LatchStep(d, e) /\ SameFlag(d, e)
<1>1. d \in Controller
  BY DEF Sound
<1>2. CASE d.kbd_buf[0].strobe
  <2> DEFINE n == d.read_no_update
             m == IF n > PatientReads THEN n ELSE n + 1
             t == [d EXCEPT !.read_no_update = m]
  <2>1. e = IF n > PatientReads /\ d.chars_buffered > 1 THEN adb_access_c010(t) ELSE t
    BY <1>2 DEF adb_read_c000, ReadAgain
  <2>2. m \in 0..PatientReads + 1
    BY <1>1, Fields, Constants
  <2> HIDE DEF m
  <2>3. t \in Controller
    BY <1>1, <2>2 DEF Controller
  <2>4. Sound(t) /\ SameLatch(d, t) /\ SameFlag(d, t)
    BY <1>1, <2>3 DEF Sound, Asks, DataFed, Sends, MouseFed, Offers, SameLatch, SameFlag, Controller
  <2> HIDE DEF t, n
  <2>5. CASE e = t
    BY <2>4, <2>5, SameLatchStep
  <2>6. CASE e = adb_access_c010(t)
    <3>1. Sound(e) /\ LatchStep(t, e) /\ SameFlag(t, e)
      BY <2>4, <2>6, ReadsC010
    <3> QED BY <2>4, <3>1 DEF LatchStep, Typed, SameLatch, SameFlag
  <2> QED BY <2>1, <2>5, <2>6
<1>3. CASE ~d.kbd_buf[0].strobe /\ d.key_down
  <2>1. e = d \/ e = adb_key_event(d, d.a2code_down, FALSE)
    BY <1>3 DEF adb_read_c000
  <2>2. d.a2code_down \in d.down /\ d.a2code_down \in Key
    BY <1>1, <1>3, Fields DEF Sound, Offers
  <2>3. CASE e = d
    BY <2>3 DEF LatchStep, SameFlag
  <2>4. CASE e = adb_key_event(d, d.a2code_down, FALSE)
    BY <2>2, <2>4, KeyDown
  <2> QED BY <2>1, <2>3, <2>4
<1>4. CASE ~d.kbd_buf[0].strobe /\ ~d.key_down
  <2>1. e \in Paste(d)
    BY <1>4 DEF adb_read_c000
  <2>2. CASE e = d
    BY <2>2 DEF LatchStep, SameFlag
  <2>3. ASSUME NEW k \in Plain, e = [d EXCEPT !.kbd_buf[0] = [key |-> k, strobe |-> TRUE]]
        PROVE  Sound(e) /\ LatchStep(d, e) /\ SameFlag(d, e)
    <3> DEFINE s == [key |-> k, strobe |-> TRUE]
               b == [d.kbd_buf EXCEPT ![0] = s]
    <3>1. s \in Slot
      BY DEF Slot, Hard
    <3>2. b \in [0..MAX_KBD_BUF - 1 -> Slot]
      BY <1>1, <3>1, Fields
    <3>3. e = [d EXCEPT !.kbd_buf = b]
      BY <2>3
    <3>4. d.chars_buffered = 0
      <4>1. d.chars_buffered \in Nat /\ (d.chars_buffered > 0 => 0 \in 0..d.chars_buffered - 1)
        BY <1>1, Fields, Constants
      <4> QED BY <1>4, <4>1 DEF Sound, Offers
    <3> HIDE DEF b
    <3>5. [d EXCEPT !.kbd_buf = b] \in Controller
      BY <1>1, <3>2 DEF Controller
    <3>6. /\ e.kbd_buf = b /\ e.chars_buffered = 0 /\ e.hard_key_down = d.hard_key_down
          /\ e.key_down = d.key_down /\ e.a2code_down = d.a2code_down
          /\ e.down = d.down /\ SameFlag(d, e) /\ e.irq = d.irq /\ e.c027 = d.c027
          /\ e.kbd_reg0 = d.kbd_reg0 /\ e.state = d.state /\ e.data_pending = d.data_pending
          /\ e.interrupt_byte = d.interrupt_byte
      BY <1>1, <3>3, <3>4 DEF Controller, SameFlag
    <3>7. Asks(e) /\ DataFed(e) /\ Sends(e) /\ MouseFed(e)
      BY <3>6 DEF Sound, Asks, DataFed, Sends, MouseFed, SameFlag
    <3>8. Offers(e) /\ Typed(e) = Typed(d)
      <4>1. 0..e.chars_buffered - 1 = {} /\ 1..e.chars_buffered = {} /\ 1..d.chars_buffered = {}
        BY <3>4, <3>6
      <4> QED BY <3>6, <4>1 DEF Sound, Offers, Typed
    <3> QED BY <3>3, <3>5, <3>6, <3>7, <3>8 DEF Sound, LatchStep
  <2> QED BY <2>1, <2>2, <2>3 DEF Paste
<1> QED BY <1>2, <1>3, <1>4

LEMMA ReadsC026 ==
  ASSUME NEW d, Sound(d), NEW e, e = adb_read_c026(d)
  PROVE  Sound(e) /\ SameLatch(d, e) /\ SameFlag(d, e)
<1>1. d \in Controller
  BY DEF Sound
<1> DEFINE b == IF "kbd_srq" \in d.irq THEN {"srq"} ELSE {}
           i == d.irq \ {"data"}
           p == d.data_pending
           q == p - 1
           zero == 0
<1>2. /\ b \in SUBSET {"response", "desk", "srq"} /\ ("srq" \in b <=> "kbd_srq" \in d.irq)
      /\ i \in SUBSET {"kbd_srq", "data", "mouse"} /\ "data" \notin i
      /\ "kbd_srq" \in i <=> "kbd_srq" \in d.irq
      /\ "mouse" \in i <=> "mouse" \in d.irq
      /\ p \in 0..4 /\ zero \in 0..4 /\ zero = 0
  BY <1>1, Fields
<1>3. p > 1 => q \in 0..4 /\ q > 0
  BY <1>2
<1>4. \/ e = d
      \/ e = [d EXCEPT !.interrupt_byte = b, !.irq = i]
      \/ p > 0 /\ e = [d EXCEPT !.interrupt_byte = b, !.state = "SENDING_DATA"]
      \/ p > 1 /\ e = [d EXCEPT !.data_pending = q]
      \/ e = [d EXCEPT !.data_pending = zero, !.state = "IDLE", !.irq = i]
  <2>1. CASE d.state = "IDLE"
    <3>1. e = IF p = 0 THEN [d EXCEPT !.interrupt_byte = b, !.irq = i]
              ELSE [d EXCEPT !.interrupt_byte = b, !.state = "SENDING_DATA"]
      BY <1>1, <2>1 DEF adb_read_c026, adb_clear_data_int, remove_irq, Controller
    <3> HIDE DEF b, i, p, q, zero
    <3> QED BY <1>2, <3>1
  <2>2. CASE d.state = "SENDING_DATA"
    <3>1. e = IF p > 1 THEN [d EXCEPT !.data_pending = q]
              ELSE [d EXCEPT !.data_pending = zero, !.state = "IDLE", !.irq = i]
      BY <1>1, <2>2 DEF adb_read_c026, adb_clear_data_int, remove_irq, Controller
    <3> HIDE DEF b, i, p, q, zero
    <3> QED BY <3>1
  <2>3. CASE d.state \notin {"IDLE", "SENDING_DATA"}
    BY <2>3 DEF adb_read_c026
  <2> QED BY <2>1, <2>2, <2>3
<1> HIDE DEF b, i, q, zero
<1>5. e \in Controller
  <2>1. [d EXCEPT !.interrupt_byte = b, !.irq = i] \in Controller
    BY <1>1, <1>2 DEF Controller
  <2>2. [d EXCEPT !.interrupt_byte = b, !.state = "SENDING_DATA"] \in Controller
    BY <1>1, <1>2 DEF Controller
  <2>3. q \in 0..4 => [d EXCEPT !.data_pending = q] \in Controller
    BY <1>1 DEF Controller
  <2>4. [d EXCEPT !.data_pending = zero, !.state = "IDLE", !.irq = i] \in Controller
    BY <1>1, <1>2 DEF Controller
  <2> QED BY <1>1, <1>3, <1>4, <2>1, <2>2, <2>3, <2>4
<1>6. /\ SameLatch(d, e) /\ SameFlag(d, e) /\ Offers(e)
      /\ e.kbd_reg0 = d.kbd_reg0 /\ e.c027 = d.c027
  <2>1. /\ e.kbd_buf = d.kbd_buf /\ e.chars_buffered = d.chars_buffered
        /\ e.mouse_valid_data = d.mouse_valid_data /\ e.key_down = d.key_down
        /\ e.hard_key_down = d.hard_key_down /\ e.a2code_down = d.a2code_down
        /\ e.down = d.down /\ e.kbd_reg0 = d.kbd_reg0 /\ e.c027 = d.c027
    BY <1>1, <1>4 DEF Controller
  <2> QED BY <2>1 DEF Sound, Offers, SameLatch, SameFlag
<1>7. /\ e.irq = d.irq \/ e.irq = i
      /\ e.interrupt_byte = d.interrupt_byte \/ e.interrupt_byte = b
  BY <1>1, <1>4 DEF Controller
<1>8. Asks(e) /\ MouseFed(e)
  BY <1>2, <1>6, <1>7 DEF Sound, Asks, MouseFed, SameFlag
<1>9. DataFed(e) /\ Sends(e)
  <2>1. CASE e = d
    BY <2>1 DEF Sound
  <2>2. CASE e = [d EXCEPT !.interrupt_byte = b, !.irq = i]
    <3>1. e.irq = i /\ e.state = d.state /\ e.data_pending = p
      BY <1>1, <2>2 DEF Controller
    <3> QED BY <1>2, <3>1 DEF Sound, DataFed, Sends
  <2>3. CASE p > 0 /\ e = [d EXCEPT !.interrupt_byte = b, !.state = "SENDING_DATA"]
    <3>1. e.irq = d.irq /\ e.data_pending = p
      BY <1>1, <2>3 DEF Controller
    <3> QED BY <1>6, <2>3, <3>1 DEF Sound, DataFed, Sends
  <2>4. CASE p > 1 /\ e = [d EXCEPT !.data_pending = q]
    <3>1. e.irq = d.irq /\ e.data_pending = q /\ q > 0
      BY <1>1, <1>3, <2>4 DEF Controller
    <3> QED BY <1>6, <3>1 DEF Sound, DataFed, Sends
  <2>5. CASE e = [d EXCEPT !.data_pending = zero, !.state = "IDLE", !.irq = i]
    <3>1. e.irq = i /\ e.state = "IDLE"
      BY <1>1, <2>5 DEF Controller
    <3> QED BY <1>2, <3>1 DEF DataFed, Sends
  <2> QED BY <1>4, <2>1, <2>2, <2>3, <2>4, <2>5
<1> QED BY <1>5, <1>6, <1>8, <1>9 DEF Sound

LEMMA WritesC027 ==
  ASSUME NEW d, Sound(d), NEW on \in SUBSET {"mouse", "data"}, NEW e, e = adb_write_c027(d, on)
  PROVE  Sound(e) /\ SameLatch(d, e) /\ SameFlag(d, e)
<1>1. d \in Controller
  BY DEF Sound
<1> DEFINE i == IF "mouse" \in d.c027 \ on THEN d.irq \ {"mouse"} ELSE d.irq
           j == IF "data" \in d.c027 \ on THEN i \ {"data"} ELSE i
           t == [d EXCEPT !.c027 = on]
           m == IF "mouse" \in d.c027 \ on THEN adb_clear_mouse_int(t) ELSE t
<1>2. t \in Controller /\ t.irq = d.irq
  BY <1>1 DEF Controller
<1>3. m = [t EXCEPT !.irq = i]
  BY <1>2 DEF adb_clear_mouse_int, remove_irq, Controller
<1>4. e = [d EXCEPT !.c027 = on, !.irq = j]
  <2>1. e = IF "data" \in d.c027 \ on THEN adb_clear_data_int(m) ELSE m
    BY DEF adb_write_c027
  <2>2. e = [m EXCEPT !.irq = j]
    <3>1. m \in Controller /\ m.irq = i
      <4>1. i \in SUBSET {"kbd_srq", "data", "mouse"}
        BY <1>1, Fields
      <4> HIDE DEF i, m, t
      <4>2. [t EXCEPT !.irq = i] \in Controller /\ [t EXCEPT !.irq = i].irq = i
        BY <1>2, <4>1 DEF Controller
      <4> QED BY <1>3, <4>2
    <3> HIDE DEF m, i
    <3>2. CASE "data" \in d.c027 \ on
      BY <2>1, <3>1, <3>2 DEF adb_clear_data_int, remove_irq
    <3>3. CASE "data" \notin d.c027 \ on
      <4>1. e = m /\ j = m.irq
        BY <2>1, <3>1, <3>3
      <4>2. m = [m EXCEPT !.irq = m.irq]
        BY <3>1 DEF Controller
      <4> QED BY <4>1, <4>2
    <3> QED BY <3>2, <3>3
  <2> HIDE DEF m, i, j
  <2> QED BY <1>1, <1>3, <2>2 DEF Controller
<1>5. /\ j \in SUBSET {"kbd_srq", "data", "mouse"}
      /\ "kbd_srq" \in j <=> "kbd_srq" \in d.irq
      /\ "data" \in j => "data" \in d.irq /\ "data" \notin d.c027 \ on
      /\ "mouse" \in j => "mouse" \in d.irq /\ "mouse" \notin d.c027 \ on
  BY <1>1, Fields
<1> HIDE DEF i, j, t, m
<1>6. [d EXCEPT !.c027 = on, !.irq = j] \in Controller
  BY <1>1, <1>5 DEF Controller
<1>7. /\ e.irq = j /\ e.c027 = on /\ e.kbd_reg0 = d.kbd_reg0 /\ e.state = d.state
      /\ e.data_pending = d.data_pending /\ e.interrupt_byte = d.interrupt_byte
      /\ SameLatch(d, e) /\ SameFlag(d, e) /\ Offers(e)
  BY <1>1, <1>4 DEF Sound, Offers, SameLatch, SameFlag, Controller
<1> QED BY <1>4, <1>5, <1>6, <1>7 DEF Sound, Asks, DataFed, Sends, MouseFed, SameFlag

LEMMA Commands ==
  /\ NoCommand \in AdbCommand
  /\ \A c \in AdbCommand : ArgBytes(c) \in 0..8 /\ ReplyBytes(c) \in 0..4
<1>1. NoCommand \in AdbCommand
  BY DEF NoCommand, AdbCommand
<1>2. ASSUME NEW c \in AdbCommand PROVE ArgBytes(c) \in 0..8 /\ ReplyBytes(c) \in 0..4
  <2>1. ArgBytes(c) \in {0, 1, 2, 3, 4, 8}
    BY DEF ArgBytes
  <2>2. ReplyBytes(c) \in {0, 1, 2, 4}
    BY DEF ReplyBytes
  <2> QED BY <2>1, <2>2
<1> QED BY <1>1, <1>2

\* The alternatives of Start exclude each other.
LEMMA Alternatives ==
  ASSUME NEW c \in AdbCommand
  PROVE  /\ ArgBytes(c) > 0 => ~(ReplyBytes(c) > 0) /\ c.op \notin {"reset", "talk0", "talk3"}
         /\ ReplyBytes(c) > 0 => c.op \notin {"reset", "talk0", "talk3"}
<1>1. ArgBytes(c) > 0 =>
        c.op \in {"set_modes", "clear_modes", "send_keycodes", "set_config", "sync",
                  "write_mem", "read_mem", "listen", "cmd12"}
  BY DEF ArgBytes
<1>2. c.op \notin {"read_modes", "get_version", "read_char_sets", "read_layouts", "read_configs"}
        => ReplyBytes(c) = 0
  BY DEF ReplyBytes
<1> QED BY <1>1, <1>2

LEMMA Starts ==
  ASSUME NEW d, Sound(d), d.state = "IDLE", NEW c \in AdbCommand, NEW e, e = Start(d, c)
  PROVE  Sound(e) /\ SameLatch(d, e) /\ (SameFlag(d, e) \/ e = do_reset(d))
<1>1. d \in Controller
  BY DEF Sound
<1>2. CASE ArgBytes(c) > 0
  <2>1. e = [d EXCEPT !.state = "IN_CMD", !.cmd = c]
    BY <1>2, Alternatives DEF Start
  <2>2. [d EXCEPT !.state = "IN_CMD", !.cmd = c] \in Controller
    BY <1>1 DEF Controller
  <2>3. /\ e.state = "IN_CMD" /\ e.irq = d.irq /\ e.c027 = d.c027 /\ e.kbd_reg0 = d.kbd_reg0
        /\ e.data_pending = d.data_pending /\ e.interrupt_byte = d.interrupt_byte
        /\ Offers(e) /\ SameLatch(d, e) /\ SameFlag(d, e)
    BY <1>1, <2>1 DEF Sound, Offers, SameLatch, SameFlag, Controller
  <2> QED BY <2>1, <2>2, <2>3 DEF Sound, Asks, DataFed, Sends, MouseFed, SameFlag
<1>3. CASE ~(ArgBytes(c) > 0) /\ ReplyBytes(c) > 0
  <2>1. e = adb_send_bytes(d, ReplyBytes(c)) /\ ReplyBytes(c) \in 1..4
    BY <1>3, Commands, Alternatives DEF Start
  <2> QED BY <2>1, SendBytes
<1>4. CASE ~(ArgBytes(c) > 0) /\ ~(ReplyBytes(c) > 0)
  <2>1. \/ e = do_reset(d)
        \/ e = adb_kbd_talk_reg0(d)
        \/ e = adb_response_packet(d, 2)
        \/ e = d
    BY <1>4 DEF Start
  <2>2. CASE e = do_reset(d)
    BY <2>2, MachineReset
  <2>3. CASE e = adb_kbd_talk_reg0(d)
    BY <2>3, Talk
  <2>4. CASE e = adb_response_packet(d, 2)
    <3>1. 2 \in 0..4
      OBVIOUS
    <3> QED BY <2>4, <3>1, Response DEF Sound, Asks
  <2>5. CASE e = d
    BY <2>5 DEF SameLatch, SameFlag
  <2> QED BY <2>1, <2>2, <2>3, <2>4, <2>5
<1> QED BY <1>2, <1>3, <1>4

LEMMA SetsConfig ==
  ASSUME NEW d, Sound(d), d.state = "IDLE", NEW e \in adb_set_config(d)
  PROVE  Sound(e) /\ SameLatch(d, e) /\ SameFlag(d, e)
<1>1. d \in Controller
  BY DEF Sound
<1>2. PICK m \in Address, k \in Address, r \in BOOLEAN :
        e = [d EXCEPT !.mouse_ctl = m, !.kbd_ctl = k, !.repeats = r]
  <2> DEFINE T == [mouse : Address, kbd : Address, repeats : BOOLEAN]
  <2>1. PICK to \in T :
          e = [d EXCEPT !.mouse_ctl = to.mouse, !.kbd_ctl = to.kbd, !.repeats = to.repeats]
    BY DEF adb_set_config
  <2> QED BY <2>1
<1>3. [d EXCEPT !.mouse_ctl = m, !.kbd_ctl = k, !.repeats = r] \in Controller
  BY <1>1 DEF Controller
<1>4. /\ e.state = d.state /\ e.irq = d.irq /\ e.c027 = d.c027 /\ e.kbd_reg0 = d.kbd_reg0
      /\ e.data_pending = d.data_pending /\ e.interrupt_byte = d.interrupt_byte
      /\ Offers(e) /\ SameLatch(d, e) /\ SameFlag(d, e)
  BY <1>1, <1>2 DEF Sound, Offers, SameLatch, SameFlag, Controller
<1> QED BY <1>2, <1>3, <1>4 DEF Sound, Asks, DataFed, Sends, MouseFed, SameFlag

LEMMA SetsModes ==
  ASSUME NEW d, Sound(d), NEW m \in SUBSET Mode, NEW e, e = [d EXCEPT !.mode = m]
  PROVE  Sound(e) /\ SameLatch(d, e) /\ SameFlag(d, e) /\ e.state = d.state
<1>1. d \in Controller
  BY DEF Sound
<1>2. [d EXCEPT !.mode = m] \in Controller
  BY <1>1 DEF Controller
<1>3. /\ e.state = d.state /\ e.irq = d.irq /\ e.c027 = d.c027 /\ e.kbd_reg0 = d.kbd_reg0
      /\ e.data_pending = d.data_pending /\ e.interrupt_byte = d.interrupt_byte
      /\ Offers(e) /\ SameLatch(d, e) /\ SameFlag(d, e)
  BY <1>1 DEF Sound, Offers, SameLatch, SameFlag, Controller
<1> QED BY <1>2, <1>3 DEF Sound, Asks, DataFed, Sends, MouseFed, SameFlag

LEMMA Performed ==
  ASSUME NEW d, NEW c, NEW e \in Perform(d, c)
  PROVE  \/ \E bits \in SUBSET Mode : e = [d EXCEPT !.mode = d.mode \cup bits]
         \/ \E bits \in SUBSET Mode : e = [d EXCEPT !.mode = d.mode \ bits]
         \/ e \in adb_set_config(d)
         \/ \E bits \in SUBSET Mode : e \in adb_set_config([d EXCEPT !.mode = bits])
         \/ e = adb_send_bytes(d, 1)
         \/ \E k \in Key, up \in BOOLEAN : e = adb_virtual_key_update(d, k, up)
         \/ \E a \in Address : e = [d EXCEPT !.kbd_dev = a]
         \/ e = d
<1>1. CASE c.op = "set_modes"
  <2>1. e \in {[d EXCEPT !.mode = d.mode \cup bits] : bits \in SUBSET Mode}
    BY <1>1 DEF Perform
  <2> QED BY <2>1
<1>2. CASE c.op = "clear_modes"
  <2>1. e \in {[d EXCEPT !.mode = d.mode \ bits] : bits \in SUBSET Mode}
    BY <1>2 DEF Perform
  <2> QED BY <2>1
<1>3. CASE c.op = "set_config"
  BY <1>3 DEF Perform
<1>4. CASE c.op = "sync"
  <2> DEFINE G(bits) == adb_set_config([d EXCEPT !.mode = bits])
  <2>1. e \in UNION {G(bits) : bits \in SUBSET Mode}
    BY <1>4 DEF Perform
  <2> HIDE DEF G
  <2>2. \E bits \in SUBSET Mode : e \in G(bits)
    BY <2>1
  <2> QED BY <2>2 DEF G
<1>5. CASE c.op = "read_mem"
  BY <1>5 DEF Perform
<1>6. CASE c.op = "send_keycodes"
  <2>1. e \in {adb_virtual_key_update(d, k, up) : k \in Key, up \in BOOLEAN}
    BY <1>6 DEF Perform
  <2> QED BY <2>1
<1>7. CASE c.op = "listen"
  <2>1. e = d \/ e \in {[d EXCEPT !.kbd_dev = a] : a \in Address}
    BY <1>7 DEF Perform
  <2> QED BY <2>1
<1>8. CASE c.op \notin {"set_modes", "clear_modes", "set_config", "sync", "read_mem",
                        "send_keycodes", "listen"}
  BY <1>8 DEF Perform
<1> QED BY <1>1, <1>2, <1>3, <1>4, <1>5, <1>6, <1>7, <1>8

LEMMA Performs ==
  ASSUME NEW c, Sound(c), NEW e \in do_adb_cmd(c)
  PROVE  Sound(e) /\ LatchStep(c, e) /\ SameFlag(c, e)
<1> DEFINE zero == 0
           idle == NoCommand
           d == [c EXCEPT !.state = "IDLE", !.cmd = idle, !.cmd_so_far = zero]
<1>1. c \in Controller /\ zero \in 0..8 /\ idle \in AdbCommand
  BY Commands DEF Sound
<1>2. /\ \/ \E bits \in SUBSET Mode : e = [d EXCEPT !.mode = d.mode \cup bits]
         \/ \E bits \in SUBSET Mode : e = [d EXCEPT !.mode = d.mode \ bits]
         \/ e \in adb_set_config(d)
         \/ \E bits \in SUBSET Mode : e \in adb_set_config([d EXCEPT !.mode = bits])
         \/ e = adb_send_bytes(d, 1)
         \/ \E k \in Key, up \in BOOLEAN : e = adb_virtual_key_update(d, k, up)
         \/ \E a \in Address : e = [d EXCEPT !.kbd_dev = a]
         \/ e = d
  <2>1. e \in Perform(d, c.cmd)
    BY DEF do_adb_cmd
  <2> HIDE DEF d
  <2> QED BY <2>1, Performed
<1>3. /\ Sound(d) /\ d.state = "IDLE" /\ SameLatch(c, d) /\ SameFlag(c, d) /\ d.mode \subseteq Mode
  <2> HIDE DEF zero, idle
  <2>1. d \in Controller
    BY <1>1 DEF Controller
  <2>2. /\ d.state = "IDLE" /\ d.irq = c.irq /\ d.c027 = c.c027 /\ d.kbd_reg0 = c.kbd_reg0
        /\ d.data_pending = c.data_pending /\ d.interrupt_byte = c.interrupt_byte
        /\ Offers(d) /\ SameLatch(c, d) /\ SameFlag(c, d)
    BY <1>1 DEF Sound, Offers, SameLatch, SameFlag, Controller
  <2>3. d.mode \in SUBSET Mode
    BY <2>1, Fields
  <2> HIDE DEF d
  <2> QED BY <2>1, <2>2, <2>3 DEF Sound, Asks, DataFed, Sends, MouseFed, SameFlag
<1> HIDE DEF d
<1>4. Sound(e) /\ LatchStep(d, e) /\ SameFlag(d, e)
  <2>1. ASSUME NEW bits \in SUBSET Mode,
               e = [d EXCEPT !.mode = d.mode \cup bits] \/ e = [d EXCEPT !.mode = d.mode \ bits]
        PROVE  Sound(e) /\ SameLatch(d, e) /\ SameFlag(d, e)
    <3>1. d.mode \cup bits \in SUBSET Mode /\ d.mode \ bits \in SUBSET Mode
      BY <1>3
    <3> QED BY <1>3, <2>1, <3>1, SetsModes
  <2>2. e \in adb_set_config(d) => Sound(e) /\ SameLatch(d, e) /\ SameFlag(d, e)
    BY <1>3, SetsConfig
  <2>3. ASSUME NEW bits \in SUBSET Mode, e \in adb_set_config([d EXCEPT !.mode = bits])
        PROVE  Sound(e) /\ SameLatch(d, e) /\ SameFlag(d, e)
    <3> DEFINE t == [d EXCEPT !.mode = bits]
    <3>1. Sound(t) /\ SameLatch(d, t) /\ SameFlag(d, t) /\ t.state = d.state
      BY <1>3, SetsModes
    <3>2. e \in adb_set_config(t)
      BY <2>3
    <3> HIDE DEF t
    <3>3. Sound(e) /\ SameLatch(t, e) /\ SameFlag(t, e)
      BY <1>3, <3>1, <3>2, SetsConfig
    <3> QED BY <3>1, <3>3 DEF SameLatch, SameFlag
  <2>4. e = adb_send_bytes(d, 1) => Sound(e) /\ SameLatch(d, e) /\ SameFlag(d, e)
    <3>1. 1 \in 1..4
      OBVIOUS
    <3> QED BY <1>3, <3>1, SendBytes
  <2>5. ASSUME NEW k \in Key, NEW up \in BOOLEAN, e = adb_virtual_key_update(d, k, up)
        PROVE  Sound(e) /\ LatchStep(d, e) /\ SameFlag(d, e)
    BY <1>3, <2>5, VirtualKey
  <2>6. ASSUME NEW a \in Address, e = [d EXCEPT !.kbd_dev = a]
        PROVE  Sound(e) /\ SameLatch(d, e) /\ SameFlag(d, e)
    <3>1. d \in Controller
      BY <1>3 DEF Sound
    <3>2. [d EXCEPT !.kbd_dev = a] \in Controller
      BY <3>1 DEF Controller
    <3>3. /\ e.state = d.state /\ e.irq = d.irq /\ e.c027 = d.c027 /\ e.kbd_reg0 = d.kbd_reg0
          /\ e.data_pending = d.data_pending /\ e.interrupt_byte = d.interrupt_byte
          /\ Offers(e) /\ SameLatch(d, e) /\ SameFlag(d, e)
      BY <1>3, <2>6, <3>1 DEF Sound, Offers, SameLatch, SameFlag, Controller
    <3> QED BY <1>3, <2>6, <3>2, <3>3 DEF Sound, Asks, DataFed, Sends, MouseFed, SameFlag
  <2>7. e = d => Sound(e) /\ SameLatch(d, e) /\ SameFlag(d, e)
    BY <1>3 DEF SameLatch, SameFlag
  <2> QED BY <1>2, <2>1, <2>2, <2>3, <2>4, <2>5, <2>6, <2>7, SameLatchStep
<1> QED BY <1>3, <1>4 DEF LatchStep, Typed, SameLatch, SameFlag

-----------------------------------------------------------------------------
\* A step of the controller or of the keyboard.
LEMMA AdbSteps ==
  ASSUME Sound(adb), AdbNext
  PROVE  /\ Sound(adb') /\ LatchStep(adb, adb')
         /\ SameFlag(adb, adb') \/ adb' = do_reset(adb)
<1>1. adb \in Controller
  BY DEF Sound
<1>2. ASSUME NEW c \in AdbCommand, StartCommand(c)
      PROVE  /\ Sound(adb') /\ SameLatch(adb, adb')
             /\ SameFlag(adb, adb') \/ adb' = do_reset(adb)
  BY <1>2, Starts DEF StartCommand
<1>3. CASE ArgumentByte
  <2> DEFINE n == adb.cmd_so_far + 1
             t == [adb EXCEPT !.cmd_so_far = n]
  <2>1. CASE adb.cmd_so_far + 1 < ArgBytes(adb.cmd)
    <3>1. adb' = t
      BY <1>3, <2>1 DEF ArgumentByte
    <3>2. n \in 0..8
      <4>1. adb.cmd_so_far \in 0..8 /\ adb.cmd \in AdbCommand
        BY <1>1, Fields
      <4>2. ArgBytes(adb.cmd) \in 0..8
        BY <4>1, Commands
      <4> QED BY <2>1, <4>1, <4>2
    <3> HIDE DEF n
    <3>3. t \in Controller
      BY <1>1, <3>2 DEF Controller
    <3>4. Sound(t) /\ SameLatch(adb, t) /\ SameFlag(adb, t)
      BY <1>1, <3>3 DEF Sound, Asks, DataFed, Sends, MouseFed, Offers, SameLatch, SameFlag, Controller
    <3> QED BY <3>1, <3>4, SameLatchStep
  <2>2. CASE ~(adb.cmd_so_far + 1 < ArgBytes(adb.cmd))
    BY <1>3, <2>2, Performs DEF ArgumentByte
  <2> QED BY <2>1, <2>2
<1>4. CASE WriteOverAnswer
  <2> DEFINE t == [adb EXCEPT !.state = "IDLE"]
  <2>1. adb' = t
    BY <1>4 DEF WriteOverAnswer
  <2>2. t \in Controller
    BY <1>1 DEF Controller
  <2>3. Sound(t) /\ SameLatch(adb, t) /\ SameFlag(adb, t)
    BY <1>1, <2>2 DEF Sound, Asks, DataFed, Sends, MouseFed, Offers, SameLatch, SameFlag, Controller
  <2> QED BY <2>1, <2>3, SameLatchStep
<1>5. CASE RepeatOff
  <2> DEFINE t == [adb EXCEPT !.key_down = FALSE]
  <2>1. adb' = t
    BY <1>5 DEF RepeatOff
  <2>2. t \in Controller
    BY <1>1 DEF Controller
  <2>3. Sound(t) /\ SameLatch(adb, t) /\ SameFlag(adb, t)
    BY <1>1, <2>2 DEF Sound, Asks, DataFed, Sends, MouseFed, Offers, SameLatch, SameFlag, Controller
  <2> QED BY <2>1, <2>3, SameLatchStep
<1>6. CASE ReadC026
  BY <1>6, ReadsC026, SameLatchStep DEF ReadC026
<1>7. ASSUME NEW on \in SUBSET {"mouse", "data"}, WriteC027(on)
      PROVE  Sound(adb') /\ SameLatch(adb, adb') /\ SameFlag(adb, adb')
  BY <1>7, WritesC027 DEF WriteC027
<1>8. CASE DoReset
  BY <1>8, MachineReset, SameLatchStep DEF DoReset
<1>9. ASSUME NEW k \in Key, NEW up \in BOOLEAN, PhysicalKey(k, up)
      PROVE  /\ Sound(adb') /\ LatchStep(adb, adb')
             /\ SameFlag(adb, adb') \/ adb' = do_reset(adb)
  BY <1>9, PhysicalKeys DEF PhysicalKey
<1>10. CASE AllKeysUp
  BY <1>10, KeysUp, SameLatchStep DEF AllKeysUp
<1>11. CASE ReadC000
  BY <1>11, ReadsC000 DEF ReadC000
<1>12. CASE AccessC010
  BY <1>12, ReadsC010 DEF AccessC010
<1> QED BY <1>2, <1>3, <1>4, <1>5, <1>6, <1>7, <1>8, <1>9, <1>10, <1>11, <1>12, SameLatchStep
        DEF AdbNext, ControllerStep, KeyboardStep

-----------------------------------------------------------------------------
\* The mouse.
MouseSound(m) == m \in MouseState /\ Len(m.fifo) < ADB_MOUSE_FIFO

LEMMA MouseFields ==
  ASSUME NEW m \in MouseState
  PROVE  /\ m.fifo \in Seq(Entry) /\ m.fifo # <<>> /\ Len(m.fifo) \in Nat \ {0}
         /\ \A i \in 1..Len(m.fifo) : m.fifo[i] \in Entry
         /\ \A i \in 1..Len(m.fifo) : /\ m.fifo[i].x \in Int /\ m.fifo[i].y \in Int
                                      /\ m.fifo[i].x \in X /\ m.fifo[i].y \in Y
                                      /\ m.fifo[i].button \in BOOLEAN
         /\ m.a2_x \in Int /\ m.a2_y \in Int /\ m.a2_button \in BOOLEAN
<1>1. m.fifo \in Seq(Entry) /\ m.fifo # <<>> /\ m.a2_x \in Int /\ m.a2_y \in Int
      /\ m.a2_button \in BOOLEAN
  BY DEF MouseState
<1>2. Len(m.fifo) \in Nat \ {0}
  BY <1>1, EmptySeq
<1>3. \A i \in 1..Len(m.fifo) : m.fifo[i] \in Entry
  BY <1>1, ElementOfSeq
<1>4. X \subseteq Int /\ Y \subseteq Int
  BY MouseAssumption DEF MouseAssumption
<1> QED BY <1>1, <1>2, <1>3, <1>4 DEF Entry

LEMMA MouseInt ==
  ASSUME NEW d, Sound(d), d.mouse_valid_data, NEW e, e = adb_add_mouse_int(d)
  PROVE  Sound(e) /\ SameLatch(d, e) /\ SameFlag(d, e)
<1>1. d \in Controller
  BY DEF Sound
<1> DEFINE i == add_irq(d.irq, {"mouse"})
<1>2. CASE "mouse" \in d.c027
  <2>1. e = [d EXCEPT !.irq = i]
    BY <1>2 DEF adb_add_mouse_int
  <2>2. /\ i \in SUBSET {"kbd_srq", "data", "mouse"}
        /\ "kbd_srq" \in i <=> "kbd_srq" \in d.irq
        /\ "data" \in i <=> "data" \in d.irq
    BY <1>1, Fields DEF add_irq
  <2> HIDE DEF i
  <2>3. [d EXCEPT !.irq = i] \in Controller
    BY <1>1, <2>2 DEF Controller
  <2>4. /\ e.irq = i /\ e.state = d.state /\ e.c027 = d.c027 /\ e.kbd_reg0 = d.kbd_reg0
        /\ e.data_pending = d.data_pending /\ e.interrupt_byte = d.interrupt_byte
        /\ Offers(e) /\ SameLatch(d, e) /\ SameFlag(d, e)
    BY <1>1, <2>1 DEF Sound, Offers, SameLatch, SameFlag, Controller
  <2> QED BY <1>2, <2>1, <2>2, <2>3, <2>4 DEF Sound, Asks, DataFed, Sends, MouseFed, SameFlag
<1>3. CASE "mouse" \notin d.c027
  BY <1>3 DEF adb_add_mouse_int, SameLatch, SameFlag
<1> QED BY <1>2, <1>3

LEMMA MouseDone ==
  ASSUME NEW d, Sound(d),
         NEW e, e = adb_clear_mouse_int([d EXCEPT !.mouse_valid_data = FALSE])
  PROVE  Sound(e) /\ SameLatch(d, e) /\ ~e.mouse_valid_data
<1> DEFINE i == d.irq \ {"mouse"}
<1>1. d \in Controller
  BY DEF Sound
<1>2. e = [d EXCEPT !.mouse_valid_data = FALSE, !.irq = i]
  BY <1>1 DEF adb_clear_mouse_int, remove_irq, Controller
<1>3. /\ i \in SUBSET {"kbd_srq", "data", "mouse"} /\ "mouse" \notin i
      /\ "kbd_srq" \in i <=> "kbd_srq" \in d.irq
      /\ "data" \in i <=> "data" \in d.irq
  BY <1>1, Fields
<1> HIDE DEF i
<1>4. [d EXCEPT !.mouse_valid_data = FALSE, !.irq = i] \in Controller
  BY <1>1, <1>3 DEF Controller
<1>5. /\ e.irq = i /\ e.state = d.state /\ e.c027 = d.c027 /\ e.kbd_reg0 = d.kbd_reg0
      /\ e.data_pending = d.data_pending /\ e.interrupt_byte = d.interrupt_byte
      /\ Offers(e) /\ SameLatch(d, e) /\ ~e.mouse_valid_data
  BY <1>1, <1>2 DEF Sound, Offers, SameLatch, Controller
<1> QED BY <1>2, <1>3, <1>4, <1>5 DEF Sound, Asks, DataFed, Sends, MouseFed

LEMMA Compress ==
  ASSUME NEW m, MouseSound(m), NEW c \in mouse_compress_fifo(m)
  PROVE  /\ MouseSound(c) /\ (CaughtUp(m) => c = m)
         /\ c.a2_x = m.a2_x /\ c.a2_y = m.a2_y
<1>1. m \in MouseState /\ m.fifo \in Seq(Entry) /\ Len(m.fifo) \in Nat \ {0}
  BY MouseFields DEF MouseSound
<1>2. PICK n \in 1..Len(m.fifo) : c = [m EXCEPT !.fifo = SubSeq(m.fifo, 1, n)]
  <2>1. PICK n \in IF Ages THEN 1..Len(m.fifo) ELSE {Len(m.fifo)} :
          c = [m EXCEPT !.fifo = SubSeq(m.fifo, 1, n)]
    BY DEF mouse_compress_fifo
  <2>2. n \in 1..Len(m.fifo)
    BY <1>1, <2>1
  <2> QED BY <2>1, <2>2
<1> DEFINE f == SubSeq(m.fifo, 1, n)
<1>3. f \in Seq(Entry) /\ Len(f) = n
  <2>1. \A i \in 1..n : m.fifo[i] \in Entry
    BY <1>1, <1>2, ElementOfSeq
  <2>2. 1 \in Int /\ n \in Int /\ 1 <= n /\ n - 1 + 1 = n
    BY <1>1, <1>2
  <2> QED BY <2>1, <2>2, SubSeqProperties
<1>4. f # <<>>
  BY <1>2, <1>3
<1>5. CaughtUp(m) => f = m.fifo
  <2>1. SUFFICES ASSUME CaughtUp(m) PROVE f = m.fifo
    OBVIOUS
  <2>2. Len(m.fifo) - 1 = 0
    BY <2>1 DEF CaughtUp, Pos
  <2>3. n = Len(m.fifo)
    BY <1>1, <1>2, <2>2
  <2> QED BY <1>1, <2>3, SubSeqFull
<1> HIDE DEF f
<1>6. c = [m EXCEPT !.fifo = f]
  BY <1>2 DEF f
<1>7. [m EXCEPT !.fifo = f] \in MouseState
  BY <1>1, <1>3, <1>4 DEF MouseState
<1>8. c.fifo = f /\ c.a2_x = m.a2_x /\ c.a2_y = m.a2_y
  BY <1>1, <1>6 DEF MouseState
<1>9. CaughtUp(m) => c = m
  <2>1. [m EXCEPT !.fifo = m.fifo] = m
    BY <1>1 DEF MouseState
  <2> QED BY <1>5, <1>6, <2>1
<1>10. Len(f) < ADB_MOUSE_FIFO
  BY <1>1, <1>2, <1>3, MouseAssumption DEF MouseSound, MouseAssumption
<1> QED BY <1>6, <1>7, <1>8, <1>9, <1>10 DEF MouseSound

LEMMA Moves ==
  ASSUME NEW m, MouseSound(m), NEW x \in X, NEW y \in Y, NEW button \in BOOLEAN,
         NEW e, e = MoveTo(m, x, y, button)
  PROVE  MouseSound(e) /\ (CaughtUp(m) /\ ~Changes(m, x, y, button) => CaughtUp(e))
<1>1. m \in MouseState /\ m.fifo \in Seq(Entry) /\ m.fifo # <<>> /\ Len(m.fifo) \in Nat \ {0}
  BY MouseFields DEF MouseSound
<1> DEFINE old == m.fifo[1]
           now == [x |-> x, y |-> y, button |-> old.button]
           head == [x |-> x, y |-> y, button |-> button]
           rest == Tail(m.fifo)
           room == Pos(m) < ADB_MOUSE_FIFO - 2 /\ button # old.button
           copy == IF room THEN <<now>> ELSE <<>>
           f == <<head>> \o copy \o rest
<1>2. old \in Entry /\ now \in Entry /\ head \in Entry
  <2>1. old \in Entry
    BY <1>1, MouseFields
  <2> QED BY <2>1 DEF Entry
<1>3. rest \in Seq(Entry) /\ Len(rest) = Len(m.fifo) - 1
  BY <1>1, HeadTailProperties
<1>4. copy \in Seq(Entry) /\ (room => Len(copy) = 1) /\ (~room => copy = <<>> /\ Len(copy) = 0)
  <2>1. <<now>> \in Seq(Entry) /\ Len(<<now>>) = 1
    BY <1>2
  <2>2. <<>> \in Seq(Entry) /\ Len(<<>>) = 0
    OBVIOUS
  <2> HIDE DEF now, room
  <2> QED BY <2>1, <2>2
<1>5. <<head>> \in Seq(Entry) /\ Len(<<head>>) = 1
  BY <1>2
<1>6. /\ f \in Seq(Entry) /\ Len(f) = 1 + Len(copy) + Len(rest) /\ f[1] = head
  <2> HIDE DEF head, copy, rest
  <2>1. /\ <<head>> \o copy \in Seq(Entry) /\ Len(<<head>> \o copy) = 1 + Len(copy)
        /\ (<<head>> \o copy)[1] = head
    BY <1>4, <1>5, ConcatProperties
  <2>2. Len(copy) \in Nat /\ Len(rest) \in Nat
    BY <1>3, <1>4, LenProperties
  <2> DEFINE g == <<head>> \o copy
  <2>3. g \in Seq(Entry) /\ Len(g) = 1 + Len(copy) /\ g[1] = head /\ f = g \o rest
    BY <2>1
  <2> HIDE DEF g, f
  <2>4. 1 \in 1..Len(g) /\ 1 \in 1..Len(g) + Len(rest)
    BY <2>2, <2>3
  <2>5. g \o rest \in Seq(Entry) /\ Len(g \o rest) = Len(g) + Len(rest)
    BY <1>3, <2>3, ConcatProperties
  <2>6. (g \o rest)[1] = g[1]
    BY <1>3, <2>3, <2>4, ConcatProperties
  <2> QED BY <2>3, <2>5, <2>6
<1>7. e = [m EXCEPT !.fifo = f]
  <2>1. [now EXCEPT !.button = button] = head
    OBVIOUS
  <2> QED BY <2>1 DEF MoveTo
<1>8. Len(f) < ADB_MOUSE_FIFO /\ Len(f) \in Nat \ {0}
  <2>1. Len(m.fifo) < ADB_MOUSE_FIFO /\ ADB_MOUSE_FIFO \in Nat
    BY MouseAssumption DEF MouseSound, MouseAssumption
  <2>2. CASE room
    <3>1. Pos(m) < ADB_MOUSE_FIFO - 2
      BY <2>2
    <3>2. Pos(m) = Len(m.fifo) - 1
      BY DEF Pos
    <3>3. Len(f) = 1 + 1 + (Len(m.fifo) - 1)
      <4> HIDE DEF f, copy, rest, room
      <4> QED BY <1>3, <1>4, <1>6, <2>2
    <3> HIDE DEF f, copy, rest, room
    <3> QED BY <1>1, <2>1, <3>1, <3>2, <3>3
  <2>3. CASE ~room
    <3> HIDE DEF f, copy, rest, room
    <3> QED BY <1>1, <1>3, <1>4, <1>6, <2>1, <2>3
  <2> QED BY <2>2, <2>3
<1>9. CaughtUp(m) /\ ~Changes(m, x, y, button) => f = m.fifo
  <2>1. SUFFICES ASSUME CaughtUp(m), ~Changes(m, x, y, button) PROVE f = m.fifo
    OBVIOUS
  <2>2. Len(m.fifo) = 1 /\ old.x = x /\ old.y = y /\ old.button = button
    BY <1>1, <2>1 DEF CaughtUp, Pos, Changes
  <2>3. ~room /\ head = old
    <3>1. old = [x |-> old.x, y |-> old.y, button |-> old.button]
      BY <1>2 DEF Entry
    <3> QED BY <2>2, <3>1
  <2> HIDE DEF f, head, copy, rest, room, old
  <2>4. Len(f) = 1
    BY <1>3, <1>4, <1>6, <2>2, <2>3
  <2>5. f[1] = m.fifo[1]
    BY <1>6, <2>3 DEF old
  <2> QED BY <1>1, <1>6, <2>2, <2>4, <2>5, SeqEqual
<1> HIDE DEF f
<1>10. [m EXCEPT !.fifo = f] \in MouseState /\ f # <<>>
  <2>1. f # <<>>
    BY <1>8, EmptySeq
  <2> QED BY <1>1, <1>6, <2>1 DEF MouseState
<1>11. e.fifo = f /\ e.a2_x = m.a2_x /\ e.a2_y = m.a2_y /\ e.a2_button = m.a2_button
  BY <1>1, <1>7 DEF MouseState
<1> QED BY <1>7, <1>8, <1>9, <1>10, <1>11 DEF MouseSound, CaughtUp, Pos

LEMMA Warps ==
  ASSUME NEW m, MouseSound(m), NEW x \in X, NEW y \in Y, NEW e, e = WarpTo(m, x, y)
  PROVE  MouseSound(e) /\ (CaughtUp(m) => CaughtUp(e))
<1>1. m \in MouseState /\ m.fifo \in Seq(Entry) /\ m.fifo # <<>> /\ Len(m.fifo) \in Nat \ {0}
      /\ m.fifo[1] \in Entry /\ x \in Int /\ y \in Int
      /\ m.fifo[1].x \in Int /\ m.fifo[1].y \in Int /\ m.a2_x \in Int /\ m.a2_y \in Int
  <2>1. 1 \in 1..Len(m.fifo)
    BY MouseFields DEF MouseSound
  <2> QED BY <2>1, MouseFields, MouseAssumption DEF MouseSound, MouseAssumption
<1> DEFINE old == m.fifo[1]
           head == [x |-> x, y |-> y, button |-> old.button]
           f == [m.fifo EXCEPT ![1] = head]
           ax == m.a2_x + x - old.x
           ay == m.a2_y + y - old.y
<1>2. head \in Entry
  BY <1>1 DEF Entry
<1>3. f \in Seq(Entry) /\ Len(f) = Len(m.fifo) /\ f[1] = head
  BY <1>1, <1>2, ExceptSeq
<1>4. ax \in Int /\ ay \in Int
  <2>1. /\ x \in Int /\ y \in Int /\ old.x \in Int /\ old.y \in Int
        /\ m.a2_x \in Int /\ m.a2_y \in Int
    BY <1>1
  <2> HIDE DEF old
  <2>2. ax \in Int
    BY <2>1
  <2>3. ay \in Int
    BY <2>1
  <2> QED BY <2>2, <2>3
<1>5. e = [m EXCEPT !.a2_x = ax, !.a2_y = ay, !.fifo = f]
  BY DEF WarpTo
<1> HIDE DEF f, ax, ay
<1>6. [m EXCEPT !.a2_x = ax, !.a2_y = ay, !.fifo = f] \in MouseState
  <2>1. f # <<>>
    BY <1>1, <1>3
  <2> QED BY <1>1, <1>3, <1>4, <2>1 DEF MouseState
<1>7. e.fifo = f /\ e.a2_x = ax /\ e.a2_y = ay /\ e.a2_button = m.a2_button
  BY <1>1, <1>5 DEF MouseState
<1>8. CaughtUp(m) => CaughtUp(e)
  <2>1. SUFFICES ASSUME CaughtUp(m) PROVE CaughtUp(e)
    OBVIOUS
  <2>2. old.x = m.a2_x /\ old.y = m.a2_y /\ old.button = m.a2_button
    BY <2>1 DEF CaughtUp
  <2>3. ax = x /\ ay = y
    BY <1>1, <2>2 DEF ax, ay
  <2>4. Pos(e) = 0
    BY <1>3, <1>7, <2>1 DEF CaughtUp, Pos
  <2> QED BY <1>3, <1>7, <2>2, <2>3, <2>4 DEF CaughtUp
<1> QED BY <1>3, <1>5, <1>6, <1>7, <1>8 DEF MouseSound

LEMMA Clamped ==
  ASSUME NEW n \in Int
  PROVE  Clamp(n) \in Int /\ (n = 0 => Clamp(n) = 0)
BY MouseAssumption DEF Clamp, MouseAssumption

\* A read when the program has caught up moves nothing.
LEMMA Reads ==
  ASSUME NEW d, Sound(d), NEW m, MouseSound(m), NEW e, e = ReadPosition(d, m)
  PROVE  MouseSound(e) /\ (CaughtUp(m) => CaughtUp(e))
<1>1. m \in MouseState /\ m.fifo \in Seq(Entry) /\ m.fifo # <<>> /\ Len(m.fifo) \in Nat \ {0}
      /\ Pos(m) = Len(m.fifo) - 1 /\ m.a2_x \in Int /\ m.a2_y \in Int
      /\ m.a2_button \in BOOLEAN
  BY MouseFields DEF MouseSound, Pos
<1> DEFINE target == m.fifo[Len(m.fifo)]
           dx == target.x - m.a2_x
           dy == target.y - m.a2_y
           clamped == Clamp(dx) # dx \/ Clamp(dy) # dy
           peek == Pos(m) > 0 /\ ~clamped /\ d.mouse_coord
           button == IF peek THEN m.fifo[Pos(m)].button ELSE target.button
           ax == IF d.mouse_coord THEN m.a2_x ELSE m.a2_x + Clamp(dx)
           ay == IF d.mouse_coord THEN m.a2_y + Clamp(dy) ELSE m.a2_y
           ab == IF d.mouse_coord THEN button ELSE m.a2_button
           moved == [m EXCEPT !.a2_x = ax, !.a2_y = ay, !.a2_button = ab]
           front == Front(m.fifo)
<1>2. e = IF /\ Pos(m) > 0
             /\ target.x = moved.a2_x /\ target.y = moved.a2_y /\ moved.a2_button = button
          THEN [moved EXCEPT !.fifo = front] ELSE moved
  BY DEF ReadPosition
<1>3. target \in Entry /\ target.x \in Int /\ target.y \in Int /\ target.button \in BOOLEAN
  <2>1. Len(m.fifo) \in 1..Len(m.fifo)
    BY <1>1
  <2> QED BY <1>1, <2>1, MouseFields
<1>4. button \in BOOLEAN
  <2>1. Pos(m) > 0 => Pos(m) \in 1..Len(m.fifo)
    BY <1>1
  <2>2. Pos(m) > 0 => m.fifo[Pos(m)].button \in BOOLEAN
    BY <1>1, <2>1, MouseFields
  <2> QED BY <1>3, <2>2
<1>5. dx \in Int /\ dy \in Int /\ Clamp(dx) \in Int /\ Clamp(dy) \in Int
  <2>1. dx \in Int /\ dy \in Int
    BY <1>1, <1>3
  <2> HIDE DEF dx, dy
  <2> QED BY <2>1, Clamped
<1>6. ax \in Int /\ ay \in Int /\ ab \in BOOLEAN
  <2> HIDE DEF button, dx, dy
  <2> QED BY <1>1, <1>4, <1>5
<1>7. Pos(m) > 0 => front \in Seq(Entry) /\ front # <<>> /\ Len(front) < ADB_MOUSE_FIFO
  <2> SUFFICES ASSUME Pos(m) > 0
               PROVE  front \in Seq(Entry) /\ front # <<>> /\ Len(front) < ADB_MOUSE_FIFO
    OBVIOUS
  <2> DEFINE n == Len(m.fifo) - 1
  <2>1. n \in Nat /\ n > 0 /\ 1 \in Int /\ n \in Int /\ n - 1 + 1 = n /\ 1 <= n
    BY <1>1
  <2>2. \A i \in 1..n : m.fifo[i] \in Entry
    BY <1>1, ElementOfSeq
  <2>3. front = SubSeq(m.fifo, 1, n)
    BY DEF Front
  <2>4. front \in Seq(Entry) /\ Len(front) = n
    <3> HIDE DEF n, front
    <3> QED BY <2>1, <2>2, <2>3, SubSeqProperties
  <2>5. Len(m.fifo) < ADB_MOUSE_FIFO /\ ADB_MOUSE_FIFO \in Nat
    BY MouseAssumption DEF MouseSound, MouseAssumption
  <2>6. Len(front) < ADB_MOUSE_FIFO
    BY <1>1, <2>4, <2>5
  <2>7. front # <<>>
    <3> HIDE DEF front
    <3> QED BY <2>1, <2>4, EmptySeq
  <2> QED BY <2>4, <2>6, <2>7
<1>8. moved.fifo = m.fifo /\ moved.a2_x = ax /\ moved.a2_y = ay /\ moved.a2_button = ab
  BY <1>1 DEF MouseState
<1>9. CaughtUp(m) => /\ Pos(m) = 0 /\ ax = m.a2_x /\ ay = m.a2_y /\ ab = m.a2_button
  <2>1. SUFFICES ASSUME CaughtUp(m)
                 PROVE  /\ Pos(m) = 0 /\ ax = m.a2_x /\ ay = m.a2_y /\ ab = m.a2_button
    OBVIOUS
  <2>2. Pos(m) = 0 /\ Len(m.fifo) = 1
    BY <1>1, <2>1 DEF CaughtUp
  <2>3. target.x = m.a2_x /\ target.y = m.a2_y /\ target.button = m.a2_button
    BY <2>1, <2>2 DEF CaughtUp
  <2>4. dx = 0 /\ dy = 0
    BY <1>1, <2>3
  <2>5. Clamp(dx) = 0 /\ Clamp(dy) = 0
    BY <1>5, <2>4, Clamped
  <2>6. button = m.a2_button
    BY <2>2, <2>3
  <2> HIDE DEF dx, dy, button
  <2> QED BY <1>1, <2>2, <2>5, <2>6
<1> HIDE DEF target, button, ax, ay, ab, front
<1>10. moved \in MouseState
  BY <1>1, <1>6 DEF MouseState
<1> HIDE DEF moved
<1>11. CASE Pos(m) > 0 /\ e = [moved EXCEPT !.fifo = front]
  <2>1. [moved EXCEPT !.fifo = front] \in MouseState
    BY <1>7, <1>10, <1>11 DEF MouseState
  <2>2. e.fifo = front
    BY <1>10, <1>11 DEF MouseState
  <2> QED BY <1>7, <1>9, <1>11, <2>1, <2>2 DEF MouseSound
<1>12. CASE e = moved
  BY <1>8, <1>9, <1>10, <1>12 DEF MouseSound, CaughtUp, Pos
<1> QED BY <1>2, <1>11, <1>12

LEMMA ReadsC024 ==
  ASSUME NEW d, Sound(d), NEW m, NEW e, e = mouse_read_c024(d, m)
  PROVE  /\ Sound(e) /\ SameLatch(d, e)
         /\ d.mouse_valid_data /\ ~e.mouse_valid_data => CaughtUp(m)
<1> DEFINE done == adb_clear_mouse_int([d EXCEPT !.mouse_valid_data = FALSE])
           t == IF CaughtUp(m) THEN done ELSE d
           to == ~d.mouse_coord
<1>1. e = [t EXCEPT !.mouse_coord = to] /\ to \in BOOLEAN
  BY DEF mouse_read_c024
<1>2. Sound(t) /\ SameLatch(d, t) /\ (~CaughtUp(m) => t = d)
  <2>1. Sound(done) /\ SameLatch(d, done)
    BY MouseDone
  <2> HIDE DEF done
  <2> QED BY <2>1 DEF SameLatch
<1> HIDE DEF t, to
<1>3. t \in Controller
  BY <1>2 DEF Sound
<1>4. [t EXCEPT !.mouse_coord = to] \in Controller
  BY <1>1, <1>3 DEF Controller
<1>5. /\ e.irq = t.irq /\ e.state = t.state /\ e.c027 = t.c027 /\ e.kbd_reg0 = t.kbd_reg0
      /\ e.data_pending = t.data_pending /\ e.interrupt_byte = t.interrupt_byte
      /\ Offers(e) /\ SameLatch(t, e) /\ SameFlag(t, e)
  BY <1>1, <1>2, <1>3 DEF Sound, Offers, SameLatch, SameFlag, Controller
<1>6. Sound(e)
  BY <1>1, <1>2, <1>4, <1>5 DEF Sound, Asks, DataFed, Sends, MouseFed, SameFlag
<1> QED BY <1>2, <1>5, <1>6 DEF SameLatch, SameFlag

\* What a step of the mouse does to the flag.
FlagStep(d, e, m, n) ==
  /\ CaughtUp(m) /\ ~CaughtUp(n) /\ MouseOn(d) => e.mouse_valid_data
  /\ d.mouse_valid_data /\ ~e.mouse_valid_data =>
       CaughtUp(n) \/ ~MouseOn(d) \/ e = do_reset(d)

LEMMA MouseSteps ==
  ASSUME Sound(adb), MouseSound(mouse), MouseStep
  PROVE  /\ Sound(adb') /\ LatchStep(adb, adb') /\ MouseSound(mouse')
         /\ FlagStep(adb, adb', mouse, mouse')
<1>1. adb \in Controller
  BY DEF Sound
<1>2. ASSUME NEW x \in X, NEW y \in Y, NEW button \in BOOLEAN, UpdateMouse(x, y, button)
      PROVE  /\ Sound(adb') /\ SameLatch(adb, adb') /\ MouseSound(mouse')
             /\ FlagStep(adb, adb', mouse, mouse')
  <2>1. PICK m \in mouse_compress_fifo(mouse) :
          /\ mouse' = MoveTo(m, x, y, button)
          /\ adb' = IF Changes(m, x, y, button) /\ MouseOn(adb)
                    THEN adb_add_mouse_int([adb EXCEPT !.mouse_valid_data = TRUE]) ELSE adb
    BY <1>2 DEF UpdateMouse
  <2>2. MouseSound(m) /\ (CaughtUp(mouse) => m = mouse)
    BY <2>1, Compress
  <2>3. MouseSound(mouse') /\ (CaughtUp(m) /\ ~Changes(m, x, y, button) => CaughtUp(mouse'))
    BY <2>1, <2>2, Moves
  <2>4. CASE Changes(m, x, y, button) /\ MouseOn(adb)
    <3> DEFINE t == [adb EXCEPT !.mouse_valid_data = TRUE]
    <3>1. adb' = adb_add_mouse_int(t)
      BY <2>1, <2>4
    <3>2. t \in Controller
      BY <1>1 DEF Controller
    <3>3. Sound(t) /\ t.mouse_valid_data /\ SameLatch(adb, t)
      BY <1>1, <3>2 DEF Sound, Asks, DataFed, Sends, MouseFed, Offers, SameLatch, Controller
    <3> HIDE DEF t
    <3>4. Sound(adb') /\ SameLatch(t, adb') /\ SameFlag(t, adb')
      BY <3>1, <3>3, MouseInt
    <3> QED BY <2>3, <3>3, <3>4 DEF SameLatch, SameFlag, FlagStep
  <2>5. CASE ~(Changes(m, x, y, button) /\ MouseOn(adb))
    BY <2>1, <2>2, <2>3, <2>5 DEF SameLatch, FlagStep
  <2> QED BY <2>4, <2>5
<1>3. CASE WarpMouse
  <2>1. PICK m \in mouse_compress_fifo(mouse) :
          mouse' = WarpTo(m, Center[1], Center[2]) /\ adb' = adb
    BY <1>3 DEF WarpMouse
  <2>2. MouseSound(m) /\ (CaughtUp(mouse) => m = mouse)
    BY <2>1, Compress
  <2>3. Center[1] \in X /\ Center[2] \in Y
    BY MouseAssumption DEF MouseAssumption
  <2>4. MouseSound(mouse') /\ (CaughtUp(m) => CaughtUp(mouse'))
    BY <2>1, <2>2, <2>3, Warps
  <2> QED BY <2>1, <2>2, <2>4 DEF SameLatch, LatchStep, FlagStep
<1>4. CASE ReadC024 /\ MouseOn(adb)
  <2>1. PICK m \in mouse_compress_fifo(mouse) :
          mouse' = ReadPosition(adb, m) /\ adb' = mouse_read_c024(adb, mouse')
    BY <1>4 DEF ReadC024
  <2>2. MouseSound(m) /\ (CaughtUp(mouse) => m = mouse)
    BY <2>1, Compress
  <2>3. MouseSound(mouse') /\ (CaughtUp(m) => CaughtUp(mouse'))
    BY <2>1, <2>2, Reads
  <2>4. /\ Sound(adb') /\ SameLatch(adb, adb')
        /\ adb.mouse_valid_data /\ ~adb'.mouse_valid_data => CaughtUp(mouse')
    BY <2>1, ReadsC024
  <2> QED BY <2>2, <2>3, <2>4, SameLatchStep DEF FlagStep
<1>5. CASE ReadC024 /\ ~MouseOn(adb)
  <2>1. adb' = adb_clear_mouse_int([adb EXCEPT !.mouse_valid_data = FALSE]) /\ mouse' = mouse
    BY <1>5 DEF ReadC024
  <2>2. Sound(adb') /\ SameLatch(adb, adb')
    BY <2>1, MouseDone
  <2> QED BY <1>5, <2>1, <2>2, SameLatchStep DEF FlagStep
<1> QED BY <1>2, <1>3, <1>4, <1>5, SameLatchStep DEF MouseStep

-----------------------------------------------------------------------------
\* The inductive invariant of the specification.
Inv == Sound(adb) /\ MouseSound(mouse)

LEMMA Starting ==
  ASSUME Init
  PROVE  Inv /\ Typed(adb) = <<>>
<1> DEFINE zero == 0
           none == {}
           empty == <<>>
           cmd == NoCommand
           nokey == NoKey
           kbd == 2
           mse == 3
           buf == [i \in 0..MAX_KBD_BUF - 1 |-> [key |-> NoKey, strobe |-> FALSE]]
<1>1. adb = [state |-> "IDLE", cmd |-> cmd, cmd_so_far |-> zero, data_pending |-> zero,
             interrupt_byte |-> none, c027 |-> none, mode |-> none,
             kbd_dev |-> kbd, kbd_ctl |-> kbd, mouse_ctl |-> mse, irq |-> none,
             kbd_reg0 |-> empty, mouse_valid_data |-> FALSE, mouse_coord |-> FALSE,
             down |-> none, kbd_buf |-> buf,
             chars_buffered |-> zero, read_no_update |-> zero, key_down |-> FALSE,
             hard_key_down |-> FALSE, a2code_down |-> nokey, repeats |-> TRUE]
  BY DEF Init, AdbInit
<1>2. /\ cmd \in AdbCommand /\ zero \in 0..8 /\ zero \in 0..4 /\ none = {} /\ zero = 0
      /\ kbd \in Address /\ mse \in Address /\ empty \in Seq([key : Key, up : BOOLEAN])
      /\ empty = <<>> /\ none \in SUBSET Key /\ none \in SUBSET Mode
      /\ none \in SUBSET {"response", "desk", "srq"} /\ none \in SUBSET {"mouse", "data"}
      /\ none \in SUBSET {"kbd_srq", "data", "mouse"} /\ nokey \in Hard \cup {NoKey}
      /\ zero \in 0..MAX_KBD_BUF - 1 /\ zero \in 0..PatientReads + 1
  BY Constants, Commands
<1>3. buf \in [0..MAX_KBD_BUF - 1 -> Slot]
  <2>1. [key |-> NoKey, strobe |-> FALSE] \in Slot
    BY DEF Slot
  <2> QED BY <2>1
<1> HIDE DEF zero, none, empty, cmd, nokey, kbd, mse, buf
<1>4. adb \in Controller
  BY <1>1, <1>2, <1>3 DEF Controller
<1>5. /\ adb.kbd_reg0 = <<>> /\ adb.irq = {} /\ adb.interrupt_byte = {} /\ adb.state = "IDLE"
      /\ adb.chars_buffered = 0 /\ adb.key_down = FALSE /\ adb.hard_key_down = FALSE
  BY <1>1, <1>2
<1>6. Sound(adb)
  <2>1. 0..0 - 1 = {}
    OBVIOUS
  <2> QED BY <1>4, <1>5, <2>1 DEF Sound, Asks, DataFed, Sends, MouseFed, Offers
<1>7. Typed(adb) = <<>>
  <2>1. Typed(adb) = [i \in 1..0 |-> adb.kbd_buf[i - 1].key]
    BY <1>5 DEF Typed
  <2>2. 1..0 = {}
    OBVIOUS
  <2> QED BY <2>1, <2>2
<1>8. MouseSound(mouse)
  <2> DEFINE home == [x |-> Center[1], y |-> Center[2], button |-> FALSE]
             f == <<home>>
  <2>1. mouse = [fifo |-> f, a2_x |-> Center[1], a2_y |-> Center[2], a2_button |-> FALSE]
    BY DEF Init, MouseInit
  <2>2. Center[1] \in X /\ Center[2] \in Y /\ Center[1] \in Int /\ Center[2] \in Int
    BY MouseAssumption DEF MouseAssumption
  <2>3. home \in Entry
    BY <2>2 DEF Entry
  <2>4. f \in Seq(Entry) /\ Len(f) = 1 /\ f # <<>>
    BY <2>3
  <2> HIDE DEF f
  <2>5. mouse \in MouseState /\ mouse.fifo = f
    BY <2>1, <2>2, <2>4 DEF MouseState
  <2>6. 1 < ADB_MOUSE_FIFO
    BY MouseAssumption DEF MouseAssumption
  <2> QED BY <2>4, <2>5, <2>6 DEF MouseSound
<1> QED BY <1>6, <1>7, <1>8 DEF Inv

LEMMA Stepping ==
  ASSUME Inv, [Next]_<<adb, mouse>>
  PROVE  /\ Inv' /\ LatchStep(adb, adb')
         /\ <<adb, mouse>>' # <<adb, mouse>> => FlagStep(adb, adb', mouse, mouse')
<1>1. CASE AdbNext /\ UNCHANGED mouse
  <2>1. /\ Sound(adb') /\ LatchStep(adb, adb')
        /\ SameFlag(adb, adb') \/ adb' = do_reset(adb)
    BY <1>1, AdbSteps DEF Inv
  <2> QED BY <1>1, <2>1 DEF Inv, FlagStep, SameFlag
<1>2. CASE MouseStep
  BY <1>2, MouseSteps DEF Inv
<1>3. CASE UNCHANGED <<adb, mouse>>
  BY <1>3 DEF Inv, LatchStep, Typed
<1> QED BY <1>1, <1>2, <1>3 DEF Next

THEOREM AdbInvariant == Spec => []Inv
<1>1. Init => Inv
  BY Starting
<1>2. Inv /\ [Next]_<<adb, mouse>> => Inv'
  BY Stepping
<1> QED BY <1>1, <1>2, PTL DEF Spec

-----------------------------------------------------------------------------
\* The rest of what the program and the host do, and what it tells.
LEMMA C010Keeps ==
  ASSUME NEW d, Has(d), NEW e, e = adb_access_c010(d)
  PROVE  Keeps(d, e)
<1> DEFINE n == d.chars_buffered
           read == [d.kbd_buf EXCEPT ![0].strobe = FALSE]
           zero == 0
           b == [i \in DOMAIN read |-> IF i + 1 < n THEN read[i + 1] ELSE read[i]]
           m == IF n > 0 THEN n - 1 ELSE 0
<1>1. e = [d EXCEPT !.read_no_update = zero, !.kbd_buf = b, !.chars_buffered = m]
  BY DEF adb_access_c010
<1> HIDE DEF zero, b, m
<1> QED BY <1>1 DEF Keeps, Has, Heard

LEMMA C000Keeps ==
  ASSUME NEW d, Has(d), NEW e \in adb_read_c000(d)
  PROVE  Keeps(d, e)
<1> DEFINE n == d.read_no_update
           m == IF n > PatientReads THEN n ELSE n + 1
           t == [d EXCEPT !.read_no_update = m]
<1>1. \/ e = d \/ e = t \/ e = adb_access_c010(t)
      \/ e = adb_key_event(d, d.a2code_down, FALSE)
      \/ \E b : e = [d EXCEPT !.kbd_buf = b]
  <2>1. CASE d.kbd_buf[0].strobe
    BY <2>1 DEF adb_read_c000, ReadAgain
  <2>2. CASE ~d.kbd_buf[0].strobe /\ d.key_down
    <3>1. e \in {d, adb_key_event(d, d.a2code_down, FALSE)}
      BY <2>2 DEF adb_read_c000
    <3> QED BY <3>1
  <2>3. CASE ~d.kbd_buf[0].strobe /\ ~d.key_down
    <3>1. e \in Paste(d)
      BY <2>3 DEF adb_read_c000
    <3>2. ASSUME NEW k \in Plain, e = [d EXCEPT !.kbd_buf[0] = [key |-> k, strobe |-> TRUE]]
          PROVE  \E b : e = [d EXCEPT !.kbd_buf = b]
      <4> DEFINE b == [d.kbd_buf EXCEPT ![0] = [key |-> k, strobe |-> TRUE]]
      <4>1. e = [d EXCEPT !.kbd_buf = b]
        BY <3>2
      <4> HIDE DEF b
      <4> QED BY <4>1
    <3> QED BY <3>1, <3>2 DEF Paste
  <2> QED BY <2>1, <2>2, <2>3
<1> HIDE DEF m
<1>2. Keeps(d, t)
  BY DEF Keeps, Has, Heard
<1> HIDE DEF t
<1>3. CASE e = adb_access_c010(t)
  <2>1. Keeps(t, e)
    BY <1>2, <1>3, C010Keeps DEF Keeps
  <2> QED BY <1>2, <2>1, KeepsTwice
<1>4. CASE e = adb_key_event(d, d.a2code_down, FALSE)
  BY <1>4, KeyKeeps
<1>5. ASSUME NEW b, e = [d EXCEPT !.kbd_buf = b]
      PROVE  Keeps(d, e)
  BY <1>5 DEF Keeps, Has, Heard
<1> QED BY <1>1, <1>2, <1>3, <1>4, <1>5, KeepsItself

LEMMA SendTells ==
  ASSUME NEW d, Has(d), NEW n \in 1..4, NEW e, e = adb_send_bytes(d, n)
  PROVE  Tells(d, e)
<1> DEFINE t == [d EXCEPT !.state = "SENDING_DATA", !.data_pending = n]
<1>1. e = adb_add_data_int(t)
  BY DEF adb_send_bytes
<1>2. Has(t)
  BY DEF Has, Heard
<1> HIDE DEF t
<1>3. "data" \in e.c027 => "data" \in e.irq
  BY <1>1, <1>2, DataIntTells
<1> QED BY <1>3 DEF Tells, Told

LEMMA ResponseTells ==
  ASSUME NEW d, Has(d), NEW n, NEW e, e = adb_response_packet(d, n)
  PROVE  Has(e) /\ ("data" \in e.c027 => "data" \in e.irq)
<1> DEFINE b == d.interrupt_byte \cup {"response"}
           t == [d EXCEPT !.state = "IDLE", !.data_pending = n, !.interrupt_byte = b]
<1>1. e = adb_add_data_int(t)
  BY DEF adb_response_packet
<1> HIDE DEF b
<1>2. Has(t)
  BY DEF Has, Heard
<1> HIDE DEF t
<1> QED BY <1>1, <1>2, DataIntTells

LEMMA TalkTells ==
  ASSUME NEW d, Has(d), NEW e, e = adb_kbd_talk_reg0(d)
  PROVE  Tells(d, e)
<1> DEFINE left == AfterAnswer(d.kbd_reg0)
           n == IF d.kbd_reg0 = <<>> THEN 0 ELSE 2
           t == [d EXCEPT !.kbd_reg0 = left]
           sent == adb_response_packet(t, n)
<1>1. e = sent \/ e = adb_clear_kbd_srq(sent)
  BY DEF adb_kbd_talk_reg0
<1> HIDE DEF left, n
<1>2. Has(t)
  BY DEF Has, Heard
<1> HIDE DEF t
<1>3. Has(sent) /\ ("data" \in sent.c027 => "data" \in sent.irq)
  BY <1>2, ResponseTells
<1> HIDE DEF sent
<1>4. CASE e = adb_clear_kbd_srq(sent)
  <2> DEFINE b == sent.interrupt_byte \ {"srq"}
             i == sent.irq \ {"kbd_srq"}
  <2>1. e = [sent EXCEPT !.interrupt_byte = b, !.irq = i]
    BY <1>4 DEF adb_clear_kbd_srq, remove_irq
  <2>2. "data" \in sent.irq => "data" \in i
    OBVIOUS
  <2> HIDE DEF b, i
  <2>3. e.c027 = sent.c027 /\ e.irq = i
    BY <1>3, <2>1 DEF Has, Heard
  <2> QED BY <1>3, <2>2, <2>3 DEF Tells, Told
<1> QED BY <1>1, <1>3, <1>4 DEF Tells, Told

\* Only a reset disables the interrupt without being asked to.
LEMMA ResetTells ==
  ASSUME NEW d, Sound(d), NEW e, e = do_reset(d)
  PROVE  Tells(d, e)
<1> DEFINE none == {}
           t == adb_reset(d)
           zero == 0
           two == 2
           three == 3
           empty == <<>>
           idle == "IDLE"
           u == adb_clear_kbd_srq(adb_clear_mouse_int(adb_clear_data_int(d)))
<1>1. t = [u EXCEPT !.c027 = none, !.key_down = FALSE,
                    !.kbd_dev = two, !.kbd_ctl = two, !.mouse_ctl = three,
                    !.data_pending = zero, !.interrupt_byte = none, !.state = idle,
                    !.mouse_coord = FALSE, !.mouse_valid_data = FALSE, !.kbd_reg0 = empty]
  BY DEF adb_reset
<1>2. e = [t EXCEPT !.irq = none]
  BY DEF do_reset
<1>3. Has(u)
  <2>1. "c027" \in DOMAIN d /\ Has(d)
    BY SoundHas DEF Has, Heard
  <2> QED BY <2>1 DEF adb_clear_kbd_srq, adb_clear_mouse_int, adb_clear_data_int, Has, Heard
<1>4. "data" \notin none
  OBVIOUS
<1> HIDE DEF none, t, zero, two, three, empty, idle, u
<1>5. Has(t) /\ t.c027 = none
  BY <1>1, <1>3 DEF Has, Heard
<1>6. e.c027 = none
  BY <1>2, <1>5 DEF Has, Heard
<1> QED BY <1>4, <1>6 DEF Tells

LEMMA C026Tells ==
  ASSUME NEW d, Sound(d), NEW e, e = adb_read_c026(d)
  PROVE  Tells(d, e)
<1>1. d \in Controller /\ Has(d) /\ d.data_pending \in 0..4
  BY SoundHas, Fields
<1>2. CASE d.state = "IDLE"
  <2> DEFINE b == IF "kbd_srq" \in d.irq THEN {"srq"} ELSE {}
             t == [d EXCEPT !.interrupt_byte = b]
  <2>1. e = IF d.data_pending = 0 THEN adb_clear_data_int(t)
            ELSE [t EXCEPT !.state = "SENDING_DATA"]
    BY <1>2 DEF adb_read_c026
  <2>2. "response" \notin b /\ "desk" \notin b
    OBVIOUS
  <2> HIDE DEF b
  <2>3. Has(t) /\ t.c027 = d.c027 /\ t.data_pending = d.data_pending /\ t.irq = d.irq
        /\ t.interrupt_byte = b
    BY <1>1 DEF Has, Heard
  <2> HIDE DEF t
  <2>4. CASE d.data_pending = 0
    <3> DEFINE i == t.irq \ {"data"}
    <3>1. e = [t EXCEPT !.irq = i]
      BY <2>1, <2>4 DEF adb_clear_data_int, remove_irq
    <3> HIDE DEF i
    <3>2. e.data_pending = 0 /\ e.interrupt_byte = b
      BY <2>3, <2>4, <3>1 DEF Has, Heard
    <3> QED BY <1>1, <2>2, <2>4, <3>2 DEF Tells, Told, Came
  <2>5. CASE d.data_pending # 0
    <3>1. e = [t EXCEPT !.state = "SENDING_DATA"]
      BY <2>1, <2>5
    <3>2. /\ e.data_pending = d.data_pending /\ e.interrupt_byte = b /\ e.irq = d.irq
      BY <2>3, <3>1 DEF Has, Heard
    <3> QED BY <1>1, <2>2, <3>2 DEF Tells, Told, Came
  <2> QED BY <2>4, <2>5
<1>3. CASE d.state = "SENDING_DATA"
  <2> DEFINE less == d.data_pending - 1
             zero == 0
             t == [d EXCEPT !.data_pending = zero, !.state = "IDLE"]
             i == t.irq \ {"data"}
  <2>1. e = IF d.data_pending > 1 THEN [d EXCEPT !.data_pending = less]
            ELSE [t EXCEPT !.irq = i]
    BY <1>3 DEF adb_read_c026, adb_clear_data_int, remove_irq
  <2>2. d.data_pending > 0 /\ d.data_pending # 0 /\ zero = 0 /\ ~(zero > d.data_pending)
        /\ ~(less > d.data_pending)
    BY <1>1, <1>3 DEF Sound, Sends
  <2> HIDE DEF less, zero, i
  <2>3. Has(t) /\ t.data_pending = zero /\ t.interrupt_byte = d.interrupt_byte
    BY <1>1 DEF Has, Heard
  <2> HIDE DEF t
  <2>4. CASE e = [d EXCEPT !.data_pending = less]
    <3>1. e.data_pending = less /\ e.interrupt_byte = d.interrupt_byte /\ e.irq = d.irq
      BY <1>1, <2>4 DEF Has, Heard
    <3> QED BY <2>2, <3>1 DEF Tells, Told, Came
  <2>5. CASE e = [t EXCEPT !.irq = i]
    <3>1. e.data_pending = zero /\ e.interrupt_byte = d.interrupt_byte
      BY <2>3, <2>5 DEF Has, Heard
    <3> QED BY <2>2, <3>1 DEF Tells, Told, Came
  <2> QED BY <2>1, <2>4, <2>5
<1>4. CASE d.state \notin {"IDLE", "SENDING_DATA"}
  <2>1. e = d
    BY <1>4 DEF adb_read_c026
  <2> QED BY <1>1, <2>1, KeepsItself, KeepsTells
<1> QED BY <1>2, <1>3, <1>4

LEMMA C027Tells ==
  ASSUME NEW d, Sound(d), NEW on \in SUBSET {"mouse", "data"}, NEW e, e = adb_write_c027(d, on)
  PROVE  Tells(d, e)
<1>1. d \in Controller /\ Has(d) /\ d.data_pending \in 0..4
  BY SoundHas, Fields
<1> DEFINE t == [d EXCEPT !.c027 = on]
           m == IF "mouse" \in d.c027 \ on THEN adb_clear_mouse_int(t) ELSE t
<1>2. e = IF "data" \in d.c027 \ on THEN adb_clear_data_int(m) ELSE m
  BY DEF adb_write_c027
<1>3. /\ Has(m) /\ m.c027 = on /\ m.data_pending = d.data_pending
      /\ m.interrupt_byte = d.interrupt_byte
      /\ "data" \in d.irq => "data" \in m.irq
  <2>1. Has(t) /\ t.c027 = on /\ t.data_pending = d.data_pending
        /\ t.interrupt_byte = d.interrupt_byte /\ t.irq = d.irq
    BY <1>1 DEF Has, Heard
  <2> HIDE DEF t
  <2> DEFINE i == t.irq \ {"mouse"}
  <2>2. m = t \/ m = [t EXCEPT !.irq = i]
    BY DEF adb_clear_mouse_int, remove_irq
  <2>3. "data" \in t.irq => "data" \in i
    OBVIOUS
  <2> HIDE DEF m, i
  <2>4. CASE m = [t EXCEPT !.irq = i]
    <3>1. /\ Has(m) /\ m.c027 = t.c027 /\ m.data_pending = t.data_pending
          /\ m.interrupt_byte = t.interrupt_byte /\ m.irq = i
      BY <2>1, <2>4 DEF Has, Heard
    <3> QED BY <2>1, <2>3, <3>1
  <2> QED BY <2>1, <2>2, <2>4
<1> HIDE DEF m
<1>4. CASE "data" \in d.c027 \ on
  <2> DEFINE i == m.irq \ {"data"}
  <2>1. e = [m EXCEPT !.irq = i]
    BY <1>2, <1>4 DEF adb_clear_data_int, remove_irq
  <2> HIDE DEF i
  <2>2. e.c027 = on
    BY <1>3, <2>1 DEF Has, Heard
  <2> QED BY <1>4, <2>2 DEF Tells
<1>5. CASE "data" \notin d.c027 \ on
  <2>1. e = m
    BY <1>2, <1>5
  <2> QED BY <1>1, <1>3, <2>1 DEF Tells, Told, Came
<1> QED BY <1>4, <1>5

LEMMA StartTells ==
  ASSUME NEW d, Sound(d), NEW c \in AdbCommand, NEW e, e = Start(d, c)
  PROVE  Tells(d, e)
<1>1. d \in Controller /\ Has(d)
  BY SoundHas
<1>2. CASE ArgBytes(c) > 0
  <2>1. e = [d EXCEPT !.state = "IN_CMD", !.cmd = c]
    BY <1>2, Alternatives DEF Start
  <2>2. Keeps(d, e)
    BY <1>1, <2>1 DEF Keeps, Has, Heard
  <2> QED BY <1>1, <2>2, KeepsTells
<1>3. CASE ~(ArgBytes(c) > 0) /\ ReplyBytes(c) > 0
  <2>1. e = adb_send_bytes(d, ReplyBytes(c)) /\ ReplyBytes(c) \in 1..4
    BY <1>3, Commands, Alternatives DEF Start
  <2> QED BY <1>1, <2>1, SendTells
<1>4. CASE ~(ArgBytes(c) > 0) /\ ~(ReplyBytes(c) > 0)
  <2>1. \/ e = do_reset(d)
        \/ e = adb_kbd_talk_reg0(d)
        \/ e = adb_response_packet(d, 2)
        \/ e = d
    BY <1>4 DEF Start
  <2>2. CASE e = adb_response_packet(d, 2)
    BY <1>1, <2>2, ResponseTells DEF Tells, Told
  <2>3. CASE e = d
    BY <1>1, <2>3, KeepsItself, KeepsTells
  <2> QED BY <1>1, <2>1, <2>2, <2>3, ResetTells, TalkTells
<1> QED BY <1>2, <1>3, <1>4

LEMMA ConfigKeeps ==
  ASSUME NEW d, Has(d), NEW e \in adb_set_config(d)
  PROVE  Keeps(d, e)
<1> DEFINE T == [mouse : Address, kbd : Address, repeats : BOOLEAN]
<1>1. PICK to \in T :
        e = [d EXCEPT !.mouse_ctl = to.mouse, !.kbd_ctl = to.kbd, !.repeats = to.repeats]
  BY DEF adb_set_config
<1>2. ASSUME NEW m, NEW k, NEW r,
             e = [d EXCEPT !.mouse_ctl = m, !.kbd_ctl = k, !.repeats = r]
      PROVE  Keeps(d, e)
  BY <1>2 DEF Keeps, Has, Heard
<1> QED BY <1>1, <1>2

LEMMA PerformTells ==
  ASSUME NEW c, Sound(c), NEW e \in do_adb_cmd(c)
  PROVE  Tells(c, e)
<1> DEFINE zero == 0
           idle == NoCommand
           d == [c EXCEPT !.state = "IDLE", !.cmd = idle, !.cmd_so_far = zero]
<1>1. c \in Controller /\ Has(c)
  BY SoundHas
<1>2. e \in Perform(d, c.cmd)
  BY DEF do_adb_cmd
<1> HIDE DEF zero, idle
<1>3. /\ Has(d) /\ d.c027 = c.c027 /\ d.data_pending = c.data_pending
      /\ d.irq = c.irq /\ d.interrupt_byte = c.interrupt_byte /\ Keeps(c, d)
  BY <1>1 DEF Keeps, Has, Heard
<1> HIDE DEF d
<1>4. ASSUME NEW m, NEW t, t = [d EXCEPT !.mode = m]
      PROVE  Keeps(d, t)
  BY <1>3, <1>4 DEF Keeps, Has, Heard
<1>5. CASE e = adb_send_bytes(d, 1)
  <2>1. 1 \in 1..4
    OBVIOUS
  <2>2. Tells(d, e)
    BY <1>3, <1>5, <2>1, SendTells
  <2> QED BY <1>3, <2>2 DEF Tells, Told, Came
<1>6. CASE e # adb_send_bytes(d, 1)
  <2>1. Keeps(d, e)
    <3>1. \/ \E bits \in SUBSET Mode : e = [d EXCEPT !.mode = d.mode \cup bits]
          \/ \E bits \in SUBSET Mode : e = [d EXCEPT !.mode = d.mode \ bits]
          \/ e \in adb_set_config(d)
          \/ \E bits \in SUBSET Mode : e \in adb_set_config([d EXCEPT !.mode = bits])
          \/ \E k \in Key, up \in BOOLEAN : e = adb_virtual_key_update(d, k, up)
          \/ \E a \in Address : e = [d EXCEPT !.kbd_dev = a]
          \/ e = d
      BY <1>2, <1>6, Performed
    <3>2. ASSUME NEW bits \in SUBSET Mode, e \in adb_set_config([d EXCEPT !.mode = bits])
          PROVE  Keeps(d, e)
      <4> DEFINE t == [d EXCEPT !.mode = bits]
      <4>1. Keeps(d, t)
        BY <1>4
      <4>2. e \in adb_set_config(t)
        BY <3>2
      <4> HIDE DEF t
      <4>3. Keeps(t, e)
        BY <4>1, <4>2, ConfigKeeps DEF Keeps
      <4> QED BY <4>1, <4>3, KeepsTwice
    <3>3. ASSUME NEW a \in Address, e = [d EXCEPT !.kbd_dev = a]
          PROVE  Keeps(d, e)
      BY <1>3, <3>3 DEF Keeps, Has, Heard
    <3>4. ASSUME NEW k \in Key, NEW up \in BOOLEAN, e = adb_virtual_key_update(d, k, up)
          PROVE  Keeps(d, e)
      BY <1>3, <3>4, VirtualKeyKeeps
    <3>5. ASSUME NEW bits \in SUBSET Mode,
                 e = [d EXCEPT !.mode = d.mode \cup bits] \/ e = [d EXCEPT !.mode = d.mode \ bits]
          PROVE  Keeps(d, e)
      BY <1>4, <3>5
    <3> QED BY <1>3, <3>1, <3>2, <3>3, <3>4, <3>5, ConfigKeeps, KeepsItself
  <2> QED BY <1>1, <1>3, <2>1, KeepsTwice, KeepsTells
<1> QED BY <1>5, <1>6

LEMMA MouseKeeps ==
  ASSUME NEW d, Has(d), NEW t, NEW e, NEW v \in BOOLEAN, t = [d EXCEPT !.mouse_valid_data = v],
         e = adb_add_mouse_int(t) \/ e = adb_clear_mouse_int(t)
  PROVE  Keeps(d, e)
<1> DEFINE i == add_irq(t.irq, {"mouse"})
           j == t.irq \ {"mouse"}
<1>1. e = t \/ e = [t EXCEPT !.irq = i] \/ e = [t EXCEPT !.irq = j]
  BY DEF adb_add_mouse_int, adb_clear_mouse_int, remove_irq
<1>2. /\ "data" \in t.irq => "data" \in i
      /\ "data" \in t.irq => "data" \in j
  BY DEF add_irq
<1>3. /\ Has(t) /\ t.c027 = d.c027 /\ t.data_pending = d.data_pending
      /\ t.irq = d.irq /\ t.interrupt_byte = d.interrupt_byte
  BY DEF Has, Heard
<1> HIDE DEF i, j
<1>4. ASSUME NEW k, e = [t EXCEPT !.irq = k], "data" \in t.irq => "data" \in k
      PROVE  Keeps(d, e)
  <2>1. /\ Has(e) /\ e.c027 = t.c027 /\ e.data_pending = t.data_pending
        /\ e.irq = k /\ e.interrupt_byte = t.interrupt_byte
    BY <1>3, <1>4 DEF Has, Heard
  <2> QED BY <1>3, <1>4, <2>1 DEF Keeps
<1> QED BY <1>1, <1>2, <1>3, <1>4 DEF Keeps

LEMMA MouseTells ==
  ASSUME Sound(adb), MouseStep
  PROVE  Tells(adb, adb')
<1>1. adb \in Controller /\ Has(adb)
  BY SoundHas
<1>2. ASSUME NEW x \in X, NEW y \in Y, NEW button \in BOOLEAN, UpdateMouse(x, y, button)
      PROVE  Keeps(adb, adb')
  <2> DEFINE t == [adb EXCEPT !.mouse_valid_data = TRUE]
  <2>1. adb' = adb \/ adb' = adb_add_mouse_int(t)
    BY <1>2 DEF UpdateMouse
  <2> HIDE DEF t
  <2>2. adb' = adb_add_mouse_int(t) => Keeps(adb, adb')
    BY <1>1, MouseKeeps DEF t
  <2> QED BY <1>1, <2>1, <2>2, KeepsItself
<1>3. CASE WarpMouse
  <2>1. adb' = adb
    BY <1>3 DEF WarpMouse
  <2> QED BY <1>1, <2>1, KeepsItself, KeepsTells
<1>4. CASE ReadC024
  <2> DEFINE t == [adb EXCEPT !.mouse_valid_data = FALSE]
             off == adb_clear_mouse_int(t)
             turn == ~adb.mouse_coord
  <2>1. \/ adb' = off
        \/ adb' = [off EXCEPT !.mouse_coord = turn]
        \/ adb' = [adb EXCEPT !.mouse_coord = turn]
    BY <1>4 DEF ReadC024, mouse_read_c024
  <2>2. Keeps(adb, off)
    BY <1>1, MouseKeeps
  <2> HIDE DEF t, off, turn
  <2>3. ASSUME NEW s, Has(s), adb' = [s EXCEPT !.mouse_coord = turn]
        PROVE  Keeps(s, adb')
    BY <2>3 DEF Keeps, Has, Heard
  <2>4. Has(off)
    BY <2>2 DEF Keeps
  <2>5. Keeps(adb, adb')
    BY <1>1, <2>1, <2>2, <2>3, <2>4, KeepsTwice
  <2> QED BY <1>1, <2>5, KeepsTells
<1> QED BY <1>1, <1>2, <1>3, <1>4, KeepsTells DEF MouseStep

LEMMA StepTells ==
  ASSUME Sound(adb), AdbNext
  PROVE  Tells(adb, adb')
<1>1. adb \in Controller /\ Has(adb)
  BY SoundHas
<1>2. ASSUME NEW c \in AdbCommand, StartCommand(c)
      PROVE  Tells(adb, adb')
  BY <1>2, StartTells DEF StartCommand
<1>3. CASE ArgumentByte
  <2> DEFINE n == adb.cmd_so_far + 1
             t == [adb EXCEPT !.cmd_so_far = n]
  <2>1. adb' = t \/ adb' \in do_adb_cmd(adb)
    BY <1>3 DEF ArgumentByte
  <2> HIDE DEF n
  <2>2. Keeps(adb, t)
    BY <1>1 DEF Keeps, Has, Heard
  <2> HIDE DEF t
  <2> QED BY <1>1, <2>1, <2>2, KeepsTells, PerformTells
<1>4. CASE WriteOverAnswer
  <2>1. adb' = [adb EXCEPT !.state = "IDLE"]
    BY <1>4 DEF WriteOverAnswer
  <2>2. Keeps(adb, adb')
    BY <1>1, <2>1 DEF Keeps, Has, Heard
  <2> QED BY <1>1, <2>2, KeepsTells
<1>5. CASE ReadC026
  BY <1>5, C026Tells DEF ReadC026
<1>6. ASSUME NEW on \in SUBSET {"mouse", "data"}, WriteC027(on)
      PROVE  Tells(adb, adb')
  BY <1>6, C027Tells DEF WriteC027
<1>7. CASE DoReset
  BY <1>7, ResetTells DEF DoReset
<1>8. ASSUME NEW k \in Key, NEW up \in BOOLEAN, PhysicalKey(k, up)
      PROVE  Tells(adb, adb')
  <2>1. Keeps(adb, adb') \/ adb' = do_reset(adb)
    BY <1>1, <1>8, PhysicalKeyKeeps DEF PhysicalKey
  <2> QED BY <1>1, <2>1, KeepsTells, ResetTells
<1>9. CASE AllKeysUp
  <2>1. Keeps(adb, adb')
    BY <1>9, KeysUp DEF AllKeysUp
  <2> QED BY <1>1, <2>1, KeepsTells
<1>10. CASE RepeatOff
  <2>1. adb' = [adb EXCEPT !.key_down = FALSE]
    BY <1>10 DEF RepeatOff
  <2>2. Keeps(adb, adb')
    BY <1>1, <2>1 DEF Keeps, Has, Heard
  <2> QED BY <1>1, <2>2, KeepsTells
<1>11. CASE ReadC000
  BY <1>1, <1>11, C000Keeps, KeepsTells DEF ReadC000
<1>12. CASE AccessC010
  BY <1>1, <1>12, C010Keeps, KeepsTells DEF AccessC010
<1> QED BY <1>2, <1>3, <1>4, <1>5, <1>6, <1>7, <1>8, <1>9, <1>10, <1>11, <1>12
        DEF AdbNext, ControllerStep, KeyboardStep

(* adb.c's controller interrupts for nothing else than keys, answers and requests, and
   for all of these but the request that comes while an answer is read: whatever the
   number of keys that can wait, of addresses and of keys. *)
THEOREM AdbInterrupts == Spec => InterruptsAreTrue
<1>1. Inv => SrqWhileKeysWait /\ DataIntHasData
  BY DEF Inv, Sound, Asks, DataFed, Sends, MouseFed, SrqWhileKeysWait, DataIntHasData
<1>2. Inv /\ [Next]_<<adb, mouse>> => [NothingIsLost]_adb
  <2>1. SUFFICES ASSUME Inv, [Next]_<<adb, mouse>>, adb' # adb PROVE NothingIsLost
    OBVIOUS
  <2>2. AdbNext \/ MouseStep
    BY <2>1 DEF Next
  <2>3. Tells(adb, adb')
    BY <2>1, <2>2, StepTells, MouseTells DEF Inv
  <2> QED BY <2>3 DEF Tells, NothingIsLost
<1> QED BY <1>1, <1>2, AdbInvariant, PTL DEF Spec, InterruptsAreTrue

(* A read of c000 finds a character as long as one is buffered, and only a key
   repeats that the controller has seen go down and not up again, for every length
   of adb.c's type-ahead buffer. *)
THEOREM AdbKeys == Spec => []KeysAreOffered
<1>1. Inv => KeysAreOffered
  <2>1. SUFFICES ASSUME Inv PROVE KeysAreOffered
    OBVIOUS
  <2>2. adb.chars_buffered \in Nat
    BY <2>1, Fields, Constants DEF Inv, Sound
  <2>3. adb.chars_buffered > 0 => 0 \in 0..adb.chars_buffered - 1
    BY <2>2
  <2> QED BY <2>1, <2>3 DEF Inv, Sound, Offers, KeysAreOffered
<1> QED BY <1>1, AdbInvariant, PTL

(* The variables of adb.c have the types of the declarations, and the mouse's
   FIFO never outgrows its array. *)
THEOREM AdbTypes == Spec => []MouseTypeOK
<1>1. Inv => MouseTypeOK
  BY DEF Inv, Sound, MouseSound, MouseTypeOK, AdbTypeOK
<1> QED BY <1>1, AdbInvariant, PTL

(* The flag that tells the program of the mouse is set by every motion and button
   change that leaves the program behind the newest position and button, and
   dropped only when it has caught up with them, by a reset or while the mouse is
   off, for every size of the FIFO and of the step of a read. *)
THEOREM AdbMouse == Spec => FlagWhileBehind
<1>1. Inv /\ [Next]_<<adb, mouse>> =>
        [/\ CaughtUp(mouse) /\ ~CaughtUp(mouse)' /\ MouseOn(adb) => adb'.mouse_valid_data
         /\ adb.mouse_valid_data /\ ~adb'.mouse_valid_data =>
              CaughtUp(mouse)' \/ ~MouseOn(adb) \/ adb' = do_reset(adb)]_<<adb, mouse>>
  <2>1. SUFFICES ASSUME Inv, [Next]_<<adb, mouse>>, <<adb, mouse>>' # <<adb, mouse>>
                 PROVE  FlagStep(adb, adb', mouse, mouse')
    BY DEF FlagStep, CaughtUp, Pos
  <2> QED BY <2>1, Stepping
<1> QED BY <1>1, AdbInvariant, AdbTypes, PTL DEF Spec, FlagWhileBehind

-----------------------------------------------------------------------------
\* The buffer as a queue of characters.
LEMMA Characters ==
  ASSUME NEW d, Sound(d)
  PROVE  /\ Typed(d) \in Seq(Hard) /\ Len(Typed(d)) = d.chars_buffered
         /\ d.chars_buffered \in 0..MAX_KBD_BUF - 1
<1>1. /\ d.chars_buffered \in 0..MAX_KBD_BUF - 1 /\ d.chars_buffered \in Nat
      /\ d.kbd_buf \in [0..MAX_KBD_BUF - 1 -> Slot] /\ MAX_KBD_BUF \in Nat
  BY Fields, Constants DEF Sound
<1>2. ASSUME NEW i \in 1..d.chars_buffered PROVE d.kbd_buf[i - 1].key \in Hard
  <2>1. i - 1 \in 0..MAX_KBD_BUF - 1 /\ i - 1 \in 0..d.chars_buffered - 1
    BY <1>1
  <2>2. d.kbd_buf[i - 1] \in Slot /\ d.kbd_buf[i - 1].key # NoKey
    BY <1>1, <2>1 DEF Sound, Offers
  <2> QED BY <2>2 DEF Slot
<1> QED BY <1>1, <1>2 DEF Typed

LEMMA QueueStep ==
  ASSUME NEW d, Sound(d), NEW e, Sound(e), LatchStep(d, e)
  PROVE  \/ Typed(e) = Typed(d)
         \/ /\ IsPrefix(Typed(d), Typed(e)) /\ Len(Typed(e)) <= MAX_KBD_BUF - 1
            /\ Typed(e) \in Seq(Hard)
         \/ 1 <= Len(Typed(d)) /\ Typed(e) = SubSeq(Typed(d), 2, Len(Typed(d)))
<1> DEFINE p == Typed(d)
           q == Typed(e)
<1>1. /\ p \in Seq(Hard) /\ q \in Seq(Hard) /\ Len(p) = d.chars_buffered
      /\ Len(p) \in Nat /\ Len(q) \in 0..MAX_KBD_BUF - 1
  BY Characters
<1>2. ASSUME NEW k \in Hard, q = Append(p, k) PROVE IsPrefix(p, q)
  <2> HIDE DEF p, q
  <2>1. /\ Len(q) = Len(p) + 1 /\ Len(p) \in Nat
        /\ \A i \in 1..Len(p) : q[i] = p[i]
    BY <1>1, <1>2, AppendProperties
  <2>2. SubSeq(p, 1, Len(p)) = p
    BY <1>1, SubSeqFull
  <2>3. /\ SubSeq(q, 1, Len(p)) \in Seq(Hard) /\ Len(SubSeq(q, 1, Len(p))) = Len(p)
        /\ \A i \in 1..Len(p) : SubSeq(q, 1, Len(p))[i] = q[i]
    <3>1. \A i \in 1..Len(p) : q[i] \in Hard
      BY <1>1, <2>1, ElementOfSeq
    <3>2. 1 \in Int /\ Len(p) \in Int /\ Len(p) - 1 + 1 = Len(p)
      BY <2>1
    <3>3. /\ SubSeq(q, 1, Len(p)) \in Seq(Hard)
          /\ Len(SubSeq(q, 1, Len(p))) = IF 1 <= Len(p) THEN Len(p) - 1 + 1 ELSE 0
          /\ \A i \in 1..Len(p) - 1 + 1 : SubSeq(q, 1, Len(p))[i] = q[1 + i - 1]
      BY <3>1, <3>2, SubSeqProperties
    <3>4. \A i \in 1..Len(p) : 1 + i - 1 = i
      OBVIOUS
    <3> QED BY <2>1, <3>2, <3>3, <3>4
  <2>4. SubSeq(q, 1, Len(p)) = p
    BY <1>1, <2>1, <2>3, SeqEqual
  <2> QED BY <2>1, <2>2, <2>4 DEF IsPrefix
<1>3. ASSUME d.chars_buffered > 0, q = Tail(p)
      PROVE  1 <= Len(p) /\ q = SubSeq(p, 2, Len(p))
  <2> HIDE DEF p, q
  <2>1. p # <<>>
    BY <1>1, <1>3, EmptySeq
  <2> QED BY <1>1, <1>3, <2>1, TailIsSubSeq
<1>4. Len(q) <= MAX_KBD_BUF - 1
  <2>1. MAX_KBD_BUF - 1 \in Int
    BY Constants
  <2> QED BY <1>1, <2>1
<1> HIDE DEF p, q
<1>5. \/ q = p
      \/ \E k \in Hard : q = Append(p, k)
      \/ d.chars_buffered > 0 /\ q = Tail(p)
  BY DEF LatchStep, p, q
<1> QED BY <1>1, <1>2, <1>3, <1>4, <1>5 DEF p, q

(* adb.c's type-ahead buffer is a queue of characters: it implements KeyQueue,
   for every length of the buffer. *)
THEOREM AdbOrder == Spec => TypedInOrder
<1>1. Init => Latch!Init
  BY Starting DEF Latch!Init, Typed
<1>2. Inv /\ [Next]_<<adb, mouse>> => Latch!Next \/ UNCHANGED Typed(adb)
  <2>1. SUFFICES ASSUME Inv, [Next]_<<adb, mouse>>
                 PROVE  Latch!Next \/ Typed(adb') = Typed(adb)
    BY DEF Typed
  <2>2. Inv' /\ LatchStep(adb, adb')
    BY <2>1, Stepping
  <2>3. \/ Typed(adb') = Typed(adb)
        \/ /\ IsPrefix(Typed(adb), Typed(adb')) /\ Len(Typed(adb')) <= MAX_KBD_BUF - 1
           /\ Typed(adb') \in Seq(Hard)
        \/ /\ 1 <= Len(Typed(adb))
           /\ Typed(adb') = SubSeq(Typed(adb), 2, Len(Typed(adb)))
    BY <2>1, <2>2, QueueStep DEF Inv
  <2>4. CASE /\ IsPrefix(Typed(adb), Typed(adb')) /\ Len(Typed(adb')) <= MAX_KBD_BUF - 1
             /\ Typed(adb') \in Seq(Hard)
    BY <2>4 DEF Latch!Next, Latch!Press, Typed, IsPrefix, Latch!IsPrefix
  <2>5. CASE /\ 1 <= Len(Typed(adb))
             /\ Typed(adb') = SubSeq(Typed(adb), 2, Len(Typed(adb)))
    <3>1. /\ 1 <= Len(Typed(adb))
          /\ Typed(adb') = SubSeq(Typed(adb), 1 + 1, Len(Typed(adb)))
      BY <2>5
    <3> QED BY <3>1 DEF Latch!Next, Latch!Leave, Typed
  <2> QED BY <2>3, <2>4, <2>5
<1> QED BY <1>1, <1>2, AdbInvariant, PTL DEF Spec, TypedInOrder, Latch!Spec, Typed
=============================================================================
