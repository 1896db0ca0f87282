-------------------------------- MODULE Adb --------------------------------
(***************************************************************************)
(* The keyboard side of src/src/adb.c: the ADB microcontroller behind      *)
(* registers c026 and c027, the keys that wait for a "talk" command while  *)
(* the controller does not poll the keyboard itself, and the keyboard      *)
(* latch c000/c010 with its type-ahead buffer and auto-repeat.             *)
(*                                                                         *)
(* A routine is an operator on the record d of all this; one with several  *)
(* results has a set of them.  Reply bytes, character codes and times are  *)
(* left out: of a reply its length, of a character its key, and whether a  *)
(* repeat is due is any answer.  The bytes of a command's argument are     *)
(* chosen when the last of them is written, for none is looked at before.  *)
(***************************************************************************)
EXTENDS Integers, Sequences, SequencesExt, Irq

CONSTANTS
  Plain,             \* keys with a character, other than Esc
  Address,           \* ADB addresses in use; the keyboard's is 2 at first
  g_rom_version,
  MAX_ADB_KBD_REG3,  \* keys that can wait for a talk command, 16
  MAX_KBD_BUF,       \* slots of the type-ahead buffer, 8
  PatientReads       \* reads of c000 before a key is tossed, 5

ESC == 53
CTRL == 54
CMD == 55
RESET == 127
Hard == Plain \cup {ESC}             \* keys with a character
Key == Hard \cup {CTRL, CMD, RESET}

ASSUME AdbAssumption ==
  /\ Plain \subseteq (0..122) \ {ESC, CTRL, CMD}
  /\ Address \subseteq 0..15 /\ {2, 3} \subseteq Address
  /\ g_rom_version \in {1, 3}
  /\ MAX_ADB_KBD_REG3 \in Nat \ {0}
  /\ MAX_KBD_BUF \in Nat \ {0, 1}
  /\ PatientReads \in Nat

Mode == {"kbd_off", "mouse_off"}     \* bits 0 and 1 of g_adb_mode
NoKey == -1

\* A command byte; listen and talk name a device in the low four bits.
Addressed == {"listen", "talk0", "talk3"}
AdbCommand ==
  [op : {"abort", "set_modes", "clear_modes", "set_config", "sync", "write_mem",
         "read_mem", "read_modes", "read_configs", "get_version", "read_char_sets",
         "read_layouts", "reset", "send_keycodes", "cmd12"}, dev : {0}]
    \cup [op : Addressed, dev : Address]

\* Bytes that follow a command; none for most.
ArgBytes(c) ==
  CASE c.op \in {"set_modes", "clear_modes", "send_keycodes"} -> 1
    [] c.op = "set_config" -> 3
    [] c.op = "sync" -> IF g_rom_version = 1 THEN 4 ELSE 8
    [] c.op \in {"write_mem", "read_mem", "listen"} -> 2
    [] c.op = "cmd12" -> IF g_rom_version >= 3 THEN 2 ELSE 0
    [] OTHER -> 0

\* Bytes sent at once in answer to a command; none for most.
ReplyBytes(c) ==
  CASE c.op \in {"read_modes", "get_version"} -> 1
    [] c.op \in {"read_char_sets", "read_layouts"} -> 2
    [] c.op = "read_configs" -> 4
    [] OTHER -> 0

Slot == [key : Hard \cup {NoKey}, strobe : BOOLEAN]  \* strobe: bit 7

VARIABLE adb

Controller ==
  [state : {"IDLE", "IN_CMD", "SENDING_DATA"},
   cmd : AdbCommand, cmd_so_far : 0..8,
   data_pending : 0..4,
   interrupt_byte : SUBSET {"response", "desk", "srq"},   \* bits 7, 5 and 3
   c027 : SUBSET {"mouse", "data"},                       \* interrupt enables
   mode : SUBSET Mode,
   kbd_dev : Address, kbd_ctl : Address, mouse_ctl : Address,
   irq : SUBSET {"kbd_srq", "data", "mouse"},
   kbd_reg0 : Seq([key : Key, up : BOOLEAN]),
   mouse_valid_data : BOOLEAN, mouse_coord : BOOLEAN,
   down : SUBSET Key,                \* complement of g_virtual_key_up
   kbd_buf : [0..MAX_KBD_BUF - 1 -> Slot], chars_buffered : 0..MAX_KBD_BUF - 1,
   read_no_update : 0..PatientReads + 1,  \* counts no further
   key_down : BOOLEAN, hard_key_down : BOOLEAN, a2code_down : Hard \cup {NoKey},
   repeats : BOOLEAN]                \* g_adb_repeat_delay is not zero

CTRL_DOWN(d) == CTRL \in d.down
CMD_DOWN(d) == CMD \in d.down

(***************************************************************************)
(* Interrupts.  Bit 9 of the keyboard's register 3, which lets it ask for  *)
(* service, is set and out of reach of the commands.                       *)
(***************************************************************************)
adb_add_kbd_srq(d) ==
  [d EXCEPT !.interrupt_byte = d.interrupt_byte \cup {"srq"},
            !.irq = add_irq(d.irq, {"kbd_srq"})]

adb_clear_kbd_srq(d) ==
  [d EXCEPT !.interrupt_byte = d.interrupt_byte \ {"srq"},
            !.irq = remove_irq(d.irq, {"kbd_srq"})]

adb_add_data_int(d) ==
  IF "data" \in d.c027 THEN [d EXCEPT !.irq = add_irq(d.irq, {"data"})] ELSE d

adb_clear_data_int(d) == [d EXCEPT !.irq = remove_irq(d.irq, {"data"})]

adb_add_mouse_int(d) ==
  IF "mouse" \in d.c027 THEN [d EXCEPT !.irq = add_irq(d.irq, {"mouse"})] ELSE d

adb_clear_mouse_int(d) == [d EXCEPT !.irq = remove_irq(d.irq, {"mouse"})]

\* adb_reset; the keys that are down, the type-ahead buffer and the mode stay.
adb_reset(d) ==
  [adb_clear_kbd_srq(adb_clear_mouse_int(adb_clear_data_int(d))) EXCEPT
     !.c027 = {}, !.key_down = FALSE,
     !.kbd_dev = 2, !.kbd_ctl = 2, !.mouse_ctl = 3,
     !.data_pending = 0, !.interrupt_byte = {}, !.state = "IDLE",
     !.mouse_coord = FALSE, !.mouse_valid_data = FALSE, !.kbd_reg0 = <<>>]

\* The machine's reset: it clears the whole interrupt word as well.
do_reset(d) == [adb_reset(d) EXCEPT !.irq = {}]

(***************************************************************************)
(* Replies.                                                                *)
(***************************************************************************)
adb_send_bytes(d, n) ==
  adb_add_data_int([d EXCEPT !.state = "SENDING_DATA", !.data_pending = n])

adb_response_packet(d, n) ==
  adb_add_data_int([d EXCEPT !.state = "IDLE", !.data_pending = n,
                             !.interrupt_byte = d.interrupt_byte \cup {"response"}])

(***************************************************************************)
(* Keys that wait for a talk command.                                      *)
(***************************************************************************)
adb_kbd_reg0_data(d, k, up) ==
  IF Len(d.kbd_reg0) >= MAX_ADB_KBD_REG3 THEN d
  ELSE adb_add_kbd_srq([d EXCEPT !.kbd_reg0 = Append(d.kbd_reg0, [key |-> k, up |-> up])])

\* Keys the answer carries: two, but the reset key goes alone.
AnswerKeys(q) ==
  IF Len(q) < 2 THEN Len(q)
  ELSE IF q[1].key = RESET \/ q[2].key = RESET THEN 1 ELSE 2

\* What is left: each entry from the (num+1)th moves down by one place.
AfterAnswer(q) ==
  LET num == AnswerKeys(q)
  IN [i \in 1..Len(q) - num |-> IF i < num THEN q[i] ELSE q[i + 1]]

adb_kbd_talk_reg0(d) ==
  LET left == AfterAnswer(d.kbd_reg0)
      sent == adb_response_packet([d EXCEPT !.kbd_reg0 = left],
                                  IF d.kbd_reg0 = <<>> THEN 0 ELSE 2)
  IN IF left = <<>> THEN adb_clear_kbd_srq(sent) ELSE sent

(***************************************************************************)
(* Keys that the controller polls: the latch and its buffer.               *)
(***************************************************************************)
\* A character arrives; in a full buffer the last slot is written over and over.
TypeAhead(d, k) ==
  LET n == d.chars_buffered + 1
  IN [d EXCEPT !.kbd_buf[d.chars_buffered] = [key |-> k, strobe |-> TRUE],
               !.chars_buffered = IF n >= MAX_KBD_BUF THEN MAX_KBD_BUF - 1 ELSE n,
               !.key_down = d.repeats, !.hard_key_down = TRUE, !.a2code_down = k]

\* Control, command and Esc together call the desk manager.
DeskManager(d, k) ==
  IF k = ESC /\ CTRL_DOWN(d) /\ CMD_DOWN(d)
  THEN adb_add_data_int([d EXCEPT !.interrupt_byte = d.interrupt_byte \cup {"desk"}])
  ELSE d

adb_key_event(d, k, up) ==
  IF up
  THEN IF k \in Hard /\ k = d.a2code_down
       THEN [d EXCEPT !.hard_key_down = FALSE, !.key_down = FALSE] ELSE d
  ELSE LET t == DeskManager(d, k) IN IF k \in Hard THEN TypeAhead(t, k) ELSE t

adb_virtual_key_update(d, k, up) ==
  IF up = (k \notin d.down) THEN d
  ELSE adb_key_event([d EXCEPT !.down = IF up THEN d.down \ {k} ELSE d.down \cup {k}],
                     k, up)

autopoll(d) == "kbd_off" \notin d.mode /\ d.kbd_dev = d.kbd_ctl

adb_physical_key_update(d, k, up) ==
  IF ~up /\ k = RESET /\ CTRL_DOWN(d) THEN do_reset(d)
  ELSE IF autopoll(d) THEN adb_virtual_key_update(d, k, up)
  ELSE adb_kbd_reg0_data(d, k, up)

\* The host's window loses the keyboard: every key that is down goes up, in
\* the order of the key codes.
adb_all_keys_up(d) ==
  LET below(n) == {k \in d.down : k < n}
      released[n \in 0..128] ==
        IF below(n) = {} THEN d
        ELSE adb_physical_key_update(released[Max(below(n))], Max(below(n)), TRUE)
  IN released[128]

\* Mutant: the strobe is cleared after the characters have moved up.
ClearsStrobeLast(d) ==
  LET n == d.chars_buffered
      moved == [i \in DOMAIN d.kbd_buf |-> IF i + 1 < n THEN d.kbd_buf[i + 1] ELSE d.kbd_buf[i]]
  IN [d EXCEPT !.read_no_update = 0, !.kbd_buf = [moved EXCEPT ![0].strobe = FALSE],
               !.chars_buffered = IF n > 0 THEN n - 1 ELSE 0]

\* Mutant: the characters move up and are counted as before.
KeepsCount(d) ==
  LET n == d.chars_buffered
      read == [d.kbd_buf EXCEPT ![0].strobe = FALSE]
  IN [d EXCEPT !.read_no_update = 0,
               !.kbd_buf = [i \in DOMAIN read |-> IF i + 1 < n THEN read[i + 1] ELSE read[i]]]

\* The program takes the character at the head: its strobe goes, and the
\* characters behind it move up.
adb_access_c010(d) ==
  LET n == d.chars_buffered
      read == [d.kbd_buf EXCEPT ![0].strobe = FALSE]
  IN [d EXCEPT !.read_no_update = 0,
               !.kbd_buf = [i \in DOMAIN read |-> IF i + 1 < n THEN read[i + 1] ELSE read[i]],
               !.chars_buffered = IF n > 0 THEN n - 1 ELSE 0]

\* Nothing typed: perhaps a character of the host's clipboard.
Paste(d) ==
  {d} \cup {[d EXCEPT !.kbd_buf[0] = [key |-> k, strobe |-> TRUE]] : k \in Plain}

\* A program that reads the same character again and again gets the next one.
ReadAgain(d) ==
  LET n == d.read_no_update
      t == [d EXCEPT !.read_no_update = IF n > PatientReads THEN n ELSE n + 1]
  IN IF n > PatientReads /\ d.chars_buffered > 1 THEN adb_access_c010(t) ELSE t

adb_read_c000(d) ==
  IF d.kbd_buf[0].strobe THEN {ReadAgain(d)}
  ELSE IF d.key_down THEN {d, adb_key_event(d, d.a2code_down, FALSE)}
  ELSE Paste(d)

(***************************************************************************)
(* Registers c026 and c027.                                                *)
(***************************************************************************)

\* Mutant: the last byte of an answer leaves the interrupt pending.
LeavesDataInt(d) ==
  CASE d.state = "IDLE" ->
         LET t == [d EXCEPT !.interrupt_byte = IF "kbd_srq" \in d.irq THEN {"srq"} ELSE {}]
         IN IF d.data_pending = 0 THEN adb_clear_data_int(t)
            ELSE [t EXCEPT !.state = "SENDING_DATA"]
    [] d.state = "SENDING_DATA" ->
         IF d.data_pending > 1 THEN [d EXCEPT !.data_pending = d.data_pending - 1]
         ELSE [d EXCEPT !.data_pending = 0, !.state = "IDLE"]
    [] OTHER -> d

adb_read_c026(d) ==
  CASE d.state = "IDLE" ->
         LET t == [d EXCEPT !.interrupt_byte = IF "kbd_srq" \in d.irq THEN {"srq"} ELSE {}]
         IN IF d.data_pending = 0 THEN adb_clear_data_int(t)
            ELSE [t EXCEPT !.state = "SENDING_DATA"]
    [] d.state = "SENDING_DATA" ->
         IF d.data_pending > 1 THEN [d EXCEPT !.data_pending = d.data_pending - 1]
         ELSE adb_clear_data_int([d EXCEPT !.data_pending = 0, !.state = "IDLE"])
    [] OTHER -> d

\* cmd and cmd_so_far are forgotten when the command is done: nothing reads
\* them before the next one.
NoCommand == [op |-> "abort", dev |-> 0]

Start(d, c) ==
  CASE ArgBytes(c) > 0 -> [d EXCEPT !.state = "IN_CMD", !.cmd = c]
    [] ReplyBytes(c) > 0 -> adb_send_bytes(d, ReplyBytes(c))
    [] c.op = "reset" -> do_reset(d)
    [] c.op = "talk0" /\ c.dev = d.kbd_dev -> adb_kbd_talk_reg0(d)
    [] c.op = "talk3" /\ c.dev = d.kbd_dev -> adb_response_packet(d, 2)
    [] OTHER -> d

adb_set_config(d) ==
  {[d EXCEPT !.mouse_ctl = to.mouse, !.kbd_ctl = to.kbd, !.repeats = to.repeats] :
     to \in [mouse : Address, kbd : Address, repeats : BOOLEAN]}

Perform(d, c) ==
  CASE c.op = "set_modes" ->
         {[d EXCEPT !.mode = d.mode \cup bits] : bits \in SUBSET Mode}
    [] c.op = "clear_modes" ->
         {[d EXCEPT !.mode = d.mode \ bits] : bits \in SUBSET Mode}
    [] c.op = "set_config" -> adb_set_config(d)
    [] c.op = "sync" ->
         UNION {adb_set_config([d EXCEPT !.mode = bits]) : bits \in SUBSET Mode}
    [] c.op = "read_mem" -> {adb_send_bytes(d, 1)}
    [] c.op = "send_keycodes" ->
         {adb_virtual_key_update(d, k, up) : k \in Key, up \in BOOLEAN}
    [] c.op = "listen" /\ c.dev = d.kbd_dev ->
         {d} \cup {[d EXCEPT !.kbd_dev = a] : a \in Address}
    [] OTHER -> {d}

do_adb_cmd(d) ==
  Perform([d EXCEPT !.state = "IDLE", !.cmd = NoCommand, !.cmd_so_far = 0], d.cmd)

adb_write_c027(d, enables) ==
  LET t == [d EXCEPT !.c027 = enables]
      m == IF "mouse" \in d.c027 \ enables THEN adb_clear_mouse_int(t) ELSE t
  IN IF "data" \in d.c027 \ enables THEN adb_clear_data_int(m) ELSE m

(***************************************************************************)
(* Actions: the program's accesses, and the host's keyboard.               *)
(***************************************************************************)
AdbInit ==
  adb = [state |-> "IDLE", cmd |-> NoCommand, cmd_so_far |-> 0, data_pending |-> 0,
         interrupt_byte |-> {}, c027 |-> {}, mode |-> {},
         kbd_dev |-> 2, kbd_ctl |-> 2, mouse_ctl |-> 3, irq |-> {}, kbd_reg0 |-> <<>>,
         mouse_valid_data |-> FALSE, mouse_coord |-> FALSE, down |-> {},
         kbd_buf |-> [i \in 0..MAX_KBD_BUF - 1 |-> [key |-> NoKey, strobe |-> FALSE]],
         chars_buffered |-> 0, read_no_update |-> 0, key_down |-> FALSE,
         hard_key_down |-> FALSE, a2code_down |-> NoKey, repeats |-> TRUE]

StartCommand(c) == adb.state = "IDLE" /\ adb' = Start(adb, c)

ArgumentByte ==
  /\ adb.state = "IN_CMD"
  /\ IF adb.cmd_so_far + 1 < ArgBytes(adb.cmd)
     THEN adb' = [adb EXCEPT !.cmd_so_far = adb.cmd_so_far + 1]
     ELSE adb' \in do_adb_cmd(adb)

\* A command written over an answer: the answer stays where it is.
WriteOverAnswer ==
  adb.state = "SENDING_DATA" /\ adb' = [adb EXCEPT !.state = "IDLE"]

ReadC026 == adb' = adb_read_c026(adb)
WriteC027(enables) == adb' = adb_write_c027(adb, enables)
ReadC000 == adb' \in adb_read_c000(adb)
AccessC010 == adb' = adb_access_c010(adb)
PhysicalKey(k, up) == adb' = adb_physical_key_update(adb, k, up)
AllKeysUp == adb' = adb_all_keys_up(adb)
RepeatOff == adb' = [adb EXCEPT !.key_down = FALSE]   \* adb_kbd_repeat_off
DoReset == adb' = do_reset(adb)

ControllerStep ==
  \/ \E c \in AdbCommand : StartCommand(c)
  \/ ArgumentByte
  \/ WriteOverAnswer
  \/ ReadC026
  \/ \E enables \in SUBSET {"mouse", "data"} : WriteC027(enables)
  \/ DoReset

KeyboardStep ==
  \/ \E k \in Key, up \in BOOLEAN : PhysicalKey(k, up)
  \/ AllKeysUp
  \/ RepeatOff
  \/ ReadC000
  \/ AccessC010

AdbNext == ControllerStep \/ KeyboardStep

(***************************************************************************)
(* Properties.                                                             *)
(***************************************************************************)
(* The fields of the record have the types of Controller. *)
AdbTypeOK == adb \in Controller

(* While keys wait for a talk command, and only then, the keyboard asks for
   service, in the interrupt word and in the byte that c026 shows: not one of
   the reads that clear that byte, commands, resets and releases of all keys
   leaves a key behind that nobody is told of. *)
SrqWhileKeysWait ==
  /\ adb.kbd_reg0 # <<>> <=> "kbd_srq" \in adb.irq
  /\ "kbd_srq" \in adb.irq <=> "srq" \in adb.interrupt_byte

(* A data interrupt always finds something to read in c026, and the controller
   is in its sending state only with bytes to send: answers that overtake each
   other, commands written over an answer and resets leave no interrupt that no
   read can end. *)
DataIntHasData ==
  /\ "data" \in adb.irq =>
       "data" \in adb.c027 /\ (adb.data_pending > 0 \/ adb.interrupt_byte # {})
  /\ adb.state = "SENDING_DATA" => adb.data_pending > 0
  /\ "mouse" \in adb.irq => "mouse" \in adb.c027 /\ adb.mouse_valid_data

(* An answer or a request of the desk manager that comes in a step raises the
   data interrupt, if it is enabled; and while it stays enabled, the interrupt
   goes only when no byte of an answer is left, and then for good: what c026 still
   shows is not a request, except where the last byte of an answer took along the
   interrupt of a request that came while it was read (adb.c:614-618). *)
Came(d, e) ==
  e.data_pending > d.data_pending \/ {"response", "desk"} \cap (e.interrupt_byte \ d.interrupt_byte) # {}
Told(d, e) ==
  /\ Came(d, e) => "data" \in e.irq
  /\ "data" \in d.irq /\ "data" \notin e.irq =>
       e.data_pending = 0 /\ (d.data_pending = 0 => "desk" \notin e.interrupt_byte)
NothingIsLost == "data" \in adb'.c027 => Told(adb, adb')

(* The controller interrupts for nothing else than keys, answers and requests, and
   for these it does, whatever reads, commands, desk manager requests and resets
   come between: keys that wait always ask for service, and the data interrupt of
   what has come stays until it is read, but for the request that NothingIsLost
   excepts, which the code does lose. *)
InterruptsAreTrue ==
  [](SrqWhileKeysWait /\ DataIntHasData) /\ [][NothingIsLost]_adb

(* A program that looks at c000 sees a character as long as one is buffered, and
   the key that repeats is one the controller has down, in what it keeps of the
   keyboard (g_virtual_key_up): a strobe cleared or tossed, a full buffer, pasted
   text, resets, keys released while another one repeats or by the loss of the
   window never hide a typed key, or leave one repeating that the controller has
   seen go up.  It does not see a key go up while it does not poll the keyboard
   (adb.c:1851-1853): such a key stays down for it, and repeats on. *)
KeysAreOffered ==
  /\ adb.chars_buffered > 0 => adb.kbd_buf[0].strobe
  /\ adb.key_down => adb.hard_key_down
  /\ adb.hard_key_down => adb.a2code_down \in adb.down

Latch == INSTANCE KeyQueue
  WITH Keys <- Hard, N <- MAX_KBD_BUF - 1, Take <- {1},
       q <- [i \in 1..adb.chars_buffered |-> adb.kbd_buf[i - 1].key]

(* The type-ahead buffer is a queue of MAX_KBD_BUF - 1 characters. *)
TypedInOrder == Latch!Spec

Waiting == INSTANCE KeyQueue
  WITH Keys <- [key : Key, up : BOOLEAN], N <- MAX_ADB_KBD_REG3, Take <- {1, 2},
       q <- adb.kbd_reg0

(* The keys for the talk command are a queue as well: keys are tossed only when
   it is full.  They are not: an answer with two keys moves the others down by
   one place only. *)
TalkInOrder == Waiting!Spec
=============================================================================
