# A TLA+ model of GSport

GSport emulates an Apple IIgs.  It is one loop (`run_prog`, `src/src/sim65816.c`): the
emulated CPU runs up to the first entry of a list of timed events, then every event that
is due is popped and its handler called.  While the CPU runs, its accesses to the
registers at c000-c0ff call the emulated devices (`io_read`, `io_write`,
`src/src/moremem.c`).  Sixty times per emulated second one of the events, `update_60hz`,
also lets the devices talk to the host: sockets, printers, sound, disk images.

So there are no threads, but there is concurrency: three parties (CPU, event list, host)
act on the same device state in an order nobody controls, and most of the state is spread
over flags that must agree with one another (a flag in a device and an entry in the event
list, a request in a device and a bit of `g_irq_pending`).  That agreement is what this
project states, checks and proves.

## Inventory

| Component | State | Operations | Hard part | Properties |
|---|---|---|---|---|
| Serial chip, `scc.c` | `scc_stat[2]`: registers, rings, FIFO, requests, event flags | WR0-WR15, RR0-RR15, data in/out, three timed events, 60 Hz update, resets | CPU, events and host drivers interleave on one port; ports share an enable | flags = event list, no lost wake-up, byte order, interrupt line |
| LocalTalk link, `scc_llap.c` | ring, FIFO, end-of-frame flag | a packet in, a packet out | packets cross the chip byte by byte | one packet at a time |
| Modem and telnet, `scc_socket_driver.c` | sockets, carrier, ring count, command line, option masks | VBL, received and written bytes, AT commands, hang-up | every host call may fail; rings, commands, escape and the other end race | sockets = state, no call in limbo, both ends agree on options |
| Interrupt word, `sim65816.c` | `g_irq_pending` | `add_irq`, `remove_irq` | early return of `add_irq` | requests of a device = its bits |
| Event list and main loop, `sim65816.c` | `g_event_start`, `g_event_free`, `g_fcycles_stop` | add, remove, pop, enter the CPU | bounded, linked by hand, handlers re-enter it | no node lost, list in order, late requests put off, clock without drift |
| Speed, `sim65816.c`, `moremem.c` | c036, c059-c05d, `g_limit_speed`, the motor | writes, disk activity, keyboard | chosen outside of the engine, changed inside | the engine never runs on at an old speed |
| CPU, `engine_c.c`, `instable.h`, ... | registers, two flags kept outside of psr, which of two loops runs | 256 opcodes in five modes, interrupts, WAI, STP | several exits of the loop, each with its own check; block moves cut in the middle | interrupts are seen and leave no trace, operands, stack, adder |
| Memory map, `moremem.c` | switches and page tables | c000-c00b, c02d, c035, c036, c054-c057, c068, c080-c08f, breakpoints | incremental fix-ups | tables = function of switches, bank 0's auxiliary memory = bank 1 |
| VGC and Mega II interrupts, `sim65816.c`, `moremem.c` | c023, c041, c046, `g_scan_int_events` | c023/c032/c041/c047, scan, VBL and 60 Hz events | a scan event outlives the line that asked for it | one scan event, status = interrupt, interrupts come again |
| Sound, `sound.c` | 32 oscillators, interrupt queue | c03c-c03f, end events | a control write plays the chip in its middle; end event versus control write | events = flags, halt bit = silent, interrupts queue up |
| ADB, `adb.c` | command state, keys for the talk command, keyboard latch, mouse FIFO | c000, c010, c024-c027, host keys and mouse | answers, requests and keys share one status byte; three paths for a key | service asked for while keys wait, interrupts for what has come and nothing else, keys in order, flag until the newest motion is read |
| Disks, `iwm.c`, `config.c` | surfaces, dirty marks, heads, motor, images | c0e0-c0ef, c031, VBL, insert, eject | marks in three places; nibbles of three widths in a track of fixed length; decoding may fail | a dirty track goes to its file, clean track = file |
| SmartPort, `smartport.c` | images of slot 7 | c70a, c70d, c700 | three paths to one file | locked images stay as they are |
| Clock, `clock.c` | serial protocol, battery RAM, boot slot | c033, c034 | half-finished commands | the byte that is read is the one named |
| Ethernet card, `tfe/` | packet page, transmit and receive state, filter | c0b0-c0bf, frames, resets | a word is two accesses, each acts; any step may be repeated or cut | sends what was written, reads what came, takes what was asked for before and after a reset |
| Video, `video.c`, `superhires.h` | mode of each line, marks of changed memory, five images with the mode each line was drawn in, edges and rows to copy | switches, writes to the screen, an event every line or eighth line, 60 Hz update | who takes a mark away; images that share marks; updates that lag | the window shows what the beam showed, but for some changes in mid-screen |
| AppleTalk bridge, printers, panel, debugger, OS drivers | | | data paths or I/O | not modelled |

How they interact: a device calls `add_irq`/`remove_irq` on the shared interrupt word and
`add_event_*`/`remove_event_*` on the event list; the list calls back the device's handler;
`update_60hz` calls `scc_update`, `sound_update`, `iwm_vbl_update`, `clock_update` and the
counters of the video chip; `do_reset` calls each device's reset and then clears the
interrupt word, but leaves the event list alone.  A handler that changes what `run_prog`
has decided before it entered the engine (the next event, the speed) sets a halt so that
the engine comes back.

## Plan

Done, in this order: `Scc` with `SccSafety`, `SerialFifo`, `SccProof`; `EventList` refining
`Timers`; `Vgc`; `Doc` refining `DocQueue`; `Adb` and `Mouse` refining `KeyQueue`; `MemMap`;
the processor (`CpuAlu`, `CpuModes`, `CpuOps`, `Engine`); the disks (`Nibble`, `Disks`, `Iwm`,
`SmartPort`) with `Speed` and `Clock`; the Ethernet card (`Nic`, `Tfe`) refining `Ethernet`;
`Modem`; the MC modules that put parts of one kind side by side (`MCTime`, `MCMachine`,
`MCDisk`, `MCSerial`); and the proofs: `AdbProof`, `DocProof`, `TimeProof` (the event list and
the video interrupts), `DiskProof`, `MapProof`, `EngineProof`, over the two facts about
induction in `NatFacts`; `Video`, beside the interrupts in `MCTime`; and the third part of
`SccProof`, about `Modem`.

What is left:

1. Proofs about `Tfe` (`FramesFit`, then `TakesWanted` and `Promise`) and of `SidesAgree`.
2. The AppleTalk bridge (`atbridge/`): node numbers and AARP.
3. A composition of the devices' events with `EventList`'s capacity: at most two ports of
   three events, 32 oscillators, one scan, one VBL, one 60 Hz event and the video updates in
   64 nodes.

## Module by module

Common conventions.  A C routine is an operator on a record of all the state it may
change, and keeps its name; a routine with several results (a host's answer, the next
line, what is played) has a set of them.  An action applies the whole routine that the CPU
access, the event or the host call runs.  `halt_printf`, the program's assertion (it stops
the emulator in its debugger), is a set of complaints where a property is about it.
`Irq` holds `add_irq` and `remove_irq` on sets of bits, with `add_irq`'s early return.
Operators marked "Mutant" are deliberate mistakes; `PROJECT.json` lists which property each
of them breaks.

An MC module that checks several parts has a `focus`, chosen in the initial state and never
changed: each behaviour works on one part at length while the others rest.  Parts under
different foci share no state that matters to the properties, or (the disks) share the
actions and differ only in the program that drives them.

### Scc, SccSafety, SerialFifo (`scc.c`, `scc_llap.c`)

| State | Code |
|---|---|
| `scc[p]` | `scc_stat[p]`; `event_pending` gathers `br_`, `tx_`, `rx_event_pending`, `wantint` the `wantint_*` flags, `irq_pending` the bits of RR3; `in_buf` is the content of the receive ring; the transmit ring keeps its two indices |
| `mie` | bit 3 of `scc_stat[0].reg[9]` |
| `g_irq_pending` | the six serial bits |
| `events` | how many `EV_SCC` entries of each type are in the event list |

CPU actions are the register writes (`WriteWr0` ... `WriteWrOther`), the data writes
(`WriteData`, `WriteWr8`) and the reads (`ReadData`, `ReadReg`); the event list does
`do_scc_event`; the host comes in through `scc_update` and through what `HostInput` and
`Echo` let a driver answer.  `do_reset` is the machine's reset: the event list survives it.
Baud rates, event times, the LAD counter, the `eom` bit and register bits that nothing
reads are left out; any event in the list may be the next one.

`SerialFifo` is what software is promised: one queue of bytes per port.  Ring plus FIFO
implement it (`BytesInOrder`, checked by `scc_chip` and proved in `SccProof`).

### EventList, Timers, TimeProof (`sim65816.c`, `engine_c.c`)

`next`, `dcycs`, `type` are the nodes of `g_event_list`, with the two heads as nodes of
their own.  Times are counted from the current cycle, so `k` cycles subtract `k` from all
of them.  `Enter`, `Instr` and `Leave` are the CPU's run between two visits of `run_prog`'s
inner loop, `Pop` is one round of that loop with the handler.  Handlers and instructions
use the list as the devices do: each keeps at most one event of a type, which is what
`Scc`, `Vgc` and `Doc` show of themselves (`EventsMatch`, `EventsFit`, `BooksAgree`).  An
instruction may ask for any time from the last VBL on, so for times before the CPU was entered:
`add_event_device` has the clamps of `add_event_scc` and `add_event_doc`
(`src/src/sim65816.c:1499`, `1513`), `add_event_entry` the complaint about a time that is
past with its exception for scan lines (1412), which do come that late
(`check_scan_line_int`, 2466-2470).  `ListIsSound` says that the clamps leave the complaint nothing to
see, that the links are whole and that the list is in order; its mutant is a device without
its clamp.  The events of the vertical blank and of the screen's updates have no clamp; they
are asked for ahead, so that none would change them.
Nodes on the free list have their time and type forgotten: nothing reads them.

`Timers` knows no list: a set of armed timers that go off in order, none overdue while an
instruction starts, and a clock without drift.  `TimersInOrder` is the refinement.

### Vgc, TimeProof (`sim65816.c`, `moremem.c`)

One record `vgc`: the registers c023, c041, c046 as sets of bits, the four bits of
`g_irq_pending`, `g_scan_int_events`, the super hires switch, the lines whose control
byte asks for an interrupt, the events in the list (`scan_ev`, `vbl_ev`), the beam's line
since the last 60 Hz event and the two counters.  `check_for_one_event_type`, the
program's own check before it adds a scan event, compares types including the line number
and so sees only line 0; `OneScanEvent` is what that check means.  Worth knowing, and part
of the model: acknowledging a scan line interrupt while the beam is still on the line sets
it off again; c046's status survives a reset and re-enabling in c041 asks for nothing until
the next event; the test of `g_scan_int_events` in `update_60hz` is redundant
(`EventsAhead`).

### Doc, DocQueue, DocProof (`sound.c`)

One record `doc`: of each oscillator the halt, mode and interrupt bits of its control
register, `running`, `event`, `has_irq_pending`, and how many `EV_DOC_INT` entries the
event list holds for it; `g_num_osc_interrupting`, the number of enabled oscillators, the
oscillator shown in register e0, the chip's bit of `g_irq_pending`, and the complaints.
Samples, volumes and positions are left out: an oscillator that plays may reach the end of
its wave, by a zero byte or at its size, in any call of `sound_play`.  `sound_play` keeps the
order of the code: the oscillators in turn, again and again, with those that an ending
starts.  `InTurn` is a loop over oscillators each of whose rounds has several results.
A reset may leave an oscillator playing: the partner of a swap pair, started while the
other is halted.

`DocQueue` is the promise: oscillators are served first come, first served, e0 shows the
head of the queue and the interrupt line is up exactly while it is not empty.

Worth knowing, and part of the model: `sound_reset` asserts that halting an oscillator takes
its interrupt away (`src/src/sound.c:425`), which fails when halting plays the chip up to now and the
oscillator ends in between.  The model has the assertion as a complaint (`ResetOsc`) that it reaches;
no property is about it, since the reset puts right what it found (`BooksAgree`).

### Adb, Mouse, KeyQueue, AdbProof (`adb.c`)

| State | Code |
|---|---|
| `state`, `cmd`, `cmd_so_far`, `data_pending`, `interrupt_byte` | the microcontroller behind c026: `g_adb_state`, `g_adb_cmd` ..., of an answer its length only |
| `c027`, `irq`, `mouse_valid_data`, `mouse_coord` | interrupt enables and the flags c027 shows; the three ADB bits of `g_irq_pending` |
| `mode`, `kbd_dev`, `kbd_ctl`, `mouse_ctl` | `g_adb_mode` and the addresses: they decide whether the controller polls |
| `kbd_reg0` | keys that wait for a talk command while it does not |
| `down`, `kbd_buf`, `chars_buffered`, `read_no_update`, `key_down`, `hard_key_down`, `a2code_down` | the latch c000/c010 behind the polled keyboard, its type-ahead buffer and auto-repeat |
| `mouse` | `g_mouse_fifo`, newest entry first as in the code, and where the program believes the mouse to be |

The CPU writes and reads c026 (`StartCommand`, `ArgumentByte`, `WriteOverAnswer`,
`ReadC026`), c027, c000, c010 and c024; the host calls `PhysicalKey`, `AllKeysUp`,
`UpdateMouse` and `WarpMouse`.  The bytes of a command's argument are chosen when the last
one is written, since nothing looks at them before.  Characters stand for their key;
whether a repeat is due, the clipboard has a character, or a mouse entry is older than half
a second is any answer.  Left out: the modifier bits of c025 other than control and command,
function keys and the keypad joystick, the emulator's own panel, and bit 9 of the keyboard's
register 3, which the commands leave set.

`MCAdb` looks at the device from four sides, chosen at the start and never changed: its
commands, with keys only while the controller does not poll (`controls`); characters and
the latch (`types`); keys pressed together, polled or not, with the talk command (`chords`);
the mouse.  The
composition of all four is `Mouse!Spec`; the parts meet only in the shared status byte and
the addresses, which every side has.

`KeyQueue` is the promise of both key paths: a bounded queue whose oldest entries the
program takes.  The latch keeps it (`TypedInOrder`), the keys for the talk command do not
(`TalkInOrder`, see Findings).

`InterruptsAreTrue` has two sides.  No interrupt without a cause, in every state: service is asked for exactly
while keys wait, and a data interrupt has something to read.  And no cause without its
interrupt, in every step (`NothingIsLost`): a new answer or request raises it, if it is
enabled, and it goes only when no byte of an answer is left and no request is in c026.  One
exception is in the code and in the property: a desk manager request that comes while an answer is read
loses its interrupt to the answer's last byte, which clears it for both
(`src/src/adb.c:614`); its bit in c026 stays.  `KeysAreOffered` is about what the controller
knows of the keyboard.  It does not look at a key that comes up while it does not poll
(`src/src/adb.c:1851`), so that a key which went down before goes on repeating: such a key
counts as down.  `FlagWhileBehind` is about the newest position and button; clicks in between
may be lost (see Findings).

### MemMap, MapProof (`moremem.c`, `dis.c`)

One record `map`: the state register c068, the switches of `g_cur_a2_stat` that move memory,
the shadow register c035, the write protection of the language card, the user's slots
(c02d), bit 4 of c036, the breakpoints, and the two halves of `page_info_rd_wr`, one for
reads and one for writes.  An entry says which memory a page leads to and which flag bits
its pointer carries.  Pages that every routine treats alike are one area; the slots keep
their single pages.  There is one operator for each `fixup_` routine, `set_statereg`,
`update_shadow_reg` and `setup_pageinfo`, in the code's order, and one action for each
group of soft switches.  `TablesFollowSwitches` compares what the increments left with
`setup_pageinfo`, the computation from nothing, in every reachable state.  A fix-up
rewrites entries without their breakpoint flags, so that a caller that forgets
`fixup_brks` shows as well.

Worth knowing, and left out of the property: the odd banks from 3 up are shadowed while
bit 4 of c036 asks for it and c035 does not inhibit super hires, but only a change of c036
(or a reset) looks at them; a later write of c035 leaves them as they are.  The option that
shadows text page 2 on ROM 01 is taken as fixed: the configuration panel changes it without
a fix-up.

### CpuAlu, CpuModes, CpuOps, Engine, EngineProof (`engine_c.c`, `instable.h`, `defs_instr.h`, `op_routs.h`, `size_tab.h`)

`CpuAlu` has the adder in its four forms and `psr` as a record of flags; `CpuModes` memory,
stack and the addressing modes; `CpuOps` the 256 opcodes, a row of sixteen to an operator;
`Engine` the loop of `enter_engine`, `take_irq`, the operands at the end of a page,
`get_remaining_operands` with `size_tab`, and the reset.

| State | Code |
|---|---|
| `cpu` | `engine` between runs, the locals of `enter_engine` inside: `neg` and `zero` are the two flags kept outside of `psr`, `acc8` says which of the two compiled loops runs |
| `mem` | the bytes that were written; all memory is RAM |
| `irq`, `wait`, `stp` | `g_irq_pending` # 0, `g_wait_pending`, `g_stp_pending` |
| `inside`, `stop` | the program is in the engine; `fcycles` is past `g_fcycles_stop` |

An instruction is one action (`Executes`); a block move is one action for each time the
cycles are up, after any of the numbers of bytes in `Bursts`.  Cycles are not counted: they
may be up after any instruction.

Worth knowing, and part of the model: `BRK` and `COP` push `psr` without the cached N and
Z; the write cycle of indexed absolute instructions that read and write wraps in the data
bank where the read crosses into the next one; an interrupt at a `WAI` steps over it with a
plain addition to `kpc`; in emulation the program bank is not pushed, and JSL, PHD and
JSR (abs,X) at the bottom of page 1 leave it by the one byte that RTL, PLD and RTS do not
come back from (`StackRoundTrip` leaves those out, `InterruptIsTransparent` a WAI in the last byte
of a bank and, in emulation, the banks above 0); MVN and MVP with 8-bit index registers
halt the emulator.

### Nibble, Disks, Iwm, SmartPort, DiskProof (`iwm.c`, `iwm_35_525.h`, `smartport.c`, `config.c`)

| State | Code |
|---|---|
| `drv[d]` | the `Disk` record of a drive: image, name, partition, write protection, dirty mark, head and surfaces; `trks[q].nib` is the nibble area as pairs of bits and value, `dirty` `track_dirty`, `overflow` `overflow_size` |
| `iwm`, `c031`, `bus` | the controller's switches, modes and motors; the drive selection; the byte last read |
| `emul` | `g_fast_disk_emul`, `g_slow_525_emul_wr`, the engine's knowledge of the motor |
| `files` | the host's files, by track or block |
| `halt`, `gone` | HALT_EVENT; `exit()` was called |
| `buffer`, `answer` | one block of memory and the registers a SmartPort call leaves |

`Nibble` translates the codes themselves: 6-and-2 with its checksum for 5.25 inch sectors,
the three running checksums of 3.5 inch ones, and the decoders with every test they make;
`disk_nib_out` drops and adds places to make up for nibbles of 9 and 10 bits.  `Disks` has
insertion, ejection and the write-back, `Iwm` the sixteen switches, heads, motor and the
VBL, `SmartPort` the calls of slot 7.  Sizes are constants: the tables of the code are cut
down to the sectors an instance has.

Worth knowing, and part of the model: stepping a 3.5 inch head outwards from track 1 loses
the side; `vol_num` is not reset by an insertion; a failed open leaves the old tracks in
memory behind a drive without a file; a failing `fwrite` is only printed, and the track is
no longer dirty (`src/src/iwm.c:322`; an image that `refuses` is one whose file the host does not write, and
`DirtyGoesToTheFile` excepts it: the data is lost; `fseek`, which fails only outside of a file, does not fail here); a flush clears the bits left over from the last write; a slow write of sync
nibbles counts bits without limit; a call for the unit behind the last reads the record behind the
array (`Wild`); half a step away from a track a write halts the emulator, where the
manual (`src/doc/web/src/site/apt/operating.apt:371`) only warns of lost writes; and
`g_orig_boot_slot` is never assigned, so that the slot put back after a boot from a dropped
image is always 0.

### Speed, Clock, DiskProof (`sim65816.c`, `moremem.c`, `clock.c`)

`Speed` says how `run_prog` chooses the engine's multiplier and which handlers change a
switch it depends on; c058 and c059 are the only ones that do so without stopping the
engine, so `run.follow` keeps what it was told.  `Clock` is `do_clock_data` with its five
modes, the battery RAM with its checksum, and the boot slot of one boot, which is dropped
by the drive that stops and by a boot from slot 7.

### Nic, Tfe, Ethernet (`tfe/tfe.c`, `tfe/tfearch.c`, `atbridge/pcap_delay.c`)

`Nic` is the host: its packet library and adapters, the open one, the frames that wait and
the frames sent.  `Tfe` is the card: `packetpage` the bytes written since a reset, `io` the
words of the sixteen ports, `tx` and `rx` the two state machines with their buffers, `filter`
what the receiver takes.  `tfe_read` and `tfe_store` are called for one byte at a time and
act each time, as in the code.  `Ethernet` is the promise to a driver that moves words in
the order of the data sheet: what is sent is what was written after command, length and a
look at the ready bit; what is read is status, length and bytes of a frame, each once.

Worth knowing, and part of the model: a store combines the byte with whatever the other
byte of the port held; only a length from 4 to 1518 is taken; reading RXEVENT while a frame
is half read overwrites it; the Skip bit resets the transmitter and leaves the receive buffer; a change of
either enable in LINECTL resets both halves; hash mask, address and filter flags survive a
reset although the registers do not (`tfe_recv_control` is set to 5, its flags are
kept, `src/src/tfe/tfe.c:443` against the comment at line 85), and a store of 5 to RXCTL changes
nothing then.  `TakesWanted` therefore compares the frames with what the driver has asked
for (`setup` in `MCTfe`, kept from its stores) and not with what the registers show; *again* has the
stores, resets and frames in one program.  A bit of the hash filter from 32 on
is a shift that C leaves open (`src/src/tfe/tfe.c:689`), of which the property says nothing.  The multicast test looks at
bit 7 of the address; a failing `pcap_dispatch` counts as a frame of garbage
(`src/src/tfe/tfearch.c:340`); without its packet library the card gives up once and for all
(`tfe_cannot_use`); `tfe_deactivate` does nothing and
`tfe_shutdown` is never called.  Outside of the run's driver: reading 0x10c or 0x10e fails
an assertion, and stores of odd bytes alone move the transmit buffer two bytes each.

### Video (`video.c`, `superhires.h`)

`video` is the record of the variables of `video.c` with screen memory as the code sees it:
`changed` is `slow_mem_changed`, `memory` the chunks of eight bytes that hold another value
than at first, `new_stat`, `cur_all` and `line_stat` the three arrays of modes, `parsed` the
`g_mode_*` arrays, `line_kimage`, `left`, `right`, `buffer_changed`, `full_refresh` what the
next copying needs.  `beam` counts lines.  An image's pixel is the tuple of everything its
drawing routine reads for it (`Text40` ... `SuperHires`, one for each routine), so that a
pixel is right when it was drawn from the right mode, bytes and colours; fonts and
tables of dots are not in it.  `seen` and `shown` are not the code's: the switches at the
moment the beam begins a line, and what the line has to look like then.  Each frame
ends with `video_push_kimages`, and `wrong` are the lines on which the window differs.

A window that is right after every frame, whatever the program does, is more than the code gives.
`ScreenIsCurrent` says when it does: as long as the program has made no *hasty* change.  Not hasty is any change
in the blank, a change between text or lores and text or lores before the first line of a row,
one between two kinds of hires before any line on a host that updates every line, and writing to
screen memory at any moment (`InTime`).  The run's program switches and writes when it likes,
and is followed up to its first hasty change.  What goes wrong behind one:

- Text and lores draw a row to its end from whatever line an update begins at, in the mode of that line.
  A program that changes the style of text in mid-row (or to hires, with flashing text in the row) leaves lines of
  the old style.
- `mask = 1 << (line >> 3)` (`src/src/video.c:2838`) uses the line the update goes to, not the
  line whose mode changed (`i`): with updates of eight lines a page that comes back in mid-row is
  not copied.  At the end of a frame the shift is by 32, which C leaves open; both outcomes
  are modelled (`shift_wraps`).
- `must_reparse` is reset after the call that a line of another mode brings about, although it was
  set for that line too (`src/src/video.c:2859`): what only the last line of an update changes may be forgotten.
- A palette rewritten in mid-frame under one number leaves its last value in the colour array
  for all of the lines.
- Hires and super hires lines in one screen take each other's marks, also in a later frame: a change from super
  hires in mid-screen is hasty even where it is drawn right.

### Modem (`scc_socket_driver.c`)

`modem` is the driver's part of `scc_stat`: sockets, state, carrier, rings and when the next
is due, command line, escape count, telnet parser and the four masks, and what waits in the
transmit ring.  `host` is external: open sockets and whoever is at the other end, with what
is on the way and what he believes of each option.  An action is a VBL, a byte read or
written by the emulated software, a reset, or something the other end does; `fault` names a
host call that fails in it.

Worth knowing, and part of the model: a full host buffer (`send` returning -1) drops the
connection; a call that is answered at once, on the port without a modem or with S0=1,
sends no telnet requests ("and send some telnet codes" comes behind the first ring,
`src/src/scc_socket_driver.c:427`, and only ATA, ATD and later rings send them), so that they stay open
and the other end's own are taken for answers: `at_once` marks such a call, of which `SidesAgree` claims
the options alone that the driver does not ask for; the count of `+` survives a closed connection; a reset of the
machine clears the carrier while the call goes on, so that ATO is refused; bytes left in
the ring become command text after a hang-up; after 36 minutes the count of cycles
overflows an `int` and rings come with every VBL, so that a call is dropped within 4/60 of
a second (`Late`; the manual, `src/doc/web/src/site/apt/operating.apt:528`, speaks of
rings).  Left out of the run's faults: a failing `setsockopt`, and a failing `fcntl` on an
accepted call, which both leak the new socket.  A full transmit ring loses telnet replies
and the other end's 0xff is not doubled; the run's ring is long enough for the first, and
data are not looked at for the second.

## Runs

| Run | Instance | What it shows |
|---|---|---|
| `scc_chip` | one port. *registers*: all of WR9 (its resets reach both ports), transmit, receive and zero-count interrupts. *receive*: two byte values, ring of 3 slots, driver bursts of 1 byte over the space that is left | `EventsMatch`, `NeverStuck`, `RxIntHasData`, `IrqLine`; `BytesInOrder`: refinement of `SerialFifo`; `ByteReachesFifo`, `TransmitterFrees` |
| `serial_hosts` | *link*: LocalTalk packets of 3 and 4 bytes. *calls*, *escape*, *telnet*: a modem with two rings or an answer at the first, commands of two letters, seven failures of the host, two options | `PacketsKeepApart`; `LineIsWhole`, `SidesAgree`; `RingingEnds` |
| `mc_time` | *list*: four nodes, three types, period 5, additions for any time from the last VBL on. *vgc*: three lines, frame of four, two-frame quarter and second. *text*, *hires*, *kinds*, *colours*: nine lines in three rows, the last of them for super hires only; two or three switches, writes or redrawings, at any line, up to the first hasty change | `ListIsSound`; `TimersInOrder`: refinement of `Timers`; `EventsFit`, `C023Irq`; `ScanOnLine`; `TicksComeAgain` of both; `ScreenIsCurrent` |
| `doc_chip` | one pair, four modes, one or both enabled, resets; beside it six oscillators that ask and withdraw in every order | `BooksAgree`; `RingQueuesUp`: refinement of `DocQueue` |
| `adb_adb` | the four sides of `MCAdb`; buffer of 3, two keys waiting for a talk command, FIFO of 3, a mouse on six places with the clamp at one step | `InterruptsAreTrue`, `KeysAreOffered`; `TypedInOrder`: refinement of `KeyQueue`; `FlagWhileBehind` |
| `machine_cpu` | *cpu*: each opcode with two operands at three places in five modes, all words of two over eleven mode changes and one of four instructions that use the stack, five programs that are interrupted anywhere, all sums of bytes. *screen*, *cards*: every switch of the screen, or of slots (two of seven) and language card, up to two bits of c035 at a time, breakpoints on one page that all of them move | `EngineShape`, `InterruptsAreSeen`, `OperandsFit`, `StackRoundTrip`, `InterruptsLeaveNoTrace`, `AdderIsRight`; `TablesAreRight` |
| `iwm_disk` | two tracks of one sector of one byte (5.25 inch) or two (3.5 inch), seven images, three units; thirteen programs: write, seek, slow and late reads and writes, swaps, a host that refuses to write, SmartPort, speed and ZipGS switches, clock commands, boot | `DisksAreSound`, `SpeedIsCurrent`; `DirtyGoesToTheFile`, `LockedStaysAsItIs`, `CommandNamesTheByte`; `DirtyGoesOut` |
| `tfe_net` | three hosts, frames of 14 and 15 bytes to five addresses, two waiting, one sent; programs that send, skip, receive, filter, fail to receive, reset, and filter before and after resets (*again*) | `FramesFit`; `Promise`: refinement of `Ethernet`; `TakesWanted` |
| `doc_forgotten`, `adb_talk`, `disk_over`, `serial_end` | small | violated: see Findings |

Why the bounds are enough.  The FIFO has its real size of three, and a ring of three slots
fills, empties and wraps against it; a port has no state that more slots would reveal.  Two
byte values tell order and duplication apart.  The ports share the master enable and the resets of WR9 only;
the runs let the CPU and the host work on one port, with the resets reaching both, and
`SccProof` covers the two of them at work.  In the list,
four nodes for three types leave one spare, so that a leak of one node shows; delays
go beyond half a period, so that events meet, overtake and are late; requests for past times reach back a whole
period and an instruction, as a device's do.  On the screen
three lines give a first, a last and one between, with the vertical blank at the last line
and one line after it.  The picture has three rows of three lines: a first line of a row that takes
the marks, a last one and one between, a row that may be text below graphics, and one that only super
hires uses; two chunks of a line are each other's neighbours, and three changes meet in one frame or in
two, before, in and after the blank.  Oscillators interact only with their partner, in pairs, and through
the queue of interrupts: one pair has all the pairing, six ranks have all orders of removal.  The ranks are
changed by two routines alone, and the second chip of `doc_chip` runs those two in every order while the
number of enabled oscillators stays; what happens when it is lowered is `doc_forgotten`.
`ExtraTurns` bounds how often `sound_play` goes round beyond once for each oscillator; one
more turn than is used adds no state.
The keyboard's buffer of three slots for eight, two keys for a talk command (three in `adb_talk`) for sixteen
and a FIFO of three entries for eight fill, overflow and drain as the real ones do; one
patient read for five reaches the tossed character.  `MaxLag` bounds how far a program that
never reads the mouse falls behind.
The switches of slots and language card and those of the screen have no page in common, so
each behaviour works on one of the two groups (a reset and the breakpoints
touch both); any value of the group's bits of c068 and every single or double change of c035 comes up.  Two
slots stand for seven: slot 3, which has switches of its own, and slot 7, whose page in bank
0 always traps.

An instruction depends on its operands through wraps, signs and carries: the places chosen
are in a page, at its end and at the end of a bank, with the stack at both ends of its page
and indices that cross.  Mode changes are checked in words of two, with a third
instruction that uses the stack behind them, because `psr` has two steps to go from any of its
widths to any other.  `left` bounds a program's length.  The
adder is checked for every pair of bytes, carry and mode, and for words of every high byte
with the words at which carries and signs change.

A track of one sector and a few sync nibbles still has every part of the format, so every
place a write can hit; `MaxWrites` lets a program write two bytes (four with slow writes), which is
enough to widen a nibble, drop its neighbour and leave a half; the values written are a
valid nibble and one that never decodes.  Two tracks give a seek past either end.  `MotorDelay`
of one VBL and write-back in every other VBL keep the order of the motor's second and the
third of a second.  Registers the drives do not share lie in different programs.

Frames of 14 and 15 bytes have an address, a type and data of even and odd length; the two waiting
frames let one be dropped before the other is taken.  The lengths 3, 4, 5 and 1515 lie on
both sides of the limits and of a word; a frame of 1515 is begun, and `MaxBytes` ends it.
On the line, two options tell requests apart that cross, three bytes on the way let two of
them cross, and LINEMODE is among them because the driver refuses it.  Two rings for four
and commands of two letters for 128 keep the tests at the ends.

Deadlock is checked except in the runs of `MCDisk`, where the emulator may exit, and of
`MCTfe`, where a driver may have done all it does.

### Fairness

The runs with a liveness property assume what `run_prog` does and nothing of the CPU's
program.  `MCScc`: weak fairness of each timed event, because the loop pops every event that
is due and time passes.  `MCTime`: the loop over the list goes on; weak fairness of the
video events and strong fairness of `Tick`: every instruction takes time, so the beam moves
on however often the program makes another event due in between.  `MCDisk`: the engine
comes back (an event is always due in the end) and VBLs go on, which is what the 60 Hz event
does for ever.  `MCSerial`: a ring that stays due sees a VBL in which no host call fails,
since the failures are choices of the model at each call; and two seconds pass.

## Findings

* `doc_forgotten`: `remove_sound_irq` looks for the next oscillator among the enabled ones
  only, but interrupts outlive a lowering of that number; its own assertion fails.
* `adb_talk`: an answer with two keys takes two off the count of those that wait but moves the
  others down by one place only; with three keys waiting the first is sent twice and the
  third is lost.
* `disk_over`: `insert_disk` ejects what is in the drive when there is nothing in it
  (`src/src/config.c:1375`); an image chosen for an occupied drive replaces one whose
  last tracks are not written back yet, and they are lost.
* `serial_end`: the telnet parser leaves a LINEMODE subnegotiation of whole triplets by setting
  its state to 0 and then to 4 (`src/src/scc_socket_driver.c:582`), and swallows the data
  that follow.

Met while modelling, without a run:

* command 7 of WR0 is to reset the highest pending interrupt but chooses among the bits of
  `g_irq_pending`, where `add_irq`'s early return leaves later requests out
  (`src/src/scc.c:945`, `src/src/sim65816.c:1880`);
* a click between two reads of a mouse at rest is never seen, because the read of y peeks at the next
  entry's button and takes the entry it was to report off the queue (`src/src/adb.c:1427`), and copies
  that a button change makes in the FIFO are dropped by a read under way (`src/src/adb.c:1309`, `1394`).

Excepted by a property, at its definition, because the code does not give it: the interrupt of a desk
manager request behind an answer (`InterruptsAreTrue`), a key that comes up unpolled (`KeysAreOffered`), the
telnet requests of a call that is answered at once (`SidesAgree`), hasty changes on the screen
(`ScreenIsCurrent`), and a track that the host refuses to write (`DirtyGoesToTheFile`).

## Proofs

The proofs hold for every value of the constants that satisfies the modules' named
assumptions: sizes are positive numbers, value sets have the right type, the states a
program starts from are states of the processor.  Two assumptions say more:
`EventListAssumption` that there is a node for each type of event and that an instruction is
shorter than a period of the 60 Hz clock; `MemMapAssumption` that slot 7 is the SmartPort's.
A routine is an operator on a record, so most lemmas are about a routine started in *any*
record that satisfies a predicate, and a handler's lemma follows from those of the routines it
calls, in their order.

`SccProof`: the invariant `SccInv` (type correctness, the state invariants of `scc_chip`,
and `Rr3ReflectsWants`) is inductive.  The argument goes routine by routine: each
lemma says of one routine of `scc.c`, started in any state of the right type, what it
changes at its port (`KeepsOther`: nothing at the other one but what the shared enable
dictates) and which parts of the invariant hold after it, whether or not they held before.  `IrqLine` needs the
strengthening to both ports at once, because an evaluation at one port with the enable off
clears the bits of both.  The actions are then compositions of lemmas.

That chip and ring implement `SerialFifo` (`SccInOrder`) is proved with `ReadsOn(a, b, n)`: the bytes waiting
after a routine are those before it without the first n and with some added at the back.  Every
routine adds (`Feeds`), takes at most the first byte (`Moves`) or, in a reset, empties the
FIFO and leaves the ring (`Drops`); an action is one of these after the other.

That packets keep apart (`SccPackets`) rests on nothing of `SccInv`.  `Apart` says of each port that
FIFO and ring hold the rest of one packet and that end of frame stands only with a byte or
less to go.  Most routines move no byte (`Still`), a receive event passes one on (`Passes`), a read takes the
first one and leaves a shorter rest (`PartTail`), a reset of the port leaves the ring's share
(`PartBack`), and a packet comes in when both are empty (`TakesFirst`), as a whole.  The theorem assumes `LinkOnly`, that the ports
are used for LocalTalk: no driver of a serial line hands bytes over (they would be left in the ring
when WR4 switches a port to LocalTalk), a port that is looped back is not
written to, and a packet fits in the ring (of 1024 slots; LocalTalk allows 600 bytes of data).

That the modem's line is whole (`ModemLine`) rests on `Whole`, stated of any state of driver
and host.  It adds to `LineIsWhole` what the routines need on the way: carrier means that no ring is left, a
driver that has a socket is in state 0 or 1, and a call in state 0 that no longer rings has
its carrier (or had it before a reset), so that `+++` and `ATO` find it again.  Most of telnet leaves the line as
it is (`Same`); a close leaves it shut whatever was open (`Shut`, also in the middle of a dial, when the
new socket is not yet both ends); an answer asks only that the sockets are right.  The loops
over received bytes, commands and the output ring are followed by induction over their rounds,
so sizes and numbers are any.  The theorem assumes of `Fault` that two calls do not fail, `setsockopt`
and the `fcntl` of a call that was taken (`Leaks`): there `scc_socket_maybe_open_incoming` and
`scc_accept_socket` return with a socket open that the driver has forgotten, and `SocketsMatch` is false.
The run leaves the two out as well.

`TimeProof`, the event list: the state is said by two walks, one from each head of the linked
list, that are injective, disjoint and together hold every node.  An insertion moves the front
of the free walk into the busy one, a removal moves a node back (`Gained`, `Lost`, `Used`); each
is proved once, for a place in the middle, and the search that finds the place is an induction
over the walk.  Above that only the timers the walk stands for are looked at (`DueOf`), and the
refinement of `Timers` (`TimeOrder`) needs no links any more.  "Out of queue entries" never
happens because the types in the list are different and a pigeonhole argument leaves a node, and
the complaint about a past time because what `add_event_device` hands on is clamped, whatever a
device asked for.

`TimeProof`, the video: `AllAgree` is `TypeOK`, `EventsFit` (its three parts), `C023Irq` and
`C046Irq`, its counterpart for the other status register, which is proved and has no run;
none of them is inductive alone.  That no scan event is added twice needs that none outlives its frame
(`EventsAhead`), which needs that a search starts at the beam, and that `update_60hz` finds
no event needs that the frame ends after all lines.  It is proved as a predicate `Agreed` on
the record of the state, one lemma per routine.  `VgcScanOnLine` is an action property: one
step per action, from the definition of the only routine that raises the status bit.

`DocProof`: `Books(d, k)` is `BooksAgree` for a chip in the middle of a write to e1, which lowers
the number of enabled oscillators first and then halts those from k on one by one.
`sound_play`'s loop has several results in each round; that it keeps the books after every
number of rounds is an induction over the least number that would not.  `DocRing` proves the
refinement of `DocQueue` for a ring of any even number of oscillators, in the part of the
run that asks and withdraws in every order (`FocusSpec`): `Ranked` says that the ranks in
`has_irq_pending` number the waiting oscillators from 1, `Joins` and `Leaves` what the two
routines do to the numbering.  The whole chip does not implement `DocQueue`: lowering the
number of enabled oscillators leaves a rank behind, which is the finding `doc_forgotten`.

`AdbProof`: the invariant `Sound` of the controller's record adds to the checked properties
that an answer that is being sent has bytes left, that the mouse's interrupt has its flag, and
that what is said of the first buffered character holds of all of them.  Of every routine four things are shown: it keeps `Sound`, tells of
what has come and loses no interrupt (`Tells`, for the half of `InterruptsAreTrue` that is about
steps; most routines leave the answer and the data interrupt alone, `Keeps`), does to the latch nothing but what `LatchStep` lists,
and drops the mouse's flag only where `FlagStep` allows it; `FlagWhileBehind` and the refinement of `KeyQueue` (`AdbOrder`) are read off
those.  Both are about the whole device (`Mouse!Spec`), where the run takes it from four
sides.

`DiskProof`: every handler is a `Step`: from a machine that is `Good` to one that is, writing
only to files that may be written, and changing the pace of the engine only with HALT_EVENT;
steps compose, and the loops over tracks and drives are inductions.  `SpeedDepends` says
what the speed depends on, so that a step that touches none of it needs no argument.
`DiskSpeed` also needs that programs hold only operations the run knows (`Legal`).  Of
`DisksAreSound` the parts about places are proved (`DiskDrives`); the two about the bits of a
surface are not.

`DiskProof`, the clock chip: `ClockInv` says of the accesses since the chip was last idle
(`hist`) which mode and which register they have led to (`Addressed`), so that a third one that reads
is at the byte of the first two (`DiskCommand`).  That the two parts of the address do not overlap,
and that the checksum and its complement are words, goes digit by digit in the base of 16
(`DigitsAnd`, `AddressJoins`, `XorIsWord`); the checksum is a sum from the last byte down, shown to
be a number by an induction over the bytes added.  Both theorems assume the code's 256 bytes
(`BramLen >= 256`): the commands reach them all, those of the run only the first 64.

`MapProof`: `RdWanted` and `WrWanted` are the tables in closed form.  A fix-up makes the pages of
its scope right and leaves the others alone or right (`Fixes`, which composes); what remains
is that a page outside of the scopes did not depend on the switches that changed (`RdSame`,
`WrSame`), by cases over the pages.  `MapTables` has all switches in play at once, where the
runs take those of the screen and those of the cards apart.  `set_statereg` fixes up ALTZP
while the copy of the page 2 switch is still the old one; `AltzpFirst` shows that this order does
not matter.

`EngineProof`: `Sized` gives the engine's locals their ranges, `Good` adds what the widths
demand.  Each operand mode and each instruction is `Quiet` (psr and index registers stay, the
stack stays in its page) or `Calm` (widths and I stay); for the few that change psr it is
shown that they leave the loop or go on in the copy of the right width, and do not go on over
an interrupt they have just allowed (`Runs`).  All opcodes but WAI, in all five modes, are then
sixteen rows of cases; WAI has a lemma of its own (`Waits`), and block moves are an induction over
the bytes.  The inductive invariant `Sane` joins `EngineShape` and `InterruptsAreSeen` with
"memory holds bytes", without which an interrupt's vector might not be an address.

`StackRoundTrip` (`MachineKeepsStack`) and `InterruptIsTransparent` (`MachineIsTransparent`) need no
invariant but `Sane`; what they need is where the bytes are.  A push leaves the record `Beside` what it was, with
the value at and below its top (`Topped`, `HasWord`, `HasLong`), a pull finds what is above the stack
(`PulledWord`, `PulledLong`), whether either goes byte by byte at the end of a page or in one piece, and
`PageApart` keeps up to four bytes apart where the stack wraps.  `WordBack` and `LongBack` join them; each
pair of instructions adds its registers and its program counter (`Undone`, `Again`).  An interrupt
pushes three or four bytes one by one (`PushesThree`), of which RTI takes three together (`PullsLying`);
`UpdateBack` is the one way through `UPDATE_PSR` that changes nothing.

`OperandsFit` (`MachineFitsOperands`) compares two runs of one instruction.  Two states are `Alike`
when they differ in the fetched operands at most, and every operator takes such states to such
states, the operand modes if the bytes they look at agree (`Fed`, by the size in the table).  Row by
row the sizes of `size_tab` are set against the operand modes of the instructions (`AlikeRow0` to
`AlikeRowF`), the immediates in the width of the moment; a long read across the bank's end has the
bytes of the word and the byte read there (`LongBytes`).

The adder needs no invariant but the accumulator's range.  A binary sum is linear arithmetic.
A decimal one goes nibble by nibble: one step is right for two digits and a carry
(digits above 9 included, as far as the code's correction makes sense of them), and steps are
joined with the carry between them, two to a byte and two bytes to a word (`AddsRight`).

Some operators of the model have the form the proofs need and mean what a shorter one would: a word is written as
two bytes by `Poke`, the AND of two half bytes is a sum of products (`And4`), the two values of
the code's `in_bank` have names (`InBank`, `Linear`), loops are recursive functions.

Only model-checked, and why:

* `SidesAgree`: holds of a peer that answers as `Listens` does, and its inductive invariant
  has to count the telnet commands under way in both directions; not attempted.
* `FramesFit`: not attempted; `Promise` and `TakesWanted` say what the card does for a driver
  that keeps to the order of bytes, and hold of the run's programs and not of all.
* `DirtyGoesToTheFile`: needs to know of every image that its tracks lie apart in the file and
  inside it, and that a track's encoder loses no byte (see the next point).
* The rest of `DisksAreSound`, that a clean track is the file's and that the top bit of a
  nibble means a whole byte: what the encoders and the folds over nibbles compute for
  every length is induction over data.
* `BlockMoveResumes`, the other half of `InterruptsLeaveNoTrace`: holds of the programs that are run
  and not of all, since a block move onto the stack meets what the interrupt pushed.
* `ScreenIsCurrent`: not attempted; it would need for each of the eight drawing routines what it has
  taken marks of, and under which mode.
* All liveness: the prover has no reasoning about fairness and ENABLED here.

## Not modelled

Components with status `not_modelled` in `PROJECT.json`, each with its reason: data paths
and I/O (printers, configuration, debugger, and the operating-system drivers).
Of the AppleTalk bridge only the link to the serial chip and the loading of the capture
library are modelled.  Within modelled components: sample and pixel data, event times inside a
frame beyond their order, cycle counts, the wait of `update_60hz` for the host's clock, the
mouse bits of c041 and c046, the special returns of the CPU engine (breakpoints, WDM calls,
stepping), image headers and partition tables as bytes, and the wording of the modem's
replies.
