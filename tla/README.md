# TinyKB firmware: verification project

TinyKB is a USB device that stores one script in its EEPROM and plays it as
keystrokes. Its firmware (`src/firmware/src`, C on an ATtiny85) runs in one of
two modes. In **programming mode** it is a raw HID device: a host uploads a
script with a small command protocol. In **keyboard mode** it is a keyboard: an
interpreter plays the script. The modes share nothing but the EEPROM, and the
only way from one to the other is a watchdog reset.

This directory holds TLA+ modules translated from that code, TLC
configurations that check them on small instances, and TLAPS proofs. Run
`tlc -config X.cfg M` for a run and `tlapm M.tla` for a proof module, in this
directory. `PROJECT.json` lists the runs, the mutants (one plausible bug per
property, which the property must catch), the source lines of every definition,
the hazards and the findings.

## Inventory

| Component (file) | State | Operations | What makes it correct |
|---|---|---|---|
| CRC-16 (`crc16.c`) | none | init, update, finalize | the remainder of the division by the polynomial, at every prefix |
| Storage (`eeprom_storage.c`) | EEPROM; cached header | read, write, write header, invalidate, validate | what is acknowledged is stored; a header that is valid says the truth about the script |
| Protocol (`hid_protocol.c`) | append offset, running CRC, exit flag, response | WRITE, READ, APPEND, RESET, COMMIT, STATUS, EXIT | the running CRC is of the stored bytes; COMMIT vouches for the script; a mismatch disables it; nothing is written outside the command's range |
| Script engine (`script_engine.c`) | pointer, run state, modifiers, held keys, one REPEAT block | nine opcodes, start, tick | plays what the program means; always stops; the host never holds a key the engine forgot |
| USB keyboard (`usb_keyboard.c`) | report buffer, idle rate, protocol, LEDs, `has_communicated` | send report, class requests, LED data | reports arrive as sent, in order, none twice; what is lost is bounded by what the bus lost |
| Device mode (`device_mode.c`, `main.c`) | mode; reset flags of the hardware | choose mode, two loops, watchdog reset | keyboard mode exactly when the firmware asked for it; no way to be stuck in programming mode after EXIT or silence |
| Raw HID transport (`usb_rawhid.c`, `usb_dispatcher.c`) | report buffer, offset, expected length, pending response, activity | SET_REPORT, its chunks, GET_REPORT | the protocol sees the report the host sent; the host sees the response to it |
| Timer (`timer.c`) | 16-bit millisecond counter | millis, elapsed | a wait lasts as long as asked, across wrap-around |
| Oscillator (`oscillator.c`) | OSCCAL | calibrate | terminates at the best value |
| Keycode table (`keycode.c`) | constant table | lookup | a STRING types its text |
| Descriptors, USB start (`usb_descriptors.c`, `usb_core.c`, `usbconfig.h`) | constant data | descriptor by type and mode; disconnect and start | the host understands the reports the firmware sends, in the mode the device is in |
| V-USB (`lib/usbdrv`, vendored) | packet received, packets to send and their tokens, message being answered, addresses | SETUP, data, poll, bus reset | what it passes on is what the handlers assume; answers are intact; host and device agree on the address |
| LED | | blink | pin output |

**Interaction.** `main` initialises storage and the mode, then runs one loop for
ever. Each loop calls `usbPoll`, which calls back into the transport (and from
there, synchronously, into the protocol and the storage) or into the keyboard's
request handler. The engine runs from the keyboard loop and calls `usbPoll`
itself while it waits. The only interrupts are the timer's counter and the
driver's; application code is never preempted by application code. So the
concurrency is not that of threads: it is a **power failure** between two EEPROM
writes, the **host**, which polls and sends when it likes, and **resets** of
several kinds between boots. In the transport the host is the other actor: it
abandons transfers, repeats packets whose acknowledgement was lost, and shares
one buffer with the device for requests and responses. In the driver it is the
**bus**: a packet is forgotten once it is sent, whether it arrived or not, and a
reset is noticed only by a device that polls while it lasts.

**What is hard.** Crash consistency of a header and a script programmed one byte
at a time; a cache that only a boot re-reads; a COMMIT whose guarantee depends on
the commands before it; an interpreter that must behave on arbitrary bytes;
reports handed to a host that polls at its own pace; reset flags that a
bootloader may have moved. `PROJECT.json` lists the hazards at their lines.

## Modules

    Crc16, Oscillator ---- MCArithmetic, ArithmeticProofs
    Storage -- Protocol -- MCProtocol (instantiates Crc16)
                  |
              DeviceMode ---------- MCDevice, DeviceProofs (of Protocol too)
    ScriptEngine -- ScriptMeaning -- UsKeyboard (instantiates Keycode)
                                         |------ MCEngine, EngineProofs
    VUsb -- RawHid ---------------- RawHidProofs
      |---- KeyboardEndpoint ------ MCKeyboard, KeyboardProofs
      |        (refines ReportChannel)
      \---- Enumeration -- HidHost - EnumerationProofs
               (with Descriptors; HidHost instantiates Keycode)
    Timer ------------------------- TimerProofs
    Loops: induction, for ArithmeticProofs, EngineProofs and EnumerationProofs

**Crc16** is the bitwise loop, as recursive functions. The bits per byte are a
parameter, because the protocol's instance uses 2-bit bytes.

**Storage** has the EEPROM as a function from addresses to bytes, and the cached
header as a record. An operation that programs several bytes is the *sequence*
of its single-byte writes, in the code's order. `validate_header`,
`storage_write_header`, `storage_invalidate_script` are the functions of those
names; the part that changes the cache is the operator `cache_...` beside each.

**Protocol** is `hid_protocol.c` on Storage. A handler that writes nothing is one
action (`ReadCommand`, `ResetCommand`, `StatusCommand`, ...). One that writes is
split where the power can fail: `WriteCommand`/`AppendCommand`/`CommitCommand`
check the arguments, `StoreByte` programs the next byte (and, for APPEND, updates
the running CRC, as the loop does), `ReturnWrite`/`ReturnAppend`/`ReturnCommit`/
`ReturnMismatch` do what comes after the last byte. `PowerLoss` is possible in
every state: RAM is lost, `storage_init` and `protocol_init` run again. Nothing
else is interleaved with a handler, as in the code. Reports are records of
decoded fields. Two history variables, read by no guard, name what the
properties need: `spoiled` (a WRITE met the appended bytes) and `vouched` (the
CRC that the COMMIT compared covered the script it names).

**DeviceMode** adds the reset flags MCUSR and GPIOR0, the bootloader that may
move one to the other (external: modelled from how `determine_initial_mode`
reads them), the loop of programming mode with its exit and timeout, the
watchdog reset and `main`. `requested` and `trusted` are history variables.

**ScriptEngine** is the interpreter with the endpoint that carries its reports.
One action per opcode, one per character of a STRING. `send_report` blocks while
the endpoint is full, so an opcode's reports wait in `outbox` and `SendReport`
hands over one when the endpoint is free; the interpreter goes on when `outbox`
is empty. The end of each opcode is `check_repeat` (in `EndOpcode`), as in
`engine_tick`. Operands beyond the end read as 0 and set ERROR; DELAY
overwrites that. The repeat count is a byte and is decremented before it is
tested. `seen` is what the host has polled, in order.

**ScriptMeaning** is what a well-formed program means, stated with none of the
engine's devices: a program is a sequence of instructions, each is a function from
keyboards to keyboards, a REPEAT plays its block as often as it says and ignores
nested ones, a keyboard is a set of held keys. It also has the bytes of a program,
and `ProgramSpec`, the engine on a script that is one (`written`, a history
variable). A program is well-formed (`Instructions`, `ProgramsAssumption`) if its
operands and lengths fit their bytes and it fits the script area. A REPEAT of zero
iterations or of an empty block is not, because the code runs it and the
documentation does not; a nested one may be. Which reports an instruction has is
the code's answer, and `PlaysTheProgram` is about their order, number and content
in every mixture of instructions. The bytecode specification answers otherwise for a
KEY_DOWN of a held key, a KEY_UP of a released one, a shifted character and four
control codes: `DocumentedMeaning` (`MCEngine`) is the specification's answer, with
REPEAT of 0 iterations and of size 0, and the code does not keep it (see Findings).

**Keycode** is the table of `keycode.c`, entry by entry, and the lookup, whose
index is a byte. The engine takes the lookup as a parameter, `keycode_of`.

**UsKeyboard** gives it this one (`FirmwareAssumption`), and adds a host with a US
keyboard (its layout is that of `hid-keycodes-reference.md`) which turns reports
back into text, and the text that a program of STRINGs and DELAYs is meant to type.

**VUsb** is what the three modules on V-USB share: `USB_NO_MSG`, and the length an
answer is limited to.

**RawHid** is `usb_rawhid.c` with the control endpoint of V-USB it runs on and a
host. `rx` is the driver's receive buffer, `tx` its transmit buffer, `usbMsgLen`,
`usbMsgPtr` and `user_rw` the message being answered. `usbProcessRx` for a SETUP
is one action per request (`SetReport`, `ReturnResponse`, `ReturnNothing`,
`SetIdle`, `GetIdle`, `OtherRequest`): the handler, what it leaves to be sent, and
the first packet, because `usbPoll` builds it in the same call. Data is
`MoreData` or `CompleteReport` (which calls the protocol, here any response or
EXIT) or `IgnoreData`; `SendNext` is a poll that finds nothing received. The
host's actions are `Begin` (also in the middle of a transfer), `SendData` with
or without its acknowledgement arriving, `ReceiveData`, `LosePacket`,
`ReceiveStatus` and `SendStatus`. A byte is a tag that says which transfer and
which place it belongs to. `last` is a history variable, and `host.owed` and
`host.answered` belong to the host's own bookkeeping. `rawhid_handle_read` is not
an action: the driver calls it only for a request of the host to read that
`usbFunctionSetup` left to it, and only SET_REPORT is left to it.

**KeyboardEndpoint** is `usb_keyboard.c` with the interrupt endpoint. `tx1` and
`usbTxToken1` are `usbTxBuf1` and its data token. `keyboard_send_report` builds a
report and hands it over (`usbSetInterrupt`: the token changes if the last report
has gone). Each request of `keyboard_handle_setup` is an action (`GetIdle`,
`SetIdle`, ..., `SetReport`), `ReceiveData` is `keyboard_handle_write`, and
`SetInterface` and `SetConfiguration` are the two standard requests that concern
the endpoint: only the first resets the driver's token, both reset the host's.
Control transfers are otherwise reliable here. The host takes a report with its
token, discards one without, and a packet may be lost. It does not poll the
endpoint while it configures the device. **ReportChannel** is what it all
promises: room for one report, which may be lost and nothing worse.

**Descriptors** is the data of `usb_descriptors.c`, byte by byte, the device and
string descriptors that V-USB builds from `usbconfig.h`, and which of them answers
a request in which mode.

**Enumeration** is V-USB's control endpoint again, seen from its own side: every
standard request of `usbDriverSetup` is an action (the handler, the rest of
`usbProcessRx`, the first packet and the reset check, which one call of `usbPoll`
does), `NothingReceived` is a poll without a request, `SendPacket` is the interrupt
routine's IN (it forgets the packet and takes the new address). `usbMsgPtr` is
the name of an array and an offset, so a flag that says flash of something in RAM
gives bytes that are nobody's. The host resets the bus, gives an address, reads
the descriptors by the lengths it has read before, configures, and asks again for
what came short. Its faults: a lost packet, a request made over another, a reset
of the bus in between, and a device that misses a reset because it programs its
EEPROM. `Restart` is the mode change with `usb_init`'s disconnection. `clean` is a
history variable. **HidHost** adds how a host parses what it has read: the report
descriptor byte by byte, item by item, into fields.

**Timer** is the 16-bit counter and the one wait in progress; `led_blink`,
`engine_start`, `op_delay` and `run_programming_loop` begin one, each look of its
loop is `Finish` or `GoOn`. `elapsed` counts the ticks without wrapping.

**Oscillator** is both searches of `calibrate_oscillator`, one measurement a step,
on an arbitrary relation of OSCCAL to frame length. **MCArithmetic** takes those
that rise within each half of the register, as the ATtiny85's two ranges do, and
feeds Crc16 its messages once the search is over.

## Runs

| Run | Instance and bounds | What it shows |
|---|---|---|
| `arithmetic` | CRC: real widths and polynomial, messages up to 4 bytes from {0, 1, 26, 128, 255}. Oscillator: a 3-bit register, 5 frame lengths, rising in each half | `RunningIsRemainder`, `OneWrongByteDetected`, `FindsOptimum`, `CalibrationEnds` |
| `protocol` | 2-bit bytes, 4-byte script, three first images (erased, committed, oversized length), 24 reports | `TypeOK`, `RunningCrcCoversScript`, `AcknowledgedIsStored`, `CommitVerifies`, `MismatchInvalidates`, `FrameRespected`, `ValidOnlyByCommit` |
| `engine` | bytes of 8 bits, the firmware's keycode table, 2 keys; all scripts of up to 3 of 12 bytes, and of 4 or 5 of six; well-formed programs of up to 3 plain instructions, or a REPEAT (1 to 3 times, with or without a nested one) between two; strings of every character alone, after a plain and a shifted one, and twice, and with DELAYs between them | `TypeOK`, `HostMatchesEngine`, `FinishedIsClean`, `PlaysTheProgram`, `TypesTheText`, `EveryScriptStops` |
| `device` | the protocol's instance with an upload, its COMMITs, a WRITE and EXIT, and every kind of reset | `CommittedIsPlayed`, `ImplementsProtocol`, `KeyboardOnlyByRequest`, `ReachesKeyboard` |
| `rawhid` | packets of 2 bytes, reports of 4, 8-value lengths; wLength 0, 1, 3, 4, 5 and 8; 3 transfers, one repeated and one lost packet in each | `TypeOK`, `ReceivedAsSent`, `ExecutedOnce`, `CompletedIsExecuted`, `GetReportAnswers`, `AnsweredOnce`, `TransfersEnd` |
| `timer` | a counter of 16 values, looks at most 3 ticks apart | `TypeOK`, `NeverShort`, `NeverLate`, `WaitsEnd` |
| `enumeration` | real sizes and descriptors; 3 faults, 1 restart, 1 request after enumeration | `TypeOK`, `ReadsAreIntact`, `AddressesAgree`, `KnowsTheDevice`, `EnumeratesEventually` |
| `keyboard` | 5 reports of 8 bytes; 2 class requests, 2 configurations, 2 lost packets | `TypeOK`, `LossIsBounded`, `ImplementsChannel` |
| `initial_delay` | as `timer` | the delay of a header that the code does not keep (see Findings) |
| `documented_reports` | as `engine`; one program with each instruction that is documented otherwise | `PlaysAsDocumented`, which the code does not keep (see Findings) |
| `held_keys`, `played_crc` | as `engine`, and `device` | the documented statements that the code does not keep (see Findings) |

**Why the bounds are enough.** A word is two bytes of the instance's base, as in
the code, so carries, torn words and lengths that need the high byte happen with
2-bit bytes; addresses still fit a word, which is the assumption the code's
comparisons need (`ProtocolAssumption`). Each limit (EEPROM size, script size,
data per report, zero length) is met and passed by one of the reports. The CRC of
the instance is the algorithm of `crc16.c` at four bits, so an uncovered COMMIT
can collide, as it can at sixteen. For the engine, five bytes hold two
instructions and a truncated third, a REPEAT of an instruction, and a nested
REPEAT whose skip leaves the outer block or the script; two keys reach the key
limit. For the transport, a report of two packets has a first and a last one, 3
and 4 bytes a short and a full last packet, 5 does not fit, and 8 is 0 in the
length's type; three transfers are an abandoned one, the one under test and the
one that collects its response. The timer's counter wraps several times in a
wait's life, and waits on both sides of `InWindow` occur. A REPEAT count of 0 wraps the
byte. For the enumeration, three faults are a missed reset, the
answer lost after it, and a request made over the one that replaces it; every
descriptor but the shortest takes several packets, and the language string is a
short answer to a long request. For the keyboard, two losses and two configurations can fall on the same
report, next to each other or apart, and five reports hold a press, a release and
a press with modifiers. No state space is cut by a constraint: what would grow
without end is bounded in a guard by a constant (`MaxFaults`, `MaxRestarts`,
`MaxQueries`, `MaxRequests`, `MaxConfigures`, `MaxLost`, `MaxMessage`; in the
transport `MaxTransfers`, `MaxRepeats` and one loss in each).

`CHECK_DEADLOCK FALSE` is set where the system stops: a script that has ended, a
host that has sent its message, made its transfers or taken its reports, an
oscillator that is calibrated. The protocol and the device never deadlock.

## Fairness

The engine's specification is fair to `engine_start` and `engine_tick` (the loop
`for (;;) { usb_poll(); engine_tick(); }` and timers that run out) and to
`HostPoll`: an enumerated USB host polls an interrupt endpoint at the interval
of its descriptor. It is not fair to `keyboard_handle_setup`: nothing obliges a
host to send a class request, and `EveryScriptStops` speaks only of hosts that
did. Of a host that stops polling, or never sends a request, nothing is claimed:
`send_report` and `run_keyboard_loop` then wait for ever, by design. The device's is fair to `main`, the handlers, the exit check, the timeout
and the watchdog, which all run without anybody's help. It owes nothing to
hosts, bootloaders or resets from outside. The transport's is fair to `usbPoll` and
to the steps of a transfer that a host has begun; never to beginning one, to
losing or to repeating a packet. The timer's is fair to the interrupt and to the
loop's looks, which the main loop and `led_blink` make without a condition; that
polls take at most `MaxPoll` milliseconds is an assumption in the guard of `Tick`.
The enumeration's is fair to `usbPoll`, which both loops of the firmware call for
ever, and to what a host controller does on its own: reset what it finds attached,
end the reset, make the next request, take the packets, and reset the bus rather
than wait for a device that does not answer. It is not fair to any fault or to the
restart. The keyboard's endpoint has no liveness property of its own: the engine's
`EveryScriptStops` is about it.
`ReachesKeyboard` excuses a device
that is reset from outside or addressed by the host.

## Findings

- **Keys held after a truncated script** (`held_keys`). The specification says
  that reading past LENGTH ends the script as END does, with everything
  released. `read_byte` sets ERROR and returns 0, the instruction completes with
  that operand, and no report follows. `FinishedIsClean` and
  `HostMatchesEngine` hold: the engine knows what is held, it does not release
  it.
- **Reports that the specification does not have** (`documented_reports`). The
  run plays one program, `Differing`, that has each case once; the specification has
  7 reports for it and the host is shown 270, which the counterexample's last state
  lists in the order of the program. Any one of its cases alone violates
  `PlaysAsDocumented` too. (Lines of `script-bytecode-specification.md`.)
  - KEY_DOWN of a held key: "No additional HID report is generated" (138-140);
    `op_key_down` sends one.
  - KEY_UP of a released key: "No HID report is generated" (163-165); `op_key_up`
    sends one.
  - STRING: "Generates 2 reports per character" (320-323), the second with the
    modifiers restored; `op_string` sends three for a shifted one: key and Shift,
    Shift alone, nothing.
  - STRING: the supported characters are 0x20 to 0x7E and others are skipped
    (301-310); the table also types 8, 9, 10 and 27 (Backspace, Tab, Enter, Escape),
    and `Supported` in `UsKeyboard` has them.
  - REPEAT of size 0 "has no effect" (257); `check_repeat` finds its block ended and
    begins it again, so that the instruction *after* it becomes the block: `REPEAT 3
    times, size 0` and a TAP taps twice.
  - REPEAT of 0 iterations skips its block (256); the 8-bit counter is decremented
    before the test, and the block runs 256 times.
- **CRC not validated at boot** (`played_crc`). The bytecode specification lists
  the CRC among the header's validation requirements; `validate_header` checks
  version and length only, and `storage_verify_crc` has no caller. Power lost in
  an upload, before its COMMIT, leaves the old header valid over new bytes.
  `CommittedIsPlayed` says what remains true: a vouched COMMIT with nothing
  programmed after it is played intact.
  A header torn by power loss in a COMMIT is the same matter: `ValidOnlyByCommit`
  lets a COMMIT that is still writing through, and only a check of the CRC at boot
  would exclude that its half is played.
- **The initial delay wraps** (`initial_delay`). The specification calculates it as
  DELAY x 100 ms, up to about 6553 seconds. `storage_get_initial_delay` returns the
  product in 16 bits: above 655 (65.5 seconds) it wraps and the script starts early.

Seen while modelling, with no run of their own: the
oscillator's neighbourhood search never ends when the binary search stops at 254
or 255, because the register wraps before it passes the bound (`FastEnough`, the
premise of `CalibrationEnds`, excludes such oscillators); a packet the host repeats is
not recognised (`USB_CFG_CHECK_DATA_TOGGLING` is 0) and shifts the rest of its
report (hence `repeats = 0` in `ReceivedAsSent`); the response is given up when
GET_REPORT is set up, so a GET_REPORT that fails loses it; SET_CONFIGURATION does
not reset the interrupt endpoint's data token, so that a host which configures the
device again may discard the next report (the `configures` in `LossIsBounded`), and
a lost report takes the one after it along (`2 * lost`); `keyboard_handle_setup`
takes the protocol of SET_PROTOCOL from the high byte of wValue, where USB has it in
the low one, and `usb-hid-reference.md` draws SET_IDLE's rate in the low byte, where
the code, as USB, has it in the high one: both values are stored and only read back.

Two things look like findings and are documented behaviour: a COMMIT that uses
the running CRC does not compare its length with the appended bytes (hence
`vouched` in `CommitVerifies`), and `architecture.md` describes a script as valid
on version and length alone.

## Proofs

The theorems hold for every byte base, script size, data limit, CRC function,
set of reports and set of first images that satisfy `StorageAssumption`,
`CrcAssumption` and `ProtocolAssumption`, and for every key limit, set of
scripts and keycode table that satisfy `EngineAssumption` and `KeycodeAssumption`, and
every set of programs that satisfies `ProgramsAssumption`; for every size of
packet, report and length that satisfies `RawHidAssumption`, every width of the
counter, duration and poll that satisfies `TimerAssumption`; for any reports to type
and any number of requests, configurations and losses (`KeyboardAssumption`), and
any number of faults, restarts and requests of the enumeration
(`EnumerationAssumption`, which also frees the size of a packet and asks of the
descriptors only that they are shorter than `USB_NO_MSG`); and for every target,
register of up to eight bits and set of oscillators (`OscillatorAssumption`); and for
every width of a byte, initial value and polynomial with a constant term
(`Crc16Assumption`) and messages of any length (`ArithmeticAssumption`). In the protocol's
theorems the CRC is an operator: all that is used is that it maps words and bytes to
words and that the CRC of a sequence is that of its prefix, updated, which
`ChecksumIsIncremental` proves of `crc16.c`'s.

**Protocol** (`DeviceProofs`). `TypeOK` is not inductive: that a handler's
writes stay in the EEPROM follows from the checks made before it started. The
inductive invariant is `IInv`, `TypeOK` and `Accepted`: the report of a handler
in progress is of its command's type and passed those checks. From it:
`TypeCorrect`; `FrameAlwaysRespected`, since each address in `Writes` lies in the
frame. For the responses the invariant `Stored` is added (the first `done`
writes are in the EEPROM), preserved because a handler writes each address once
(`WritesDistinct`): at the return all of them are there, which gives
`AcknowledgedAlwaysStored` and, with both bytes of the length, 
`MismatchAlwaysInvalidates`.

**Commit** (also `DeviceProofs`). `CrcInv` adds to `RunningCrcCoversScript` that a
WRITE in progress that did not spoil the upload is disjoint from it. An APPEND
extends the covered prefix by a byte and the CRC by the same byte, which is the
only place the CRC assumption is used. `CheckedScript` (while a vouched COMMIT
writes its header the script has the CRC of the report) holds because the header
lies below the script. They give `RunningCrcAlwaysCovers`, `CommitAlwaysVerifies`
and `ValidAlwaysByCommit`.

**Device** (also `DeviceProofs`). Every step of the device is a step of Protocol or
leaves its variables alone (`Main` is its `PowerLoss`): `DeviceImplements`, so
the theorems above hold of the device. `FlagsInv` (a watchdog flag is set only
while the firmware's request is pending) gives `KeyboardAlwaysByRequest`.
`Trust` and `KeyboardCache` (what `trusted` records is in the EEPROM; keyboard
mode has the EEPROM's header in its cache) give `CommittedIsAlwaysPlayed`.

**Engine** (`EngineProofs`). `EngineTypeCorrect` is `TypeOK`, inductive as it
stands, for every byte sequence: the pointer passes the end by at most one
nested REPEAT's skip. `HostAlwaysMatches` is proved of the last report alone
(`SentMatches`), one case per opcode. `FinishedAlwaysClean` follows with
`Finished` (END clears both lists).

**Meaning** (also `EngineProofs`). `PlayingInv` gives the engine's place in the
program: between two instructions, in the text of a STRING (`InText`), or in an
iteration of a REPEAT (`InRepeat`), at an instruction of its block (`InBlock`). The
place fixes the pointer, the count and the characters left, and that the keyboard
(`Board`: modifiers, held keys and every report so far, polled or not) is the one
that the meaning has after the instructions, iterations and characters before it.
Each opcode is then shown to take the keyboard where `Plays` takes it
(`PlayingStep`), the order of the engine's key list never mattering
(`HeldKeys`), and `check_repeat` to go back or on as the iteration says. The
place is preserved by steps that only move reports (`PlayingStays`). What has been
shown is a prefix of what is still to be shown because no instruction takes a report
back (`Extends`). A fold and a flattened sequence are the last value of a loop, and
each part of the flattened bytes lies where the ones before it end: module `Loops`.
They give `AlwaysPlaysTheProgram`, for programs of any length, nesting of two, any
keycode table and key limit.

**Text** (also `EngineProofs`). This one is about the firmware's own table: it is
the only theorem of the engine that uses `FirmwareAssumption`. `TableIs` takes
`ascii_to_keycode` apart into the eighteen pieces it is joined from, `PiecesRight`
reads each entry on the host's layout, and `KeycodeRight` says of each of the 256
bytes that it has the key and Shift of its character or, if no key has it, key 0;
the byte-wide index is part of it. A host that has read a text and sees nothing held
then reads one character more, after any number of reports (`HostAppend`): a key is
pressed, which was not held before, and is released, and the report that takes Shift
back types nothing (`CharacterReads`). By induction over the characters and over the
instructions, the meaning of a program of STRINGs and DELAYs reads as its text
(`MeaningReads`), and with `AlwaysPlaysTheProgram`, `AlwaysTypesTheText`.

**Transport** (`RawHidProofs`). `TypeOK` needs `Progress`: the offset does not pass
the expected length, and a host that is still sending has bytes left. From the
two, `TransportTypeCorrect`: what `usbMsgPtr` and `usbMsgLen` name lies in the
memory they point to, and a packet is copied to places in the buffer.
`CompletedAlwaysExecuted` adds `Routed` (once its SETUP is processed, a transfer
has a data handler exactly if it is a SET_REPORT), `Silent` (until its report is
processed the device has nothing to send, because SETUP aborted what there was)
and `Ended`. `AlwaysReceivedAsSent` adds `Assembled`: of a whole report without
repeats, the buffer and the waiting packet together hold exactly what the host
has sent.
`AlwaysExecutedOnce` counts: a report that is executed has taken as many bytes as
it announced, and the bytes the device was given are at most those of the packets
the host sent and of those that were repeated (`Counted`, inductive with
`Numbered`, which orders the numbers of the transfers sent, executed and answered).
Fewer repeated packets than the report has are fewer bytes than a second execution
would need (`FewerPackets`). `GetReportAlwaysAnswers` and `AlwaysAnsweredOnce` come
from `Answered`: while the host asks for nothing, a response is pending exactly if
the last report had one (`Uncollected`); once a GET_REPORT is set up it is not
pending any more, and what the host has, what is in the packet under way and what
the driver has still to send together are the beginning of that response
(`Answering`), because `usbFunctionSetup` filled the buffer and no data packet can
write to it before the next SETUP.

**Timer** (`TimerProofs`). The invariant is `TypeOK`, `Agrees` (the counter is as far
past the start of the wait as the ticks that have elapsed, less a whole round)
and `Punctual` (within the window, the last look was before the end). They give
`WaitsNeverShort` and `WaitsNeverLate`. The four facts about remainders they need
are stated as lemmas.

**Keyboard** (`KeyboardProofs`). `TypeOK` says that the LEDs are those of a LED
report, which needs `TransferInv`: where the control transfer stands, and that the
driver's consent to data is that given to the request the data belongs to.
`LossIsBounded` is not inductive: that the next report will be discarded is decided
when the tokens come apart, before it is sent. `LossInv` adds it (`Owed`): at most
one report is owed, and a loss or a configuration may cause it, which is where
`2 * lost + configures` comes from. They give `KeyboardTypeCorrect` and
`LossAlwaysBounded`. `EndpointIsAChannel` maps every step to one of ReportChannel
or to none: a report handed over to `Send` (the endpoint was ready), a poll to
`Deliver` or `Lose`.

**Addresses** (`EnumerationProofs`). Between SET_ADDRESS and its status packet the
driver has two addresses. `AddressInv` says when they may differ: while that status
packet waits with the token the host expects. `RequestInv` (the request received is
the one the host waits on), `ResetInv` (a poll that saw a reset took both addresses
back), `CalibrationInv` and the shape of the host's stages (`StageInv`) make it
inductive, each only as long as nothing went wrong since the last reset (`Sane`).
They give `AddressesAlwaysAgree`.

**Reads** (also `EnumerationProofs`). `EnumeratingInv` is about the bytes:
`DriverInv`, that what is left of a message lies within the array it is sent from
and that the flag says which memory that is; `RequestsInv` and `KnowledgeInv`, that
the host asks only what the next step of an enumeration asks, by the lengths it has
read; `AnswerInv`, that what the host has got, if no packet is missing, is the
beginning of the answer, and the packet under way and the rest of the message
continue it; and `ReadInv`, the same of a read that is over. A host that misses a
packet is behind what the driver has sent, for as long as this answer lasts: it
cannot end with the right length and other bytes. They give `EnumerationTypeCorrect`
and `ReadsAlwaysIntact`, for packets of any size: `usbDeviceRead`'s copies are
handled by two lemmas on sub-sequences.

**What the host knows** (also `EnumerationProofs`). `TruthInv`: what each read that
matters has told is the array that the device has for it in the mode it is in now.
For descriptors that follows from `AnswerInv`, since the host knows how long they are.
A string it reads without knowing that, and takes if it is as long as its first byte
says. `FirstByteInv` is what makes that safe although packets are lost: the first byte
that the host has is a byte of the answer and never its second one, because that one
is sent with the token that a host at its beginning discards; and no character is as
small as the length of a string. A mode change clears what the host has read,
through `usb_init`'s disconnection. With the arrays as they are, the rest is
arithmetic: `ParseTrace` names the host's parser after each byte of a report
descriptor (the fold is a function of the prefixes), `ParsedItemBy` says what one item
does to it, `KeyboardReport` and `ProtocolReport` walk the two descriptors, and
`KeycodeBound` says that no entry of `ascii_to_keycode` is above the highest usage that
the keyboard announces. They give `DeviceAlwaysKnown`.

**Oscillator** (`ArithmeticProofs`). The binary search keeps the target between
`trial_value` and `trial_value + 2 * step` whatever the oscillator (`SearchInv`), so
no sum of the search wraps. On one that rises through the target, the value found
and its upper neighbour are the best from either side (`BestOfTwo`), and the second
loop keeps the best of those it has measured (`NeighbourInv`), the first of which
beats the frame length that `optimum_dev` starts with. The exception in
`NeighbourInv` is the loop that never ends, in which nothing is claimed.
They give `CalibrationFindsOptimum`.

**Checksum** (also `ArithmeticProofs`). Two inductions, over the bits of a word and
the bytes of a message, made with sets (`Loops`: a set of numbers with zero and all
its successors is Nat, since what is missing would have a least element); each
recursive function is first shown to exist. Words are read as sets of exponents, the
polynomials over GF(2): XOR is the symmetric difference, and one pass of the loop in
`crc16_update` is one step of the long division (`RoundOf`). Dividing a longer
message continues the division of the shorter one, so that updating a remainder by a
byte gives the next remainder (`UpdateIsRemainder`), which gives
`RunningIsAlwaysRemainder`. Two words that differ still differ after a pass of the
loop, because the polynomial has a constant term, and so after every equal byte that
follows: `OneWrongByteAlwaysDetected`.

**Only model-checked.** `EveryScriptStops`, `ReachesKeyboard`, `TransfersEnd`,
`WaitsEnd`, `CalibrationEnds` and `EnumeratesEventually`: liveness under fairness,
which is beyond the prover. Every other property of a passing run is a theorem.

## Not modelled, and what comes next

Left out for good: the LED's pin; of the vendored driver the bit level and its
timing, which is counted cycles of assembly, and what `usbconfig.h` compiles out
(HALT, endpoint 3, OUT endpoints, flow control);
`engine_stop`, `keyboard_release_all`, `keyboard_get_led_state` and
`storage_verify_crc`, which nothing calls (the last is an operator, for the finding
about it). Programming one EEPROM byte is taken to be atomic, and reading it back to
give what was written. The oscillator does not drift while it is measured. Ticks that
are lost while interrupts are off lengthen a wait and are not counted. A packet that
is damaged on its way to the device is one that the host repeats; a packet whose
damage the CRC does not show is not modelled.

The plan, in order:

1. done: Crc16, Storage, Protocol, with their runs and proofs.
2. done: ScriptEngine and ScriptMeaning; DeviceMode and its refinement of
   Protocol.
3. done: RawHid, its types, its delivery of reports and completion proved.
4. done: Timer, its bounds proved; Oscillator.
5. done: Keycode, with the engine playing text through it.
6. done: Descriptors and Enumeration, the agreement of addresses proved.
7. done: KeyboardEndpoint as an implementation of ReportChannel, proved.
8. done: proofs of the rest of RawHid, of the enumeration's types and reads, and
   of the oscillator's search and the checksum.
9. done: proofs that every well-formed program plays what it means, and that a
   program of text types it on the firmware's keycode table; and that a host knows
   the device it has enumerated.
10. Composition: the engine started by the device on what the device committed;
    the protocol behind the transport.
