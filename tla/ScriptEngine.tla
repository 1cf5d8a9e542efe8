---------------------------- MODULE ScriptEngine ----------------------------
(***************************************************************************)
(* script_engine.c: the interpreter that plays the stored script as        *)
(* keyboard reports, and the interrupt endpoint that carries them to the   *)
(* host (usb_keyboard.c).                                                  *)
(*                                                                         *)
(* One action is one opcode, or one character of a STRING.  send_report    *)
(* waits until the endpoint is free, so the reports of an opcode stand in  *)
(* outbox until SendReport has handed each of them over; the interpreter   *)
(* goes on when outbox is empty.  The host polls the endpoint whenever it  *)
(* likes.  Time is abstracted: a DELAY lasts any finite time.              *)
(***************************************************************************)
EXTENDS Integers, Sequences, FiniteSets

CONSTANTS
  ByteBase,   \* number of values of a byte (256)
  MaxKeys,    \* KEYBOARD_MAX_KEYS (6)
  Scripts,    \* the scripts the EEPROM may hold; << >> when none is valid
  keycode_of(_)  \* keycode_from_ascii: a record of a keycode (0: none) and modifiers

Byte == 0 .. ByteBase - 1

OP_END == 0
OP_DELAY == 1
OP_KEY_DOWN == 2
OP_KEY_UP == 3
OP_MOD == 4
OP_TAP == 5
OP_REPEAT == 6
OP_COMBO == 7
OP_STRING == 8

ASSUME EngineAssumption ==
  /\ ByteBase \in Nat /\ ByteBase > OP_STRING
  /\ MaxKeys \in Nat /\ MaxKeys > 0
  /\ Scripts \subseteq Seq(Byte)

ASSUME KeycodeAssumption ==
  \A c \in Byte : keycode_of(c) \in [keycode : Byte, modifiers : Byte]

VARIABLES
  script,         \* the script bytes of the EEPROM, as many as cache.length
  connected,      \* has_communicated: the host sent a class request
  state,          \* engine.state
  ptr,            \* engine.ptr
  modifiers,      \* engine.modifiers
  keys,           \* engine.keys, the first engine.key_count of them
  in_repeat, repeat_start, repeat_count, repeat_length,
  typing,         \* characters op_string has still to type
  outbox,         \* reports the opcode has still to hand over
  endpoint,       \* the report the host has still to poll, if any
  seen            \* every report the host has polled

repeat_vars == <<in_repeat, repeat_start, repeat_count, repeat_length>>
usb_vars == <<connected, endpoint, seen>>
vars == <<script, connected, state, ptr, modifiers, keys, in_repeat, repeat_start,
          repeat_count, repeat_length, typing, outbox, endpoint, seen>>

IsInjectiveSeq(s) == \A i, j \in 1 .. Len(s) : s[i] = s[j] => i = j

KeyList == {s \in Seq(Byte) : Len(s) <= MaxKeys /\ IsInjectiveSeq(s)}
KeyReport == [modifiers : Byte, keys : KeyList]
Report(mods, ks) == [modifiers |-> mods, keys |-> ks]
Released == Report(0, << >>)
NoReport == [none |-> TRUE]

States == {"IDLE", "RUNNING", "DELAYING", "FINISHED", "ERROR"}

(* The pointer is at most one nested REPEAT's skip past the end.           *)
TypeOK ==
  /\ script \in Scripts
  /\ connected \in BOOLEAN
  /\ state \in States
  /\ ptr \in 0 .. Len(script) + ByteBase - 1
  /\ modifiers \in Byte
  /\ keys \in KeyList
  /\ in_repeat \in BOOLEAN
  /\ repeat_start \in 0 .. Len(script)
  /\ repeat_count \in Byte
  /\ repeat_length \in Byte
  /\ typing \in Byte
  /\ outbox \in Seq(KeyReport) /\ Len(outbox) <= 3
  /\ endpoint \in KeyReport \union {NoReport}
  /\ seen \in Seq(KeyReport)

(* keyboard_init and engine_init; the host has just enumerated the device. *)
Init ==
  /\ script \in Scripts
  /\ connected = FALSE
  /\ state = "IDLE"
  /\ ptr = 0
  /\ modifiers = 0
  /\ keys = << >>
  /\ in_repeat = FALSE /\ repeat_start = 0 /\ repeat_count = 0 /\ repeat_length = 0
  /\ typing = 0
  /\ outbox = << >>
  /\ endpoint = NoReport
  /\ seen = << >>
-----------------------------------------------------------------------------
(* Key management.                                                         *)
Holds(ks, key) == \E i \in 1 .. Len(ks) : ks[i] = key

(* Mutant: the limit is not checked.                                       *)
add_key_unlimited(ks, key) ==
  IF Holds(ks, key) THEN ks ELSE Append(ks, key)

add_key(ks, key) ==
  IF Holds(ks, key) \/ Len(ks) >= MaxKeys THEN ks ELSE Append(ks, key)

(* The last key takes the place of the first one found.                    *)
remove_key(ks, key) ==
  IF ~ Holds(ks, key) THEN ks
  ELSE LET at == CHOOSE i \in 1 .. Len(ks) :
                   ks[i] = key /\ \A j \in 1 .. i - 1 : ks[j] # key
       IN  [i \in 1 .. Len(ks) - 1 |-> IF i = at THEN ks[Len(ks)] ELSE ks[i]]

Tap(ks, key) == remove_key(add_key(ks, key), key)
-----------------------------------------------------------------------------
(* Reading the script.  Past the end, read_byte returns OP_END, stays      *)
(* where it is and sets the state to ERROR.                                *)
Executing ==
  /\ state = "RUNNING"
  /\ typing = 0
  /\ outbox = << >>

Fetch(opcode) ==
  /\ Executing
  /\ ptr < Len(script)
  /\ script[ptr + 1] = opcode

InScript(n) == ptr + 1 + n <= Len(script)
Operand(n) == IF InScript(n) THEN script[ptr + 1 + n] ELSE OP_END
PtrAfter(n) == IF InScript(n) THEN ptr + 1 + n ELSE Len(script)
StateAfter(n) == IF InScript(n) THEN "RUNNING" ELSE "ERROR"
-----------------------------------------------------------------------------
(* Mutant: the iterations are not counted down.                            *)
check_repeat_forever(p, active, start, count, length) ==
  /\ repeat_count' = count
  /\ in_repeat' = active
  /\ ptr' = IF active /\ p >= start + length THEN start ELSE p

(* Mutant: the block is left one iteration early.                          *)
check_repeat_early(p, active, start, count, length) ==
  \/ /\ ~ active \/ p < start + length
     /\ ptr' = p
     /\ in_repeat' = active
     /\ repeat_count' = count
  \/ /\ active /\ p >= start + length
     /\ repeat_count' = (count + ByteBase - 1) % ByteBase
     /\ \/ repeat_count' > 1 /\ ptr' = start /\ in_repeat' = TRUE
        \/ repeat_count' <= 1 /\ ptr' = p /\ in_repeat' = FALSE

(* check_repeat, run after every opcode: at the end of the block, back to  *)
(* its start or on.  The count is a byte.                                  *)
check_repeat(p, active, start, count, length) ==
  \/ /\ ~ active \/ p < start + length
     /\ ptr' = p
     /\ in_repeat' = active
     /\ repeat_count' = count
  \/ /\ active /\ p >= start + length
     /\ repeat_count' = (count + ByteBase - 1) % ByteBase
     /\ \/ repeat_count' > 0 /\ ptr' = start /\ in_repeat' = TRUE
        \/ repeat_count' = 0 /\ ptr' = p /\ in_repeat' = FALSE

EndOpcode(p) ==
  /\ check_repeat(p, in_repeat, repeat_start, repeat_count, repeat_length)
  /\ UNCHANGED <<repeat_start, repeat_length>>
-----------------------------------------------------------------------------
(* The opcodes.                                                            *)
(* Mutant: END clears the modifiers and leaves the keys.                   *)
op_end_keeps_keys ==
  /\ Fetch(OP_END)
  /\ modifiers' = 0 /\ keys' = keys
  /\ outbox' = <<Report(0, keys)>>
  /\ state' = "FINISHED"
  /\ EndOpcode(PtrAfter(0))
  /\ UNCHANGED <<script, typing, usb_vars>>

op_end ==
  /\ Fetch(OP_END)
  /\ modifiers' = 0 /\ keys' = << >>
  /\ outbox' = <<Released>>
  /\ state' = "FINISHED"
  /\ EndOpcode(PtrAfter(0))
  /\ UNCHANGED <<script, typing, usb_vars>>

(* A truncated operand is no error here: the state is set afterwards.      *)
op_delay ==
  /\ Fetch(OP_DELAY)
  /\ state' = "DELAYING"
  /\ EndOpcode(PtrAfter(2))
  /\ UNCHANGED <<script, modifiers, keys, typing, outbox, usb_vars>>

op_key_down ==
  /\ Fetch(OP_KEY_DOWN)
  /\ keys' = add_key(keys, Operand(1))
  /\ outbox' = <<Report(modifiers, add_key(keys, Operand(1)))>>
  /\ state' = StateAfter(1)
  /\ EndOpcode(PtrAfter(1))
  /\ UNCHANGED <<script, modifiers, typing, usb_vars>>

op_key_up ==
  /\ Fetch(OP_KEY_UP)
  /\ keys' = remove_key(keys, Operand(1))
  /\ outbox' = <<Report(modifiers, remove_key(keys, Operand(1)))>>
  /\ state' = StateAfter(1)
  /\ EndOpcode(PtrAfter(1))
  /\ UNCHANGED <<script, modifiers, typing, usb_vars>>

op_mod ==
  /\ Fetch(OP_MOD)
  /\ modifiers' = Operand(1)
  /\ outbox' = <<Report(Operand(1), keys)>>
  /\ state' = StateAfter(1)
  /\ EndOpcode(PtrAfter(1))
  /\ UNCHANGED <<script, keys, typing, usb_vars>>

TapReports(mods, key) ==
  <<Report(mods, add_key(keys, key)), Report(mods, Tap(keys, key))>>

op_tap_opcode ==
  /\ Fetch(OP_TAP)
  /\ keys' = Tap(keys, Operand(1))
  /\ outbox' = TapReports(modifiers, Operand(1))
  /\ state' = StateAfter(1)
  /\ EndOpcode(PtrAfter(1))
  /\ UNCHANGED <<script, modifiers, typing, usb_vars>>

(* Inside a block, the inner block is skipped; else the block begins.      *)
op_repeat ==
  /\ Fetch(OP_REPEAT)
  /\ \/ /\ in_repeat
        /\ EndOpcode(PtrAfter(2) + Operand(2))
     \/ /\ ~ in_repeat
        /\ repeat_start' = PtrAfter(2)
        /\ repeat_length' = Operand(2)
        /\ check_repeat(PtrAfter(2), TRUE, PtrAfter(2), Operand(1), Operand(2))
  /\ state' = StateAfter(2)
  /\ UNCHANGED <<script, modifiers, keys, typing, outbox, usb_vars>>

combo_reports(mask, key) ==
  <<Report(mask, add_key(keys, key)), Report(modifiers, Tap(keys, key))>>

op_combo ==
  /\ Fetch(OP_COMBO)
  /\ keys' = Tap(keys, Operand(2))
  /\ outbox' = combo_reports(Operand(1), Operand(2))
  /\ state' = StateAfter(2)
  /\ EndOpcode(PtrAfter(2))
  /\ UNCHANGED <<script, modifiers, typing, usb_vars>>

(* op_string: the length, then a character per step.                       *)
op_string ==
  /\ Fetch(OP_STRING)
  /\ typing' = Operand(1)
  /\ state' = StateAfter(1)
  /\ \/ Operand(1) = 0 /\ EndOpcode(PtrAfter(1))
     \/ Operand(1) > 0 /\ ptr' = PtrAfter(1) /\ UNCHANGED repeat_vars
  /\ UNCHANGED <<script, modifiers, keys, outbox, usb_vars>>

(* A shifted character has a third report, which restores the modifiers.   *)
CharacterReports(c) ==
  IF c.keycode = 0 THEN << >>
  ELSE IF c.modifiers # 0
       THEN Append(TapReports(c.modifiers, c.keycode),
                   Report(modifiers, Tap(keys, c.keycode)))
       ELSE TapReports(modifiers, c.keycode)

TypeCharacter ==
  /\ state = "RUNNING" /\ typing > 0 /\ outbox = << >>
  /\ ptr < Len(script)
  /\ LET c == keycode_of(script[ptr + 1])
     IN  /\ keys' = IF c.keycode = 0 THEN keys ELSE Tap(keys, c.keycode)
         /\ outbox' = CharacterReports(c)
  /\ typing' = typing - 1
  /\ \/ typing = 1 /\ EndOpcode(ptr + 1)
     \/ typing > 1 /\ ptr' = ptr + 1 /\ UNCHANGED repeat_vars
  /\ UNCHANGED <<script, state, modifiers, usb_vars>>

(* Any other opcode.                                                       *)
InvalidOpcode ==
  /\ Executing
  /\ ptr < Len(script)
  /\ script[ptr + 1] > OP_STRING
  /\ modifiers' = 0 /\ keys' = << >>
  /\ outbox' = <<Released>>
  /\ state' = "ERROR"
  /\ EndOpcode(PtrAfter(0))
  /\ UNCHANGED <<script, typing, usb_vars>>

(* The script ends where an opcode or a character should be.               *)
RunPastEnd ==
  /\ state = "RUNNING" /\ outbox = << >>
  /\ ptr >= Len(script)
  /\ state' = "ERROR"
  /\ typing' = 0
  /\ EndOpcode(ptr)
  /\ UNCHANGED <<script, modifiers, keys, outbox, usb_vars>>

execute_opcode ==
  \/ op_end
  \/ op_delay
  \/ op_key_down
  \/ op_key_up
  \/ op_mod
  \/ op_tap_opcode
  \/ op_repeat
  \/ op_combo
  \/ op_string
  \/ TypeCharacter
  \/ InvalidOpcode
  \/ RunPastEnd
-----------------------------------------------------------------------------
(* engine_start, which the keyboard loop calls once the host has           *)
(* communicated; without a valid script the state stays IDLE.              *)
engine_start ==
  /\ connected
  /\ state = "IDLE"
  /\ script # << >>
  /\ state' = "RUNNING"
  /\ UNCHANGED <<script, ptr, modifiers, keys, repeat_vars, typing, outbox, usb_vars>>

DelayElapsed ==
  /\ state = "DELAYING"
  /\ outbox = << >>
  /\ state' = "RUNNING"
  /\ UNCHANGED <<script, ptr, modifiers, keys, repeat_vars, typing, outbox, usb_vars>>

(* Mutant: send_report does not wait, and keyboard_send_report drops the   *)
(* report when the endpoint is busy.                                       *)
SendReportAtOnce ==
  /\ outbox # << >>
  /\ endpoint' = IF endpoint = NoReport THEN Head(outbox) ELSE endpoint
  /\ outbox' = Tail(outbox)
  /\ UNCHANGED <<script, connected, state, ptr, modifiers, keys, repeat_vars, typing, seen>>

SendReport ==
  /\ outbox # << >>
  /\ endpoint = NoReport
  /\ endpoint' = Head(outbox)
  /\ outbox' = Tail(outbox)
  /\ UNCHANGED <<script, connected, state, ptr, modifiers, keys, repeat_vars, typing, seen>>

engine_tick == execute_opcode \/ DelayElapsed \/ SendReport

(* The host.                                                               *)
HostPoll ==
  /\ endpoint # NoReport
  /\ seen' = Append(seen, endpoint)
  /\ endpoint' = NoReport
  /\ UNCHANGED <<script, connected, state, ptr, modifiers, keys, repeat_vars, typing, outbox>>

keyboard_handle_setup ==
  /\ ~ connected
  /\ connected' = TRUE
  /\ UNCHANGED <<script, state, ptr, modifiers, keys, repeat_vars, typing, outbox,
                 endpoint, seen>>

Next == engine_start \/ engine_tick \/ HostPoll \/ keyboard_handle_setup

(* The loop keeps running, timers run out, and the host polls the          *)
(* interrupt endpoint; nothing obliges the host to send a class request.   *)
Fairness == WF_vars(engine_start) /\ WF_vars(engine_tick) /\ WF_vars(HostPoll)

Spec == Init /\ [][Next]_vars /\ Fairness
-----------------------------------------------------------------------------
(* Every report of the script so far, polled or not, in order.             *)
Pending == (IF endpoint = NoReport THEN << >> ELSE <<endpoint>>) \o outbox
Output == seen \o Pending

LastReport == IF Output = << >> THEN Released ELSE Output[Len(Output)]

(* Whatever bytes the script holds and wherever it ends, the last report   *)
(* sent is what the engine believes is held: no key or modifier is pressed *)
(* at the host that the engine has forgotten.  (send_report at the end of  *)
(* every handler; the restore of COMBO and STRING.)                        *)
HostMatchesEngine == LastReport = Report(modifiers, keys)

(* A script that stops at its END leaves the host with nothing pressed,    *)
(* whatever was held and wherever in a REPEAT the END was met.             *)
FinishedIsClean == state = "FINISHED" => LastReport = Released

Stopped == state \in {"FINISHED", "ERROR"} /\ Pending = << >>

(* Every script stops, whatever its bytes, once the host lets it start and *)
(* keeps polling: no REPEAT, nested or truncated, loops for ever.          *)
EveryScriptStops == [](connected /\ script # << >> => <>Stopped)
=============================================================================
