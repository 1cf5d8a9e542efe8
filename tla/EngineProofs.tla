---------------------------- MODULE EngineProofs ----------------------------
(***************************************************************************)
(* The interpreter keeps its types on every byte sequence, and the host    *)
(* never holds a key the interpreter has forgotten.                        *)
(*                                                                         *)
(* A well-formed program is played as its meaning says, whatever program   *)
(* and however long.  The meaning is a fold over instructions and the      *)
(* bytes are a flattened sequence of encodings, so that the place in the   *)
(* program can be named: PlayingInv says that the interpreter is at an     *)
(* instruction of the program, or inside a REPEAT at an instruction of its *)
(* block in some iteration, and that the keyboard is what the instructions *)
(* before it leave.  Every step either ends an instruction, and moves the  *)
(* place on, or sends one of the reports that the instruction shows.       *)
(***************************************************************************)
EXTENDS UsKeyboard, Loops, FiniteSetTheorems, FunctionTheorems

LEMMA Bytes == Byte \subseteq Nat /\ 0 \in Byte
  BY EngineAssumption DEF Byte, OP_STRING

(* The key list stays one of distinct keys, within the limit.              *)
LEMMA AddKeyType ==
  ASSUME NEW ks \in KeyList, NEW key \in Byte
  PROVE  add_key(ks, key) \in KeyList
<1>1. ks \in Seq(Byte) /\ Len(ks) \in Nat /\ Len(ks) <= MaxKeys /\ IsInjectiveSeq(ks)
  BY DEF KeyList
<1>2. CASE Holds(ks, key) \/ Len(ks) >= MaxKeys
  BY <1>2 DEF add_key
<1>3. CASE ~ Holds(ks, key) /\ Len(ks) < MaxKeys
  <2>1. add_key(ks, key) = Append(ks, key)
    BY <1>1, <1>3, EngineAssumption DEF add_key
  <2>2. Append(ks, key) \in Seq(Byte) /\ Len(Append(ks, key)) = Len(ks) + 1
    BY <1>1
  <2>3. ASSUME NEW i \in 1 .. Len(ks) + 1, NEW j \in 1 .. Len(ks) + 1,
               Append(ks, key)[i] = Append(ks, key)[j]
        PROVE  i = j
    <3>1. \A k \in 1 .. Len(ks) : Append(ks, key)[k] = ks[k] /\ ks[k] # key
      BY <1>1, <1>3 DEF Holds
    <3>2. Append(ks, key)[Len(ks) + 1] = key
      BY <1>1
    <3>3. \A k, l \in 1 .. Len(ks) : ks[k] = ks[l] => k = l
      BY <1>1 DEF IsInjectiveSeq
    <3>. QED BY <1>1, <2>3, <3>1, <3>2, <3>3
  <2>4. IsInjectiveSeq(Append(ks, key))
    BY <2>2, <2>3 DEF IsInjectiveSeq
  <2>5. Len(ks) + 1 <= MaxKeys
    BY <1>1, <1>3, EngineAssumption
  <2>. QED BY <2>1, <2>2, <2>4, <2>5 DEF KeyList
<1>. QED BY <1>1, <1>2, <1>3, EngineAssumption

LEMMA RemoveKeyType ==
  ASSUME NEW ks \in KeyList, NEW key
  PROVE  remove_key(ks, key) \in KeyList
<1>1. ks \in Seq(Byte) /\ Len(ks) \in Nat /\ Len(ks) <= MaxKeys
  BY DEF KeyList
<1>2. \A k, l \in 1 .. Len(ks) : ks[k] = ks[l] => k = l
  BY DEF KeyList, IsInjectiveSeq
<1>3. CASE ~ Holds(ks, key)
  BY <1>3 DEF remove_key
<1>4. CASE Holds(ks, key)
  <2>. DEFINE at == CHOOSE i \in 1 .. Len(ks) :
                      ks[i] = key /\ \A j \in 1 .. i - 1 : ks[j] # key
              rest == [i \in 1 .. Len(ks) - 1 |-> IF i = at THEN ks[Len(ks)] ELSE ks[i]]
  <2>1. remove_key(ks, key) = rest
    BY <1>4 DEF remove_key
  <2>2. Len(ks) - 1 \in Nat
    BY <1>1, <1>4 DEF Holds
  <2>3. \A i \in 1 .. Len(ks) - 1 : rest[i] \in Byte
    BY <1>1, <2>2
  <2>4. rest \in Seq(Byte) /\ Len(rest) = Len(ks) - 1
    <3>1. rest \in [1 .. Len(ks) - 1 -> Byte]
      BY <2>3
    <3>. HIDE DEF rest
    <3>. QED BY <2>2, <3>1
  <2>5. ASSUME NEW i \in 1 .. Len(ks) - 1, NEW j \in 1 .. Len(ks) - 1, rest[i] = rest[j]
        PROVE  i = j
    <3>. HIDE DEF at
    <3>1. i \in 1 .. Len(ks) /\ j \in 1 .. Len(ks) /\ Len(ks) \in 1 .. Len(ks)
          /\ i # Len(ks) /\ j # Len(ks)
      BY <1>1, <2>2
    <3>. QED BY <1>2, <2>5, <3>1
  <2>. HIDE DEF rest
  <2>. QED BY <1>1, <2>1, <2>2, <2>4, <2>5, EngineAssumption DEF KeyList, IsInjectiveSeq
<1>. QED BY <1>3, <1>4

LEMMA KeyLists ==
  ASSUME NEW ks \in KeyList, NEW key \in Byte
  PROVE  /\ add_key(ks, key) \in KeyList
         /\ remove_key(ks, key) \in KeyList
         /\ Tap(ks, key) \in KeyList
  BY AddKeyType, RemoveKeyType DEF Tap

LEMMA EmptyKeyList == << >> \in KeyList
  BY EngineAssumption DEF KeyList, IsInjectiveSeq

LEMMA ReportType ==
  ASSUME NEW m \in Byte, NEW ks \in KeyList
  PROVE  Report(m, ks) \in KeyReport /\ Report(m, ks) # NoReport
  BY DEF Report, KeyReport, NoReport
-----------------------------------------------------------------------------
(* The script and its pointer.                                             *)
LEMMA ScriptType ==
  ASSUME script \in Scripts
  PROVE  script \in Seq(Byte) /\ Len(script) \in Nat
  BY EngineAssumption

LEMMA Operands ==
  ASSUME script \in Scripts, NEW n \in {0, 1, 2}, ptr \in Nat, ptr < Len(script)
  PROVE  /\ Operand(n) \in Byte
         /\ PtrAfter(n) \in 0 .. Len(script)
         /\ StateAfter(n) \in States
<1>1. script \in Seq(Byte) /\ Len(script) \in Nat
  BY ScriptType
<1>2. InScript(n) => ptr + 1 + n \in 1 .. Len(script)
  BY <1>1 DEF InScript
<1>3. Operand(n) \in Byte
  BY <1>1, <1>2, Bytes DEF Operand, OP_END
<1>. QED BY <1>1, <1>2, <1>3 DEF PtrAfter, StateAfter, States

LEMMA CheckRepeatType ==
  ASSUME script \in Scripts, NEW p \in 0 .. Len(script) + ByteBase - 1,
         NEW active \in BOOLEAN, NEW start \in 0 .. Len(script), NEW count \in Byte,
         NEW length \in Byte, check_repeat(p, active, start, count, length)
  PROVE  /\ ptr' \in 0 .. Len(script) + ByteBase - 1
         /\ in_repeat' \in BOOLEAN
         /\ repeat_count' \in Byte
<1>1. Len(script) \in Nat /\ ByteBase \in Nat /\ ByteBase > 0
  BY ScriptType, EngineAssumption DEF OP_STRING
<1>2. start \in 0 .. Len(script) + ByteBase - 1
  BY <1>1
<1>3. (count + ByteBase - 1) % ByteBase \in Byte
  <2>1. count + ByteBase - 1 \in Int
    BY <1>1, Bytes
  <2>. QED BY <1>1, <2>1 DEF Byte
<1>. QED BY <1>2, <1>3 DEF check_repeat

LEMMA EndOpcodeType ==
  ASSUME TypeOK, NEW p \in 0 .. Len(script) + ByteBase - 1, EndOpcode(p)
  PROVE  /\ ptr' \in 0 .. Len(script) + ByteBase - 1
         /\ in_repeat' \in BOOLEAN
         /\ repeat_count' \in Byte
         /\ repeat_start' = repeat_start /\ repeat_length' = repeat_length
  BY CheckRepeatType DEF EndOpcode, TypeOK
-----------------------------------------------------------------------------
(* An opcode that ends at p and sends the reports of outbox'.              *)
LEMMA OpcodeType ==
  ASSUME TypeOK, NEW p \in 0 .. Len(script) + ByteBase - 1, EndOpcode(p),
         UNCHANGED <<script, usb_vars>>, state' \in States, modifiers' \in Byte,
         keys' \in KeyList, typing' \in Byte, outbox' \in Seq(KeyReport), Len(outbox') <= 3
  PROVE  TypeOK'
  BY EndOpcodeType DEF TypeOK, usb_vars

LEMMA Fetched ==
  ASSUME TypeOK, NEW opcode, Fetch(opcode), NEW n \in {0, 1, 2}
  PROVE  /\ Operand(n) \in Byte
         /\ PtrAfter(n) \in 0 .. Len(script)
         /\ PtrAfter(n) \in 0 .. Len(script) + ByteBase - 1
         /\ StateAfter(n) \in States
<1>1. script \in Scripts /\ Len(script) \in Nat /\ ptr \in Nat /\ ptr < Len(script)
  BY ScriptType, EngineAssumption DEF Fetch, TypeOK
<1>2. ByteBase \in Nat /\ ByteBase > 0
  BY EngineAssumption DEF OP_STRING
<1>3. Operand(n) \in Byte /\ PtrAfter(n) \in 0 .. Len(script) /\ StateAfter(n) \in States
  BY <1>1, Operands
<1>. QED BY <1>1, <1>2, <1>3
-----------------------------------------------------------------------------
LEMMA OneReport ==
  ASSUME NEW a \in KeyReport
  PROVE  <<a>> \in Seq(KeyReport) /\ Len(<<a>>) <= 3
  OBVIOUS

LEMMA TwoReports ==
  ASSUME NEW a \in KeyReport, NEW b \in KeyReport
  PROVE  <<a, b>> \in Seq(KeyReport) /\ Len(<<a, b>>) <= 3
  OBVIOUS

LEMMA StopType ==
  ASSUME TypeOK, op_end \/ InvalidOpcode
  PROVE  TypeOK'
<1>1. /\ ptr < Len(script) /\ EndOpcode(PtrAfter(0))
      /\ modifiers' = 0 /\ keys' = << >> /\ outbox' = <<Released>>
      /\ state' \in States /\ UNCHANGED <<script, typing, usb_vars>>
  BY DEF op_end, InvalidOpcode, Fetch, States
<1>2. PtrAfter(0) \in 0 .. Len(script) + ByteBase - 1
  BY <1>1, Fetched DEF Fetch, op_end, InvalidOpcode
<1>3. <<Released>> \in Seq(KeyReport) /\ Len(<<Released>>) <= 3
  BY EmptyKeyList, Bytes, ReportType, OneReport DEF Released
<1>. QED BY <1>1, <1>2, <1>3, EmptyKeyList, Bytes, OpcodeType DEF TypeOK

LEMMA KeyOpcodeType ==
  ASSUME TypeOK, op_key_down \/ op_key_up \/ op_mod \/ op_tap_opcode
  PROVE  TypeOK'
<1>. DEFINE key == Operand(1)
<1>1. \E opcode : Fetch(opcode)
  BY DEF op_key_down, op_key_up, op_mod, op_tap_opcode
<1>2. /\ key \in Byte /\ PtrAfter(1) \in 0 .. Len(script) + ByteBase - 1
      /\ StateAfter(1) \in States
  BY <1>1, Fetched
<1>3. /\ add_key(keys, key) \in KeyList /\ remove_key(keys, key) \in KeyList
      /\ Tap(keys, key) \in KeyList
      /\ keys \in KeyList /\ modifiers \in Byte /\ typing \in Byte
  BY <1>2, KeyLists DEF TypeOK
<1>4. /\ EndOpcode(PtrAfter(1)) /\ state' = StateAfter(1)
      /\ UNCHANGED <<script, usb_vars>> /\ typing' = typing
  BY DEF op_key_down, op_key_up, op_mod, op_tap_opcode
<1>5. keys' \in KeyList /\ modifiers' \in Byte
  BY <1>2, <1>3 DEF op_key_down, op_key_up, op_mod, op_tap_opcode
<1>6. outbox' \in Seq(KeyReport) /\ Len(outbox') <= 3
  <2>1. CASE op_key_down
    BY <1>3, <2>1, ReportType, OneReport DEF op_key_down
  <2>2. CASE op_key_up
    BY <1>3, <2>2, ReportType, OneReport DEF op_key_up
  <2>3. CASE op_mod
    BY <1>2, <1>3, <2>3, ReportType, OneReport DEF op_mod
  <2>4. CASE op_tap_opcode
    BY <1>3, <2>4, ReportType, TwoReports DEF op_tap_opcode, TapReports
  <2>. QED BY <2>1, <2>2, <2>3, <2>4
<1>. QED BY <1>2, <1>3, <1>4, <1>5, <1>6, OpcodeType

LEMMA DelayType ==
  ASSUME TypeOK, op_delay
  PROVE  TypeOK'
<1>1. PtrAfter(2) \in 0 .. Len(script) + ByteBase - 1
  BY Fetched DEF op_delay
<1>. QED BY <1>1, OpcodeType DEF op_delay, States, TypeOK

LEMMA ComboType ==
  ASSUME TypeOK, op_combo
  PROVE  TypeOK'
<1>1. /\ Operand(1) \in Byte /\ Operand(2) \in Byte /\ StateAfter(2) \in States
      /\ PtrAfter(2) \in 0 .. Len(script) + ByteBase - 1
  BY Fetched DEF op_combo
<1>2. add_key(keys, Operand(2)) \in KeyList /\ Tap(keys, Operand(2)) \in KeyList
  BY <1>1, KeyLists DEF TypeOK
<1>3. outbox' \in Seq(KeyReport) /\ Len(outbox') <= 3
  BY <1>1, <1>2, ReportType, TwoReports DEF op_combo, combo_reports, TypeOK
<1>. QED BY <1>1, <1>2, <1>3, OpcodeType DEF op_combo, TypeOK

LEMMA RepeatType ==
  ASSUME TypeOK, op_repeat
  PROVE  TypeOK'
<1>1. /\ Operand(1) \in Byte /\ Operand(2) \in Byte /\ StateAfter(2) \in States
      /\ PtrAfter(2) \in 0 .. Len(script)
      /\ PtrAfter(2) \in 0 .. Len(script) + ByteBase - 1
  BY Fetched DEF op_repeat
<1>2. CASE in_repeat /\ EndOpcode(PtrAfter(2) + Operand(2))
  <2>1. Operand(2) \in 0 .. ByteBase - 1 /\ Len(script) \in Nat /\ ByteBase \in Nat
    BY <1>1, ScriptType, EngineAssumption DEF TypeOK, Byte
  <2>2. PtrAfter(2) + Operand(2) \in 0 .. Len(script) + ByteBase - 1
    BY <1>1, <2>1
  <2>. QED BY <1>1, <1>2, <2>2, OpcodeType DEF op_repeat, TypeOK
<1>3. CASE /\ repeat_start' = PtrAfter(2) /\ repeat_length' = Operand(2)
           /\ check_repeat(PtrAfter(2), TRUE, PtrAfter(2), Operand(1), Operand(2))
  <2>1. /\ ptr' \in 0 .. Len(script) + ByteBase - 1
        /\ in_repeat' \in BOOLEAN /\ repeat_count' \in Byte
    BY <1>1, <1>3, CheckRepeatType DEF TypeOK
  <2>. QED BY <1>1, <1>3, <2>1 DEF op_repeat, TypeOK, usb_vars
<1>. QED BY <1>2, <1>3 DEF op_repeat

LEMMA StringType ==
  ASSUME TypeOK, op_string
  PROVE  TypeOK'
<1>1. /\ Operand(1) \in Byte /\ StateAfter(1) \in States
      /\ PtrAfter(1) \in 0 .. Len(script) + ByteBase - 1
  BY Fetched DEF op_string
<1>2. CASE EndOpcode(PtrAfter(1))
  BY <1>1, <1>2, OpcodeType DEF op_string, TypeOK
<1>3. CASE ptr' = PtrAfter(1) /\ UNCHANGED repeat_vars
  BY <1>1, <1>3 DEF op_string, TypeOK, usb_vars, repeat_vars
<1>. QED BY <1>2, <1>3 DEF op_string

LEMMA CharacterType ==
  ASSUME TypeOK, TypeCharacter
  PROVE  TypeOK'
<1>. DEFINE c == keycode_of(script[ptr + 1])
<1>1. /\ script \in Seq(Byte) /\ Len(script) \in Nat /\ ptr \in Nat /\ ptr < Len(script)
      /\ ByteBase \in Nat /\ ByteBase > 0 /\ typing \in Nat /\ typing > 0
  BY ScriptType, EngineAssumption, Bytes DEF TypeCharacter, TypeOK, OP_STRING
<1>2. script[ptr + 1] \in Byte
  BY <1>1
<1>3. c.keycode \in Byte /\ c.modifiers \in Byte
  BY <1>2, KeycodeAssumption
<1>. HIDE DEF c
<1>4. add_key(keys, c.keycode) \in KeyList /\ Tap(keys, c.keycode) \in KeyList
  BY <1>3, KeyLists DEF TypeOK
<1>5. CharacterReports(c) \in Seq(KeyReport) /\ Len(CharacterReports(c)) <= 3
  <2>1. /\ Report(modifiers, add_key(keys, c.keycode)) \in KeyReport
        /\ Report(modifiers, Tap(keys, c.keycode)) \in KeyReport
        /\ Report(c.modifiers, add_key(keys, c.keycode)) \in KeyReport
        /\ Report(c.modifiers, Tap(keys, c.keycode)) \in KeyReport
    BY <1>3, <1>4, ReportType DEF TypeOK
  <2>. QED BY <2>1 DEF CharacterReports, TapReports
<1>6. keys' = (IF c.keycode = 0 THEN keys ELSE Tap(keys, c.keycode))
      /\ outbox' = CharacterReports(c)
  BY DEF TypeCharacter, c
<1>7. keys' \in KeyList /\ typing' \in Byte
  <2>1. typing - 1 \in Byte
    BY <1>1 DEF TypeOK, Byte
  <2>. QED BY <1>4, <1>6, <2>1 DEF TypeCharacter, TypeOK
<1>8. ptr + 1 \in 0 .. Len(script) + ByteBase - 1
  BY <1>1
<1>9. CASE EndOpcode(ptr + 1)
  BY <1>5, <1>6, <1>7, <1>8, <1>9, OpcodeType DEF TypeCharacter, TypeOK
<1>10. CASE ptr' = ptr + 1 /\ UNCHANGED repeat_vars
  BY <1>5, <1>6, <1>7, <1>8, <1>10 DEF TypeCharacter, TypeOK, usb_vars, repeat_vars
<1>. QED BY <1>9, <1>10 DEF TypeCharacter

LEMMA PastEndType ==
  ASSUME TypeOK, RunPastEnd
  PROVE  TypeOK'
<1>1. ptr \in 0 .. Len(script) + ByteBase - 1
  BY DEF TypeOK
<1>. QED BY <1>1, Bytes, OpcodeType DEF RunPastEnd, TypeOK, States

LEMMA UsbType ==
  ASSUME TypeOK, engine_start \/ DelayElapsed \/ SendReport \/ HostPoll
                 \/ keyboard_handle_setup
  PROVE  TypeOK'
<1>1. CASE engine_start \/ DelayElapsed
  BY <1>1 DEF engine_start, DelayElapsed, TypeOK, repeat_vars, usb_vars, States
<1>2. CASE SendReport
  <2>1. outbox \in Seq(KeyReport) /\ outbox # << >> /\ Len(outbox) <= 3
    BY <1>2 DEF SendReport, TypeOK
  <2>2. /\ Head(outbox) \in KeyReport /\ Tail(outbox) \in Seq(KeyReport)
        /\ Len(Tail(outbox)) <= 3
    BY <2>1
  <2>. QED BY <1>2, <2>2 DEF SendReport, TypeOK, repeat_vars
<1>3. CASE HostPoll
  <2>1. Append(seen, endpoint) \in Seq(KeyReport)
    BY <1>3 DEF HostPoll, TypeOK
  <2>. QED BY <1>3, <2>1 DEF HostPoll, TypeOK, repeat_vars
<1>4. CASE keyboard_handle_setup
  BY <1>4 DEF keyboard_handle_setup, TypeOK, repeat_vars
<1>. QED BY <1>1, <1>2, <1>3, <1>4

LEMMA InitType == Init => TypeOK
<1>. SUFFICES ASSUME Init PROVE TypeOK
  OBVIOUS
<1>1. script \in Scripts /\ Len(script) \in Nat /\ ByteBase \in Nat /\ ByteBase > 0
  BY ScriptType, EngineAssumption DEF Init, OP_STRING
<1>2. 0 \in 0 .. Len(script) /\ 0 \in 0 .. Len(script) + ByteBase - 1
  BY <1>1
<1>3. << >> \in Seq(KeyReport) /\ Len(<< >>) <= 3
  OBVIOUS
<1>. QED BY <1>2, <1>3, Bytes, EmptyKeyList DEF Init, TypeOK, States

LEMMA StepType == TypeOK /\ [Next]_vars => TypeOK'
<1>. SUFFICES ASSUME TypeOK, [Next]_vars PROVE TypeOK'
  OBVIOUS
<1>1. CASE execute_opcode
  BY <1>1, StopType, KeyOpcodeType, DelayType, ComboType, RepeatType, StringType,
     CharacterType, PastEndType
     DEF execute_opcode
<1>2. CASE engine_start \/ DelayElapsed \/ SendReport \/ HostPoll \/ keyboard_handle_setup
  BY <1>2, UsbType
<1>3. CASE UNCHANGED vars
  BY <1>3 DEF vars, TypeOK
<1>. QED BY <1>1, <1>2, <1>3 DEF Next, engine_tick

(* On every byte sequence, the keys are at most MaxKeys and distinct, and  *)
(* the pointer stays within one skip of the end, far from the width of its *)
(* word.                                                                   *)
THEOREM EngineTypeCorrect == Spec => []TypeOK
BY InitType, StepType, PTL DEF Spec
-----------------------------------------------------------------------------
(* The last report sent, by where it stands.                               *)
LastSent ==
  IF outbox # << >> THEN outbox[Len(outbox)]
  ELSE IF endpoint # NoReport THEN endpoint
  ELSE IF seen # << >> THEN seen[Len(seen)]
  ELSE Released

LEMMA LastReportIs ==
  ASSUME TypeOK
  PROVE  LastReport = LastSent
<1>1. /\ outbox \in Seq(KeyReport) /\ seen \in Seq(KeyReport)
      /\ endpoint = NoReport \/ (endpoint \in KeyReport /\ endpoint # NoReport)
  BY DEF TypeOK
<1>. DEFINE held == IF endpoint = NoReport THEN << >> ELSE <<endpoint>>
<1>2. held \in Seq(KeyReport)
  BY <1>1
<1>3. Output = seen \o (held \o outbox)
  BY DEF Output, Pending
<1>4. CASE outbox # << >>
  <2>1. \A s \in Seq(KeyReport) : (s \o outbox) # << >>
          /\ (s \o outbox)[Len(s \o outbox)] = outbox[Len(outbox)]
          /\ s \o outbox \in Seq(KeyReport)
    BY <1>1, <1>4
  <2>2. (held \o outbox) \in Seq(KeyReport) /\ (held \o outbox) # << >>
        /\ (held \o outbox)[Len(held \o outbox)] = outbox[Len(outbox)]
    BY <1>2, <2>1
  <2>. HIDE DEF held
  <2>3. \A t \in Seq(KeyReport) : t # << >> => seen \o t # << >>
          /\ (seen \o t)[Len(seen \o t)] = t[Len(t)]
    BY <1>1
  <2>4. Output # << >> /\ Output[Len(Output)] = outbox[Len(outbox)]
    BY <1>3, <2>2, <2>3
  <2>. QED BY <1>4, <2>4 DEF LastReport, LastSent
<1>5. CASE outbox = << >> /\ endpoint # NoReport
  <2>1. held \o outbox = <<endpoint>>
    BY <1>1, <1>5
  <2>2. Output = seen \o <<endpoint>>
    BY <1>3, <2>1
  <2>3. Output # << >> /\ Output[Len(Output)] = endpoint
    BY <1>1, <1>5, <2>2
  <2>. QED BY <1>5, <2>3 DEF LastReport, LastSent
<1>6. CASE outbox = << >> /\ endpoint = NoReport
  <2>1. held \o outbox = << >>
    BY <1>6
  <2>2. Output = seen
    BY <1>1, <1>3, <2>1
  <2>. QED BY <1>6, <2>2 DEF LastReport, LastSent
<1>. QED BY <1>4, <1>5, <1>6

(* Every opcode either sends what it leaves, as its last report, or sends  *)
(* nothing and leaves the keyboard as it is.                               *)
LEMMA OpcodeShows ==
  ASSUME TypeOK, execute_opcode
  PROVE  /\ outbox = << >> /\ endpoint' = endpoint /\ seen' = seen
         /\ \/ outbox' # << >> /\ outbox'[Len(outbox')] = Report(modifiers', keys')
            \/ outbox' = << >> /\ modifiers' = modifiers /\ keys' = keys
<1>. USE DEF Fetch, Executing, usb_vars
<1>1. CASE op_end
  BY <1>1 DEF op_end, Released
<1>2. CASE op_delay
  BY <1>2 DEF op_delay
<1>3. CASE op_key_down
  BY <1>3 DEF op_key_down
<1>4. CASE op_key_up
  BY <1>4 DEF op_key_up
<1>5. CASE op_mod
  BY <1>5 DEF op_mod
<1>6. CASE op_tap_opcode
  BY <1>6 DEF op_tap_opcode, TapReports
<1>7. CASE op_repeat
  BY <1>7 DEF op_repeat
<1>8. CASE op_combo
  BY <1>8 DEF op_combo, combo_reports
<1>9. CASE op_string
  BY <1>9 DEF op_string
<1>10. CASE TypeCharacter
  BY <1>10 DEF TypeCharacter, CharacterReports, TapReports
<1>11. CASE InvalidOpcode
  BY <1>11 DEF InvalidOpcode, Released
<1>12. CASE RunPastEnd
  BY <1>12 DEF RunPastEnd
<1>. QED BY <1>1, <1>2, <1>3, <1>4, <1>5, <1>6, <1>7, <1>8, <1>9, <1>10, <1>11, <1>12
         DEF execute_opcode

SentMatches == LastSent = Report(modifiers, keys)

LEMMA StepSent ==
  ASSUME TypeOK, SentMatches, [Next]_vars
  PROVE  SentMatches'
<1>1. CASE execute_opcode
  BY <1>1, OpcodeShows DEF SentMatches, LastSent
<1>2. CASE SendReport
  <2>1. /\ outbox \in Seq(KeyReport) /\ outbox # << >>
        /\ endpoint' = Head(outbox) /\ outbox' = Tail(outbox)
        /\ modifiers' = modifiers /\ keys' = keys
    BY <1>2 DEF SendReport, TypeOK
  <2>2. Head(outbox) # NoReport
    <3>1. Head(outbox) \in KeyReport
      BY <2>1
    <3>. QED BY <3>1 DEF KeyReport, NoReport
  <2>3. CASE Len(outbox) = 1
    BY <2>1, <2>2, <2>3 DEF SentMatches, LastSent
  <2>4. CASE Len(outbox) # 1
    <3>1. Tail(outbox) # << >> /\ Tail(outbox)[Len(Tail(outbox))] = outbox[Len(outbox)]
      <4>1. Len(outbox) \in Nat /\ Len(outbox) # 0
        BY <2>1, EmptySeq
      <4>2. Len(outbox) > 1
        BY <4>1, <2>4
      <4>3. /\ Tail(outbox) \in Seq(KeyReport)
            /\ Len(Tail(outbox)) = Len(outbox) - 1
            /\ \A i \in 1 .. Len(outbox) - 1 : Tail(outbox)[i] = outbox[i + 1]
        BY <2>1, HeadTailProperties
      <4>4. Tail(outbox) # << >>
        <5>1. Len(Tail(outbox)) # 0
          BY <4>1, <4>2, <4>3
        <5>2. Len(<< >>) = 0
          BY EmptySeq
        <5>. QED BY <5>1, <5>2
      <4>5. Len(outbox) - 1 \in 1 .. Len(outbox) - 1 /\ (Len(outbox) - 1) + 1 = Len(outbox)
        BY <4>1, <4>2
      <4>6. Tail(outbox)[Len(outbox) - 1] = outbox[(Len(outbox) - 1) + 1]
        BY <4>3, <4>5
      <4>. QED BY <4>3, <4>4, <4>5, <4>6
    <3>. QED BY <2>1, <3>1 DEF SentMatches, LastSent
  <2>. QED BY <2>3, <2>4
<1>3. CASE HostPoll
  <2>1. /\ endpoint # NoReport /\ endpoint' = NoReport /\ seen' = Append(seen, endpoint)
        /\ outbox' = outbox /\ modifiers' = modifiers /\ keys' = keys
    BY <1>3 DEF HostPoll
  <2>2. seen' # << >> /\ seen'[Len(seen')] = endpoint
    BY <2>1 DEF TypeOK
  <2>. QED BY <2>1, <2>2 DEF SentMatches, LastSent
<1>4. CASE engine_start \/ DelayElapsed \/ keyboard_handle_setup
  BY <1>4 DEF engine_start, DelayElapsed, keyboard_handle_setup, usb_vars, SentMatches,
              LastSent
<1>5. CASE UNCHANGED vars
  BY <1>5 DEF vars, SentMatches, LastSent
<1>. QED BY <1>1, <1>2, <1>3, <1>4, <1>5 DEF Next, engine_tick

(* Whatever bytes are played and wherever they end, nothing is pressed at  *)
(* the host that the engine does not hold: every handler ends by sending   *)
(* the state it leaves, and no report is dropped on the way.               *)
THEOREM HostAlwaysMatches == Spec => []HostMatchesEngine
<1>1. Init => SentMatches
  BY DEF Init, SentMatches, LastSent, Released
<1>2. TypeOK /\ SentMatches /\ [Next]_vars => SentMatches'
  BY StepSent
<1>3. TypeOK /\ SentMatches => HostMatchesEngine
  BY LastReportIs DEF SentMatches, HostMatchesEngine
<1>. QED BY <1>1, <1>2, <1>3, EngineTypeCorrect, PTL DEF Spec
-----------------------------------------------------------------------------
Finished == state = "FINISHED" => modifiers = 0 /\ keys = << >>

LEMMA StepFinished ==
  ASSUME TypeOK, Finished, [Next]_vars
  PROVE  Finished'
<1>1. CASE op_end
  BY <1>1 DEF op_end, Finished
<1>2. CASE execute_opcode /\ ~ op_end
  BY <1>2 DEF execute_opcode, op_delay, op_key_down, op_key_up, op_mod, op_tap_opcode,
     op_repeat, op_combo, op_string, TypeCharacter, InvalidOpcode, RunPastEnd, StateAfter,
     Finished
<1>3. CASE engine_start \/ DelayElapsed
  BY <1>3 DEF engine_start, DelayElapsed, Finished
<1>4. CASE SendReport \/ HostPoll \/ keyboard_handle_setup
  BY <1>4 DEF SendReport, HostPoll, keyboard_handle_setup, Finished
<1>5. CASE UNCHANGED vars
  BY <1>5 DEF vars, Finished
<1>. QED BY <1>1, <1>2, <1>3, <1>4, <1>5 DEF Next, engine_tick

(* Every script that reaches its END, well-formed or not, leaves the       *)
(* keyboard released.                                                      *)
THEOREM FinishedAlwaysClean == Spec => []FinishedIsClean
<1>1. Init => Finished
  BY DEF Init, Finished
<1>2. TypeOK /\ Finished /\ [Next]_vars => Finished'
  BY StepFinished
<1>3. Finished /\ HostMatchesEngine => FinishedIsClean
  BY DEF Finished, HostMatchesEngine, FinishedIsClean, Released
<1>. QED BY <1>1, <1>2, <1>3, EngineTypeCorrect, HostAlwaysMatches, PTL DEF Spec
-----------------------------------------------------------------------------
(* A keyboard of the meaning, and the reports it shows.                    *)
Views == [mods : Byte, held : SUBSET Byte]
Keyboards == [mods : Byte, held : SUBSET Byte, shown : Seq(Views)]

LEMMA ShowType ==
  ASSUME NEW kb \in Keyboards, NEW mods \in Byte, NEW held \in SUBSET Byte
  PROVE  /\ Show(kb, mods, held) \in Keyboards
         /\ Show(kb, mods, held).mods = kb.mods
         /\ Show(kb, mods, held).held = kb.held
         /\ Show(kb, mods, held).shown = Append(kb.shown, [mods |-> mods, held |-> held])
<1>1. [mods |-> mods, held |-> held] \in Views
  BY DEF Views
<1>2. Append(kb.shown, [mods |-> mods, held |-> held]) \in Seq(Views)
  BY <1>1 DEF Keyboards
<1>. QED BY <1>2 DEF Show, Keyboards

LEMMA PressType ==
  ASSUME NEW held \in SUBSET Byte, NEW key \in Byte
  PROVE  Press(held, key) \in SUBSET Byte
  BY DEF Press

(* A tap shows two reports and leaves the modifiers as they were.          *)
LEMMA TapsIs ==
  ASSUME NEW kb \in Keyboards, NEW mods \in Byte, NEW after \in Byte, NEW key \in Byte
  PROVE  LET pressed == Press(kb.held, key)
         IN  /\ Taps(kb, mods, after, key) \in Keyboards
             /\ Taps(kb, mods, after, key).mods = kb.mods
             /\ Taps(kb, mods, after, key).held = pressed \ {key}
             /\ Taps(kb, mods, after, key).shown
                  = Append(Append(kb.shown, [mods |-> mods, held |-> pressed]),
                           [mods |-> after, held |-> pressed \ {key}])
<1> DEFINE pressed == Press(kb.held, key)
           down == Show(kb, mods, pressed)
           up == Show(down, after, pressed \ {key})
<1>1. kb.held \in SUBSET Byte
  BY DEF Keyboards
<1>2. pressed \in SUBSET Byte /\ pressed \ {key} \in SUBSET Byte
  BY <1>1, PressType
<1>. HIDE DEF pressed
<1>3. /\ down \in Keyboards /\ down.mods = kb.mods
      /\ down.shown = Append(kb.shown, [mods |-> mods, held |-> pressed])
  BY <1>2, ShowType
<1>. HIDE DEF down
<1>4. /\ up \in Keyboards /\ up.mods = down.mods
      /\ up.shown = Append(down.shown, [mods |-> after, held |-> pressed \ {key}])
  BY <1>2, <1>3, ShowType
<1>. HIDE DEF up
<1>5. Taps(kb, mods, after, key) = [up EXCEPT !.held = pressed \ {key}]
  BY DEF Taps, pressed, down, up
<1>6. /\ Taps(kb, mods, after, key) \in Keyboards
      /\ Taps(kb, mods, after, key).mods = kb.mods
      /\ Taps(kb, mods, after, key).held = pressed \ {key}
      /\ Taps(kb, mods, after, key).shown = up.shown
  BY <1>2, <1>3, <1>4, <1>5 DEF Keyboards
<1>. QED BY <1>3, <1>4, <1>6 DEF pressed

LEMMA TypesType ==
  ASSUME NEW kb \in Keyboards, NEW char \in Byte
  PROVE  Types(kb, char) \in Keyboards
<1> DEFINE c == keycode_of(char)
           typed == Taps(kb, c.modifiers, c.modifiers, c.keycode)
<1>1. c.keycode \in Byte /\ c.modifiers \in Byte /\ kb.mods \in Byte
  BY KeycodeAssumption DEF Keyboards
<1>2. typed \in Keyboards /\ Taps(kb, kb.mods, kb.mods, c.keycode) \in Keyboards
  <2>. HIDE DEF c
  <2>. QED BY <1>1, TapsIs
<1>3. Show(typed, kb.mods, typed.held) \in Keyboards
  <2>. HIDE DEF typed
  <2>1. typed.held \in SUBSET Byte
    BY <1>2 DEF Keyboards
  <2>. QED BY <1>1, <1>2, <2>1, ShowType
<1>. QED BY <1>2, <1>3 DEF Types

(* A plain instruction, by its opcode.                                     *)
LEMMA PlainIs ==
  ASSUME NEW i \in PlainInstructions
  PROVE  /\ i.op \in {"KEY_DOWN", "KEY_UP", "TAP", "DELAY", "MOD", "COMBO", "STRING"}
         /\ i.op \in {"KEY_DOWN", "KEY_UP", "TAP", "COMBO"} => i.key \in Byte
         /\ i.op \in {"MOD", "COMBO"} => i.mask \in Byte
         /\ i.op = "STRING" => i.text \in Seq(Byte) /\ Len(i.text) < ByteBase
         /\ IsPlain(i)
<1>1. CASE i \in [op : {"KEY_DOWN", "KEY_UP", "TAP"}, key : Byte]
  BY <1>1 DEF IsPlain
<1>2. CASE i \in [op : {"DELAY"}]
  BY <1>2 DEF IsPlain
<1>3. CASE i \in [op : {"MOD"}, mask : Byte]
  BY <1>3 DEF IsPlain
<1>4. CASE i \in [op : {"COMBO"}, mask : Byte, key : Byte]
  BY <1>4 DEF IsPlain
<1>5. CASE i \in [op : {"STRING"}, text : {t \in Seq(Byte) : Len(t) < ByteBase}]
  BY <1>5 DEF IsPlain
<1>. QED BY <1>1, <1>2, <1>3, <1>4, <1>5 DEF PlainInstructions

LEMMA KeyDownIs ==
  ASSUME NEW kb \in Keyboards, NEW i \in PlainInstructions, i.op = "KEY_DOWN"
  PROVE  /\ PlaysPlain(kb, i) \in Keyboards
         /\ PlaysPlain(kb, i).mods = kb.mods
         /\ PlaysPlain(kb, i).held = Press(kb.held, i.key)
         /\ PlaysPlain(kb, i).shown
              = Append(kb.shown, [mods |-> kb.mods, held |-> Press(kb.held, i.key)])
<1> DEFINE pressed == Press(kb.held, i.key)
           after == [Show(kb, kb.mods, pressed) EXCEPT !.held = pressed]
<1>1. kb.mods \in Byte /\ pressed \in SUBSET Byte
  BY PlainIs, PressType DEF Keyboards
<1>2. PlaysPlain(kb, i) = after
  BY DEF PlaysPlain
<1>. HIDE DEF pressed
<1>3. /\ Show(kb, kb.mods, pressed) \in Keyboards
      /\ Show(kb, kb.mods, pressed).mods = kb.mods
      /\ Show(kb, kb.mods, pressed).shown
           = Append(kb.shown, [mods |-> kb.mods, held |-> pressed])
  BY <1>1, ShowType
<1>4. /\ after \in Keyboards /\ after.mods = kb.mods /\ after.held = pressed
      /\ after.shown = Append(kb.shown, [mods |-> kb.mods, held |-> pressed])
  BY <1>1, <1>3 DEF Keyboards
<1>. QED BY <1>2, <1>4 DEF pressed

LEMMA KeyUpIs ==
  ASSUME NEW kb \in Keyboards, NEW i \in PlainInstructions, i.op = "KEY_UP"
  PROVE  /\ PlaysPlain(kb, i) \in Keyboards
         /\ PlaysPlain(kb, i).mods = kb.mods
         /\ PlaysPlain(kb, i).held = kb.held \ {i.key}
         /\ PlaysPlain(kb, i).shown
              = Append(kb.shown, [mods |-> kb.mods, held |-> kb.held \ {i.key}])
<1> DEFINE left == kb.held \ {i.key}
           after == [Show(kb, kb.mods, left) EXCEPT !.held = left]
<1>1. kb.mods \in Byte /\ left \in SUBSET Byte
  BY DEF Keyboards
<1>2. PlaysPlain(kb, i) = after
  BY DEF PlaysPlain
<1>. HIDE DEF left
<1>3. /\ Show(kb, kb.mods, left) \in Keyboards /\ Show(kb, kb.mods, left).mods = kb.mods
      /\ Show(kb, kb.mods, left).shown
           = Append(kb.shown, [mods |-> kb.mods, held |-> left])
  BY <1>1, ShowType
<1>4. /\ after \in Keyboards /\ after.mods = kb.mods /\ after.held = left
      /\ after.shown = Append(kb.shown, [mods |-> kb.mods, held |-> left])
  BY <1>1, <1>3 DEF Keyboards
<1>. QED BY <1>2, <1>4 DEF left

LEMMA ModIs ==
  ASSUME NEW kb \in Keyboards, NEW i \in PlainInstructions, i.op = "MOD"
  PROVE  /\ PlaysPlain(kb, i) \in Keyboards
         /\ PlaysPlain(kb, i).mods = i.mask
         /\ PlaysPlain(kb, i).held = kb.held
         /\ PlaysPlain(kb, i).shown
              = Append(kb.shown, [mods |-> i.mask, held |-> kb.held])
<1> DEFINE after == [Show(kb, i.mask, kb.held) EXCEPT !.mods = i.mask]
<1>1. kb.held \in SUBSET Byte /\ i.mask \in Byte
  BY PlainIs DEF Keyboards
<1>2. PlaysPlain(kb, i) = after
  BY DEF PlaysPlain
<1>3. /\ Show(kb, i.mask, kb.held) \in Keyboards /\ Show(kb, i.mask, kb.held).held = kb.held
      /\ Show(kb, i.mask, kb.held).shown
           = Append(kb.shown, [mods |-> i.mask, held |-> kb.held])
  BY <1>1, ShowType
<1>4. /\ after \in Keyboards /\ after.mods = i.mask /\ after.held = kb.held
      /\ after.shown = Append(kb.shown, [mods |-> i.mask, held |-> kb.held])
  BY <1>1, <1>3 DEF Keyboards
<1>. QED BY <1>2, <1>4
-----------------------------------------------------------------------------
(* The keyboard after each character of a text.                            *)
TextTrace(f, kb, text) ==
  /\ f[0] = kb
  /\ \A i \in 0 .. Len(text) : f[i] \in Keyboards
  /\ \A i \in 1 .. Len(text) : f[i] = Types(f[i - 1], text[i])
  /\ FoldLeft(Types, kb, text) = f[Len(text)]

LEMMA TextFold ==
  ASSUME NEW kb \in Keyboards, NEW text \in Seq(Byte)
  PROVE  \E f : TextTrace(f, kb, text)
<1> DEFINE n == Len(text)
           g == [i \in 1 .. n |-> [v \in Keyboards |-> Types(v, text[i])]]
<1>1. n \in Nat /\ DOMAIN text = 1 .. n /\ \A i \in 1 .. n : text[i] \in Byte
  OBVIOUS
<1>2. g \in [1 .. n -> [Keyboards -> Keyboards]]
  BY <1>1, TypesType
<1>3. PICK h : IsFold(h, Keyboards, kb, n, g)
  <2>. HIDE DEF n, g
  <2>. QED BY <1>1, <1>2, FoldExists
<1>4. h = [s \in SUBSET (DOMAIN text) |->
             IF s = {} THEN kb ELSE Types(h[s \ {Max(s)}], text[Max(s)])]
  <2> DEFINE e(s) == IF s = {} THEN kb ELSE Types(h[s \ {Max(s)}], text[Max(s)])
  <2>1. ASSUME NEW s \in SUBSET (1 .. n) PROVE h[s] = e(s)
    <3>1. CASE s = {}
      BY <1>3, <3>1 DEF IsFold
    <3>2. CASE s # {}
      <4>1. Max(s) \in 1 .. n
        BY <1>1, <3>2, MaxIn
      <4>2. h[s \ {Max(s)}] \in Keyboards /\ h[s] = g[Max(s)][h[s \ {Max(s)}]]
        BY <1>3, <3>2 DEF IsFold
      <4>. QED BY <3>2, <4>1, <4>2
    <3>. QED BY <3>1, <3>2
  <2>2. h = [s \in SUBSET (1 .. n) |-> e(s)]
    <3>1. h \in [SUBSET (1 .. n) -> Keyboards]
      BY <1>3 DEF IsFold
    <3>. HIDE DEF e, n, g
    <3>. QED BY <2>1, <3>1
  <2>. QED BY <2>2, <1>1
<1>5. \E r : /\ r = [s \in SUBSET (DOMAIN text) |->
                       IF s = {} THEN kb ELSE Types(r[s \ {Max(s)}], text[Max(s)])]
             /\ FoldLeft(Types, kb, text) = r[DOMAIN text]
  BY <1>4, Zenon DEF FoldLeft, MapThenFoldSet
<1>6. PICK r : /\ r = [s \in SUBSET (1 .. n) |->
                         IF s = {} THEN kb ELSE Types(r[s \ {Max(s)}], text[Max(s)])]
               /\ FoldLeft(Types, kb, text) = r[1 .. n]
  BY <1>1, <1>5
<1>7. ASSUME NEW s \in SUBSET (1 .. n), s # {}, r[s \ {Max(s)}] \in Keyboards
      PROVE  r[s] = g[Max(s)][r[s \ {Max(s)}]]
  <2>1. Max(s) \in 1 .. n
    BY <1>1, <1>7, MaxIn
  <2>2. r[s] = Types(r[s \ {Max(s)}], text[Max(s)])
    BY <1>6, <1>7
  <2>. QED BY <1>7, <2>1, <2>2
<1>8. r[{}] = kb
  BY <1>6
<1>9. \E f : IsLoop(f, Keyboards, kb, n, g) /\ f[n] = r[1 .. n]
  <2>. HIDE DEF n, g
  <2>1. IsFolding(r, Keyboards, kb, n, g)
    BY <1>7, <1>8 DEF IsFolding
  <2>. QED BY <1>1, <1>2, <2>1, FoldIsLoop
<1>10. PICK f : IsLoop(f, Keyboards, kb, n, g) /\ f[n] = r[1 .. n]
  BY <1>9
<1>11. /\ f[0] = kb /\ \A i \in 0 .. n : f[i] \in Keyboards
       /\ \A i \in 1 .. n : f[i] = g[i][f[i - 1]]
  BY <1>10 DEF IsLoop
<1>12. \A i \in 1 .. n : f[i] = Types(f[i - 1], text[i])
  <2>1. \A i \in 1 .. n : i - 1 \in 0 .. n
    BY <1>1
  <2>. QED BY <1>11, <2>1
<1>13. TextTrace(f, kb, text)
  BY <1>6, <1>10, <1>11, <1>12 DEF TextTrace
<1>. QED BY <1>13

LEMMA PlaysPlainType ==
  ASSUME NEW kb \in Keyboards, NEW i \in PlainInstructions
  PROVE  PlaysPlain(kb, i) \in Keyboards
<1>1. kb.mods \in Byte
  BY DEF Keyboards
<1>2. CASE i.op = "KEY_DOWN"
  BY <1>2, KeyDownIs
<1>3. CASE i.op = "KEY_UP"
  BY <1>3, KeyUpIs
<1>4. CASE i.op = "TAP"
  BY <1>1, <1>4, PlainIs, TapsIs DEF PlaysPlain
<1>5. CASE i.op = "DELAY"
  BY <1>5 DEF PlaysPlain
<1>6. CASE i.op = "MOD"
  BY <1>6, ModIs
<1>7. CASE i.op = "COMBO"
  BY <1>1, <1>7, PlainIs, TapsIs DEF PlaysPlain
<1>8. CASE i.op = "STRING"
  <2>1. i.text \in Seq(Byte) /\ Len(i.text) \in 0 .. Len(i.text)
    BY <1>8, PlainIs
  <2>2. PICK f : TextTrace(f, kb, i.text)
    BY <2>1, TextFold
  <2>3. FoldLeft(Types, kb, i.text) \in Keyboards
    BY <2>1, <2>2 DEF TextTrace
  <2>. QED BY <1>8, <2>3 DEF PlaysPlain
<1>. QED BY <1>2, <1>3, <1>4, <1>5, <1>6, <1>7, <1>8, PlainIs

LEMMA PlaysInnerType ==
  ASSUME NEW kb \in Keyboards, NEW i \in InnerInstructions
  PROVE  PlaysInner(kb, i) \in Keyboards
<1>1. CASE i \in PlainInstructions
  BY <1>1, PlaysPlainType, PlainIs DEF PlaysInner
<1>2. CASE i \notin PlainInstructions
  BY <1>2 DEF PlaysInner, InnerInstructions, IsPlain
<1>. QED BY <1>1, <1>2
-----------------------------------------------------------------------------
(* The keyboard after each instruction of a block.                         *)
BlockTrace(f, kb, block) ==
  /\ f[0] = kb
  /\ \A i \in 0 .. Len(block) : f[i] \in Keyboards
  /\ \A i \in 1 .. Len(block) : f[i] = PlaysInner(f[i - 1], block[i])
  /\ FoldLeft(PlaysInner, kb, block) = f[Len(block)]

LEMMA BlockFold ==
  ASSUME NEW kb \in Keyboards, NEW block \in Seq(InnerInstructions)
  PROVE  \E f : BlockTrace(f, kb, block)
<1> DEFINE n == Len(block)
           g == [i \in 1 .. n |-> [v \in Keyboards |-> PlaysInner(v, block[i])]]
<1>1. n \in Nat /\ DOMAIN block = 1 .. n /\ \A i \in 1 .. n : block[i] \in InnerInstructions
  OBVIOUS
<1>2. g \in [1 .. n -> [Keyboards -> Keyboards]]
  BY <1>1, PlaysInnerType
<1>3. PICK h : IsFold(h, Keyboards, kb, n, g)
  <2>. HIDE DEF n, g
  <2>. QED BY <1>1, <1>2, FoldExists
<1>4. h = [s \in SUBSET (DOMAIN block) |->
             IF s = {} THEN kb ELSE PlaysInner(h[s \ {Max(s)}], block[Max(s)])]
  <2> DEFINE e(s) == IF s = {} THEN kb ELSE PlaysInner(h[s \ {Max(s)}], block[Max(s)])
  <2>1. ASSUME NEW s \in SUBSET (1 .. n) PROVE h[s] = e(s)
    <3>1. CASE s = {}
      BY <1>3, <3>1 DEF IsFold
    <3>2. CASE s # {}
      <4>1. Max(s) \in 1 .. n
        BY <1>1, <3>2, MaxIn
      <4>2. h[s \ {Max(s)}] \in Keyboards /\ h[s] = g[Max(s)][h[s \ {Max(s)}]]
        BY <1>3, <3>2 DEF IsFold
      <4>. QED BY <3>2, <4>1, <4>2
    <3>. QED BY <3>1, <3>2
  <2>2. h = [s \in SUBSET (1 .. n) |-> e(s)]
    <3>1. h \in [SUBSET (1 .. n) -> Keyboards]
      BY <1>3 DEF IsFold
    <3>. HIDE DEF e, n, g
    <3>. QED BY <2>1, <3>1
  <2>. QED BY <2>2, <1>1
<1>5. \E r : /\ r = [s \in SUBSET (DOMAIN block) |->
                       IF s = {} THEN kb ELSE PlaysInner(r[s \ {Max(s)}], block[Max(s)])]
             /\ FoldLeft(PlaysInner, kb, block) = r[DOMAIN block]
  BY <1>4, Zenon DEF FoldLeft, MapThenFoldSet
<1>6. PICK r : /\ r = [s \in SUBSET (1 .. n) |->
                         IF s = {} THEN kb ELSE PlaysInner(r[s \ {Max(s)}], block[Max(s)])]
               /\ FoldLeft(PlaysInner, kb, block) = r[1 .. n]
  BY <1>1, <1>5
<1>7. ASSUME NEW s \in SUBSET (1 .. n), s # {}, r[s \ {Max(s)}] \in Keyboards
      PROVE  r[s] = g[Max(s)][r[s \ {Max(s)}]]
  <2>1. Max(s) \in 1 .. n
    BY <1>1, <1>7, MaxIn
  <2>2. r[s] = PlaysInner(r[s \ {Max(s)}], block[Max(s)])
    BY <1>6, <1>7
  <2>. QED BY <1>7, <2>1, <2>2
<1>8. r[{}] = kb
  BY <1>6
<1>9. \E f : IsLoop(f, Keyboards, kb, n, g) /\ f[n] = r[1 .. n]
  <2>. HIDE DEF n, g
  <2>1. IsFolding(r, Keyboards, kb, n, g)
    BY <1>7, <1>8 DEF IsFolding
  <2>. QED BY <1>1, <1>2, <2>1, FoldIsLoop
<1>10. PICK f : IsLoop(f, Keyboards, kb, n, g) /\ f[n] = r[1 .. n]
  BY <1>9
<1>11. /\ f[0] = kb /\ \A i \in 0 .. n : f[i] \in Keyboards
       /\ \A i \in 1 .. n : f[i] = g[i][f[i - 1]]
  BY <1>10 DEF IsLoop
<1>12. \A i \in 1 .. n : f[i] = PlaysInner(f[i - 1], block[i])
  <2>1. \A i \in 1 .. n : i - 1 \in 0 .. n
    BY <1>1
  <2>. QED BY <1>11, <2>1
<1>13. BlockTrace(f, kb, block)
  BY <1>6, <1>10, <1>11, <1>12 DEF BlockTrace
<1>. QED BY <1>13

LEMMA PlaysBlockType ==
  ASSUME NEW kb \in Keyboards, NEW block \in Seq(InnerInstructions)
  PROVE  PlaysBlock(kb, block) \in Keyboards
<1>1. PICK f : BlockTrace(f, kb, block)
  BY BlockFold
<1>2. Len(block) \in 0 .. Len(block)
  OBVIOUS
<1>. QED BY <1>1, <1>2 DEF BlockTrace, PlaysBlock
-----------------------------------------------------------------------------
(* The keyboard after each iteration of a REPEAT.                          *)
RepeatTrace(f, kb, blocks) ==
  /\ f[0] = kb
  /\ \A i \in 0 .. Len(blocks) : f[i] \in Keyboards
  /\ \A i \in 1 .. Len(blocks) : f[i] = PlaysBlock(f[i - 1], blocks[i])
  /\ FoldLeft(PlaysBlock, kb, blocks) = f[Len(blocks)]

LEMMA RepeatFold ==
  ASSUME NEW kb \in Keyboards, NEW blocks \in Seq(Seq(InnerInstructions))
  PROVE  \E f : RepeatTrace(f, kb, blocks)
<1> DEFINE n == Len(blocks)
           g == [i \in 1 .. n |-> [v \in Keyboards |-> PlaysBlock(v, blocks[i])]]
<1>1. n \in Nat /\ DOMAIN blocks = 1 .. n /\ \A i \in 1 .. n : blocks[i] \in Seq(InnerInstructions)
  OBVIOUS
<1>2. g \in [1 .. n -> [Keyboards -> Keyboards]]
  BY <1>1, PlaysBlockType
<1>3. PICK h : IsFold(h, Keyboards, kb, n, g)
  <2>. HIDE DEF n, g
  <2>. QED BY <1>1, <1>2, FoldExists
<1>4. h = [s \in SUBSET (DOMAIN blocks) |->
             IF s = {} THEN kb ELSE PlaysBlock(h[s \ {Max(s)}], blocks[Max(s)])]
  <2> DEFINE e(s) == IF s = {} THEN kb ELSE PlaysBlock(h[s \ {Max(s)}], blocks[Max(s)])
  <2>1. ASSUME NEW s \in SUBSET (1 .. n) PROVE h[s] = e(s)
    <3>1. CASE s = {}
      BY <1>3, <3>1 DEF IsFold
    <3>2. CASE s # {}
      <4>1. Max(s) \in 1 .. n
        BY <1>1, <3>2, MaxIn
      <4>2. h[s \ {Max(s)}] \in Keyboards /\ h[s] = g[Max(s)][h[s \ {Max(s)}]]
        BY <1>3, <3>2 DEF IsFold
      <4>. QED BY <3>2, <4>1, <4>2
    <3>. QED BY <3>1, <3>2
  <2>2. h = [s \in SUBSET (1 .. n) |-> e(s)]
    <3>1. h \in [SUBSET (1 .. n) -> Keyboards]
      BY <1>3 DEF IsFold
    <3>. HIDE DEF e, n, g
    <3>. QED BY <2>1, <3>1
  <2>. QED BY <2>2, <1>1
<1>5. \E r : /\ r = [s \in SUBSET (DOMAIN blocks) |->
                       IF s = {} THEN kb ELSE PlaysBlock(r[s \ {Max(s)}], blocks[Max(s)])]
             /\ FoldLeft(PlaysBlock, kb, blocks) = r[DOMAIN blocks]
  BY <1>4, Zenon DEF FoldLeft, MapThenFoldSet
<1>6. PICK r : /\ r = [s \in SUBSET (1 .. n) |->
                         IF s = {} THEN kb ELSE PlaysBlock(r[s \ {Max(s)}], blocks[Max(s)])]
               /\ FoldLeft(PlaysBlock, kb, blocks) = r[1 .. n]
  BY <1>1, <1>5
<1>7. ASSUME NEW s \in SUBSET (1 .. n), s # {}, r[s \ {Max(s)}] \in Keyboards
      PROVE  r[s] = g[Max(s)][r[s \ {Max(s)}]]
  <2>1. Max(s) \in 1 .. n
    BY <1>1, <1>7, MaxIn
  <2>2. r[s] = PlaysBlock(r[s \ {Max(s)}], blocks[Max(s)])
    BY <1>6, <1>7
  <2>. QED BY <1>7, <2>1, <2>2
<1>8. r[{}] = kb
  BY <1>6
<1>9. \E f : IsLoop(f, Keyboards, kb, n, g) /\ f[n] = r[1 .. n]
  <2>. HIDE DEF n, g
  <2>1. IsFolding(r, Keyboards, kb, n, g)
    BY <1>7, <1>8 DEF IsFolding
  <2>. QED BY <1>1, <1>2, <2>1, FoldIsLoop
<1>10. PICK f : IsLoop(f, Keyboards, kb, n, g) /\ f[n] = r[1 .. n]
  BY <1>9
<1>11. /\ f[0] = kb /\ \A i \in 0 .. n : f[i] \in Keyboards
       /\ \A i \in 1 .. n : f[i] = g[i][f[i - 1]]
  BY <1>10 DEF IsLoop
<1>12. \A i \in 1 .. n : f[i] = PlaysBlock(f[i - 1], blocks[i])
  <2>1. \A i \in 1 .. n : i - 1 \in 0 .. n
    BY <1>1
  <2>. QED BY <1>11, <2>1
<1>13. RepeatTrace(f, kb, blocks)
  BY <1>6, <1>10, <1>11, <1>12 DEF RepeatTrace
<1>. QED BY <1>13

(* A REPEAT of a program.                                                  *)
LEMMA RepeatIs ==
  ASSUME NEW i \in Instructions, i \notin PlainInstructions
  PROVE  /\ i.op = "REPEAT" /\ ~ IsPlain(i)
         /\ i.times \in Byte /\ i.times # 0
         /\ i.block \in Seq(InnerInstructions) /\ i.block # << >>
         /\ Len(EncodeBlock(i.block)) < ByteBase
  BY DEF Instructions, IsPlain

LEMMA PlaysType ==
  ASSUME NEW kb \in Keyboards, NEW i \in Instructions
  PROVE  Plays(kb, i) \in Keyboards
<1>1. CASE i \in PlainInstructions
  BY <1>1, PlaysPlainType, PlainIs DEF Plays
<1>2. CASE i \notin PlainInstructions
  <2> DEFINE blocks == [n \in 1 .. i.times |-> i.block]
  <2>1. i.times \in Nat /\ i.block \in Seq(InnerInstructions) /\ ~ IsPlain(i)
    BY <1>2, RepeatIs, Bytes
  <2>2. blocks \in Seq(Seq(InnerInstructions)) /\ Len(blocks) \in 0 .. Len(blocks)
    BY <2>1
  <2>3. Plays(kb, i) = FoldLeft(PlaysBlock, kb, blocks)
    BY <2>1 DEF Plays
  <2>. HIDE DEF blocks
  <2>4. PICK f : RepeatTrace(f, kb, blocks)
    BY <2>2, RepeatFold
  <2>. QED BY <2>2, <2>3, <2>4 DEF RepeatTrace
<1>. QED BY <1>1, <1>2
-----------------------------------------------------------------------------
(* The keyboard after each instruction of a program.                       *)
ProgramTrace(f, kb, program) ==
  /\ f[0] = kb
  /\ \A i \in 0 .. Len(program) : f[i] \in Keyboards
  /\ \A i \in 1 .. Len(program) : f[i] = Plays(f[i - 1], program[i])
  /\ FoldLeft(Plays, kb, program) = f[Len(program)]

LEMMA ProgramFold ==
  ASSUME NEW kb \in Keyboards, NEW program \in Seq(Instructions)
  PROVE  \E f : ProgramTrace(f, kb, program)
<1> DEFINE n == Len(program)
           g == [i \in 1 .. n |-> [v \in Keyboards |-> Plays(v, program[i])]]
<1>1. n \in Nat /\ DOMAIN program = 1 .. n /\ \A i \in 1 .. n : program[i] \in Instructions
  OBVIOUS
<1>2. g \in [1 .. n -> [Keyboards -> Keyboards]]
  BY <1>1, PlaysType
<1>3. PICK h : IsFold(h, Keyboards, kb, n, g)
  <2>. HIDE DEF n, g
  <2>. QED BY <1>1, <1>2, FoldExists
<1>4. h = [s \in SUBSET (DOMAIN program) |->
             IF s = {} THEN kb ELSE Plays(h[s \ {Max(s)}], program[Max(s)])]
  <2> DEFINE e(s) == IF s = {} THEN kb ELSE Plays(h[s \ {Max(s)}], program[Max(s)])
  <2>1. ASSUME NEW s \in SUBSET (1 .. n) PROVE h[s] = e(s)
    <3>1. CASE s = {}
      BY <1>3, <3>1 DEF IsFold
    <3>2. CASE s # {}
      <4>1. Max(s) \in 1 .. n
        BY <1>1, <3>2, MaxIn
      <4>2. h[s \ {Max(s)}] \in Keyboards /\ h[s] = g[Max(s)][h[s \ {Max(s)}]]
        BY <1>3, <3>2 DEF IsFold
      <4>. QED BY <3>2, <4>1, <4>2
    <3>. QED BY <3>1, <3>2
  <2>2. h = [s \in SUBSET (1 .. n) |-> e(s)]
    <3>1. h \in [SUBSET (1 .. n) -> Keyboards]
      BY <1>3 DEF IsFold
    <3>. HIDE DEF e, n, g
    <3>. QED BY <2>1, <3>1
  <2>. QED BY <2>2, <1>1
<1>5. \E r : /\ r = [s \in SUBSET (DOMAIN program) |->
                       IF s = {} THEN kb ELSE Plays(r[s \ {Max(s)}], program[Max(s)])]
             /\ FoldLeft(Plays, kb, program) = r[DOMAIN program]
  BY <1>4, Zenon DEF FoldLeft, MapThenFoldSet
<1>6. PICK r : /\ r = [s \in SUBSET (1 .. n) |->
                         IF s = {} THEN kb ELSE Plays(r[s \ {Max(s)}], program[Max(s)])]
               /\ FoldLeft(Plays, kb, program) = r[1 .. n]
  BY <1>1, <1>5
<1>7. ASSUME NEW s \in SUBSET (1 .. n), s # {}, r[s \ {Max(s)}] \in Keyboards
      PROVE  r[s] = g[Max(s)][r[s \ {Max(s)}]]
  <2>1. Max(s) \in 1 .. n
    BY <1>1, <1>7, MaxIn
  <2>2. r[s] = Plays(r[s \ {Max(s)}], program[Max(s)])
    BY <1>6, <1>7
  <2>. QED BY <1>7, <2>1, <2>2
<1>8. r[{}] = kb
  BY <1>6
<1>9. \E f : IsLoop(f, Keyboards, kb, n, g) /\ f[n] = r[1 .. n]
  <2>. HIDE DEF n, g
  <2>1. IsFolding(r, Keyboards, kb, n, g)
    BY <1>7, <1>8 DEF IsFolding
  <2>. QED BY <1>1, <1>2, <2>1, FoldIsLoop
<1>10. PICK f : IsLoop(f, Keyboards, kb, n, g) /\ f[n] = r[1 .. n]
  BY <1>9
<1>11. /\ f[0] = kb /\ \A i \in 0 .. n : f[i] \in Keyboards
       /\ \A i \in 1 .. n : f[i] = g[i][f[i - 1]]
  BY <1>10 DEF IsLoop
<1>12. \A i \in 1 .. n : f[i] = Plays(f[i - 1], program[i])
  <2>1. \A i \in 1 .. n : i - 1 \in 0 .. n
    BY <1>1
  <2>. QED BY <1>11, <2>1
<1>13. ProgramTrace(f, kb, program)
  BY <1>6, <1>10, <1>11, <1>12 DEF ProgramTrace
<1>. QED BY <1>13
-----------------------------------------------------------------------------
(* The engine's list of keys is the meaning's set.                         *)
HeldKeys(ks) == {ks[i] : i \in 1 .. Len(ks)}

LEMMA KeyListIs ==
  ASSUME NEW ks \in KeyList
  PROVE  /\ ks \in Seq(Byte) /\ Len(ks) \in Nat /\ Len(ks) <= MaxKeys
         /\ \A i, j \in 1 .. Len(ks) : ks[i] = ks[j] => i = j
         /\ \A i \in 1 .. Len(ks) : ks[i] \in Byte
         /\ MaxKeys \in Nat
  BY EngineAssumption DEF KeyList, IsInjectiveSeq

LEMMA HeldKeysSize ==
  ASSUME NEW ks \in KeyList
  PROVE  /\ HeldKeys(ks) \in SUBSET Byte
         /\ IsFiniteSet(HeldKeys(ks)) /\ Cardinality(HeldKeys(ks)) = Len(ks)
<1> DEFINE n == Len(ks)
           f == [i \in 1 .. n |-> ks[i]]
           T == HeldKeys(ks)
<1>1. n \in Nat /\ \A i, j \in 1 .. n : ks[i] = ks[j] => i = j
  BY KeyListIs
<1>2. f \in [1 .. n -> T]
  BY DEF HeldKeys
<1>3. f \in Injection(1 .. n, T)
  BY <1>1, <1>2 DEF Injection, IsInjective
<1>4. f \in Surjection(1 .. n, T)
  <2>1. \A t \in T : \E i \in 1 .. n : f[i] = t
    BY DEF HeldKeys
  <2>. QED BY <1>2, <2>1 DEF Surjection
<1>5. ExistsBijection(1 .. n, T)
  BY <1>3, <1>4 DEF ExistsBijection, Bijection
<1>6. IsFiniteSet(T) /\ Cardinality(T) = n
  <2>. HIDE DEF n, T
  <2>. QED BY <1>1, <1>5, FS_CountingElements, FS_NatBijection
<1>7. T \in SUBSET Byte
  BY KeyListIs DEF HeldKeys
<1>. QED BY <1>6, <1>7

LEMMA HoldsIsHeld ==
  ASSUME NEW ks, NEW key
  PROVE  Holds(ks, key) <=> key \in HeldKeys(ks)
  BY DEF Holds, HeldKeys

LEMMA AddKeyHeld ==
  ASSUME NEW ks \in KeyList, NEW key \in Byte
  PROVE  HeldKeys(add_key(ks, key)) = Press(HeldKeys(ks), key)
<1> DEFINE T == HeldKeys(ks)
<1>1. /\ ks \in Seq(Byte) /\ Len(ks) \in Nat /\ Len(ks) <= MaxKeys /\ MaxKeys \in Nat
      /\ Cardinality(T) = Len(ks)
  BY KeyListIs, HeldKeysSize
<1>2. CASE Holds(ks, key)
  <2>1. T \union {key} = T
    BY <1>2, HoldsIsHeld
  <2>2. Press(T, key) = T
    <3>. HIDE DEF T
    <3>. QED BY <2>1 DEF Press
  <2>. QED BY <1>2, <2>2 DEF add_key
<1>3. CASE ~ Holds(ks, key)
  <2>1. add_key(ks, key) = IF Len(ks) >= MaxKeys THEN ks ELSE Append(ks, key)
    BY <1>3 DEF add_key
  <2>2. HeldKeys(Append(ks, key)) = T \union {key}
    <3>1. /\ Len(Append(ks, key)) = Len(ks) + 1
          /\ Append(ks, key)[Len(ks) + 1] = key
          /\ \A i \in 1 .. Len(ks) : Append(ks, key)[i] = ks[i]
      BY <1>1
    <3>2. /\ \A i \in 1 .. Len(ks) : i \in 1 .. Len(ks) + 1
          /\ Len(ks) + 1 \in 1 .. Len(ks) + 1
          /\ \A i \in 1 .. Len(ks) + 1 : i = Len(ks) + 1 \/ i \in 1 .. Len(ks)
      BY <1>1
    <3>. QED BY <3>1, <3>2 DEF HeldKeys
  <2>3. Cardinality(T \union {key}) = Len(ks) + 1
    <3>1. IsFiniteSet(T)
      BY HeldKeysSize
    <3>2. key \notin T
      BY <1>3, HoldsIsHeld
    <3>. HIDE DEF T
    <3>. QED BY <1>1, <3>1, <3>2, FS_AddElement
  <2>4. Press(T, key) = IF Len(ks) >= MaxKeys THEN T ELSE T \union {key}
    <3>. HIDE DEF T
    <3>. QED BY <1>1, <2>3 DEF Press
  <2>. QED BY <2>1, <2>2, <2>4
<1>. QED BY <1>2, <1>3

LEMMA RemoveKeyHeld ==
  ASSUME NEW ks \in KeyList, NEW key
  PROVE  HeldKeys(remove_key(ks, key)) = HeldKeys(ks) \ {key}
<1>1. ks \in Seq(Byte) /\ Len(ks) \in Nat
      /\ \A i, j \in 1 .. Len(ks) : ks[i] = ks[j] => i = j
  BY KeyListIs
<1>2. CASE ~ Holds(ks, key)
  BY <1>2, HoldsIsHeld DEF remove_key
<1>3. CASE Holds(ks, key)
  <2> DEFINE P(i) == ks[i] = key /\ \A j \in 1 .. i - 1 : ks[j] # key
             at == CHOOSE i \in 1 .. Len(ks) : P(i)
             n == Len(ks) - 1
             rest == [i \in 1 .. n |-> IF i = at THEN ks[Len(ks)] ELSE ks[i]]
  <2>1. remove_key(ks, key) = rest
    BY <1>3 DEF remove_key
  <2>2. PICK k \in 1 .. Len(ks) : ks[k] = key
    BY <1>3 DEF Holds
  <2>3. P(k)
    <3>1. \A j \in 1 .. k - 1 : j \in 1 .. Len(ks) /\ j # k
      BY <1>1
    <3>. QED BY <1>1, <2>2, <3>1
  <2>4. at \in 1 .. Len(ks) /\ ks[at] = key
    BY <2>3
  <2>. HIDE DEF at
  <2>0. n \in Nat /\ Len(ks) = n + 1 /\ at \in 1 .. n + 1
    BY <1>1, <2>4
  <2>5. n \in Nat /\ Len(rest) = n /\ Len(ks) = n + 1 /\ at \in 1 .. n + 1
    BY <2>0
  <2>6. \A i \in 1 .. n : i \in 1 .. n + 1 /\ i # n + 1
    <3>. HIDE DEF n
    <3>. QED BY <2>0
  <2>7. n + 1 \in 1 .. n + 1 /\ \A i \in 1 .. n + 1 : i = n + 1 \/ i \in 1 .. n
    <3>. HIDE DEF n
    <3>. QED BY <2>0
  <2>8. \A i \in 1 .. n : rest[i] = IF i = at THEN ks[n + 1] ELSE ks[i]
    BY <2>5
  <2>. HIDE DEF n, rest
  <2>9. HeldKeys(rest) \subseteq HeldKeys(ks) \ {key}
    <3>1. SUFFICES ASSUME NEW i \in 1 .. n PROVE rest[i] \in HeldKeys(ks) \ {key}
      BY <2>5 DEF HeldKeys
    <3>2. CASE i = at
      BY <1>1, <2>4, <2>5, <2>6, <2>7, <2>8, <3>2 DEF HeldKeys
    <3>3. CASE i # at
      BY <1>1, <2>4, <2>5, <2>6, <2>7, <2>8, <3>3 DEF HeldKeys
    <3>. QED BY <3>2, <3>3
  <2>10. ASSUME NEW i \in 1 .. n + 1, ks[i] # key PROVE ks[i] \in HeldKeys(rest)
    <3>1. CASE i = n + 1
      <4>1. at \in 1 .. n /\ rest[at] = ks[n + 1]
        BY <2>4, <2>5, <2>7, <2>8, <2>10, <3>1
      <4>. QED BY <2>5, <3>1, <4>1 DEF HeldKeys
    <3>2. CASE i # n + 1
      <4>1. i \in 1 .. n /\ rest[i] = ks[i]
        BY <2>4, <2>7, <2>8, <2>10, <3>2
      <4>. QED BY <2>5, <4>1 DEF HeldKeys
    <3>. QED BY <3>1, <3>2
  <2>11. HeldKeys(ks) \ {key} \subseteq HeldKeys(rest)
    BY <2>5, <2>10 DEF HeldKeys
  <2>. QED BY <2>1, <2>9, <2>11
<1>. QED BY <1>2, <1>3

LEMMA TapHeld ==
  ASSUME NEW ks \in KeyList, NEW key \in Byte
  PROVE  HeldKeys(Tap(ks, key)) = Press(HeldKeys(ks), key) \ {key}
  BY AddKeyType, AddKeyHeld, RemoveKeyHeld DEF Tap
-----------------------------------------------------------------------------
(* The engine's keyboard, as the meaning has it: what it believes is held  *)
(* and all that it has sent.                                               *)
View(report) == [mods |-> report.modifiers, held |-> HeldKeys(report.keys)]
Board == [mods |-> modifiers, held |-> HeldKeys(keys), shown |-> Shown(Output)]

LEMMA ViewType ==
  ASSUME NEW r \in KeyReport
  PROVE  View(r) \in Views
  BY HeldKeysSize DEF View, Views, KeyReport

LEMMA ShownIs ==
  ASSUME NEW s \in Seq(KeyReport)
  PROVE  /\ Shown(s) \in Seq(Views) /\ Len(Shown(s)) = Len(s)
         /\ \A n \in 1 .. Len(s) : Shown(s)[n] = View(s[n])
<1>1. Len(s) \in Nat /\ \A n \in 1 .. Len(s) : s[n] \in KeyReport
  OBVIOUS
<1>2. Shown(s) = [n \in 1 .. Len(s) |-> View(s[n])]
  BY DEF Shown, View, HeldKeys
<1>3. \A n \in 1 .. Len(s) : View(s[n]) \in Views
  BY <1>1, ViewType
<1>. QED BY <1>1, <1>2, <1>3

LEMMA ShownAppend ==
  ASSUME NEW s \in Seq(KeyReport), NEW r \in KeyReport
  PROVE  Shown(Append(s, r)) = Append(Shown(s), View(r))
<1> DEFINE t == Append(s, r)
           a == Shown(t)
           b == Append(Shown(s), View(r))
<1>1. /\ t \in Seq(KeyReport) /\ Len(t) = Len(s) + 1 /\ Len(s) \in Nat
      /\ t[Len(s) + 1] = r /\ \A n \in 1 .. Len(s) : t[n] = s[n]
  OBVIOUS
<1>. HIDE DEF t
<1>2. a \in Seq(Views) /\ Len(a) = Len(s) + 1
      /\ \A n \in 1 .. Len(s) + 1 : a[n] = View(t[n])
  BY <1>1, ShownIs
<1>3. /\ b \in Seq(Views) /\ Len(b) = Len(s) + 1
      /\ b[Len(s) + 1] = View(r) /\ \A n \in 1 .. Len(s) : b[n] = View(s[n])
  <2>1. /\ Shown(s) \in Seq(Views) /\ Len(Shown(s)) = Len(s) /\ View(r) \in Views
        /\ \A n \in 1 .. Len(s) : Shown(s)[n] = View(s[n])
    BY ShownIs, ViewType
  <2> DEFINE u == Shown(s)
             v == View(r)
  <2>. HIDE DEF u, v
  <2>2. /\ Append(u, v) \in Seq(Views) /\ Len(Append(u, v)) = Len(u) + 1
        /\ Append(u, v)[Len(u) + 1] = v
        /\ \A n \in 1 .. Len(u) : Append(u, v)[n] = u[n]
    BY <2>1 DEF u, v
  <2>. QED BY <2>1, <2>2 DEF u, v
<1>. HIDE DEF a, b
<1>4. \A n \in 1 .. Len(s) + 1 : a[n] = b[n]
  <2>1. \A n \in 1 .. Len(s) + 1 : n = Len(s) + 1 \/ n \in 1 .. Len(s)
    BY <1>1
  <2>. QED BY <1>1, <1>2, <1>3, <2>1
<1>5. a = b
  BY <1>2, <1>3, <1>4, SeqEqual
<1>. QED BY <1>5 DEF a, b, t

LEMMA ShownMore ==
  ASSUME NEW s \in Seq(KeyReport), NEW a \in KeyReport, NEW b \in KeyReport
  PROVE  /\ Shown(s \o << >>) = Shown(s)
         /\ Shown(s \o <<a>>) = Append(Shown(s), View(a))
         /\ Shown(s \o <<a, b>>) = Append(Append(Shown(s), View(a)), View(b))
<1>1. /\ s \o << >> = s /\ s \o <<a>> = Append(s, a)
      /\ s \o <<a, b>> = Append(Append(s, a), b)
      /\ Append(s, a) \in Seq(KeyReport)
  OBVIOUS
<1>. QED BY <1>1, ShownAppend

LEMMA ShownThree ==
  ASSUME NEW s \in Seq(KeyReport), NEW a \in KeyReport, NEW b \in KeyReport,
         NEW c \in KeyReport
  PROVE  Shown(s \o <<a, b, c>>)
           = Append(Append(Append(Shown(s), View(a)), View(b)), View(c))
<1>1. /\ s \o <<a, b, c>> = Append(Append(Append(s, a), b), c)
      /\ Append(s, a) \in Seq(KeyReport) /\ Append(Append(s, a), b) \in Seq(KeyReport)
  OBVIOUS
<1>. QED BY <1>1, ShownAppend

LEMMA OutputType ==
  ASSUME TypeOK
  PROVE  /\ Output \in Seq(KeyReport)
         /\ Board \in Keyboards
<1>1. /\ outbox \in Seq(KeyReport) /\ seen \in Seq(KeyReport)
      /\ endpoint = NoReport \/ endpoint \in KeyReport
  BY DEF TypeOK
<1>2. Output \in Seq(KeyReport)
  <2> DEFINE held == IF endpoint = NoReport THEN << >> ELSE <<endpoint>>
  <2>1. held \in Seq(KeyReport)
    BY <1>1
  <2>. HIDE DEF held
  <2>2. held \o outbox \in Seq(KeyReport)
    BY <1>1, <2>1, ConcatProperties
  <2>3. seen \o (held \o outbox) \in Seq(KeyReport)
    BY <1>1, <2>2, ConcatProperties
  <2>. QED BY <2>3 DEF Output, Pending, held
<1>3. Shown(Output) \in Seq(Views)
  BY <1>2, ShownIs
<1>4. HeldKeys(keys) \in SUBSET Byte /\ modifiers \in Byte
  BY HeldKeysSize DEF TypeOK
<1>. QED BY <1>2, <1>3, <1>4 DEF Board, Keyboards

(* An instruction's reports come after all those before it; handing one    *)
(* over, and a poll, change nothing.                                       *)
LEMMA OutputGrows ==
  ASSUME TypeOK, outbox = << >>, outbox' \in Seq(KeyReport),
         endpoint' = endpoint, seen' = seen
  PROVE  Output' = Output \o outbox'
<1> DEFINE held == IF endpoint = NoReport THEN << >> ELSE <<endpoint>>
<1>1. seen \in Seq(KeyReport) /\ held \in Seq(KeyReport)
  BY DEF TypeOK
<1>2. Output = seen \o (held \o << >>) /\ Output' = seen \o (held \o outbox')
  BY DEF Output, Pending
<1>. HIDE DEF held
<1>3. held \o << >> = held
  BY <1>1, ConcatEmptySeq
<1>4. seen \o (held \o outbox') = (seen \o held) \o outbox'
  BY <1>1, ConcatAssociative
<1>. QED BY <1>2, <1>3, <1>4

LEMMA OutputStays ==
  ASSUME TypeOK, SendReport \/ HostPoll
  PROVE  Output' = Output
<1>1. outbox \in Seq(KeyReport) /\ seen \in Seq(KeyReport)
  BY DEF TypeOK
<1>2. CASE SendReport
  <2>1. /\ outbox # << >> /\ endpoint = NoReport /\ endpoint' = Head(outbox)
        /\ outbox' = Tail(outbox) /\ seen' = seen
    BY <1>2 DEF SendReport
  <2>2. Head(outbox) \in KeyReport /\ <<Head(outbox)>> \o Tail(outbox) = outbox
        /\ << >> \o outbox = outbox
    BY <1>1, <2>1
  <2>3. endpoint' # NoReport
    <3>1. NoReport \notin KeyReport
      BY DEF KeyReport, NoReport
    <3>. QED BY <2>1, <2>2, <3>1
  <2>. QED BY <2>1, <2>2, <2>3 DEF Output, Pending
<1>3. CASE HostPoll
  <2>1. /\ endpoint # NoReport /\ endpoint' = NoReport
        /\ seen' = Append(seen, endpoint) /\ outbox' = outbox /\ endpoint \in KeyReport
    BY <1>3 DEF HostPoll, TypeOK
  <2>2. Append(seen, endpoint) = seen \o <<endpoint>> /\ << >> \o outbox = outbox
        /\ <<endpoint>> \in Seq(KeyReport)
    BY <1>1, <2>1
  <2>3. (seen \o <<endpoint>>) \o outbox = seen \o (<<endpoint>> \o outbox)
    BY <1>1, <2>2, ConcatAssociative
  <2>. QED BY <2>1, <2>2, <2>3 DEF Output, Pending
<1>. QED BY <1>2, <1>3
-----------------------------------------------------------------------------
(* The bytes of an instruction.                                            *)
LEMMA Opcodes ==
  /\ {OP_END, OP_DELAY, OP_KEY_DOWN, OP_KEY_UP, OP_MOD, OP_TAP, OP_REPEAT, OP_COMBO,
      OP_STRING} \subseteq Byte
  /\ {0, 1} \subseteq Byte /\ Byte \subseteq Nat /\ ByteBase \in Nat
  /\ \A b \in Byte : b < ByteBase
  BY EngineAssumption DEF Byte, OP_END, OP_DELAY, OP_KEY_DOWN, OP_KEY_UP, OP_MOD, OP_TAP,
     OP_REPEAT, OP_COMBO, OP_STRING

LEMMA TextBytes ==
  ASSUME NEW n \in Byte, NEW text \in Seq(Byte)
  PROVE  /\ <<OP_STRING, n>> \o text \in Seq(Byte)
         /\ Len(<<OP_STRING, n>> \o text) = 2 + Len(text)
         /\ (<<OP_STRING, n>> \o text)[1] = OP_STRING
         /\ (<<OP_STRING, n>> \o text)[2] = n
         /\ \A k \in 1 .. Len(text) : (<<OP_STRING, n>> \o text)[2 + k] = text[k]
<1> DEFINE a == <<OP_STRING, n>>
<1>1. a \in Seq(Byte) /\ Len(a) = 2 /\ a[1] = OP_STRING /\ a[2] = n /\ Len(text) \in Nat
  BY Opcodes
<1>. HIDE DEF a
<1>2. /\ a \o text \in Seq(Byte) /\ Len(a \o text) = 2 + Len(text)
      /\ \A k \in 1 .. 2 + Len(text) : (a \o text)[k] = IF k <= 2 THEN a[k] ELSE text[k - 2]
  <2>1. /\ a \o text \in Seq(Byte) /\ Len(a \o text) = Len(a) + Len(text)
        /\ \A k \in 1 .. Len(a) + Len(text) :
             (a \o text)[k] = IF k <= Len(a) THEN a[k] ELSE text[k - Len(a)]
    BY <1>1, ConcatProperties
  <2> DEFINE b == a \o text
  <2>. HIDE DEF b
  <2>. QED BY <2>1, <1>1 DEF b
<1>3. /\ 1 \in 1 .. 2 + Len(text) /\ 2 \in 1 .. 2 + Len(text)
      /\ \A k \in 1 .. Len(text) :
           2 + k \in 1 .. 2 + Len(text) /\ ~ (2 + k <= 2) /\ (2 + k) - 2 = k
  BY <1>1
<1>4. (a \o text)[1] = OP_STRING /\ (a \o text)[2] = n
      /\ \A k \in 1 .. Len(text) : (a \o text)[2 + k] = text[k]
  BY <1>1, <1>2, <1>3
<1>. QED BY <1>2, <1>4 DEF a

LEMMA EncodePlainType ==
  ASSUME NEW i \in PlainInstructions
  PROVE  EncodePlain(i) \in Seq(Byte) /\ Len(EncodePlain(i)) \in Nat \ {0}
<1>1. CASE i.op = "DELAY"
  BY <1>1, Opcodes DEF EncodePlain
<1>2. CASE i.op \in {"KEY_DOWN", "KEY_UP", "TAP", "MOD"}
  BY <1>2, PlainIs, Opcodes DEF EncodePlain
<1>3. CASE i.op = "COMBO"
  BY <1>3, PlainIs, Opcodes DEF EncodePlain
<1>4. CASE i.op = "STRING"
  <2>1. i.text \in Seq(Byte) /\ Len(i.text) \in Nat /\ Len(i.text) \in Byte
    BY <1>4, PlainIs, Opcodes DEF Byte
  <2>2. EncodePlain(i) = <<OP_STRING, Len(i.text)>> \o i.text
    BY <1>4 DEF EncodePlain
  <2>3. EncodePlain(i) \in Seq(Byte) /\ Len(EncodePlain(i)) = 2 + Len(i.text)
    BY <2>1, <2>2, TextBytes
  <2>. QED BY <2>1, <2>3
<1>. QED BY <1>1, <1>2, <1>3, <1>4, PlainIs
-----------------------------------------------------------------------------
(* One plain instruction, where the pointer is.                            *)
HasAt(bytes, p, part) ==
  /\ p \in Nat /\ p + Len(part) <= Len(bytes)
  /\ \A k \in 1 .. Len(part) : bytes[p + k] = part[k]

LEMMA OperandIs ==
  ASSUME TypeOK, NEW part \in Seq(Byte), HasAt(script, ptr, part),
         NEW n \in 0 .. Len(part) - 1
  PROVE  /\ ptr < Len(script) /\ script[ptr + 1] = part[1]
         /\ Operand(n) = part[n + 1] /\ PtrAfter(n) = ptr + 1 + n /\ StateAfter(n) = "RUNNING"
<1>1. /\ ptr \in Nat /\ Len(script) \in Nat /\ Len(part) \in Nat
      /\ ptr + Len(part) <= Len(script)
  BY ScriptType DEF HasAt, TypeOK
<1>2. InScript(n) /\ n + 1 \in 1 .. Len(part) /\ ptr + 1 + n = ptr + (n + 1)
      /\ ptr < Len(script) /\ 1 \in 1 .. Len(part)
  BY <1>1 DEF InScript
<1>. QED BY <1>2 DEF HasAt, Operand, PtrAfter, StateAfter

LEMMA OpcodeIs ==
  ASSUME typing = 0, ptr < Len(script), execute_opcode, ptr \in Nat, Len(script) \in Nat
  PROVE  /\ script[ptr + 1] = OP_END => op_end
         /\ script[ptr + 1] = OP_DELAY => op_delay
         /\ script[ptr + 1] = OP_KEY_DOWN => op_key_down
         /\ script[ptr + 1] = OP_KEY_UP => op_key_up
         /\ script[ptr + 1] = OP_MOD => op_mod
         /\ script[ptr + 1] = OP_TAP => op_tap_opcode
         /\ script[ptr + 1] = OP_REPEAT => op_repeat
         /\ script[ptr + 1] = OP_COMBO => op_combo
         /\ script[ptr + 1] = OP_STRING => op_string
<1> DEFINE code == script[ptr + 1]
<1>1. /\ op_end => code = OP_END
      /\ op_delay => code = OP_DELAY
      /\ op_key_down => code = OP_KEY_DOWN
      /\ op_key_up => code = OP_KEY_UP
      /\ op_mod => code = OP_MOD
      /\ op_tap_opcode => code = OP_TAP
      /\ op_repeat => code = OP_REPEAT
      /\ op_combo => code = OP_COMBO
      /\ op_string => code = OP_STRING
      /\ ~ TypeCharacter
      /\ InvalidOpcode => code > OP_STRING
      /\ ~ RunPastEnd
  <2>1. /\ op_end => Fetch(OP_END)
        /\ op_delay => Fetch(OP_DELAY)
        /\ op_key_down => Fetch(OP_KEY_DOWN)
        /\ op_key_up => Fetch(OP_KEY_UP)
        /\ op_mod => Fetch(OP_MOD)
        /\ op_tap_opcode => Fetch(OP_TAP)
        /\ op_repeat => Fetch(OP_REPEAT)
        /\ op_combo => Fetch(OP_COMBO)
        /\ op_string => Fetch(OP_STRING)
    BY DEF op_end, op_delay, op_key_down, op_key_up, op_mod, op_tap_opcode, op_repeat,
       op_combo, op_string
  <2>2. \A opcode : Fetch(opcode) => code = opcode
    BY DEF Fetch
  <2>3. ~ TypeCharacter
    BY DEF TypeCharacter
  <2>4. InvalidOpcode => code > OP_STRING
    BY DEF InvalidOpcode
  <2>5. ~ RunPastEnd
    BY DEF RunPastEnd
  <2>. HIDE DEF code
  <2>. QED BY <2>1, <2>2, <2>3, <2>4, <2>5
<1>. HIDE DEF code
<1>2. /\ code = OP_END => op_end
      /\ code = OP_DELAY => op_delay
      /\ code = OP_KEY_DOWN => op_key_down
      /\ code = OP_KEY_UP => op_key_up
      /\ code = OP_MOD => op_mod
      /\ code = OP_TAP => op_tap_opcode
      /\ code = OP_REPEAT => op_repeat
      /\ code = OP_COMBO => op_combo
      /\ code = OP_STRING => op_string
  BY <1>1 DEF execute_opcode, OP_END, OP_DELAY, OP_KEY_DOWN, OP_KEY_UP, OP_MOD, OP_TAP,
     OP_REPEAT, OP_COMBO, OP_STRING
<1>. QED BY <1>2 DEF code

(* What a step that sends the reports of outbox' does to the keyboard.     *)
LEMMA BoardSent ==
  ASSUME TypeOK, execute_opcode, outbox' \in Seq(KeyReport)
  PROVE  /\ Board'.mods = modifiers' /\ Board'.held = HeldKeys(keys')
         /\ Board'.shown = Shown(Output \o outbox')
<1>1. outbox = << >> /\ endpoint' = endpoint /\ seen' = seen
  BY OpcodeShows
<1>2. Output' = Output \o outbox'
  BY <1>1, OutputGrows
<1>. QED BY <1>2 DEF Board

LEMMA BoardBecomes ==
  ASSUME NEW kb \in Keyboards,
         Board'.mods = kb.mods, Board'.held = kb.held, Board'.shown = kb.shown
  PROVE  Board' = kb
<1>1. kb = [mods |-> kb.mods, held |-> kb.held, shown |-> kb.shown]
  BY DEF Keyboards
<1>2. Board' = [mods |-> Board'.mods, held |-> Board'.held, shown |-> Board'.shown]
  BY DEF Board
<1>. QED BY <1>1, <1>2

LEMMA ReportView ==
  ASSUME NEW m \in Byte, NEW ks \in KeyList
  PROVE  /\ Report(m, ks) \in KeyReport
         /\ View(Report(m, ks)) = [mods |-> m, held |-> HeldKeys(ks)]
  BY ReportType DEF View, Report

(* The reports of a tap, and the third of a shifted character.             *)
LEMMA TapShows ==
  ASSUME TypeOK, execute_opcode, NEW mods \in Byte, NEW after \in Byte, NEW key \in Byte,
         keys' = Tap(keys, key), modifiers' = modifiers,
         outbox' = <<Report(mods, add_key(keys, key)), Report(after, Tap(keys, key))>>
  PROVE  Board' = Taps(Board, mods, after, key)
<1> DEFINE pressed == Press(HeldKeys(keys), key)
           a == Report(mods, add_key(keys, key))
           b == Report(after, Tap(keys, key))
<1>1. /\ a \in KeyReport /\ b \in KeyReport
      /\ View(a) = [mods |-> mods, held |-> pressed]
      /\ View(b) = [mods |-> after, held |-> pressed \ {key}]
  BY KeyLists, ReportView, AddKeyHeld, TapHeld DEF TypeOK
<1>2. outbox' \in Seq(KeyReport) /\ Output \in Seq(KeyReport) /\ Board \in Keyboards
  BY <1>1, OutputType
<1>3. /\ Board'.mods = modifiers /\ Board'.held = pressed \ {key}
      /\ Board'.shown = Shown(Output \o outbox')
  BY <1>2, BoardSent, TapHeld DEF TypeOK
<1>4. Shown(Output \o outbox') = Append(Append(Shown(Output), View(a)), View(b))
  BY <1>1, <1>2, ShownMore
<1>5. Board.held = HeldKeys(keys) /\ Board.mods = modifiers /\ Board.shown = Shown(Output)
  BY DEF Board
<1> DEFINE kb == Taps(Board, mods, after, key)
<1>6. /\ kb \in Keyboards /\ kb.mods = modifiers /\ kb.held = pressed \ {key}
      /\ kb.shown = Append(Append(Shown(Output), View(a)), View(b))
  <2>1. /\ kb \in Keyboards /\ kb.mods = Board.mods
        /\ kb.held = Press(Board.held, key) \ {key}
        /\ kb.shown
             = Append(Append(Board.shown, [mods |-> mods, held |-> Press(Board.held, key)]),
                      [mods |-> after, held |-> Press(Board.held, key) \ {key}])
    BY <1>2, TapsIs
  <2>. HIDE DEF kb, a, b
  <2>. QED BY <1>1, <1>5, <2>1
<1>. HIDE DEF kb
<1>7. Board' = kb
  BY <1>3, <1>4, <1>6, BoardBecomes
<1>. QED BY <1>7 DEF kb

LEMMA PlainStep ==
  ASSUME TypeOK, typing = 0, execute_opcode, NEW i \in PlainInstructions,
         i.op # "STRING", HasAt(script, ptr, EncodePlain(i))
  PROVE  /\ EndOpcode(ptr + Len(EncodePlain(i))) /\ typing' = 0 /\ script' = script
         /\ state' \in {"RUNNING", "DELAYING"}
         /\ Board' = PlaysPlain(Board, i)
<1> DEFINE part == EncodePlain(i)
<1>1. /\ part \in Seq(Byte) /\ ptr < Len(script) /\ script[ptr + 1] = part[1]
      /\ ptr \in Nat /\ Len(script) \in Nat
  <2>1. part \in Seq(Byte) /\ Len(part) \in Nat \ {0}
    BY EncodePlainType
  <2>. HIDE DEF part
  <2>2. 0 \in 0 .. Len(part) - 1
    BY <2>1
  <2>. QED BY <2>1, <2>2, OperandIs, ScriptType DEF part, HasAt, TypeOK
<1>2. /\ Board \in Keyboards /\ Board.held = HeldKeys(keys) /\ Board.mods = modifiers
      /\ Board.shown = Shown(Output)
      /\ Output \in Seq(KeyReport) /\ modifiers \in Byte /\ keys \in KeyList
  BY OutputType DEF Board, TypeOK
<1>3. CASE i.op = "DELAY"
  <2>1. part = <<OP_DELAY, 1, 0>>
    BY <1>3 DEF EncodePlain
  <2>2. op_delay /\ PtrAfter(2) = ptr + Len(part)
    <3>1. Len(part) = 3 /\ 2 \in 0 .. Len(part) - 1 /\ part[1] = OP_DELAY
      BY <2>1
    <3>2. PtrAfter(2) = ptr + 1 + 2 /\ op_delay
      BY <1>1, <3>1, OperandIs, OpcodeIs
    <3>. HIDE DEF part
    <3>. QED BY <1>1, <3>1, <3>2
  <2>3. /\ EndOpcode(PtrAfter(2)) /\ typing' = 0 /\ script' = script /\ state' = "DELAYING"
        /\ modifiers' = modifiers /\ keys' = keys /\ UNCHANGED <<outbox, endpoint, seen>>
    BY <2>2 DEF op_delay, usb_vars
  <2>4. Board' = Board
    BY <2>3 DEF Board, Output, Pending
  <2>. QED BY <1>3, <2>2, <2>3, <2>4 DEF PlaysPlain
<1>4. CASE i.op \in {"KEY_DOWN", "KEY_UP", "TAP"}
  <2>1. i.key \in Byte /\ Len(part) = 2 /\ part[2] = i.key
        /\ part[1] = CASE i.op = "KEY_DOWN" -> OP_KEY_DOWN [] i.op = "KEY_UP" -> OP_KEY_UP
                       [] i.op = "TAP" -> OP_TAP
    BY <1>4, PlainIs DEF EncodePlain
  <2>2. Operand(1) = i.key /\ PtrAfter(1) = ptr + Len(part) /\ StateAfter(1) = "RUNNING"
    <3>1. 1 \in 0 .. Len(part) - 1 /\ 1 + 1 = 2
      BY <2>1
    <3>2. Operand(1) = part[2] /\ PtrAfter(1) = ptr + 1 + 1 /\ StateAfter(1) = "RUNNING"
      BY <1>1, <3>1, OperandIs
    <3>. HIDE DEF part
    <3>. QED BY <1>1, <2>1, <3>2
  <2> DEFINE down == Report(modifiers, add_key(keys, i.key))
             up == Report(modifiers, remove_key(keys, i.key))
  <2>3. /\ down \in KeyReport /\ View(down) = [mods |-> modifiers,
                                               held |-> Press(HeldKeys(keys), i.key)]
        /\ up \in KeyReport /\ View(up) = [mods |-> modifiers,
                                           held |-> HeldKeys(keys) \ {i.key}]
        /\ HeldKeys(add_key(keys, i.key)) = Press(HeldKeys(keys), i.key)
        /\ HeldKeys(remove_key(keys, i.key)) = HeldKeys(keys) \ {i.key}
    <3>1. /\ add_key(keys, i.key) \in KeyList /\ remove_key(keys, i.key) \in KeyList
          /\ HeldKeys(add_key(keys, i.key)) = Press(HeldKeys(keys), i.key)
          /\ HeldKeys(remove_key(keys, i.key)) = HeldKeys(keys) \ {i.key}
      BY <1>2, <2>1, KeyLists, AddKeyHeld, RemoveKeyHeld
    <3>. QED BY <1>2, <3>1, ReportView
  <2>4. CASE i.op = "KEY_DOWN"
    <3>1. op_key_down
      BY <1>1, <2>1, <2>4, OpcodeIs
    <3>2. /\ EndOpcode(PtrAfter(1)) /\ typing' = 0 /\ script' = script
          /\ state' = StateAfter(1) /\ modifiers' = modifiers
          /\ keys' = add_key(keys, i.key) /\ outbox' = <<down>>
      BY <2>2, <3>1 DEF op_key_down
    <3>3. /\ Board'.mods = modifiers /\ Board'.held = Press(HeldKeys(keys), i.key)
          /\ Board'.shown = Append(Shown(Output), View(down))
      <4>1. <<down>> \in Seq(KeyReport)
        BY <2>3
      <4>. QED BY <1>2, <2>3, <3>2, <4>1, BoardSent, ShownMore
    <3> DEFINE kb == PlaysPlain(Board, i)
    <3>4. /\ kb \in Keyboards /\ kb.mods = modifiers
          /\ kb.held = Press(HeldKeys(keys), i.key)
          /\ kb.shown = Append(Shown(Output), View(down))
      <4>1. /\ kb \in Keyboards /\ kb.mods = Board.mods
            /\ kb.held = Press(Board.held, i.key)
            /\ kb.shown = Append(Board.shown, [mods |-> Board.mods,
                                               held |-> Press(Board.held, i.key)])
        BY <1>2, <2>4, KeyDownIs
      <4>. HIDE DEF kb, down
      <4>. QED BY <1>2, <2>3, <4>1
    <3>. HIDE DEF kb
    <3>5. Board' = kb
      BY <3>3, <3>4, BoardBecomes
    <3>. QED BY <2>2, <3>2, <3>5 DEF kb
  <2>5. CASE i.op = "KEY_UP"
    <3>1. op_key_up
      BY <1>1, <2>1, <2>5, OpcodeIs
    <3>2. /\ EndOpcode(PtrAfter(1)) /\ typing' = 0 /\ script' = script
          /\ state' = StateAfter(1) /\ modifiers' = modifiers
          /\ keys' = remove_key(keys, i.key) /\ outbox' = <<up>>
      BY <2>2, <3>1 DEF op_key_up
    <3>3. /\ Board'.mods = modifiers /\ Board'.held = HeldKeys(keys) \ {i.key}
          /\ Board'.shown = Append(Shown(Output), View(up))
      <4>1. <<up>> \in Seq(KeyReport)
        BY <2>3
      <4>. QED BY <1>2, <2>3, <3>2, <4>1, BoardSent, ShownMore
    <3> DEFINE kb == PlaysPlain(Board, i)
    <3>4. /\ kb \in Keyboards /\ kb.mods = modifiers
          /\ kb.held = HeldKeys(keys) \ {i.key}
          /\ kb.shown = Append(Shown(Output), View(up))
      <4>1. /\ kb \in Keyboards /\ kb.mods = Board.mods
            /\ kb.held = Board.held \ {i.key}
            /\ kb.shown = Append(Board.shown, [mods |-> Board.mods,
                                               held |-> Board.held \ {i.key}])
        BY <1>2, <2>5, KeyUpIs
      <4>. HIDE DEF kb, up
      <4>. QED BY <1>2, <2>3, <4>1
    <3>. HIDE DEF kb
    <3>5. Board' = kb
      BY <3>3, <3>4, BoardBecomes
    <3>. QED BY <2>2, <3>2, <3>5 DEF kb
  <2>6. CASE i.op = "TAP"
    <3>1. op_tap_opcode
      BY <1>1, <2>1, <2>6, OpcodeIs
    <3>2. /\ EndOpcode(PtrAfter(1)) /\ typing' = 0 /\ script' = script
          /\ state' = StateAfter(1) /\ modifiers' = modifiers
          /\ keys' = Tap(keys, i.key) /\ outbox' = TapReports(modifiers, i.key)
      BY <2>2, <3>1 DEF op_tap_opcode
    <3>3. Board' = Taps(Board, modifiers, modifiers, i.key)
      BY <1>2, <2>1, <3>2, TapShows DEF TapReports
    <3>4. PlaysPlain(Board, i) = Taps(Board, modifiers, modifiers, i.key)
      BY <1>2, <2>6 DEF PlaysPlain
    <3>. QED BY <2>2, <3>2, <3>3, <3>4
  <2>. QED BY <1>4, <2>4, <2>5, <2>6
<1>5. CASE i.op = "MOD"
  <2>1. i.mask \in Byte /\ Len(part) = 2 /\ part[2] = i.mask /\ part[1] = OP_MOD
    BY <1>5, PlainIs DEF EncodePlain
  <2>2. Operand(1) = i.mask /\ PtrAfter(1) = ptr + Len(part) /\ StateAfter(1) = "RUNNING"
    <3>1. 1 \in 0 .. Len(part) - 1 /\ 1 + 1 = 2
      BY <2>1
    <3>2. Operand(1) = part[2] /\ PtrAfter(1) = ptr + 1 + 1 /\ StateAfter(1) = "RUNNING"
      BY <1>1, <3>1, OperandIs
    <3>. HIDE DEF part
    <3>. QED BY <1>1, <2>1, <3>2
  <2>3. op_mod
    BY <1>1, <2>1, OpcodeIs
  <2> DEFINE r == Report(i.mask, keys)
  <2>4. /\ EndOpcode(PtrAfter(1)) /\ typing' = 0 /\ script' = script
        /\ state' = StateAfter(1) /\ modifiers' = i.mask
        /\ keys' = keys /\ outbox' = <<r>>
    BY <2>2, <2>3 DEF op_mod
  <2>5. r \in KeyReport /\ View(r) = [mods |-> i.mask, held |-> HeldKeys(keys)]
    BY <1>2, <2>1, ReportView
  <2>6. /\ Board'.mods = i.mask /\ Board'.held = HeldKeys(keys)
        /\ Board'.shown = Append(Shown(Output), View(r))
    <3>1. <<r>> \in Seq(KeyReport)
      BY <2>5
    <3>. QED BY <1>2, <2>4, <2>5, <3>1, BoardSent, ShownMore
  <2> DEFINE kb == PlaysPlain(Board, i)
  <2>7. /\ kb \in Keyboards /\ kb.mods = i.mask /\ kb.held = HeldKeys(keys)
        /\ kb.shown = Append(Shown(Output), View(r))
    <3>1. /\ kb \in Keyboards /\ kb.mods = i.mask /\ kb.held = Board.held
          /\ kb.shown = Append(Board.shown, [mods |-> i.mask, held |-> Board.held])
      BY <1>2, <1>5, ModIs
    <3>. HIDE DEF kb, r
    <3>. QED BY <1>2, <2>5, <3>1
  <2>. HIDE DEF kb
  <2>8. Board' = kb
    BY <2>6, <2>7, BoardBecomes
  <2>. QED BY <2>2, <2>4, <2>8 DEF kb
<1>6. CASE i.op = "COMBO"
  <2>1. /\ i.mask \in Byte /\ i.key \in Byte /\ Len(part) = 3 /\ part[2] = i.mask
        /\ part[3] = i.key /\ part[1] = OP_COMBO
    BY <1>6, PlainIs DEF EncodePlain
  <2>2. /\ Operand(1) = i.mask /\ Operand(2) = i.key /\ PtrAfter(2) = ptr + Len(part)
        /\ StateAfter(2) = "RUNNING"
    <3>1. 1 \in 0 .. Len(part) - 1 /\ 2 \in 0 .. Len(part) - 1 /\ 1 + 1 = 2 /\ 2 + 1 = 3
      BY <2>1
    <3>2. /\ Operand(1) = part[2] /\ Operand(2) = part[3] /\ PtrAfter(2) = ptr + 1 + 2
          /\ StateAfter(2) = "RUNNING"
      BY <1>1, <3>1, OperandIs
    <3>. HIDE DEF part
    <3>. QED BY <1>1, <2>1, <3>2
  <2>3. op_combo
    BY <1>1, <2>1, OpcodeIs
  <2>4. /\ EndOpcode(PtrAfter(2)) /\ typing' = 0 /\ script' = script
        /\ state' = StateAfter(2) /\ modifiers' = modifiers
        /\ keys' = Tap(keys, i.key) /\ outbox' = combo_reports(i.mask, i.key)
    BY <2>2, <2>3 DEF op_combo
  <2>5. Board' = Taps(Board, i.mask, modifiers, i.key)
    BY <1>2, <2>1, <2>4, TapShows DEF combo_reports
  <2>6. PlaysPlain(Board, i) = Taps(Board, i.mask, modifiers, i.key)
    BY <1>2, <1>6 DEF PlaysPlain
  <2>. QED BY <2>2, <2>4, <2>5, <2>6
<1>. QED BY <1>3, <1>4, <1>5, <1>6, PlainIs
-----------------------------------------------------------------------------
(* A character of a text.                                                  *)
LEMMA CharacterIs ==
  ASSUME TypeOK, execute_opcode, typing > 0, ptr < Len(script)
  PROVE  TypeCharacter
<1>1. typing # 0 /\ ~ (ptr >= Len(script))
  BY ScriptType, Bytes DEF TypeOK
<1>2. \A opcode : ~ Fetch(opcode)
  BY <1>1 DEF Fetch, Executing
<1>3. ~ InvalidOpcode /\ ~ RunPastEnd
  BY <1>1 DEF InvalidOpcode, RunPastEnd, Executing
<1>. QED BY <1>2, <1>3 DEF execute_opcode, op_end, op_delay, op_key_down, op_key_up, op_mod,
     op_tap_opcode, op_repeat, op_combo, op_string

LEMMA ThirdReport ==
  ASSUME NEW x, NEW y, NEW z
  PROVE  Append(<<x, y>>, z) = <<x, y, z>>
<1> DEFINE S == {x, y, z}
           a == Append(<<x, y>>, z)
           b == <<x, y, z>>
<1>1. <<x, y>> \in Seq(S) /\ z \in S /\ b \in Seq(S) /\ Len(b) = 3 /\ Len(<<x, y>>) = 2
  OBVIOUS
<1>2. /\ a \in Seq(S) /\ Len(a) = 3 /\ a[1] = x /\ a[2] = y /\ a[3] = z
  BY <1>1
<1>3. b[1] = x /\ b[2] = y /\ b[3] = z
  OBVIOUS
<1>. HIDE DEF a, b
<1>4. \A k \in 1 .. 3 : a[k] = b[k]
  <2>1. \A k \in 1 .. 3 : k = 1 \/ k = 2 \/ k = 3
    OBVIOUS
  <2>. QED BY <1>2, <1>3, <2>1
<1>5. a = b
  BY <1>1, <1>2, <1>4, SeqEqual
<1>. QED BY <1>5 DEF a, b

LEMMA ShiftedShows ==
  ASSUME TypeOK, execute_opcode, NEW mods \in Byte, NEW key \in Byte,
         keys' = Tap(keys, key), modifiers' = modifiers,
         outbox' = <<Report(mods, add_key(keys, key)), Report(mods, Tap(keys, key)),
                     Report(modifiers, Tap(keys, key))>>
  PROVE  LET typed == Taps(Board, mods, mods, key)
         IN  Board' = Show(typed, Board.mods, typed.held)
<1> DEFINE pressed == Press(HeldKeys(keys), key)
           a == Report(mods, add_key(keys, key))
           b == Report(mods, Tap(keys, key))
           c == Report(modifiers, Tap(keys, key))
           typed == Taps(Board, mods, mods, key)
           kb == Show(typed, Board.mods, typed.held)
<1>1. /\ a \in KeyReport /\ b \in KeyReport /\ c \in KeyReport
      /\ View(a) = [mods |-> mods, held |-> pressed]
      /\ View(b) = [mods |-> mods, held |-> pressed \ {key}]
      /\ View(c) = [mods |-> modifiers, held |-> pressed \ {key}]
  BY KeyLists, ReportView, AddKeyHeld, TapHeld DEF TypeOK
<1>2. outbox' \in Seq(KeyReport) /\ Output \in Seq(KeyReport) /\ Board \in Keyboards
  BY <1>1, OutputType
<1>3. /\ Board'.mods = modifiers /\ Board'.held = pressed \ {key}
      /\ Board'.shown = Shown(Output \o outbox')
  BY <1>2, BoardSent, TapHeld DEF TypeOK
<1>4. Shown(Output \o outbox')
        = Append(Append(Append(Shown(Output), View(a)), View(b)), View(c))
  <2>1. outbox' = <<a, b, c>>
    OBVIOUS
  <2>2. a \in KeyReport /\ b \in KeyReport /\ c \in KeyReport /\ Output \in Seq(KeyReport)
    BY <1>1, <1>2
  <2>. HIDE DEF a, b, c
  <2>3. Shown(Output \o <<a, b, c>>)
          = Append(Append(Append(Shown(Output), View(a)), View(b)), View(c))
    BY <2>2, ShownThree
  <2>. QED BY <2>1, <2>3
<1>5. Board.held = HeldKeys(keys) /\ Board.mods = modifiers /\ Board.shown = Shown(Output)
      /\ modifiers \in Byte
  BY DEF Board, TypeOK
<1>6. /\ typed \in Keyboards /\ typed.mods = modifiers /\ typed.held = pressed \ {key}
      /\ typed.shown = Append(Append(Shown(Output), View(a)), View(b))
  <2>1. /\ typed \in Keyboards /\ typed.mods = Board.mods
        /\ typed.held = Press(Board.held, key) \ {key}
        /\ typed.shown
             = Append(Append(Board.shown, [mods |-> mods, held |-> Press(Board.held, key)]),
                      [mods |-> mods, held |-> Press(Board.held, key) \ {key}])
    BY <1>2, TapsIs
  <2>. HIDE DEF typed, a, b
  <2>. QED BY <1>1, <1>5, <2>1
<1>. HIDE DEF typed
<1>7. /\ kb \in Keyboards /\ kb.mods = typed.mods /\ kb.held = typed.held
      /\ kb.shown = Append(typed.shown, [mods |-> Board.mods, held |-> typed.held])
  <2>1. typed.held \in SUBSET Byte /\ Board.mods \in Byte
    BY <1>5, <1>6 DEF Keyboards
  <2>. QED BY <1>6, <2>1, ShowType
<1>. HIDE DEF kb
<1>8. /\ kb.mods = modifiers /\ kb.held = pressed \ {key}
      /\ kb.shown = Append(Append(Append(Shown(Output), View(a)), View(b)), View(c))
  <2>. HIDE DEF a, b, c
  <2>. QED BY <1>1, <1>5, <1>6, <1>7
<1>9. Board' = kb
  BY <1>3, <1>4, <1>7, <1>8, BoardBecomes
<1>. QED BY <1>9 DEF kb, typed

LEMMA CharacterShows ==
  ASSUME TypeOK, execute_opcode, TypeCharacter
  PROVE  Board' = Types(Board, script[ptr + 1])
<1> DEFINE char == script[ptr + 1]
           c == keycode_of(char)
<1>1. char \in Byte /\ c.keycode \in Byte /\ c.modifiers \in Byte
  <2>1. script \in Seq(Byte) /\ Len(script) \in Nat /\ ptr \in Nat /\ ptr < Len(script)
    BY ScriptType DEF TypeOK, TypeCharacter
  <2>2. char \in Byte
    BY <2>1
  <2>. QED BY <2>2, KeycodeAssumption
<1>2. /\ keys' = (IF c.keycode = 0 THEN keys ELSE Tap(keys, c.keycode))
      /\ outbox' = CharacterReports(c) /\ modifiers' = modifiers
  BY DEF TypeCharacter
<1>3. Board \in Keyboards /\ modifiers \in Byte /\ Board.mods = modifiers
  BY OutputType DEF TypeOK, Board
<1>4. Types(Board, char) = IF c.keycode = 0 THEN Board
        ELSE IF c.modifiers = 0 THEN Taps(Board, Board.mods, Board.mods, c.keycode)
        ELSE Show(Taps(Board, c.modifiers, c.modifiers, c.keycode), Board.mods,
                  Taps(Board, c.modifiers, c.modifiers, c.keycode).held)
  BY DEF Types
<1>. HIDE DEF c
<1>5. CASE c.keycode = 0
  <2>1. outbox' = << >> /\ keys' = keys /\ outbox = << >>
        /\ endpoint' = endpoint /\ seen' = seen
    BY <1>2, <1>5 DEF CharacterReports, TypeCharacter, usb_vars
  <2>2. Board' = Board
    BY <1>2, <2>1 DEF Board, Output, Pending
  <2>. QED BY <1>4, <1>5, <2>2
<1>6. CASE c.keycode # 0 /\ c.modifiers = 0
  <2>1. outbox' = TapReports(modifiers, c.keycode) /\ keys' = Tap(keys, c.keycode)
    BY <1>2, <1>6 DEF CharacterReports
  <2>2. Board' = Taps(Board, modifiers, modifiers, c.keycode)
    BY <1>1, <1>2, <1>3, <2>1, TapShows DEF TapReports
  <2>. QED BY <1>3, <1>4, <1>6, <2>2
<1>7. CASE c.keycode # 0 /\ c.modifiers # 0
  <2>1. /\ keys' = Tap(keys, c.keycode)
        /\ outbox' = <<Report(c.modifiers, add_key(keys, c.keycode)),
                       Report(c.modifiers, Tap(keys, c.keycode)),
                       Report(modifiers, Tap(keys, c.keycode))>>
    <3> DEFINE x == Report(c.modifiers, add_key(keys, c.keycode))
               y == Report(c.modifiers, Tap(keys, c.keycode))
               z == Report(modifiers, Tap(keys, c.keycode))
    <3>1. keys' = Tap(keys, c.keycode) /\ outbox' = Append(<<x, y>>, z)
      BY <1>2, <1>7 DEF CharacterReports, TapReports
    <3>. HIDE DEF x, y, z
    <3>2. Append(<<x, y>>, z) = <<x, y, z>>
      BY ThirdReport
    <3>. QED BY <3>1, <3>2 DEF x, y, z
  <2>2. Board' = Show(Taps(Board, c.modifiers, c.modifiers, c.keycode), Board.mods,
                      Taps(Board, c.modifiers, c.modifiers, c.keycode).held)
    BY <1>1, <1>2, <2>1, ShiftedShows
  <2>. QED BY <1>4, <1>7, <2>2
<1>. QED BY <1>5, <1>6, <1>7

(* A STRING whose opcode is where the pointer is.                          *)
LEMMA StringStarts ==
  ASSUME TypeOK, typing = 0, execute_opcode, NEW i \in PlainInstructions, i.op = "STRING",
         HasAt(script, ptr, EncodePlain(i))
  PROVE  /\ typing' = Len(i.text) /\ script' = script /\ state' = "RUNNING"
         /\ Board' = Board
         /\ \/ Len(i.text) = 0 /\ EndOpcode(ptr + 2)
            \/ Len(i.text) > 0 /\ ptr' = ptr + 2 /\ UNCHANGED repeat_vars
<1> DEFINE part == EncodePlain(i)
           n == Len(i.text)
<1>1. i.text \in Seq(Byte) /\ n \in Nat /\ n \in Byte
  BY PlainIs, Opcodes DEF Byte
<1>2. part \in Seq(Byte) /\ Len(part) = 2 + n /\ part[1] = OP_STRING /\ part[2] = n
  <2>1. part = <<OP_STRING, n>> \o i.text
    BY DEF EncodePlain
  <2>. HIDE DEF n
  <2>2. n = Len(i.text)
    BY DEF n
  <2>. QED BY <1>1, <2>1, <2>2, TextBytes
<1>. HIDE DEF n
<1>3. 1 \in 0 .. Len(part) - 1 /\ 1 + 1 = 2
  BY <1>1, <1>2
<1>4. /\ ptr < Len(script) /\ script[ptr + 1] = part[1] /\ Operand(1) = part[2]
      /\ PtrAfter(1) = ptr + 1 + 1 /\ StateAfter(1) = "RUNNING"
  BY <1>2, <1>3, OperandIs
<1>5. ptr \in Nat /\ Len(script) \in Nat
  BY ScriptType DEF TypeOK
<1>6. op_string
  BY <1>2, <1>4, <1>5, OpcodeIs
<1>7. PtrAfter(1) = ptr + 2 /\ Operand(1) = n
  BY <1>2, <1>4, <1>5
<1>8. /\ typing' = n /\ state' = "RUNNING" /\ script' = script
      /\ \/ n = 0 /\ EndOpcode(ptr + 2)
         \/ n > 0 /\ ptr' = ptr + 2 /\ UNCHANGED repeat_vars
      /\ UNCHANGED <<modifiers, keys, outbox, usb_vars>>
  BY <1>4, <1>6, <1>7 DEF op_string
<1>9. Board' = Board
  BY <1>8 DEF Board, Output, Pending, usb_vars
<1>. QED BY <1>8, <1>9 DEF n
-----------------------------------------------------------------------------
(* Where the parts of a script are.                                        *)
LEMMA PartIsAt ==
  ASSUME NEW bytes \in Seq(Byte), NEW p, NEW parts \in Seq(Seq(Byte)), NEW flat \in Seq(Byte),
         NEW at, HasAt(bytes, p, flat), IsLayout(at, parts, flat),
         NEW n \in 1 .. Len(parts)
  PROVE  /\ HasAt(bytes, p + at[n - 1], parts[n])
         /\ at[n - 1] \in Nat /\ at[n] \in Nat
         /\ at[n] = at[n - 1] + Len(parts[n])
<1>1. /\ p \in Nat /\ Len(flat) \in Nat /\ Len(parts) \in Nat /\ Len(bytes) \in Nat
      /\ p + Len(flat) <= Len(bytes)
      /\ n - 1 \in 0 .. Len(parts) /\ n \in 0 .. Len(parts)
      /\ parts[n] \in Seq(Byte) /\ Len(parts[n]) \in Nat
  <2>1. n \in Nat /\ n - 1 \in 0 .. Len(parts) /\ n \in 0 .. Len(parts)
    OBVIOUS
  <2>2. parts[n] \in Seq(Byte)
    OBVIOUS
  <2>. QED BY <2>1, <2>2 DEF HasAt
<1>2. /\ at[n - 1] \in Nat /\ at[n] \in Nat /\ at[n] <= Len(flat)
      /\ at[n] = at[n - 1] + Len(parts[n])
      /\ \A k \in 1 .. Len(parts[n]) : flat[at[n - 1] + k] = parts[n][k]
  BY <1>1 DEF IsLayout
<1>3. ASSUME NEW k \in 1 .. Len(parts[n])
      PROVE  bytes[p + at[n - 1] + k] = parts[n][k]
  <2> DEFINE m == at[n - 1]
             l == Len(parts[n])
             total == Len(flat)
  <2>1. m \in Nat /\ l \in Nat /\ m + l <= total /\ k \in 1 .. l /\ total \in Nat
    BY <1>1, <1>2
  <2>. HIDE DEF m, l, total
  <2>2. m + k \in 1 .. total /\ p + (m + k) = p + m + k
    BY <1>1, <2>1
  <2>3. bytes[p + (m + k)] = flat[m + k]
    BY <2>2 DEF HasAt, total
  <2>4. flat[m + k] = parts[n][k]
    BY <1>2 DEF m
  <2>. QED BY <2>2, <2>3, <2>4 DEF m
<1>4. p + at[n - 1] \in Nat /\ p + at[n - 1] + Len(parts[n]) <= Len(bytes)
  <2> DEFINE m == at[n - 1]
             l == Len(parts[n])
             total == Len(flat)
             size == Len(bytes)
  <2>1. m \in Nat /\ l \in Nat /\ m + l <= total /\ total \in Nat /\ size \in Nat
        /\ p + total <= size /\ p \in Nat
    BY <1>1, <1>2
  <2>. HIDE DEF m, l, total, size
  <2>2. p + m \in Nat /\ p + m + l <= size
    BY <2>1
  <2>. QED BY <2>2 DEF m, l, size
<1>. QED BY <1>2, <1>3, <1>4 DEF HasAt

LEMMA RepeatBytes ==
  ASSUME NEW times \in Byte, NEW bytes \in Seq(Byte), Len(bytes) < ByteBase
  PROVE  /\ EncodeRepeat(times, bytes) \in Seq(Byte)
         /\ Len(EncodeRepeat(times, bytes)) = 3 + Len(bytes)
         /\ EncodeRepeat(times, bytes)[1] = OP_REPEAT
         /\ EncodeRepeat(times, bytes)[2] = times
         /\ EncodeRepeat(times, bytes)[3] = Len(bytes)
         /\ \A k \in 1 .. Len(bytes) : EncodeRepeat(times, bytes)[3 + k] = bytes[k]
         /\ Len(bytes) \in Byte
<1> DEFINE l == Len(bytes)
           a == <<OP_REPEAT, times, l>>
           b == a \o bytes
<1>1. l \in Nat /\ l \in Byte
  BY Opcodes DEF Byte
<1>. HIDE DEF l
<1>2. /\ a \in Seq(Byte) /\ Len(a) = 3 /\ a[1] = OP_REPEAT /\ a[2] = times /\ a[3] = l
  BY <1>1, Opcodes
<1>. HIDE DEF a
<1>3. /\ b \in Seq(Byte) /\ Len(b) = 3 + l
      /\ \A k \in 1 .. 3 + l : b[k] = IF k <= 3 THEN a[k] ELSE bytes[k - 3]
  <2>1. /\ a \o bytes \in Seq(Byte) /\ Len(a \o bytes) = Len(a) + Len(bytes)
        /\ \A k \in 1 .. Len(a) + Len(bytes) :
             (a \o bytes)[k] = IF k <= Len(a) THEN a[k] ELSE bytes[k - Len(a)]
    BY <1>2, ConcatProperties
  <2>2. Len(bytes) = l
    BY DEF l
  <2>. HIDE DEF b
  <2>. QED BY <2>1, <2>2, <1>2 DEF b
<1>. HIDE DEF b
<1>4. /\ 1 \in 1 .. 3 + l /\ 2 \in 1 .. 3 + l /\ 3 \in 1 .. 3 + l
      /\ \A k \in 1 .. l : 3 + k \in 1 .. 3 + l /\ ~ (3 + k <= 3) /\ (3 + k) - 3 = k
  BY <1>1
<1>5. b[1] = OP_REPEAT /\ b[2] = times /\ b[3] = l
      /\ \A k \in 1 .. l : b[3 + k] = bytes[k]
  BY <1>1, <1>2, <1>3, <1>4
<1>6. EncodeRepeat(times, bytes) = b
  BY DEF EncodeRepeat, a, b, l
<1>. QED BY <1>1, <1>3, <1>5, <1>6 DEF l

LEMMA ContainsBlock ==
  ASSUME NEW bytes \in Seq(Byte), NEW p, NEW times \in Byte, NEW block \in Seq(Byte),
         Len(block) < ByteBase, HasAt(bytes, p, EncodeRepeat(times, block))
  PROVE  HasAt(bytes, p + 3, block)
<1> DEFINE r == EncodeRepeat(times, block)
<1>1. /\ Len(r) = 3 + Len(block) /\ \A k \in 1 .. Len(block) : r[3 + k] = block[k]
  BY RepeatBytes
<1>2. /\ p \in Nat /\ p + Len(r) <= Len(bytes) /\ \A k \in 1 .. Len(r) : bytes[p + k] = r[k]
  BY DEF HasAt
<1>. HIDE DEF r
<1> DEFINE l == Len(block)
           size == Len(bytes)
<1>3. l \in Nat /\ size \in Nat
  OBVIOUS
<1>4. Len(r) = 3 + l /\ p + Len(r) <= size
  BY <1>1, <1>2
<1>5. ASSUME NEW k \in 1 .. l PROVE bytes[p + 3 + k] = block[k]
  <2>. HIDE DEF l
  <2>1. 3 + k \in 1 .. Len(r) /\ p + (3 + k) = p + 3 + k
    BY <1>2, <1>3, <1>4, <1>5
  <2>2. bytes[p + (3 + k)] = r[3 + k]
    BY <1>2, <2>1
  <2>3. r[3 + k] = block[k]
    BY <1>1, <1>5 DEF l
  <2>. QED BY <2>1, <2>2, <2>3
<1>6. p + 3 \in Nat /\ p + 3 + l <= size
  <2>. HIDE DEF l, size
  <2>. QED BY <1>2, <1>3, <1>4
<1>. QED BY <1>5, <1>6 DEF HasAt

(* The parts of a block and of a program.                                  *)
PlainParts(block) == [n \in 1 .. Len(block) |-> EncodePlain(block[n])]
BlockParts(block) == [n \in 1 .. Len(block) |-> EncodeInner(block[n])]
ProgramParts(program) == [n \in 1 .. Len(program) |-> EncodeOne(program[n])]

LEMMA InnerIs ==
  ASSUME NEW i \in InnerInstructions, i \notin PlainInstructions
  PROVE  /\ i.op = "REPEAT" /\ ~ IsPlain(i)
         /\ i.times \in Byte /\ i.block \in Seq(PlainInstructions)
         /\ Len(EncodePlainBlock(i.block)) < ByteBase
  BY DEF InnerInstructions, IsPlain

LEMMA EncodeInnerType ==
  ASSUME NEW i \in InnerInstructions
  PROVE  /\ EncodeInner(i) \in Seq(Byte) /\ Len(EncodeInner(i)) \in Nat \ {0}
         /\ i \notin PlainInstructions =>
              /\ EncodePlainBlock(i.block) \in Seq(Byte)
              /\ EncodeInner(i) = EncodeRepeat(i.times, EncodePlainBlock(i.block))
         /\ i \in PlainInstructions => EncodeInner(i) = EncodePlain(i)
<1>1. CASE i \in PlainInstructions
  <2>1. EncodeInner(i) = EncodePlain(i)
    BY <1>1, PlainIs DEF EncodeInner
  <2>. QED BY <1>1, <2>1, EncodePlainType
<1>2. CASE i \notin PlainInstructions
  <2> DEFINE b == EncodePlainBlock(i.block)
  <2>1. /\ i.times \in Byte /\ i.block \in Seq(PlainInstructions) /\ Len(b) < ByteBase
        /\ EncodeInner(i) = EncodeRepeat(i.times, b)
    BY <1>2, InnerIs DEF EncodeInner
  <2>2. PlainParts(i.block) \in Seq(Seq(Byte))
    <3>1. \A n \in 1 .. Len(i.block) : EncodePlain(i.block[n]) \in Seq(Byte)
      BY <2>1, EncodePlainType
    <3>2. Len(i.block) \in Nat
      BY <2>1
    <3>. QED BY <3>1, <3>2 DEF PlainParts
  <2>3. b \in Seq(Byte)
    BY <2>2, LayoutExists DEF EncodePlainBlock, PlainParts
  <2>. HIDE DEF b
  <2>4. EncodeInner(i) \in Seq(Byte) /\ Len(EncodeInner(i)) = 3 + Len(b) /\ Len(b) \in Nat
    BY <2>1, <2>3, RepeatBytes
  <2>. QED BY <1>2, <2>1, <2>3, <2>4 DEF b
<1>. QED BY <1>1, <1>2

LEMMA BlockLayout ==
  ASSUME NEW block \in Seq(InnerInstructions)
  PROVE  /\ BlockParts(block) \in Seq(Seq(Byte)) /\ Len(BlockParts(block)) = Len(block)
         /\ EncodeBlock(block) \in Seq(Byte)
         /\ \E at : IsLayout(at, BlockParts(block), EncodeBlock(block))
<1>1. Len(block) \in Nat /\ \A n \in 1 .. Len(block) : EncodeInner(block[n]) \in Seq(Byte)
  BY EncodeInnerType
<1>2. BlockParts(block) \in Seq(Seq(Byte)) /\ Len(BlockParts(block)) = Len(block)
  BY <1>1 DEF BlockParts
<1>3. EncodeBlock(block) = FlattenSeq(BlockParts(block))
  BY DEF EncodeBlock, BlockParts
<1>. QED BY <1>2, <1>3, LayoutExists

LEMMA EncodeOneType ==
  ASSUME NEW i \in Instructions
  PROVE  /\ EncodeOne(i) \in Seq(Byte) /\ Len(EncodeOne(i)) \in Nat \ {0}
         /\ i \notin PlainInstructions =>
              EncodeOne(i) = EncodeRepeat(i.times, EncodeBlock(i.block))
         /\ i \in PlainInstructions => EncodeOne(i) = EncodePlain(i)
<1>1. CASE i \in PlainInstructions
  <2>1. EncodeOne(i) = EncodePlain(i)
    BY <1>1, PlainIs DEF EncodeOne
  <2>. QED BY <1>1, <2>1, EncodePlainType
<1>2. CASE i \notin PlainInstructions
  <2> DEFINE b == EncodeBlock(i.block)
  <2>1. /\ i.times \in Byte /\ i.block \in Seq(InnerInstructions) /\ Len(b) < ByteBase
        /\ EncodeOne(i) = EncodeRepeat(i.times, b)
    BY <1>2, RepeatIs DEF EncodeOne
  <2>2. b \in Seq(Byte)
    BY <2>1, BlockLayout
  <2>. HIDE DEF b
  <2>3. EncodeOne(i) \in Seq(Byte) /\ Len(EncodeOne(i)) = 3 + Len(b) /\ Len(b) \in Nat
    BY <2>1, <2>2, RepeatBytes
  <2>. QED BY <1>2, <2>1, <2>3 DEF b
<1>. QED BY <1>1, <1>2

LEMMA ProgramLayout ==
  ASSUME NEW program \in Seq(Instructions)
  PROVE  /\ ProgramParts(program) \in Seq(Seq(Byte))
         /\ Len(ProgramParts(program)) = Len(program)
         /\ \E flat \in Seq(Byte) :
              /\ Encode(program) = Append(flat, OP_END)
              /\ \E at : IsLayout(at, ProgramParts(program), flat)
<1>1. Len(program) \in Nat /\ \A n \in 1 .. Len(program) : EncodeOne(program[n]) \in Seq(Byte)
  BY EncodeOneType
<1>2. ProgramParts(program) \in Seq(Seq(Byte)) /\ Len(ProgramParts(program)) = Len(program)
  BY <1>1 DEF ProgramParts
<1>3. Encode(program) = Append(FlattenSeq(ProgramParts(program)), OP_END)
  BY DEF Encode, ProgramParts
<1>. QED BY <1>2, <1>3, LayoutExists
-----------------------------------------------------------------------------
(* An instruction only adds to what has been shown.                        *)
Extends(a, b) == \E s \in Seq(Views) : b.shown = a.shown \o s

LEMMA ExtendsSelf ==
  ASSUME NEW a \in Keyboards, NEW b \in Keyboards, b.shown = a.shown
  PROVE  Extends(a, b)
<1>1. a.shown \in Seq(Views) /\ << >> \in Seq(Views)
  BY DEF Keyboards
<1>2. a.shown \o << >> = a.shown
  BY <1>1, ConcatEmptySeq
<1>. QED BY <1>1, <1>2 DEF Extends

LEMMA ExtendsAppend ==
  ASSUME NEW a \in Keyboards, NEW b \in Keyboards, NEW v \in Views,
         b.shown = Append(a.shown, v)
  PROVE  Extends(a, b)
<1> DEFINE s == a.shown
<1>1. s \in Seq(Views) /\ <<v>> \in Seq(Views)
  BY DEF Keyboards
<1>. HIDE DEF s
<1>2. s \o <<v>> = Append(s, v)
  BY <1>1
<1>. QED BY <1>1, <1>2 DEF Extends, s

LEMMA ExtendsMore ==
  ASSUME NEW a \in Keyboards, NEW b \in Keyboards, NEW c \in Keyboards,
         Extends(a, b), Extends(b, c)
  PROVE  Extends(a, c)
<1>1. PICK s \in Seq(Views) : b.shown = a.shown \o s
  BY DEF Extends
<1>2. PICK t \in Seq(Views) : c.shown = b.shown \o t
  BY DEF Extends
<1> DEFINE u == a.shown
<1>3. u \in Seq(Views)
  BY DEF Keyboards
<1>. HIDE DEF u
<1>4. (u \o s) \o t = u \o (s \o t) /\ s \o t \in Seq(Views)
  BY <1>3, ConcatAssociative, ConcatProperties
<1>5. c.shown = u \o (s \o t)
  BY <1>1, <1>2, <1>4 DEF u
<1>. QED BY <1>4, <1>5 DEF Extends, u

(* Along a trace, every keyboard extends those before it.                  *)
LEMMA TraceExtends ==
  ASSUME NEW n \in Nat, NEW f, \A k \in 0 .. n : f[k] \in Keyboards,
         \A k \in 1 .. n : Extends(f[k - 1], f[k]),
         NEW i \in 0 .. n
  PROVE  Extends(f[i], f[n])
<1> DEFINE K == {m \in Nat : i <= m /\ m <= n => Extends(f[i], f[m])}
<1>1. i \in Nat /\ i <= n
  OBVIOUS
<1>2. 0 \in K
  <2>1. i <= 0 => i = 0
    BY <1>1
  <2>2. f[i] \in Keyboards
    OBVIOUS
  <2>3. Extends(f[i], f[i])
    BY <2>2, ExtendsSelf
  <2>. QED BY <2>1, <2>3
<1>3. ASSUME NEW m \in K PROVE m + 1 \in K
  <2>1. m \in Nat /\ m + 1 \in Nat
    OBVIOUS
  <2>2. ASSUME i <= m + 1, m + 1 <= n PROVE Extends(f[i], f[m + 1])
    <3>1. f[i] \in Keyboards /\ f[m + 1] \in Keyboards
      BY <2>1, <2>2
    <3>2. CASE i = m + 1
      BY <3>1, <3>2, ExtendsSelf
    <3>3. CASE i # m + 1
      <4>1. i <= m /\ m <= n /\ m \in 0 .. n /\ m + 1 \in 1 .. n /\ (m + 1) - 1 = m
        BY <1>1, <2>1, <2>2, <3>3
      <4>2. Extends(f[i], f[m]) /\ f[m] \in Keyboards
        BY <4>1
      <4>3. Extends(f[m], f[m + 1])
        BY <4>1
      <4>. QED BY <3>1, <4>2, <4>3, ExtendsMore
    <3>. QED BY <3>2, <3>3
  <2>. QED BY <2>1, <2>2
<1>4. K \in SUBSET Nat
  OBVIOUS
<1>. HIDE DEF K
<1>5. \A m \in Nat : m \in K
  BY <1>2, <1>3, <1>4, SetInduction
<1>6. n \in K
  BY <1>5
<1>. QED BY <1>1, <1>6 DEF K

LEMMA TapsExtends ==
  ASSUME NEW kb \in Keyboards, NEW mods \in Byte, NEW after \in Byte, NEW key \in Byte
  PROVE  Extends(kb, Taps(kb, mods, after, key))
<1> DEFINE pressed == Press(kb.held, key)
           down == Show(kb, mods, pressed)
           up == Taps(kb, mods, after, key)
           u == [mods |-> mods, held |-> pressed]
           v == [mods |-> after, held |-> pressed \ {key}]
<1>1. pressed \in SUBSET Byte
  BY PressType DEF Keyboards
<1>2. u \in Views /\ v \in Views
  BY <1>1 DEF Views
<1>3. down \in Keyboards /\ down.shown = Append(kb.shown, u)
  BY <1>1, ShowType
<1>4. up \in Keyboards /\ up.shown = Append(Append(kb.shown, u), v)
  BY TapsIs
<1>. HIDE DEF pressed, down, up, u, v
<1>5. Extends(kb, down) /\ Extends(down, up)
  BY <1>2, <1>3, <1>4, ExtendsAppend
<1>6. Extends(kb, up)
  BY <1>3, <1>4, <1>5, ExtendsMore
<1>. QED BY <1>6 DEF up

LEMMA TypesExtends ==
  ASSUME NEW kb \in Keyboards, NEW char \in Byte
  PROVE  Extends(kb, Types(kb, char))
<1> DEFINE c == keycode_of(char)
           typed == Taps(kb, c.modifiers, c.modifiers, c.keycode)
           shift == Show(typed, kb.mods, typed.held)
           v == [mods |-> kb.mods, held |-> typed.held]
<1>1. c.keycode \in Byte /\ c.modifiers \in Byte /\ kb.mods \in Byte
  BY KeycodeAssumption DEF Keyboards
<1>2. Types(kb, char) = IF c.keycode = 0 THEN kb
        ELSE IF c.modifiers = 0 THEN Taps(kb, kb.mods, kb.mods, c.keycode) ELSE shift
  BY DEF Types
<1>. HIDE DEF c
<1>3. Extends(kb, kb) /\ Extends(kb, Taps(kb, kb.mods, kb.mods, c.keycode))
  BY <1>1, ExtendsSelf, TapsExtends
<1>4. typed \in Keyboards /\ Extends(kb, typed)
  BY <1>1, TapsIs, TapsExtends
<1>. HIDE DEF typed
<1>5. typed.held \in SUBSET Byte /\ v \in Views
  BY <1>1, <1>4 DEF Keyboards, Views
<1>6. shift \in Keyboards /\ shift.shown = Append(typed.shown, v)
  BY <1>1, <1>4, <1>5, ShowType
<1>. HIDE DEF shift, v
<1>7. Extends(typed, shift)
  BY <1>4, <1>5, <1>6, ExtendsAppend
<1>8. Extends(kb, shift)
  BY <1>4, <1>6, <1>7, ExtendsMore
<1>. QED BY <1>2, <1>3, <1>8

LEMMA TextExtends ==
  ASSUME NEW kb, NEW text \in Seq(Byte), NEW f, TextTrace(f, kb, text),
         NEW i \in 0 .. Len(text)
  PROVE  Extends(f[i], f[Len(text)])
<1> DEFINE n == Len(text)
<1>1. n \in Nat /\ \A k \in 1 .. n : text[k] \in Byte /\ k - 1 \in 0 .. n
  OBVIOUS
<1>2. /\ \A k \in 0 .. n : f[k] \in Keyboards
      /\ \A k \in 1 .. n : f[k] = Types(f[k - 1], text[k])
  BY DEF TextTrace
<1>3. \A k \in 1 .. n : Extends(f[k - 1], f[k])
  BY <1>1, <1>2, TypesExtends
<1>. HIDE DEF n
<1>4. i \in 0 .. n
  BY DEF n
<1>5. Extends(f[i], f[n])
  BY <1>1, <1>2, <1>3, <1>4, TraceExtends
<1>. QED BY <1>5 DEF n

LEMMA PlaysPlainExtends ==
  ASSUME NEW kb \in Keyboards, NEW i \in PlainInstructions
  PROVE  Extends(kb, PlaysPlain(kb, i))
<1> DEFINE after == PlaysPlain(kb, i)
<1>1. after \in Keyboards /\ kb.mods \in Byte /\ kb.held \in SUBSET Byte
  BY PlaysPlainType DEF Keyboards
<1>2. CASE i.op = "KEY_DOWN"
  <2>1. Press(kb.held, i.key) \in SUBSET Byte
    BY <1>1, <1>2, PlainIs, PressType
  <2>2. [mods |-> kb.mods, held |-> Press(kb.held, i.key)] \in Views
    BY <1>1, <2>1 DEF Views
  <2>3. after.shown = Append(kb.shown, [mods |-> kb.mods, held |-> Press(kb.held, i.key)])
    BY <1>2, KeyDownIs
  <2>. QED BY <1>1, <2>2, <2>3, ExtendsAppend
<1>3. CASE i.op = "KEY_UP"
  <2>1. [mods |-> kb.mods, held |-> kb.held \ {i.key}] \in Views
    BY <1>1 DEF Views
  <2>2. after.shown = Append(kb.shown, [mods |-> kb.mods, held |-> kb.held \ {i.key}])
    BY <1>3, KeyUpIs
  <2>. QED BY <1>1, <2>1, <2>2, ExtendsAppend
<1>4. CASE i.op = "TAP"
  BY <1>1, <1>4, PlainIs, TapsExtends DEF PlaysPlain
<1>5. CASE i.op = "DELAY"
  BY <1>5, ExtendsSelf DEF PlaysPlain
<1>6. CASE i.op = "MOD"
  <2>1. [mods |-> i.mask, held |-> kb.held] \in Views
    BY <1>1, <1>6, PlainIs DEF Views
  <2>2. after.shown = Append(kb.shown, [mods |-> i.mask, held |-> kb.held])
    BY <1>6, ModIs
  <2>. QED BY <1>1, <2>1, <2>2, ExtendsAppend
<1>7. CASE i.op = "COMBO"
  BY <1>1, <1>7, PlainIs, TapsExtends DEF PlaysPlain
<1>8. CASE i.op = "STRING"
  <2>1. i.text \in Seq(Byte) /\ 0 \in 0 .. Len(i.text)
    BY <1>8, PlainIs
  <2>2. PICK f : TextTrace(f, kb, i.text)
    BY <2>1, TextFold
  <2>3. Extends(f[0], f[Len(i.text)])
    BY <2>1, <2>2, TextExtends
  <2>4. f[0] = kb /\ after = f[Len(i.text)]
    BY <1>8, <2>2 DEF TextTrace, PlaysPlain
  <2>. QED BY <2>3, <2>4
<1>. QED BY <1>2, <1>3, <1>4, <1>5, <1>6, <1>7, <1>8, PlainIs

LEMMA PlaysInnerExtends ==
  ASSUME NEW kb \in Keyboards, NEW i \in InnerInstructions
  PROVE  Extends(kb, PlaysInner(kb, i))
<1>1. CASE i \in PlainInstructions
  BY <1>1, PlaysPlainExtends, PlainIs DEF PlaysInner
<1>2. CASE i \notin PlainInstructions
  BY <1>2, InnerIs, ExtendsSelf DEF PlaysInner
<1>. QED BY <1>1, <1>2

LEMMA BlockExtends ==
  ASSUME NEW kb, NEW block \in Seq(InnerInstructions), NEW f, BlockTrace(f, kb, block),
         NEW i \in 0 .. Len(block)
  PROVE  Extends(f[i], f[Len(block)])
<1> DEFINE n == Len(block)
<1>1. n \in Nat /\ \A k \in 1 .. n : block[k] \in InnerInstructions /\ k - 1 \in 0 .. n
  OBVIOUS
<1>2. /\ \A k \in 0 .. n : f[k] \in Keyboards
      /\ \A k \in 1 .. n : f[k] = PlaysInner(f[k - 1], block[k])
  BY DEF BlockTrace
<1>3. \A k \in 1 .. n : Extends(f[k - 1], f[k])
  BY <1>1, <1>2, PlaysInnerExtends
<1>. HIDE DEF n
<1>4. i \in 0 .. n
  BY DEF n
<1>5. Extends(f[i], f[n])
  BY <1>1, <1>2, <1>3, <1>4, TraceExtends
<1>. QED BY <1>5 DEF n

LEMMA PlaysBlockExtends ==
  ASSUME NEW kb \in Keyboards, NEW block \in Seq(InnerInstructions)
  PROVE  Extends(kb, PlaysBlock(kb, block))
<1>1. PICK f : BlockTrace(f, kb, block)
  BY BlockFold
<1>2. 0 \in 0 .. Len(block)
  OBVIOUS
<1>3. Extends(f[0], f[Len(block)])
  BY <1>1, <1>2, BlockExtends
<1>. QED BY <1>1, <1>3 DEF BlockTrace, PlaysBlock

LEMMA RepeatExtends ==
  ASSUME NEW kb, NEW blocks \in Seq(Seq(InnerInstructions)), NEW f,
         RepeatTrace(f, kb, blocks), NEW i \in 0 .. Len(blocks)
  PROVE  Extends(f[i], f[Len(blocks)])
<1> DEFINE n == Len(blocks)
<1>1. n \in Nat /\ \A k \in 1 .. n : blocks[k] \in Seq(InnerInstructions) /\ k - 1 \in 0 .. n
  OBVIOUS
<1>2. /\ \A k \in 0 .. n : f[k] \in Keyboards
      /\ \A k \in 1 .. n : f[k] = PlaysBlock(f[k - 1], blocks[k])
  BY DEF RepeatTrace
<1>3. \A k \in 1 .. n : Extends(f[k - 1], f[k])
  BY <1>1, <1>2, PlaysBlockExtends
<1>. HIDE DEF n
<1>4. i \in 0 .. n
  BY DEF n
<1>5. Extends(f[i], f[n])
  BY <1>1, <1>2, <1>3, <1>4, TraceExtends
<1>. QED BY <1>5 DEF n

(* The iterations of a REPEAT.                                             *)
Blocks(i) == [n \in 1 .. i.times |-> i.block]

LEMMA BlocksIs ==
  ASSUME NEW i \in Instructions, i \notin PlainInstructions
  PROVE  /\ Blocks(i) \in Seq(Seq(InnerInstructions)) /\ Len(Blocks(i)) = i.times
         /\ i.times \in Nat /\ i.times > 0
         /\ \A n \in 1 .. i.times : Blocks(i)[n] = i.block
         /\ \A kb : Plays(kb, i) = FoldLeft(PlaysBlock, kb, Blocks(i))
<1>1. i.times \in Nat /\ i.times > 0 /\ i.block \in Seq(InnerInstructions) /\ ~ IsPlain(i)
  <2>1. /\ i.times \in Byte /\ i.times # 0 /\ i.block \in Seq(InnerInstructions)
        /\ ~ IsPlain(i)
    BY RepeatIs
  <2>2. i.times \in Nat
    BY <2>1, Bytes
  <2>. QED BY <2>1, <2>2
<1>2. Blocks(i) \in Seq(Seq(InnerInstructions)) /\ Len(Blocks(i)) = i.times
  BY <1>1 DEF Blocks
<1>. QED BY <1>1, <1>2 DEF Blocks, Plays

LEMMA PlaysExtends ==
  ASSUME NEW kb \in Keyboards, NEW i \in Instructions
  PROVE  Extends(kb, Plays(kb, i))
<1>1. CASE i \in PlainInstructions
  BY <1>1, PlaysPlainExtends, PlainIs DEF Plays
<1>2. CASE i \notin PlainInstructions
  <2> DEFINE blocks == Blocks(i)
  <2>1. blocks \in Seq(Seq(InnerInstructions)) /\ Plays(kb, i) = FoldLeft(PlaysBlock, kb, blocks)
    BY <1>2, BlocksIs
  <2>. HIDE DEF blocks
  <2>2. PICK f : RepeatTrace(f, kb, blocks)
    BY <2>1, RepeatFold
  <2>3. 0 \in 0 .. Len(blocks)
    BY <2>1
  <2>4. Extends(f[0], f[Len(blocks)])
    BY <2>1, <2>2, <2>3, RepeatExtends
  <2>. QED BY <2>1, <2>2, <2>4 DEF RepeatTrace
<1>. QED BY <1>1, <1>2

LEMMA ProgramExtends ==
  ASSUME NEW kb, NEW program \in Seq(Instructions), NEW f,
         ProgramTrace(f, kb, program), NEW i \in 0 .. Len(program)
  PROVE  Extends(f[i], f[Len(program)])
<1> DEFINE n == Len(program)
<1>1. n \in Nat /\ \A k \in 1 .. n : program[k] \in Instructions /\ k - 1 \in 0 .. n
  OBVIOUS
<1>2. /\ \A k \in 0 .. n : f[k] \in Keyboards
      /\ \A k \in 1 .. n : f[k] = Plays(f[k - 1], program[k])
  BY DEF ProgramTrace
<1>3. \A k \in 1 .. n : Extends(f[k - 1], f[k])
  BY <1>1, <1>2, PlaysExtends
<1>. HIDE DEF n
<1>4. i \in 0 .. n
  BY DEF n
<1>5. Extends(f[i], f[n])
  BY <1>1, <1>2, <1>3, <1>4, TraceExtends
<1>. QED BY <1>5 DEF n
-----------------------------------------------------------------------------
(* In the text of the STRING i, whose bytes begin at p and whose trace is  *)
(* f; somewhere in an instruction i that found the keyboard kb.            *)
InText(i, p, f) ==
  /\ typing \in 1 .. Len(i.text)
  /\ ptr = p + 2 + (Len(i.text) - typing)
  /\ Board = f[Len(i.text) - typing]

Within(i, p, kb) ==
  \/ typing = 0 /\ ptr = p /\ Board = kb
  \/ /\ i \in PlainInstructions /\ i.op = "STRING"
     /\ \E f : TextTrace(f, kb, i.text) /\ InText(i, p, f)

LEMMA StringIs ==
  ASSUME NEW i \in PlainInstructions, i.op = "STRING"
  PROVE  /\ i.text \in Seq(Byte) /\ Len(i.text) \in Nat
         /\ EncodePlain(i) \in Seq(Byte) /\ Len(EncodePlain(i)) = 2 + Len(i.text)
         /\ \A k \in 1 .. Len(i.text) : EncodePlain(i)[2 + k] = i.text[k]
<1>1. i.text \in Seq(Byte) /\ Len(i.text) \in Nat /\ Len(i.text) \in Byte
  BY PlainIs, Opcodes DEF Byte
<1>2. EncodePlain(i) = <<OP_STRING, Len(i.text)>> \o i.text
  BY DEF EncodePlain
<1>. QED BY <1>1, <1>2, TextBytes

LEMMA CharacterStep ==
  ASSUME TypeOK, execute_opcode, NEW i \in PlainInstructions, i.op = "STRING",
         NEW p, NEW kb \in Keyboards, HasAt(script, p, EncodePlain(i)),
         NEW f, TextTrace(f, kb, i.text), InText(i, p, f)
  PROVE  /\ script' = script /\ state' = "RUNNING" /\ typing' = typing - 1
         /\ \/ /\ typing = 1 /\ EndOpcode(p + 2 + Len(i.text))
               /\ Board' = f[Len(i.text)]
            \/ InText(i, p, f)' /\ UNCHANGED repeat_vars
<1> DEFINE text == i.text
           part == EncodePlain(i)
           n == Len(text)
           k == n - typing
           size == Len(script)
<1>1. /\ text \in Seq(Byte) /\ n \in Nat /\ Len(part) = 2 + n
      /\ \A j \in 1 .. n : part[2 + j] = text[j]
  BY StringIs
<1>2. /\ p \in Nat /\ p + Len(part) <= size
      /\ \A j \in 1 .. Len(part) : script[p + j] = part[j]
  BY DEF HasAt
<1>3. typing \in 1 .. n /\ ptr = p + 2 + k /\ Board = f[k] /\ k = n - typing
  BY DEF InText
<1>4. /\ \A j \in 1 .. n : f[j] = Types(f[j - 1], text[j])
  BY DEF TextTrace
<1>5. size \in Nat
  BY ScriptType DEF TypeOK
<1>6. p + (2 + n) <= size
  BY <1>1, <1>2
<1>. HIDE DEF n, text, part, k, size
<1>7. /\ k \in Nat /\ k + 1 \in 1 .. n /\ 2 + (k + 1) \in 1 .. 2 + n
      /\ p + (2 + (k + 1)) = ptr + 1 /\ (k + 1) - 1 = k /\ ptr < size
      /\ k + 1 = n - (typing - 1) /\ typing > 0
  <2>1. n \in Nat /\ p \in Nat
    BY <1>1, <1>2
  <2>2. k \in Nat /\ k + 1 <= n
    BY <1>3, <2>1
  <2>. QED BY <1>3, <1>5, <1>6, <2>1, <2>2
<1>8. ptr + 1 = p + 2 + (n - (typing - 1)) /\ (typing = 1 => ptr + 1 = p + 2 + n)
  <2>1. n \in Nat /\ p \in Nat
    BY <1>1, <1>2
  <2>. QED BY <1>3, <2>1
<1>9. script[ptr + 1] = text[k + 1]
  <2>1. script[p + (2 + (k + 1))] = part[2 + (k + 1)]
    BY <1>1, <1>2, <1>7
  <2>2. part[2 + (k + 1)] = text[k + 1]
    BY <1>1, <1>7
  <2>. QED BY <1>7, <2>1, <2>2
<1>10. TypeCharacter
  BY <1>7, CharacterIs DEF size
<1>11. Board' = Types(f[k], text[k + 1])
  BY <1>3, <1>9, <1>10, CharacterShows
<1>12. f[k + 1] = Types(f[(k + 1) - 1], text[k + 1])
  BY <1>4, <1>7
<1>13. Board' = f[n - (typing - 1)]
  BY <1>7, <1>11, <1>12
<1>14. /\ script' = script /\ state' = "RUNNING" /\ typing' = typing - 1
       /\ \/ typing = 1 /\ EndOpcode(ptr + 1)
          \/ typing > 1 /\ ptr' = ptr + 1 /\ UNCHANGED repeat_vars
  BY <1>10 DEF TypeCharacter
<1>15. CASE typing = 1
  <2>1. n - (typing - 1) = n
    BY <1>1, <1>15
  <2>. QED BY <1>8, <1>13, <1>14, <1>15, <2>1 DEF n, text
<1>16. CASE typing > 1
  <2>1. typing' \in 1 .. n
    BY <1>1, <1>3, <1>14, <1>16
  <2>2. ptr' = p + 2 + (n - typing') /\ Board' = f[n - typing']
    BY <1>8, <1>13, <1>14, <1>16
  <2>3. InText(i, p, f)'
    BY <2>1, <2>2 DEF InText, n, text
  <2>. QED BY <1>14, <1>16, <2>3
<1>. QED BY <1>3, <1>14, <1>15, <1>16

LEMMA PlainProgress ==
  ASSUME TypeOK, execute_opcode, NEW i \in PlainInstructions, NEW p, NEW kb \in Keyboards,
         HasAt(script, p, EncodePlain(i)), Within(i, p, kb)
  PROVE  /\ script' = script /\ state' \in {"RUNNING", "DELAYING"}
         /\ \/ Within(i, p, kb)' /\ UNCHANGED repeat_vars
            \/ /\ typing' = 0 /\ EndOpcode(p + Len(EncodePlain(i)))
               /\ Board' = PlaysPlain(kb, i)
<1>1. CASE typing = 0 /\ ptr = p /\ Board = kb /\ i.op # "STRING"
  BY <1>1, PlainStep
<1>2. CASE typing = 0 /\ ptr = p /\ Board = kb /\ i.op = "STRING"
  <2>1. /\ typing' = Len(i.text) /\ script' = script /\ state' = "RUNNING" /\ Board' = kb
        /\ \/ Len(i.text) = 0 /\ EndOpcode(p + 2)
           \/ Len(i.text) > 0 /\ ptr' = p + 2 /\ UNCHANGED repeat_vars
    BY <1>2, StringStarts
  <2>2. /\ i.text \in Seq(Byte) /\ Len(i.text) \in Nat
        /\ Len(EncodePlain(i)) = 2 + Len(i.text)
    BY <1>2, StringIs
  <2>3. PICK f : TextTrace(f, kb, i.text)
    BY <2>2, TextFold
  <2>4. f[0] = kb /\ PlaysPlain(kb, i) = f[Len(i.text)]
    BY <1>2, <2>3 DEF TextTrace, PlaysPlain
  <2>5. CASE Len(i.text) = 0
    <3>1. EndOpcode(p + Len(EncodePlain(i)))
      <4>1. Len(EncodePlain(i)) = 2
        BY <2>2, <2>5
      <4>. QED BY <2>1, <2>5, <4>1
    <3>. QED BY <2>1, <2>4, <2>5, <3>1
  <2>6. CASE Len(i.text) > 0
    <3> DEFINE n == Len(i.text)
    <3>1. /\ n \in Nat /\ n > 0 /\ typing' = n /\ Board' = f[0] /\ ptr' = p + 2 /\ p \in Nat
          /\ UNCHANGED repeat_vars
      BY <2>1, <2>2, <2>4, <2>6 DEF HasAt
    <3>. HIDE DEF n
    <3>2. typing' \in 1 .. n /\ n - typing' = 0 /\ ptr' = p + 2 + (n - typing')
      BY <3>1
    <3>3. Board' = f[n - typing']
      BY <3>1, <3>2
    <3>4. InText(i, p, f)'
      BY <3>2, <3>3 DEF InText, n
    <3>5. Within(i, p, kb)'
      BY <1>2, <2>3, <3>4 DEF Within
    <3>. QED BY <2>1, <3>1, <3>5
  <2>. QED BY <2>1, <2>2, <2>5, <2>6
<1>3. CASE i.op = "STRING" /\ \E f : TextTrace(f, kb, i.text) /\ InText(i, p, f)
  <2>1. PICK f : TextTrace(f, kb, i.text) /\ InText(i, p, f)
    BY <1>3
  <2>2. /\ script' = script /\ state' = "RUNNING" /\ typing' = typing - 1
        /\ \/ /\ typing = 1 /\ EndOpcode(p + 2 + Len(i.text))
              /\ Board' = f[Len(i.text)]
           \/ InText(i, p, f)' /\ UNCHANGED repeat_vars
    BY <1>3, <2>1, CharacterStep
  <2>3. CASE InText(i, p, f)' /\ UNCHANGED repeat_vars
    <3>1. Within(i, p, kb)'
      BY <1>3, <2>1, <2>3 DEF Within
    <3>. QED BY <2>2, <2>3, <3>1
  <2>4. CASE typing = 1 /\ EndOpcode(p + 2 + Len(i.text)) /\ Board' = f[Len(i.text)]
    <3>1. PlaysPlain(kb, i) = f[Len(i.text)]
      BY <1>3, <2>1 DEF TextTrace, PlaysPlain
    <3>2. Len(i.text) \in Nat /\ Len(EncodePlain(i)) = 2 + Len(i.text) /\ p \in Nat
      BY <1>3, StringIs DEF HasAt
    <3>3. p + 2 + Len(i.text) = p + Len(EncodePlain(i))
      <4> DEFINE n == Len(i.text)
                 size == Len(EncodePlain(i))
      <4>1. n \in Nat /\ size = 2 + n /\ p \in Nat
        BY <3>2
      <4>. HIDE DEF n, size
      <4>2. p + 2 + n = p + size
        BY <4>1
      <4>. QED BY <4>2 DEF n, size
    <3>4. EndOpcode(p + Len(EncodePlain(i))) /\ Board' = PlaysPlain(kb, i) /\ typing' = 0
      BY <2>2, <2>4, <3>1, <3>3
    <3>. QED BY <2>2, <3>4
  <2>. QED BY <2>2, <2>3, <2>4
<1>. QED BY <1>1, <1>2, <1>3 DEF Within
-----------------------------------------------------------------------------
(* An instruction of a block, a REPEAT being skipped.                      *)
LEMMA SkippedRepeat ==
  ASSUME TypeOK, execute_opcode, typing = 0, in_repeat, NEW times \in Byte,
         NEW block \in Seq(Byte), Len(block) < ByteBase,
         HasAt(script, ptr, EncodeRepeat(times, block))
  PROVE  /\ script' = script /\ state' = "RUNNING" /\ typing' = 0 /\ Board' = Board
         /\ EndOpcode(ptr + Len(EncodeRepeat(times, block)))
<1> DEFINE part == EncodeRepeat(times, block)
           l == Len(block)
<1>1. /\ part \in Seq(Byte) /\ Len(part) = 3 + l /\ part[1] = OP_REPEAT
      /\ part[2] = times /\ part[3] = l /\ l \in Nat
  BY RepeatBytes
<1>. HIDE DEF part, l
<1>2. HasAt(script, ptr, part)
  BY DEF part
<1>3. 2 \in 0 .. Len(part) - 1 /\ 2 + 1 = 3
  BY <1>1
<1>4. /\ ptr < Len(script) /\ script[ptr + 1] = part[1]
      /\ Operand(2) = part[3] /\ PtrAfter(2) = ptr + 1 + 2 /\ StateAfter(2) = "RUNNING"
  BY <1>1, <1>2, <1>3, OperandIs
<1>5. ptr \in Nat /\ Len(script) \in Nat
  BY ScriptType DEF TypeOK
<1>6. op_repeat
  BY <1>1, <1>4, <1>5, OpcodeIs
<1>7. PtrAfter(2) + Operand(2) = ptr + Len(part)
  BY <1>1, <1>4, <1>5
<1>8. /\ EndOpcode(ptr + Len(part)) /\ state' = "RUNNING"
      /\ UNCHANGED <<script, modifiers, keys, typing, outbox, usb_vars>>
  BY <1>4, <1>6, <1>7 DEF op_repeat
<1>9. Board' = Board
  BY <1>8 DEF Board, Output, Pending, usb_vars
<1>. QED BY <1>8, <1>9 DEF part

LEMMA InnerProgress ==
  ASSUME TypeOK, execute_opcode, in_repeat, NEW i \in InnerInstructions, NEW p,
         NEW kb \in Keyboards, HasAt(script, p, EncodeInner(i)), Within(i, p, kb)
  PROVE  /\ script' = script /\ state' \in {"RUNNING", "DELAYING"}
         /\ \/ Within(i, p, kb)' /\ UNCHANGED repeat_vars
            \/ /\ typing' = 0 /\ EndOpcode(p + Len(EncodeInner(i)))
               /\ Board' = PlaysInner(kb, i)
<1>1. CASE i \in PlainInstructions
  <2>1. EncodeInner(i) = EncodePlain(i) /\ PlaysInner(kb, i) = PlaysPlain(kb, i)
    BY <1>1, EncodeInnerType, PlainIs DEF PlaysInner
  <2>. QED BY <1>1, <2>1, PlainProgress
<1>2. CASE i \notin PlainInstructions
  <2>1. typing = 0 /\ ptr = p /\ Board = kb
    BY <1>2 DEF Within
  <2>2. /\ i.times \in Byte /\ EncodePlainBlock(i.block) \in Seq(Byte)
        /\ Len(EncodePlainBlock(i.block)) < ByteBase
        /\ EncodeInner(i) = EncodeRepeat(i.times, EncodePlainBlock(i.block))
        /\ PlaysInner(kb, i) = kb
    BY <1>2, InnerIs, EncodeInnerType DEF PlaysInner
  <2>. QED BY <2>1, <2>2, SkippedRepeat
<1>. QED BY <1>1, <1>2
-----------------------------------------------------------------------------
(* In a block whose bytes begin at start, begun with the keyboard kb.      *)
InBlock(block, start, kb) ==
  \E inside, at :
    /\ BlockTrace(inside, kb, block)
    /\ IsLayout(at, BlockParts(block), EncodeBlock(block))
    /\ \E j \in 1 .. Len(block) : Within(block[j], start + at[j - 1], inside[j - 1])

LEMMA BlockPart ==
  ASSUME NEW block \in Seq(InnerInstructions), NEW at,
         IsLayout(at, BlockParts(block), EncodeBlock(block)), NEW j \in 1 .. Len(block)
  PROVE  /\ at[0] = 0 /\ at[j - 1] \in Nat /\ at[j] \in Nat
         /\ at[j - 1] < Len(EncodeBlock(block))
         /\ at[j] = at[j - 1] + Len(EncodeInner(block[j]))
         /\ at[Len(block)] = Len(EncodeBlock(block))
<1>1. /\ Len(BlockParts(block)) = Len(block) /\ BlockParts(block)[j] = EncodeInner(block[j])
      /\ EncodeBlock(block) \in Seq(Byte)
  BY BlockLayout DEF BlockParts
<1>2. Len(EncodeInner(block[j])) \in Nat \ {0}
  BY EncodeInnerType
<1>3. j - 1 \in 0 .. Len(block) /\ j \in 0 .. Len(block)
  OBVIOUS
<1> DEFINE l == Len(EncodeInner(block[j]))
           size == Len(EncodeBlock(block))
           a == at[j - 1]
           b == at[j]
<1>4. /\ at[0] = 0 /\ at[Len(block)] = size /\ a \in Nat /\ b \in Nat /\ b <= size
      /\ b = a + l
  BY <1>1, <1>3 DEF IsLayout
<1>5. l \in Nat \ {0} /\ size \in Nat
  BY <1>1, <1>2
<1>. HIDE DEF l, size, a, b
<1>6. a < size
  BY <1>4, <1>5
<1>. QED BY <1>4, <1>6 DEF l, size, a, b

LEMMA BlockContains ==
  ASSUME TypeOK, NEW block \in Seq(InnerInstructions), NEW start, NEW at,
         IsLayout(at, BlockParts(block), EncodeBlock(block)),
         HasAt(script, start, EncodeBlock(block)), NEW j \in 1 .. Len(block)
  PROVE  HasAt(script, start + at[j - 1], EncodeInner(block[j]))
<1>1. /\ BlockParts(block) \in Seq(Seq(Byte)) /\ EncodeBlock(block) \in Seq(Byte)
      /\ j \in 1 .. Len(BlockParts(block)) /\ BlockParts(block)[j] = EncodeInner(block[j])
  BY BlockLayout DEF BlockParts
<1>2. script \in Seq(Byte)
  BY ScriptType DEF TypeOK
<1>3. HasAt(script, start + at[j - 1], BlockParts(block)[j])
  BY <1>1, <1>2, PartIsAt
<1>. QED BY <1>1, <1>3

LEMMA BlockProgress ==
  ASSUME TypeOK, execute_opcode, in_repeat, NEW block \in Seq(InnerInstructions),
         NEW kb \in Keyboards, HasAt(script, repeat_start, EncodeBlock(block)),
         repeat_length = Len(EncodeBlock(block)), NEW start, start = repeat_start,
         InBlock(block, start, kb)
  PROVE  /\ script' = script /\ state' \in {"RUNNING", "DELAYING"}
         /\ \/ InBlock(block, start, kb)' /\ UNCHANGED repeat_vars
            \/ /\ typing' = 0 /\ EndOpcode(start + Len(EncodeBlock(block)))
               /\ Board' = PlaysBlock(kb, block)
<1>1. PICK inside, at :
        /\ BlockTrace(inside, kb, block)
        /\ IsLayout(at, BlockParts(block), EncodeBlock(block))
        /\ \E j \in 1 .. Len(block) : Within(block[j], start + at[j - 1], inside[j - 1])
  BY DEF InBlock
<1>2. PICK j \in 1 .. Len(block) : Within(block[j], start + at[j - 1], inside[j - 1])
  BY <1>1
<1> DEFINE i == block[j]
           p == start + at[j - 1]
           found == inside[j - 1]
           l == Len(EncodeInner(i))
           size == Len(EncodeBlock(block))
<1>3. /\ i \in InnerInstructions /\ Len(block) \in Nat
      /\ j - 1 \in 0 .. Len(block) /\ j \in 0 .. Len(block) /\ j \in Nat
  OBVIOUS
<1>4. found \in Keyboards /\ inside[j] = PlaysInner(found, i)
      /\ PlaysBlock(kb, block) = inside[Len(block)]
  BY <1>1, <1>3 DEF BlockTrace, PlaysBlock
<1>5. HasAt(script, p, EncodeInner(i))
  BY <1>1, BlockContains
<1>6. /\ script' = script /\ state' \in {"RUNNING", "DELAYING"}
      /\ \/ Within(i, p, found)' /\ UNCHANGED repeat_vars
         \/ typing' = 0 /\ EndOpcode(p + l) /\ Board' = PlaysInner(found, i)
  <2>. HIDE DEF i, p, found
  <2>1. Within(i, p, found)
    BY <1>2 DEF i, p, found
  <2>. QED BY <1>3, <1>4, <1>5, <2>1, InnerProgress
<1>7. CASE Within(i, p, found)' /\ UNCHANGED repeat_vars
  <2>1. InBlock(block, start, kb)'
    BY <1>1, <1>7 DEF InBlock
  <2>. QED BY <1>6, <1>7, <2>1
<1>8. CASE typing' = 0 /\ EndOpcode(p + l) /\ Board' = PlaysInner(found, i)
  <2>1. p + l = start + at[j] /\ at[j] \in Nat /\ start \in Nat
    <3>1. at[j - 1] \in Nat /\ l \in Nat /\ at[j] = at[j - 1] + l /\ start \in Nat
      BY <1>1, <1>3, BlockPart, EncodeInnerType DEF HasAt
    <3> DEFINE a == at[j - 1]
    <3>. HIDE DEF l, a
    <3>2. (start + a) + l = start + (a + l) /\ a + l \in Nat
      BY <3>1 DEF a
    <3>. QED BY <3>1, <3>2 DEF a
  <2>2. CASE j = Len(block)
    <3>1. at[j] = size
      BY <1>1, <2>2, BlockPart
    <3>. QED BY <1>4, <1>6, <1>8, <2>1, <2>2, <3>1
  <2>3. CASE j # Len(block)
    <3>1. j + 1 \in 1 .. Len(block) /\ (j + 1) - 1 = j
      BY <1>3, <2>3
    <3>2. at[j] < size
      BY <1>1, <3>1, BlockPart
    <3>3. size \in Nat
      BY BlockLayout
    <3>4. start + at[j] < repeat_start + repeat_length
      <4> DEFINE b == at[j]
      <4>1. b \in Nat /\ b < size /\ repeat_length = size /\ size \in Nat
        BY <2>1, <3>2, <3>3
      <4>. HIDE DEF b, size
      <4>2. start + b < start + size
        BY <2>1, <4>1
      <4>. QED BY <4>1, <4>2 DEF b
    <3>5. ptr' = start + at[j] /\ UNCHANGED repeat_vars
      <4> DEFINE q == start + at[j]
      <4>1. EndOpcode(q) /\ q \in Nat /\ q < repeat_start + repeat_length
        BY <1>8, <2>1, <3>4
      <4>2. repeat_start + repeat_length \in Nat
        BY ScriptType, Bytes DEF TypeOK
      <4>. HIDE DEF q
      <4>3. ~ (q >= repeat_start + repeat_length)
        BY <4>1, <4>2
      <4>4. ptr' = q /\ UNCHANGED repeat_vars
        BY <4>1, <4>3 DEF EndOpcode, check_repeat, repeat_vars
      <4>. QED BY <4>4 DEF q
    <3>6. Within(block[j + 1], start + at[(j + 1) - 1], inside[(j + 1) - 1])'
      BY <1>4, <1>8, <3>1, <3>5 DEF Within
    <3>7. InBlock(block, start, kb)'
      BY <1>1, <3>1, <3>6 DEF InBlock
    <3>. QED BY <1>6, <3>5, <3>7
  <2>. QED BY <2>2, <2>3
<1>. QED BY <1>6, <1>7, <1>8
-----------------------------------------------------------------------------
(* In an iteration of the REPEAT i, whose bytes begin at p and which found *)
(* the keyboard kb.                                                        *)
InRepeat(i, p, kb) ==
  /\ in_repeat /\ repeat_start = p + 3 /\ repeat_length = Len(EncodeBlock(i.block))
  /\ \E rounds :
       /\ RepeatTrace(rounds, kb, Blocks(i))
       /\ \E t \in 1 .. i.times :
            /\ repeat_count = i.times - (t - 1)
            /\ InBlock(i.block, p + 3, rounds[t - 1])

LEMMA BlockBegins ==
  ASSUME NEW block \in Seq(InnerInstructions), block # << >>, NEW start \in Nat,
         NEW kb \in Keyboards, typing' = 0, ptr' = start, Board' = kb
  PROVE  InBlock(block, start, kb)'
<1>1. PICK inside : BlockTrace(inside, kb, block)
  BY BlockFold
<1>2. PICK at : IsLayout(at, BlockParts(block), EncodeBlock(block))
  BY BlockLayout
<1>3. 1 \in 1 .. Len(block) /\ 1 - 1 = 0
  OBVIOUS
<1>4. at[0] = 0 /\ inside[0] = kb
  BY <1>1, <1>2 DEF IsLayout, BlockTrace
<1>5. start + at[0] = start
  BY <1>4
<1>6. Within(block[1], start + at[1 - 1], inside[1 - 1])'
  BY <1>3, <1>4, <1>5 DEF Within
<1>. QED BY <1>1, <1>2, <1>3, <1>6 DEF InBlock

LEMMA BlockNotEmpty ==
  ASSUME NEW block \in Seq(InnerInstructions), block # << >>
  PROVE  Len(EncodeBlock(block)) \in Nat /\ Len(EncodeBlock(block)) > 0
<1>1. PICK at : IsLayout(at, BlockParts(block), EncodeBlock(block))
  BY BlockLayout
<1>2. 1 \in 1 .. Len(block)
  OBVIOUS
<1>3. at[1 - 1] \in Nat /\ at[1 - 1] < Len(EncodeBlock(block))
  BY <1>1, <1>2, BlockPart
<1>4. EncodeBlock(block) \in Seq(Byte) /\ Len(EncodeBlock(block)) \in Nat
  BY BlockLayout
<1> DEFINE a == at[1 - 1]
           size == Len(EncodeBlock(block))
<1>5. a \in Nat /\ a < size /\ size \in Nat
  BY <1>3, <1>4
<1>. HIDE DEF a, size
<1>6. size > 0
  BY <1>5
<1>. QED BY <1>5, <1>6 DEF size

LEMMA CountDown ==
  ASSUME NEW count \in 1 .. ByteBase - 1
  PROVE  (count + ByteBase - 1) % ByteBase = count - 1
<1>1. ByteBase \in Nat /\ ByteBase > 0
  BY EngineAssumption DEF OP_STRING
<1>2. count + ByteBase - 1 = (count - 1) + ByteBase /\ count - 1 \in 0 .. ByteBase - 1
  BY <1>1
<1> DEFINE m == count - 1
<1>3. m \in 0 .. ByteBase - 1 /\ count + ByteBase - 1 = m + ByteBase
  BY <1>2
<1>. HIDE DEF m
<1>4. (m + ByteBase) % ByteBase = m
  BY <1>1, <1>3
<1>. QED BY <1>3, <1>4 DEF m

LEMMA RepeatProgress ==
  ASSUME TypeOK, execute_opcode, NEW i \in Instructions, i \notin PlainInstructions,
         NEW p, NEW kb \in Keyboards, HasAt(script, p, EncodeOne(i)), InRepeat(i, p, kb)
  PROVE  /\ script' = script /\ state' \in {"RUNNING", "DELAYING"}
         /\ \/ InRepeat(i, p, kb)'
            \/ /\ typing' = 0 /\ ~ in_repeat' /\ ptr' = p + Len(EncodeOne(i))
               /\ Board' = Plays(kb, i)
<1> DEFINE block == i.block
           bytes == EncodeBlock(block)
           size == Len(bytes)
           start == p + 3
<1>1. /\ i.times \in Byte /\ block \in Seq(InnerInstructions) /\ block # << >>
      /\ size < ByteBase /\ bytes \in Seq(Byte)
      /\ EncodeOne(i) = EncodeRepeat(i.times, bytes)
  BY RepeatIs, BlockLayout, EncodeOneType
<1>2. PICK rounds :
        /\ RepeatTrace(rounds, kb, Blocks(i))
        /\ \E t \in 1 .. i.times :
             /\ repeat_count = i.times - (t - 1)
             /\ InBlock(block, start, rounds[t - 1])
  BY DEF InRepeat
<1>3. PICK t \in 1 .. i.times :
             /\ repeat_count = i.times - (t - 1)
             /\ InBlock(block, start, rounds[t - 1])
  BY <1>2
<1>4. in_repeat /\ repeat_start = start /\ repeat_length = size
  BY DEF InRepeat
<1>5. /\ i.times \in Nat /\ Len(Blocks(i)) = i.times /\ Blocks(i)[t] = block
      /\ Plays(kb, i) = FoldLeft(PlaysBlock, kb, Blocks(i))
  BY BlocksIs
<1>6. t - 1 \in 0 .. i.times /\ t \in 0 .. i.times /\ t \in Nat
  BY <1>5
<1>7. /\ rounds[t - 1] \in Keyboards /\ rounds[t] \in Keyboards
      /\ rounds[t] = PlaysBlock(rounds[t - 1], block)
      /\ Plays(kb, i) = rounds[i.times]
  BY <1>2, <1>5, <1>6 DEF RepeatTrace
<1>8. p \in Nat /\ start \in Nat /\ size \in Nat /\ HasAt(script, start, bytes)
  <2>1. p \in Nat
    BY DEF HasAt
  <2>2. script \in Seq(Byte)
    BY ScriptType DEF TypeOK
  <2>3. HasAt(script, p, EncodeRepeat(i.times, bytes))
    BY <1>1
  <2>. HIDE DEF bytes
  <2>4. HasAt(script, p + 3, bytes)
    BY <1>1, <2>2, <2>3, ContainsBlock
  <2>5. size \in Nat /\ p + 3 \in Nat
    BY <1>1, <2>1
  <2>. QED BY <2>1, <2>4, <2>5
<1> DEFINE found == rounds[t - 1]
<1>9. /\ script' = script /\ state' \in {"RUNNING", "DELAYING"}
      /\ \/ InBlock(block, start, found)' /\ UNCHANGED repeat_vars
         \/ typing' = 0 /\ EndOpcode(start + size) /\ Board' = PlaysBlock(found, block)
  <2>1. found \in Keyboards /\ InBlock(block, start, found)
    BY <1>3, <1>7
  <2>. HIDE DEF block, start, found
  <2>. QED BY <1>1, <1>4, <1>8, <2>1, BlockProgress
<1>10. CASE InBlock(block, start, found)' /\ UNCHANGED repeat_vars
  <2>1. InRepeat(i, p, kb)'
    BY <1>2, <1>3, <1>4, <1>10 DEF InRepeat, repeat_vars
  <2>. QED BY <1>9, <2>1
<1>11. CASE typing' = 0 /\ EndOpcode(start + size) /\ Board' = PlaysBlock(found, block)
  <2>1. Board' = rounds[t]
    BY <1>7, <1>11
  <2>2. /\ repeat_count' = repeat_count - 1
        /\ repeat_start' = start /\ repeat_length' = size
        /\ \/ repeat_count' > 0 /\ ptr' = start /\ in_repeat'
           \/ repeat_count' = 0 /\ ptr' = start + size /\ ~ in_repeat'
    <3>1. repeat_count \in 1 .. ByteBase - 1
      <4>1. i.times \in 0 .. ByteBase - 1 /\ ByteBase \in Nat
        BY <1>1, EngineAssumption DEF Byte
      <4>. QED BY <1>3, <1>5, <1>6, <4>1
    <3>2. (repeat_count + ByteBase - 1) % ByteBase = repeat_count - 1
      BY <3>1, CountDown
    <3> DEFINE q == start + size
               end == repeat_start + repeat_length
    <3>3. ~ (q < end)
      <4>1. q \in Nat /\ end = q
        BY <1>4, <1>8
      <4>. HIDE DEF q, end
      <4>. QED BY <4>1
    <3>4. EndOpcode(q)
      BY <1>11
    <3>. HIDE DEF q
    <3>5. /\ repeat_count' = (repeat_count + ByteBase - 1) % ByteBase
          /\ repeat_start' = repeat_start /\ repeat_length' = repeat_length
          /\ \/ repeat_count' > 0 /\ ptr' = repeat_start /\ in_repeat'
             \/ repeat_count' = 0 /\ ptr' = q /\ ~ in_repeat'
      BY <1>4, <3>3, <3>4 DEF EndOpcode, check_repeat
    <3>. HIDE DEF size, start
    <3>. QED BY <1>4, <3>2, <3>5 DEF q
  <2>3. CASE t = i.times
    <3>1. repeat_count' = 0
      BY <1>3, <1>5, <2>2, <2>3
    <3>2. ptr' = start + size /\ ~ in_repeat'
      BY <2>2, <3>1
    <3>3. Len(EncodeOne(i)) = 3 + size
      BY <1>1, RepeatBytes
    <3>4. start + size = p + Len(EncodeOne(i))
      <4> DEFINE l == Len(EncodeOne(i))
      <4>1. l = 3 + size
        BY <3>3
      <4>2. start = p + 3
        OBVIOUS
      <4>. HIDE DEF l, size, start
      <4>3. start + size = p + l
        BY <1>8, <4>1, <4>2
      <4>. QED BY <4>3 DEF l
    <3>. QED BY <1>7, <1>9, <1>11, <2>1, <2>3, <3>2, <3>4
  <2>4. CASE t # i.times
    <3>1. /\ t + 1 \in 1 .. i.times /\ (t + 1) - 1 = t /\ repeat_count' > 0
          /\ repeat_count' = i.times - t
      BY <1>3, <1>5, <1>6, <2>2, <2>4
    <3>2. ptr' = start /\ in_repeat'
      BY <2>2, <3>1
    <3>3. InBlock(block, start, rounds[t])'
      <4> DEFINE kb1 == rounds[t]
      <4>1. kb1 \in Keyboards /\ Board' = kb1
        BY <1>7, <2>1
      <4>. HIDE DEF block, start, kb1
      <4>2. InBlock(block, start, kb1)'
        BY <1>1, <1>8, <1>11, <3>2, <4>1, BlockBegins
      <4>. QED BY <4>2 DEF kb1
    <3>4. InRepeat(i, p, kb)'
      BY <1>2, <2>2, <3>1, <3>2, <3>3 DEF InRepeat
    <3>. QED BY <1>9, <3>4
  <2>. QED BY <2>3, <2>4
<1>. QED BY <1>9, <1>10, <1>11

(* The REPEAT itself, outside of any other.                                *)
LEMMA RepeatBegins ==
  ASSUME TypeOK, execute_opcode, NEW i \in Instructions, i \notin PlainInstructions,
         NEW p, NEW kb \in Keyboards, HasAt(script, p, EncodeOne(i)),
         ~ in_repeat, Within(i, p, kb)
  PROVE  script' = script /\ state' = "RUNNING" /\ InRepeat(i, p, kb)'
<1> DEFINE block == i.block
           bytes == EncodeBlock(block)
           size == Len(bytes)
           part == EncodeOne(i)
<1>1. /\ i.times \in Byte /\ block \in Seq(InnerInstructions) /\ block # << >>
      /\ size < ByteBase /\ bytes \in Seq(Byte)
      /\ part = EncodeRepeat(i.times, bytes)
  BY RepeatIs, BlockLayout, EncodeOneType
<1>2. typing = 0 /\ ptr = p /\ Board = kb
  BY DEF Within
<1>3. size \in Nat /\ size > 0 /\ p \in Nat
  BY <1>1, BlockNotEmpty DEF HasAt
<1>4. /\ part \in Seq(Byte) /\ Len(part) = 3 + size /\ part[1] = OP_REPEAT
      /\ part[2] = i.times /\ part[3] = size
  BY <1>1, RepeatBytes
<1>. HIDE DEF part, size
<1>5. /\ 1 \in 0 .. Len(part) - 1 /\ 2 \in 0 .. Len(part) - 1 /\ 1 + 1 = 2 /\ 2 + 1 = 3
  BY <1>3, <1>4
<1>6. HasAt(script, ptr, part)
  BY <1>2 DEF part
<1>7. /\ ptr < Len(script) /\ script[ptr + 1] = part[1]
      /\ Operand(1) = part[2] /\ Operand(2) = part[3]
      /\ PtrAfter(2) = ptr + 1 + 2 /\ StateAfter(2) = "RUNNING"
  BY <1>4, <1>5, <1>6, OperandIs
<1>8. ptr \in Nat /\ Len(script) \in Nat
  BY ScriptType DEF TypeOK
<1>9. op_repeat
  BY <1>2, <1>4, <1>7, <1>8, OpcodeIs
<1>10. PtrAfter(2) = p + 3 /\ Operand(1) = i.times /\ Operand(2) = size
  BY <1>2, <1>4, <1>7, <1>8
<1>11. /\ repeat_start' = p + 3 /\ repeat_length' = size
       /\ check_repeat(p + 3, TRUE, p + 3, i.times, size)
       /\ script' = script /\ state' = "RUNNING" /\ typing' = 0
       /\ UNCHANGED <<modifiers, keys, outbox, usb_vars>>
  BY <1>2, <1>7, <1>9, <1>10 DEF op_repeat
<1>12. p + 3 \in Nat /\ ~ (p + 3 >= p + 3 + size)
  BY <1>3
<1>13. ptr' = p + 3 /\ in_repeat' = TRUE /\ repeat_count' = i.times
  <2> DEFINE start == p + 3
  <2>1. check_repeat(start, TRUE, start, i.times, size) /\ ~ (start >= start + size)
    BY <1>11, <1>12
  <2>. HIDE DEF start
  <2>2. ptr' = start /\ in_repeat' = TRUE /\ repeat_count' = i.times
    BY <2>1 DEF check_repeat
  <2>. QED BY <2>2 DEF start
<1>14. Board' = kb
  BY <1>2, <1>11 DEF Board, Output, Pending, usb_vars
<1>15. /\ Blocks(i) \in Seq(Seq(InnerInstructions))
       /\ i.times \in Nat /\ i.times > 0
  BY BlocksIs
<1>16. PICK rounds : RepeatTrace(rounds, kb, Blocks(i))
  BY <1>15, RepeatFold
<1>17. rounds[0] = kb
  BY <1>16 DEF RepeatTrace
<1>18. InBlock(block, p + 3, kb)'
  <2> DEFINE start == p + 3
  <2>1. start \in Nat /\ ptr' = start
    BY <1>12, <1>13
  <2>. HIDE DEF block, start
  <2>2. InBlock(block, start, kb)'
    BY <1>1, <1>11, <1>14, <2>1, BlockBegins
  <2>. QED BY <2>2 DEF start
<1>19. 1 \in 1 .. i.times /\ 1 - 1 = 0 /\ i.times - 0 = i.times
  BY <1>15
<1>20. InRepeat(i, p, kb)'
  <2>1. repeat_count' = i.times - (1 - 1) /\ InBlock(block, p + 3, rounds[1 - 1])'
    BY <1>13, <1>17, <1>18, <1>19
  <2>. QED BY <1>11, <1>13, <1>16, <1>19, <2>1 DEF InRepeat, size
<1>. QED BY <1>11, <1>20
-----------------------------------------------------------------------------
(* A program: at is where its instructions end in the script, after the    *)
(* keyboards they leave.                                                   *)
Played(program, at, after) ==
  /\ ProgramTrace(after, Idle, program)
  /\ \E flat \in Seq(Byte) :
       /\ Encode(program) = Append(flat, OP_END)
       /\ IsLayout(at, ProgramParts(program), flat)

(* The engine is at an instruction, in a REPEAT, or at the END.            *)
Playing(program, at, after) ==
  \/ /\ ~ in_repeat
     /\ \E n \in 1 .. Len(program) : Within(program[n], at[n - 1], after[n - 1])
  \/ \E n \in 1 .. Len(program) :
       /\ program[n] \notin PlainInstructions
       /\ InRepeat(program[n], at[n - 1], after[n - 1])
  \/ /\ ~ in_repeat /\ typing = 0
     /\ ptr = at[Len(program)] /\ Board = after[Len(program)]

LEMMA IdleType == Idle \in Keyboards
  BY Bytes DEF Idle, Keyboards

LEMMA PlayedExists ==
  ASSUME NEW program \in Seq(Instructions)
  PROVE  \E at, after : Played(program, at, after)
<1>1. PICK after : ProgramTrace(after, Idle, program)
  BY IdleType, ProgramFold
<1>2. PICK flat \in Seq(Byte) :
        /\ Encode(program) = Append(flat, OP_END)
        /\ \E at : IsLayout(at, ProgramParts(program), flat)
  BY ProgramLayout
<1>. QED BY <1>1, <1>2 DEF Played

LEMMA ProgramPart ==
  ASSUME NEW program \in Seq(Instructions), NEW at, NEW after, Played(program, at, after)
  PROVE  /\ at[0] = 0 /\ at[Len(program)] \in Nat
         /\ Encode(program) \in Seq(Byte)
         /\ at[Len(program)] < Len(Encode(program))
         /\ Encode(program)[at[Len(program)] + 1] = OP_END
         /\ \A n \in 1 .. Len(program) :
              /\ at[n - 1] \in Nat /\ at[n] = at[n - 1] + Len(EncodeOne(program[n]))
              /\ HasAt(Encode(program), at[n - 1], EncodeOne(program[n]))
<1> DEFINE parts == ProgramParts(program)
           bytes == Encode(program)
           l == Len(program)
<1>1. PICK flat \in Seq(Byte) : bytes = Append(flat, OP_END) /\ IsLayout(at, parts, flat)
  BY DEF Played
<1>2. parts \in Seq(Seq(Byte)) /\ Len(parts) = l /\ l \in Nat
      /\ \A n \in 1 .. l : parts[n] = EncodeOne(program[n])
  BY ProgramLayout DEF ProgramParts
<1> DEFINE size == Len(flat)
<1>3. /\ size \in Nat /\ OP_END \in Byte
      /\ bytes \in Seq(Byte) /\ Len(bytes) = size + 1 /\ bytes[size + 1] = OP_END
      /\ \A k \in 1 .. size : bytes[0 + k] = flat[k]
  <2>1. OP_END \in Byte
    BY Opcodes
  <2>. QED BY <1>1, <2>1
<1>. HIDE DEF parts, bytes, l, size
<1>4. at[0] = 0 /\ at[l] = size
  BY <1>1, <1>2 DEF IsLayout, size
<1>5. HasAt(bytes, 0, flat)
  <2>1. 0 + size <= Len(bytes)
    BY <1>3
  <2>. QED BY <1>3, <2>1 DEF HasAt, size
<1>6. ASSUME NEW n \in 1 .. l
      PROVE  /\ at[n - 1] \in Nat /\ at[n] = at[n - 1] + Len(EncodeOne(program[n]))
             /\ HasAt(bytes, at[n - 1], EncodeOne(program[n]))
  <2>1. PICK p : p = 0
    OBVIOUS
  <2>2. /\ n \in 1 .. Len(parts) /\ HasAt(bytes, p, flat) /\ IsLayout(at, parts, flat)
        /\ bytes \in Seq(Byte) /\ parts \in Seq(Seq(Byte))
    BY <1>1, <1>2, <1>3, <1>5, <2>1
  <2>3. /\ HasAt(bytes, p + at[n - 1], parts[n]) /\ at[n - 1] \in Nat
        /\ at[n] = at[n - 1] + Len(parts[n])
    <3>1. HasAt(bytes, p + at[n - 1], parts[n])
      BY <2>2, PartIsAt
    <3>2. at[n - 1] \in Nat
      BY <2>2, PartIsAt
    <3>3. at[n] = at[n - 1] + Len(parts[n])
      BY <2>2 DEF IsLayout
    <3>. QED BY <3>1, <3>2, <3>3
  <2>4. p + at[n - 1] = at[n - 1]
    BY <2>1, <2>3
  <2>. QED BY <1>2, <2>3, <2>4
<1>7. at[l] \in Nat /\ at[l] < Len(bytes) /\ bytes[at[l] + 1] = OP_END
  BY <1>3, <1>4
<1>. QED BY <1>3, <1>4, <1>6, <1>7 DEF bytes, l

LEMMA ProgramKeyboards ==
  ASSUME NEW program \in Seq(Instructions), NEW at, NEW after, Played(program, at, after)
  PROVE  /\ \A n \in 1 .. Len(program) :
              /\ program[n] \in Instructions
              /\ after[n - 1] \in Keyboards /\ after[n] = Plays(after[n - 1], program[n])
         /\ after[Len(program)] \in Keyboards /\ after[0] = Idle
         /\ Meaning(program)
              = Append(after[Len(program)].shown, [mods |-> 0, held |-> {}])
<1> DEFINE l == Len(program)
           last == after[l]
<1>1. l \in Nat /\ \A n \in 1 .. l : program[n] \in Instructions /\ n - 1 \in 0 .. l
  OBVIOUS
<1>2. /\ \A n \in 0 .. l : after[n] \in Keyboards
      /\ \A n \in 1 .. l : after[n] = Plays(after[n - 1], program[n])
      /\ after[0] = Idle /\ FoldLeft(Plays, Idle, program) = last
  BY DEF Played, ProgramTrace
<1>3. last \in Keyboards
  BY <1>1, <1>2
<1>4. Meaning(program) = Show(last, 0, {}).shown
  BY <1>2 DEF Meaning
<1>. HIDE DEF last
<1>5. Show(last, 0, {}).shown = Append(last.shown, [mods |-> 0, held |-> {}])
  BY <1>3, Bytes, ShowType
<1>. QED BY <1>1, <1>2, <1>3, <1>4, <1>5 DEF last

(* After an instruction comes the next one, or the END.                    *)
LEMMA PlayingOn ==
  ASSUME NEW program \in Seq(Instructions), NEW at, NEW after, NEW n \in 1 .. Len(program),
         ~ in_repeat', typing' = 0, ptr' = at[n], Board' = after[n]
  PROVE  Playing(program, at, after)'
<1>1. CASE n = Len(program)
  BY <1>1 DEF Playing
<1>2. CASE n # Len(program)
  <2>1. n + 1 \in 1 .. Len(program) /\ (n + 1) - 1 = n
    BY <1>2
  <2>2. Within(program[n + 1], at[(n + 1) - 1], after[(n + 1) - 1])'
    BY <2>1 DEF Within
  <2>. QED BY <2>1, <2>2 DEF Playing
<1>. QED BY <1>1, <1>2

LEMMA EndStep ==
  ASSUME TypeOK, execute_opcode, typing = 0, ptr < Len(script), script[ptr + 1] = OP_END
  PROVE  /\ script' = script /\ state' = "FINISHED"
         /\ Board'.shown = Append(Board.shown, [mods |-> 0, held |-> {}])
<1>1. ptr \in Nat /\ Len(script) \in Nat
  BY ScriptType DEF TypeOK
<1>2. op_end
  BY <1>1, OpcodeIs
<1>3. /\ script' = script /\ state' = "FINISHED" /\ outbox' = <<Released>>
  BY <1>2 DEF op_end
<1>4. Released \in KeyReport /\ View(Released) = [mods |-> 0, held |-> HeldKeys(<< >>)]
  BY Bytes, EmptyKeyList, ReportView DEF Released
<1>5. HeldKeys(<< >>) = {}
  BY DEF HeldKeys
<1>6. Output \in Seq(KeyReport) /\ <<Released>> \in Seq(KeyReport)
  BY <1>4, OutputType
<1>7. Board'.shown = Shown(Output \o <<Released>>)
  BY <1>3, <1>6, BoardSent
<1>8. Shown(Output \o <<Released>>) = Append(Shown(Output), View(Released))
  BY <1>4, <1>6, ShownMore
<1>. QED BY <1>3, <1>4, <1>5, <1>7, <1>8 DEF Board

LEMMA PlayingStep ==
  ASSUME TypeOK, execute_opcode, NEW program \in Seq(Instructions), NEW at, NEW after,
         Played(program, at, after), script = Encode(program), Playing(program, at, after)
  PROVE  /\ script' = script
         /\ \/ state' \in {"RUNNING", "DELAYING"} /\ Playing(program, at, after)'
            \/ state' = "FINISHED" /\ Board'.shown = Meaning(program)
<1> DEFINE l == Len(program)
<1>1. /\ at[l] < Len(script) /\ script[at[l] + 1] = OP_END
      /\ \A n \in 1 .. l :
           /\ at[n - 1] \in Nat /\ at[n] = at[n - 1] + Len(EncodeOne(program[n]))
           /\ HasAt(script, at[n - 1], EncodeOne(program[n]))
           /\ program[n] \in Instructions
           /\ after[n - 1] \in Keyboards /\ after[n] = Plays(after[n - 1], program[n])
  BY ProgramPart, ProgramKeyboards
<1>2. ASSUME ~ in_repeat, NEW n \in 1 .. l, Within(program[n], at[n - 1], after[n - 1])
      PROVE  script' = script /\ state' \in {"RUNNING", "DELAYING"}
             /\ Playing(program, at, after)'
  <2> DEFINE i == program[n]
             p == at[n - 1]
             kb == after[n - 1]
  <2>1. /\ i \in Instructions /\ kb \in Keyboards /\ after[n] = Plays(kb, i)
        /\ at[n] = p + Len(EncodeOne(i)) /\ HasAt(script, p, EncodeOne(i)) /\ p \in Nat
    BY <1>1
  <2>2. Within(i, p, kb)
    BY <1>2
  <2>3. CASE i \notin PlainInstructions
    <3>1. script' = script /\ state' = "RUNNING" /\ InRepeat(i, p, kb)'
      <4>. HIDE DEF i, p, kb
      <4>. QED BY <1>2, <2>1, <2>2, <2>3, RepeatBegins
    <3>. QED BY <2>3, <3>1 DEF Playing
  <2>4. CASE i \in PlainInstructions
    <3>1. EncodeOne(i) = EncodePlain(i) /\ Plays(kb, i) = PlaysPlain(kb, i)
      BY <2>1, <2>4, EncodeOneType, PlainIs DEF Plays
    <3>2. /\ script' = script /\ state' \in {"RUNNING", "DELAYING"}
          /\ \/ Within(i, p, kb)' /\ UNCHANGED repeat_vars
             \/ /\ typing' = 0 /\ EndOpcode(p + Len(EncodePlain(i)))
                /\ Board' = PlaysPlain(kb, i)
      <4>. HIDE DEF i, p, kb
      <4>. QED BY <2>1, <2>2, <2>4, <3>1, PlainProgress
    <3>3. CASE Within(i, p, kb)' /\ UNCHANGED repeat_vars
      BY <1>2, <3>2, <3>3 DEF Playing, repeat_vars
    <3>4. CASE /\ typing' = 0 /\ EndOpcode(p + Len(EncodePlain(i)))
               /\ Board' = PlaysPlain(kb, i)
      <4>1. EndOpcode(at[n]) /\ Board' = after[n]
        BY <2>1, <3>1, <3>4
      <4>2. ptr' = at[n] /\ ~ in_repeat'
        BY <1>2, <4>1 DEF EndOpcode, check_repeat
      <4>3. Playing(program, at, after)'
        BY <3>4, <4>1, <4>2, PlayingOn
      <4>. QED BY <3>2, <4>3
    <3>. QED BY <3>2, <3>3, <3>4
  <2>. QED BY <2>3, <2>4
<1>3. ASSUME NEW n \in 1 .. l, program[n] \notin PlainInstructions,
             InRepeat(program[n], at[n - 1], after[n - 1])
      PROVE  script' = script /\ state' \in {"RUNNING", "DELAYING"}
             /\ Playing(program, at, after)'
  <2> DEFINE i == program[n]
             p == at[n - 1]
             kb == after[n - 1]
  <2>1. /\ i \in Instructions /\ kb \in Keyboards /\ after[n] = Plays(kb, i)
        /\ at[n] = p + Len(EncodeOne(i)) /\ HasAt(script, p, EncodeOne(i))
    BY <1>1
  <2>2. i \notin PlainInstructions /\ InRepeat(i, p, kb)
    BY <1>3
  <2>3. /\ script' = script /\ state' \in {"RUNNING", "DELAYING"}
        /\ \/ InRepeat(i, p, kb)'
           \/ /\ typing' = 0 /\ ~ in_repeat' /\ ptr' = p + Len(EncodeOne(i))
              /\ Board' = Plays(kb, i)
    <3>. HIDE DEF i, p, kb
    <3>. QED BY <2>1, <2>2, RepeatProgress
  <2>4. CASE InRepeat(i, p, kb)'
    BY <2>2, <2>3, <2>4 DEF Playing
  <2>5. CASE /\ typing' = 0 /\ ~ in_repeat' /\ ptr' = p + Len(EncodeOne(i))
             /\ Board' = Plays(kb, i)
    <3>1. ptr' = at[n] /\ Board' = after[n]
      BY <2>1, <2>5
    <3>2. Playing(program, at, after)'
      BY <2>5, <3>1, PlayingOn
    <3>. QED BY <2>3, <3>2
  <2>. QED BY <2>3, <2>4, <2>5
<1>4. CASE ~ in_repeat /\ typing = 0 /\ ptr = at[l] /\ Board = after[l]
  <2>1. /\ script' = script /\ state' = "FINISHED"
        /\ Board'.shown = Append(Board.shown, [mods |-> 0, held |-> {}])
    BY <1>1, <1>4, EndStep
  <2>2. Meaning(program) = Append(after[l].shown, [mods |-> 0, held |-> {}])
    BY ProgramKeyboards
  <2>. QED BY <1>4, <2>1, <2>2
<1>. QED BY <1>2, <1>3, <1>4 DEF Playing
-----------------------------------------------------------------------------
(* What has been sent is the beginning of what is meant.                   *)
LEMMA WithinExtends ==
  ASSUME NEW i \in PlainInstructions, NEW p, NEW kb \in Keyboards, Within(i, p, kb)
  PROVE  Extends(Board, PlaysPlain(kb, i))
<1>1. CASE Board = kb
  BY <1>1, PlaysPlainExtends
<1>2. CASE i.op = "STRING" /\ \E f : TextTrace(f, kb, i.text) /\ InText(i, p, f)
  <2>1. PICK f : TextTrace(f, kb, i.text) /\ InText(i, p, f)
    BY <1>2
  <2>2. i.text \in Seq(Byte) /\ Len(i.text) \in Nat
    BY <1>2, StringIs
  <2> DEFINE k == Len(i.text) - typing
  <2>3. k \in 0 .. Len(i.text) /\ Board = f[k]
    BY <2>1, <2>2 DEF InText
  <2>. HIDE DEF k
  <2>4. Extends(f[k], f[Len(i.text)])
    BY <2>1, <2>2, <2>3, TextExtends
  <2>5. PlaysPlain(kb, i) = f[Len(i.text)]
    BY <1>2, <2>1 DEF TextTrace, PlaysPlain
  <2>. QED BY <2>3, <2>4, <2>5
<1>. QED BY <1>1, <1>2 DEF Within

LEMMA InnerWithinExtends ==
  ASSUME NEW i \in InnerInstructions, NEW p, NEW kb \in Keyboards, Within(i, p, kb)
  PROVE  Extends(Board, PlaysInner(kb, i))
<1>1. CASE i \in PlainInstructions
  BY <1>1, WithinExtends, PlainIs DEF PlaysInner
<1>2. CASE i \notin PlainInstructions
  BY <1>2, PlaysInnerExtends DEF Within
<1>. QED BY <1>1, <1>2

LEMMA InBlockExtends ==
  ASSUME TypeOK, NEW block \in Seq(InnerInstructions), NEW start, NEW kb \in Keyboards,
         InBlock(block, start, kb)
  PROVE  Extends(Board, PlaysBlock(kb, block))
<1>1. PICK inside, at :
        /\ BlockTrace(inside, kb, block)
        /\ \E j \in 1 .. Len(block) : Within(block[j], start + at[j - 1], inside[j - 1])
  BY DEF InBlock
<1>2. PICK j \in 1 .. Len(block) : Within(block[j], start + at[j - 1], inside[j - 1])
  BY <1>1
<1> DEFINE l == Len(block)
<1>3. block[j] \in InnerInstructions /\ j - 1 \in 0 .. l /\ j \in 0 .. l /\ l \in 0 .. l
  OBVIOUS
<1>4. /\ inside[j - 1] \in Keyboards /\ inside[j] \in Keyboards /\ inside[l] \in Keyboards
      /\ inside[j] = PlaysInner(inside[j - 1], block[j])
      /\ PlaysBlock(kb, block) = inside[l]
  BY <1>1, <1>3 DEF BlockTrace, PlaysBlock
<1>5. Extends(Board, inside[j])
  BY <1>2, <1>3, <1>4, InnerWithinExtends
<1>6. Extends(inside[j], inside[l])
  BY <1>1, <1>3, BlockExtends
<1>. HIDE DEF l
<1>. QED BY <1>4, <1>5, <1>6, OutputType, ExtendsMore

LEMMA InRepeatExtends ==
  ASSUME TypeOK, NEW i \in Instructions, i \notin PlainInstructions, NEW p,
         NEW kb \in Keyboards, InRepeat(i, p, kb)
  PROVE  Extends(Board, Plays(kb, i))
<1>1. PICK rounds :
        /\ RepeatTrace(rounds, kb, Blocks(i))
        /\ \E t \in 1 .. i.times : InBlock(i.block, p + 3, rounds[t - 1])
  BY DEF InRepeat
<1>2. PICK t \in 1 .. i.times : InBlock(i.block, p + 3, rounds[t - 1])
  BY <1>1
<1>3. /\ i.times \in Nat /\ Len(Blocks(i)) = i.times /\ Blocks(i)[t] = i.block
      /\ Plays(kb, i) = FoldLeft(PlaysBlock, kb, Blocks(i))
      /\ Blocks(i) \in Seq(Seq(InnerInstructions)) /\ i.block \in Seq(InnerInstructions)
  BY BlocksIs, RepeatIs
<1>4. t - 1 \in 0 .. i.times /\ t \in 0 .. i.times /\ i.times \in 0 .. i.times
  BY <1>3
<1>5. /\ rounds[t - 1] \in Keyboards /\ rounds[t] \in Keyboards
      /\ rounds[i.times] \in Keyboards
      /\ rounds[t] = PlaysBlock(rounds[t - 1], i.block)
      /\ Plays(kb, i) = rounds[i.times]
  BY <1>1, <1>3, <1>4 DEF RepeatTrace
<1>6. Extends(Board, rounds[t])
  BY <1>2, <1>3, <1>5, InBlockExtends
<1>7. Extends(rounds[t], rounds[i.times])
  <2>1. t \in 0 .. Len(Blocks(i))
    BY <1>3, <1>4
  <2> DEFINE blocks == Blocks(i)
  <2>. HIDE DEF blocks
  <2>2. Extends(rounds[t], rounds[Len(blocks)])
    BY <1>1, <1>3, <2>1, RepeatExtends DEF blocks
  <2>. QED BY <1>3, <2>2 DEF blocks
<1>. QED BY <1>5, <1>6, <1>7, OutputType, ExtendsMore

LEMMA PlayingExtends ==
  ASSUME TypeOK, NEW program \in Seq(Instructions), NEW at, NEW after,
         Played(program, at, after), Playing(program, at, after)
  PROVE  Extends(Board, after[Len(program)])
<1> DEFINE l == Len(program)
<1>1. Board \in Keyboards /\ after[l] \in Keyboards
  BY OutputType, ProgramKeyboards
<1>2. ASSUME NEW n \in 1 .. l, Extends(Board, Plays(after[n - 1], program[n]))
      PROVE  Extends(Board, after[l])
  <2>1. n \in 0 .. l
    OBVIOUS
  <2>2. after[n] = Plays(after[n - 1], program[n]) /\ after[n] \in Keyboards
    BY <2>1, ProgramKeyboards DEF Played, ProgramTrace
  <2>3. Extends(after[n], after[l])
    BY <2>1, ProgramExtends DEF Played
  <2>. HIDE DEF l
  <2>. QED BY <1>1, <1>2, <2>2, <2>3, ExtendsMore
<1>3. ASSUME NEW n \in 1 .. l, Within(program[n], at[n - 1], after[n - 1])
      PROVE  Extends(Board, after[l])
  <2> DEFINE i == program[n]
             p == at[n - 1]
             kb == after[n - 1]
  <2>1. i \in Instructions /\ kb \in Keyboards /\ Within(i, p, kb)
    BY <1>3, ProgramKeyboards
  <2>2. Extends(Board, Plays(kb, i))
    <3>. HIDE DEF i, p, kb
    <3>1. CASE i \in PlainInstructions
      BY <2>1, <3>1, WithinExtends, PlainIs DEF Plays
    <3>2. CASE i \notin PlainInstructions
      BY <2>1, <3>2, PlaysExtends DEF Within
    <3>. QED BY <3>1, <3>2
  <2>. QED BY <1>2, <2>2
<1>4. ASSUME NEW n \in 1 .. l, program[n] \notin PlainInstructions,
             InRepeat(program[n], at[n - 1], after[n - 1])
      PROVE  Extends(Board, after[l])
  <2>1. program[n] \in Instructions /\ after[n - 1] \in Keyboards
    BY ProgramKeyboards
  <2>2. Extends(Board, Plays(after[n - 1], program[n]))
    BY <1>4, <2>1, InRepeatExtends
  <2>. QED BY <1>2, <2>2
<1>5. CASE Board = after[l]
  BY <1>1, <1>5, ExtendsSelf
<1>. QED BY <1>3, <1>4, <1>5 DEF Playing

LEMMA PrefixIs ==
  ASSUME NEW S, NEW s \in Seq(S), NEW u \in Seq(S)
  PROVE  IsPrefix(s, s \o u)
<1> DEFINE t == s \o u
           n == Len(s)
           a == SubSeq(s, 1, n)
           b == SubSeq(t, 1, n)
<1>1. n \in Nat /\ Len(u) \in Nat /\ \A k \in 1 .. n : s[k] \in S
  OBVIOUS
<1>2. /\ t \in Seq(S) /\ Len(t) = n + Len(u)
      /\ \A k \in 1 .. n : t[k] = s[k]
  <2>1. /\ s \o u \in Seq(S) /\ Len(s \o u) = Len(s) + Len(u)
        /\ \A k \in 1 .. Len(s) + Len(u) :
             (s \o u)[k] = IF k <= Len(s) THEN s[k] ELSE u[k - Len(s)]
    BY ConcatProperties
  <2>2. \A k \in 1 .. n : k \in 1 .. n + Len(u) /\ k <= n
    BY <1>1
  <2>. HIDE DEF t
  <2>. QED BY <2>1, <2>2 DEF t
<1>. HIDE DEF t, n
<1>3. n <= Len(t)
  BY <1>1, <1>2
<1>4. \A k \in 1 .. n : t[k] \in S /\ (n > 0 => k \in 1 .. n)
  BY <1>1, <1>2
<1>5. /\ a \in Seq(S) /\ Len(a) = (IF 1 <= n THEN n - 1 + 1 ELSE 0)
      /\ \A k \in 1 .. n - 1 + 1 : a[k] = s[1 + k - 1]
  BY <1>1, SubSeqProperties
<1>6. /\ b \in Seq(S) /\ Len(b) = (IF 1 <= n THEN n - 1 + 1 ELSE 0)
      /\ \A k \in 1 .. n - 1 + 1 : b[k] = t[1 + k - 1]
  BY <1>1, <1>4, SubSeqProperties
<1>. HIDE DEF a, b
<1>7. n - 1 + 1 = n /\ \A k \in 1 .. n : 1 + k - 1 = k
  BY <1>1
<1>8. Len(a) = n /\ Len(b) = n /\ \A k \in 1 .. n : a[k] = b[k]
  BY <1>1, <1>2, <1>5, <1>6, <1>7
<1>9. a = b
  BY <1>5, <1>6, <1>8, SeqEqual
<1>. QED BY <1>3, <1>9 DEF IsPrefix, a, b, t, n

LEMMA MeaningPrefix ==
  ASSUME TypeOK, NEW program \in Seq(Instructions), NEW at, NEW after,
         Played(program, at, after), Playing(program, at, after)
  PROVE  IsPrefix(Shown(Output), Meaning(program))
<1> DEFINE last == after[Len(program)]
           a == Shown(Output)
           v == [mods |-> 0, held |-> {}]
<1>1. /\ last \in Keyboards /\ Meaning(program) = Append(last.shown, v)
      /\ Extends(Board, last) /\ Board.shown = a /\ a \in Seq(Views)
  BY ProgramKeyboards, PlayingExtends, OutputType, ShownIs DEF Board
<1>2. v \in Views
  BY Bytes DEF Views
<1>. HIDE DEF last, a, v
<1>3. PICK u \in Seq(Views) : last.shown = a \o u
  BY <1>1 DEF Extends
<1>4. Append(u, v) \in Seq(Views)
  BY <1>2
<1>5. Append(a \o u, v) = a \o Append(u, v)
  <2>1. a \o u \in Seq(Views)
    BY <1>1, ConcatProperties
  <2>2. Append(a \o u, v) = (a \o u) \o <<v>> /\ Append(u, v) = u \o <<v>>
        /\ <<v>> \in Seq(Views)
    BY <1>2, <2>1, AppendIsConcat
  <2>3. (a \o u) \o <<v>> = a \o (u \o <<v>>)
    BY <1>1, <2>2, ConcatAssociative
  <2>. QED BY <2>2, <2>3
<1>6. Meaning(program) = a \o Append(u, v)
  BY <1>1, <1>3, <1>5
<1>7. IsPrefix(a, Meaning(program))
  BY <1>1, <1>4, <1>6, PrefixIs
<1>. QED BY <1>7 DEF a
-----------------------------------------------------------------------------
(* The inductive invariant: while a program plays, the engine is somewhere *)
(* in it, with the keyboard the instructions before that place leave.      *)
PlayingInv ==
  written # NoProgram =>
    /\ written \in Programs /\ script = Encode(written)
    /\ state # "ERROR"
    /\ state = "FINISHED" => Shown(Output) = Meaning(written)
    /\ state # "FINISHED" =>
         \E at, after : Played(written, at, after) /\ Playing(written, at, after)

LEMMA PlayingInit == ProgramInit => PlayingInv
<1>. SUFFICES ASSUME ProgramInit, written # NoProgram PROVE PlayingInv
  BY DEF PlayingInv
<1>1. /\ written \in Programs /\ script = Encode(written) /\ Init
      /\ written \in Seq(Instructions)
  BY ProgramsAssumption DEF ProgramInit
<1>2. /\ state = "IDLE" /\ ptr = 0 /\ ~ in_repeat /\ typing = 0
      /\ modifiers = 0 /\ keys = << >> /\ outbox = << >> /\ endpoint = NoReport /\ seen = << >>
  BY <1>1 DEF Init
<1>3. Board = Idle
  <2>1. Output = << >>
    BY <1>2 DEF Output, Pending
  <2>2. Shown(<< >>) = << >> /\ HeldKeys(<< >>) = {}
    BY DEF Shown, HeldKeys
  <2>. QED BY <1>2, <2>1, <2>2 DEF Board, Idle
<1>4. PICK program \in Seq(Instructions) : program = written
  BY <1>1
<1>5. PICK at, after : Played(program, at, after)
  BY PlayedExists
<1>6. at[0] = 0 /\ after[0] = Idle
  BY <1>5, ProgramPart, ProgramKeyboards
<1>7. Playing(program, at, after)
  <2>1. CASE Len(program) = 0
    BY <1>2, <1>3, <1>6, <2>1 DEF Playing
  <2>2. CASE Len(program) # 0
    <3>1. 1 \in 1 .. Len(program) /\ 1 - 1 = 0
      BY <2>2
    <3>2. Within(program[1], at[1 - 1], after[1 - 1])
      BY <1>2, <1>3, <1>6, <3>1 DEF Within
    <3>. QED BY <1>2, <3>1, <3>2 DEF Playing
  <2>. QED BY <2>1, <2>2
<1>. QED BY <1>1, <1>2, <1>4, <1>5, <1>7 DEF PlayingInv

LEMMA PlayingStays ==
  ASSUME NEW program, NEW at, NEW after, Playing(program, at, after),
         UNCHANGED <<ptr, typing, repeat_vars>>, Board' = Board
  PROVE  Playing(program, at, after)'
<1>1. \A i, p, kb : Within(i, p, kb) => Within(i, p, kb)'
  BY DEF Within, InText
<1>2. \A i, p, kb : InRepeat(i, p, kb) => InRepeat(i, p, kb)'
  <2>1. \A block, start, kb : InBlock(block, start, kb) => InBlock(block, start, kb)'
    BY <1>1 DEF InBlock
  <2>. QED BY <2>1 DEF InRepeat, repeat_vars
<1>. QED BY <1>1, <1>2 DEF Playing, repeat_vars

LEMMA StepPlaying == TypeOK /\ PlayingInv /\ [Next /\ UNCHANGED written]_<<vars, written>>
                        => PlayingInv'
<1>. SUFFICES ASSUME TypeOK, PlayingInv, [Next /\ UNCHANGED written]_<<vars, written>>,
                     written' # NoProgram
              PROVE  PlayingInv'
  BY DEF PlayingInv
<1>1. written' = written
  OBVIOUS
<1>2. /\ written \in Programs /\ script = Encode(written) /\ state # "ERROR"
      /\ written \in Seq(Instructions)
  BY <1>1, ProgramsAssumption DEF PlayingInv
<1>3. CASE execute_opcode
  <2>1. state = "RUNNING"
    BY <1>3 DEF execute_opcode, op_end, op_delay, op_key_down, op_key_up, op_mod, op_tap_opcode,
       op_repeat, op_combo, op_string, TypeCharacter, InvalidOpcode, RunPastEnd, Fetch, Executing
  <2>2. PICK program \in Seq(Instructions) : program = written
    BY <1>2
  <2>3. PICK at, after : Played(program, at, after) /\ Playing(program, at, after)
    BY <1>1, <2>1, <2>2 DEF PlayingInv
  <2>4. /\ script' = script
        /\ \/ state' \in {"RUNNING", "DELAYING"} /\ Playing(program, at, after)'
           \/ state' = "FINISHED" /\ Board'.shown = Meaning(program)
    BY <1>2, <1>3, <2>2, <2>3, PlayingStep
  <2>5. Board'.shown = Shown(Output')
    BY DEF Board
  <2>. QED BY <1>1, <1>2, <2>2, <2>3, <2>4, <2>5 DEF PlayingInv
<1>4. CASE ~ execute_opcode
  <2>1. /\ script' = script /\ UNCHANGED <<ptr, typing, repeat_vars>>
        /\ UNCHANGED <<modifiers, keys>>
        /\ state' = state \/ (state' = "RUNNING" /\ state # "FINISHED")
        /\ Output' = Output
    <3>1. CASE engine_start \/ DelayElapsed \/ keyboard_handle_setup \/ UNCHANGED vars
      BY <3>1 DEF engine_start, DelayElapsed, keyboard_handle_setup, vars, usb_vars, repeat_vars,
         Output, Pending
    <3>2. CASE SendReport \/ HostPoll
      BY <3>2, OutputStays DEF SendReport, HostPoll, repeat_vars
    <3>. QED BY <1>4, <3>1, <3>2 DEF Next, engine_tick
  <2>2. Board' = Board
    BY <2>1 DEF Board
  <2>3. CASE state = "FINISHED"
    BY <1>1, <1>2, <2>1, <2>3 DEF PlayingInv
  <2>4. CASE state # "FINISHED"
    <3>1. PICK program : program = written
      OBVIOUS
    <3>2. PICK at, after : Played(program, at, after) /\ Playing(program, at, after)
      BY <1>1, <2>4, <3>1 DEF PlayingInv
    <3>3. Playing(program, at, after)'
      BY <2>1, <2>2, <3>2, PlayingStays
    <3>. QED BY <1>1, <1>2, <2>1, <2>4, <3>1, <3>2, <3>3 DEF PlayingInv
  <2>. QED BY <2>3, <2>4
<1>. QED BY <1>3, <1>4

LEMMA PlayingPlays == TypeOK /\ PlayingInv => PlaysTheProgram
<1>. SUFFICES ASSUME TypeOK, PlayingInv, written # NoProgram PROVE PlaysTheProgram
  BY DEF PlaysTheProgram
<1>1. /\ written \in Seq(Instructions) /\ state # "ERROR"
      /\ state = "FINISHED" => Shown(Output) = Meaning(written)
  BY ProgramsAssumption DEF PlayingInv
<1>2. IsPrefix(Shown(Output), Meaning(written))
  <2>1. CASE state = "FINISHED"
    <3>1. Shown(Output) \in Seq(Views)
      BY OutputType, ShownIs
    <3>2. Shown(Output) \o << >> = Shown(Output) /\ << >> \in Seq(Views)
      BY <3>1, ConcatEmptySeq
    <3>3. IsPrefix(Shown(Output), Shown(Output) \o << >>)
      BY <3>1, <3>2, PrefixIs
    <3>. QED BY <1>1, <2>1, <3>2, <3>3
  <2>2. CASE state # "FINISHED"
    <3>1. PICK program \in Seq(Instructions) : program = written
      BY <1>1
    <3>2. PICK at, after : Played(program, at, after) /\ Playing(program, at, after)
      BY <2>2, <3>1 DEF PlayingInv
    <3>3. IsPrefix(Shown(Output), Meaning(program))
      BY <3>2, MeaningPrefix
    <3>. QED BY <3>1, <3>3
  <2>. QED BY <2>1, <2>2
<1>. QED BY <1>1, <1>2 DEF PlaysTheProgram

(* A well-formed program, whatever its instructions, plays exactly what it *)
(* means: at every moment the host has been shown the beginning of its     *)
(* reports, at the END all of them, and it never ends in an error.         *)
THEOREM AlwaysPlaysTheProgram == ProgramSpec => []PlaysTheProgram
<1>1. ProgramInit => TypeOK /\ PlayingInv
  BY InitType, PlayingInit DEF ProgramInit
<1>2. TypeOK /\ PlayingInv /\ [Next /\ UNCHANGED written]_<<vars, written>>
        => TypeOK' /\ PlayingInv'
  <2>1. [Next /\ UNCHANGED written]_<<vars, written>> => [Next]_vars
    OBVIOUS
  <2>. QED BY <2>1, StepType, StepPlaying
<1>3. TypeOK /\ PlayingInv => PlaysTheProgram
  BY PlayingPlays
<1>. QED BY <1>1, <1>2, <1>3, PTL DEF ProgramSpec
-----------------------------------------------------------------------------
(* The keycode table of the firmware, and what its entries type.           *)
Entry == 0 .. 255
Unshifted == 0 .. 127

(* Two sequences joined.                                                   *)
LEMMA Joined ==
  ASSUME NEW a \in Seq(Entry), NEW b \in Seq(Entry)
  PROVE  /\ a \o b \in Seq(Entry) /\ Len(a \o b) = Len(a) + Len(b)
         /\ \A i \in 1 .. Len(a) : (a \o b)[i] = a[i]
         /\ \A i \in 1 .. Len(b) : (a \o b)[Len(a) + i] = b[i]
<1> DEFINE c == a \o b
           n == Len(a)
           m == Len(b)
<1>1. /\ c \in Seq(Entry) /\ Len(c) = n + m /\ n \in Nat /\ m \in Nat
      /\ \A i \in 1 .. n + m : c[i] = IF i <= n THEN a[i] ELSE b[i - n]
  BY ConcatProperties
<1>. HIDE DEF c, n, m
<1>2. ASSUME NEW i \in 1 .. m PROVE c[n + i] = b[i]
  <2>1. n + i \in 1 .. n + m /\ ~ (n + i <= n) /\ (n + i) - n = i
    BY <1>1
  <2>. QED BY <1>1, <2>1
<1>3. \A i \in 1 .. n : c[i] = a[i]
  BY <1>1
<1>. QED BY <1>1, <1>2, <1>3 DEF c, n, m

LEMMA LettersAre ==
  /\ KeycodeTable!Letters \in Seq(Unshifted) /\ KeycodeTable!Letters \in Seq(Entry)
  /\ Len(KeycodeTable!Letters) = 26
  /\ \A i \in 1 .. 26 : KeycodeTable!Letters[i] = 3 + i
BY DEF KeycodeTable!Letters, Entry, Unshifted

LEMMA ShiftIs ==
  ASSUME NEW s \in Seq(Unshifted)
  PROVE  /\ KeycodeTable!Shift(s) \in Seq(Entry) /\ Len(KeycodeTable!Shift(s)) = Len(s)
         /\ \A i \in 1 .. Len(s) : KeycodeTable!Shift(s)[i] = 128 + s[i]
<1> DEFINE m == Len(s)
           f == [i \in 1 .. m |-> 128 + s[i]]
<1>1. KeycodeTable!Shift(s) = f
  BY DEF KeycodeTable!Shift, KeycodeTable!SHIFT_FLAG
<1>2. m \in Nat /\ \A i \in 1 .. m : s[i] \in Unshifted
  OBVIOUS
<1>3. \A x \in Unshifted : 128 + x \in Entry
  BY DEF Entry, Unshifted
<1>4. f \in [1 .. m -> Entry]
  BY <1>2, <1>3
<1>5. f \in Seq(Entry) /\ Len(f) = m
  <2>. HIDE DEF f, m
  <2>. QED BY <1>2, <1>4
<1>. QED BY <1>1, <1>5

LEMMA NoneIs ==
  ASSUME NEW m \in Nat
  PROVE  /\ KeycodeTable!None(m) \in Seq(Entry) /\ Len(KeycodeTable!None(m)) = m
         /\ \A i \in 1 .. m : KeycodeTable!None(m)[i] = 0
<1> DEFINE f == [i \in 1 .. m |-> 0]
<1>1. f \in [1 .. m -> Entry]
  BY DEF Entry
<1>2. f \in Seq(Entry) /\ Len(f) = m
  <2>. HIDE DEF f
  <2>. QED BY <1>1
<1>. QED BY <1>2 DEF KeycodeTable!None

(* The table, piece by piece, and what each piece has.                     *)
IsPiece(s, m) == s \in Seq(Entry) /\ Len(s) = m

LEMMA ShiftedPiece ==
  ASSUME NEW s \in Seq(Unshifted), NEW m \in Nat, Len(s) = m
  PROVE  /\ IsPiece(KeycodeTable!Shift(s), m)
         /\ \A i \in 1 .. m : KeycodeTable!Shift(s)[i] = 128 + s[i]
  BY ShiftIs DEF IsPiece

Piece1 == <<\h2A, \h2B, \h28>>
Piece2 == KeycodeTable!None(16)
Piece3 == <<\h29>>
Piece4 == KeycodeTable!None(4)
Piece5 == <<\h2C>>
Piece6 == KeycodeTable!Shift(<<\h1E, \h34, \h20, \h21, \h22, \h24>>)
Piece7 == <<\h34>>
Piece8 == KeycodeTable!Shift(<<\h26, \h27, \h25, \h2E>>)
Piece9 == <<\h36, \h2D, \h37, \h38, \h27>>
Piece10 == [i \in 1 .. 9 |-> \h1D + i]
Piece11 == <<128 + \h33, \h33, 128 + \h36, \h2E>>
Piece12 == KeycodeTable!Shift(<<\h37, \h38, \h1F>>)
Piece13 == KeycodeTable!Shift(KeycodeTable!Letters)
Piece14 == <<\h2F, \h31, \h30>>
Piece15 == KeycodeTable!Shift(<<\h23, \h2D>>)
Piece16 == <<\h35>>
Piece17 == KeycodeTable!Letters
Piece18 == KeycodeTable!Shift(<<\h2F, \h31, \h30, \h35>>)

LEMMA Join ==
  ASSUME NEW a, NEW b, NEW n \in Nat, NEW m \in Nat, IsPiece(a, n), IsPiece(b, m)
  PROVE  IsPiece(a \o b, n + m)
  BY Joined DEF IsPiece

(* What a table that is a joined sequence has at each place.               *)
Agrees(t, a, n) == \A i \in 1 .. n : t[i] = a[i]
HasPiece(t, n, s, m) == \A i \in 1 .. m : t[n + i] = s[i]

LEMMA Segment ==
  ASSUME NEW t, NEW a, NEW b, NEW c, NEW n \in Nat, NEW m \in Nat,
         IsPiece(a, n), IsPiece(b, m), c = a \o b, Agrees(t, c, n + m)
  PROVE  Agrees(t, a, n) /\ HasPiece(t, n, b, m)
<1>1. a \in Seq(Entry) /\ b \in Seq(Entry) /\ Len(a) = n /\ Len(b) = m
  BY DEF IsPiece
<1>2. /\ \A i \in 1 .. Len(a) : c[i] = a[i]
      /\ \A i \in 1 .. Len(b) : c[Len(a) + i] = b[i]
  BY <1>1, Joined
<1>3. /\ \A i \in 1 .. n : c[i] = a[i]
      /\ \A i \in 1 .. m : c[n + i] = b[i]
  BY <1>1, <1>2
<1>4. \A i \in 1 .. n + m : t[i] = c[i]
  BY DEF Agrees
<1>5. \A i \in 1 .. m : n + i \in 1 .. n + m
  OBVIOUS
<1>6. \A i \in 1 .. n : i \in 1 .. n + m
  OBVIOUS
<1>. QED BY <1>3, <1>4, <1>5, <1>6 DEF Agrees, HasPiece

LEMMA Pieces ==
  /\ IsPiece(Piece1, 3) /\ IsPiece(Piece2, 16) /\ IsPiece(Piece3, 1)
  /\ IsPiece(Piece4, 4) /\ IsPiece(Piece5, 1) /\ IsPiece(Piece6, 6)
  /\ IsPiece(Piece7, 1) /\ IsPiece(Piece8, 4) /\ IsPiece(Piece9, 5)
  /\ IsPiece(Piece10, 9) /\ IsPiece(Piece11, 4) /\ IsPiece(Piece12, 3)
  /\ IsPiece(Piece13, 26) /\ IsPiece(Piece14, 3) /\ IsPiece(Piece15, 2)
  /\ IsPiece(Piece16, 1) /\ IsPiece(Piece17, 26) /\ IsPiece(Piece18, 4)
  /\ Piece1[1] = 42 /\ Piece1[2] = 43 /\ Piece1[3] = 40
  /\ \A i \in 1 .. 16 : Piece2[i] = 0
  /\ Piece3[1] = 41
  /\ \A i \in 1 .. 4 : Piece4[i] = 0
  /\ Piece5[1] = 44
  /\ Piece6[1] = 158 /\ Piece6[2] = 180 /\ Piece6[3] = 160 /\ Piece6[4] = 161
  /\ Piece6[5] = 162 /\ Piece6[6] = 164
  /\ Piece7[1] = 52
  /\ Piece8[1] = 166 /\ Piece8[2] = 167 /\ Piece8[3] = 165 /\ Piece8[4] = 174
  /\ Piece9[1] = 54 /\ Piece9[2] = 45 /\ Piece9[3] = 55 /\ Piece9[4] = 56
  /\ Piece9[5] = 39
  /\ \A i \in 1 .. 9 : Piece10[i] = 29 + i
  /\ Piece11[1] = 179 /\ Piece11[2] = 51 /\ Piece11[3] = 182 /\ Piece11[4] = 46
  /\ Piece12[1] = 183 /\ Piece12[2] = 184 /\ Piece12[3] = 159
  /\ \A i \in 1 .. 26 : Piece13[i] = 131 + i
  /\ Piece14[1] = 47 /\ Piece14[2] = 49 /\ Piece14[3] = 48
  /\ Piece15[1] = 163 /\ Piece15[2] = 173
  /\ Piece16[1] = 53
  /\ \A i \in 1 .. 26 : Piece17[i] = 3 + i
  /\ Piece18[1] = 175 /\ Piece18[2] = 177 /\ Piece18[3] = 176 /\ Piece18[4] = 181
<1>1. /\ IsPiece(Piece1, 3) /\ Piece1[1] = 42 /\ Piece1[2] = 43 /\ Piece1[3] = 40
  BY DEF IsPiece, Piece1, Entry
<1>2. IsPiece(Piece2, 16) /\ \A i \in 1 .. 16 : Piece2[i] = 0
  BY NoneIs DEF IsPiece, Piece2
<1>3. /\ IsPiece(Piece3, 1) /\ Piece3[1] = 41
  BY DEF IsPiece, Piece3, Entry
<1>4. IsPiece(Piece4, 4) /\ \A i \in 1 .. 4 : Piece4[i] = 0
  BY NoneIs DEF IsPiece, Piece4
<1>5. /\ IsPiece(Piece5, 1) /\ Piece5[1] = 44
  BY DEF IsPiece, Piece5, Entry
<1>6. /\ IsPiece(Piece6, 6) /\ Piece6[1] = 158 /\ Piece6[2] = 180 /\ Piece6[3] = 160
      /\ Piece6[4] = 161 /\ Piece6[5] = 162 /\ Piece6[6] = 164
  <2> DEFINE s == <<\h1E, \h34, \h20, \h21, \h22, \h24>>
  <2>1. s \in Seq(Unshifted) /\ Len(s) = 6
    BY DEF Unshifted
  <2>2. s[1] = 30 /\ s[2] = 52 /\ s[3] = 32 /\ s[4] = 33 /\ s[5] = 34 /\ s[6] = 36
    OBVIOUS
  <2>. HIDE DEF s
  <2>3. /\ IsPiece(KeycodeTable!Shift(s), 6)
        /\ \A i \in 1 .. 6 : KeycodeTable!Shift(s)[i] = 128 + s[i]
    BY <2>1, ShiftedPiece
  <2>4. Piece6 = KeycodeTable!Shift(s)
    BY DEF Piece6, s
  <2>. QED BY <2>2, <2>3, <2>4
<1>7. /\ IsPiece(Piece7, 1) /\ Piece7[1] = 52
  BY DEF IsPiece, Piece7, Entry
<1>8. /\ IsPiece(Piece8, 4) /\ Piece8[1] = 166 /\ Piece8[2] = 167 /\ Piece8[3] = 165
      /\ Piece8[4] = 174
  <2> DEFINE s == <<\h26, \h27, \h25, \h2E>>
  <2>1. s \in Seq(Unshifted) /\ Len(s) = 4
    BY DEF Unshifted
  <2>2. s[1] = 38 /\ s[2] = 39 /\ s[3] = 37 /\ s[4] = 46
    OBVIOUS
  <2>. HIDE DEF s
  <2>3. /\ IsPiece(KeycodeTable!Shift(s), 4)
        /\ \A i \in 1 .. 4 : KeycodeTable!Shift(s)[i] = 128 + s[i]
    BY <2>1, ShiftedPiece
  <2>4. Piece8 = KeycodeTable!Shift(s)
    BY DEF Piece8, s
  <2>. QED BY <2>2, <2>3, <2>4
<1>9. /\ IsPiece(Piece9, 5) /\ Piece9[1] = 54 /\ Piece9[2] = 45 /\ Piece9[3] = 55
      /\ Piece9[4] = 56 /\ Piece9[5] = 39
  BY DEF IsPiece, Piece9, Entry
<1>10. IsPiece(Piece10, 9) /\ \A i \in 1 .. 9 : Piece10[i] = 29 + i
  BY DEF IsPiece, Piece10, Entry
<1>11. /\ IsPiece(Piece11, 4) /\ Piece11[1] = 179 /\ Piece11[2] = 51 /\ Piece11[3] = 182
      /\ Piece11[4] = 46
  BY DEF IsPiece, Piece11, Entry
<1>12. /\ IsPiece(Piece12, 3) /\ Piece12[1] = 183 /\ Piece12[2] = 184 /\ Piece12[3] = 159
  <2> DEFINE s == <<\h37, \h38, \h1F>>
  <2>1. s \in Seq(Unshifted) /\ Len(s) = 3
    BY DEF Unshifted
  <2>2. s[1] = 55 /\ s[2] = 56 /\ s[3] = 31
    OBVIOUS
  <2>. HIDE DEF s
  <2>3. /\ IsPiece(KeycodeTable!Shift(s), 3)
        /\ \A i \in 1 .. 3 : KeycodeTable!Shift(s)[i] = 128 + s[i]
    BY <2>1, ShiftedPiece
  <2>4. Piece12 = KeycodeTable!Shift(s)
    BY DEF Piece12, s
  <2>. QED BY <2>2, <2>3, <2>4
<1>13. IsPiece(Piece13, 26) /\ \A i \in 1 .. 26 : Piece13[i] = 131 + i
  <2>1. \A i \in 1 .. 26 : /\ Piece13[i] = 128 + KeycodeTable!Letters[i]
                           /\ KeycodeTable!Letters[i] = 3 + i
    BY LettersAre, ShiftedPiece DEF Piece13
  <2>2. \A i \in 1 .. 26 : 128 + (3 + i) = 131 + i
    OBVIOUS
  <2>3. IsPiece(Piece13, 26)
    BY LettersAre, ShiftedPiece DEF Piece13
  <2>. QED BY <2>1, <2>2, <2>3
<1>14. /\ IsPiece(Piece14, 3) /\ Piece14[1] = 47 /\ Piece14[2] = 49 /\ Piece14[3] = 48
  BY DEF IsPiece, Piece14, Entry
<1>15. /\ IsPiece(Piece15, 2) /\ Piece15[1] = 163 /\ Piece15[2] = 173
  <2> DEFINE s == <<\h23, \h2D>>
  <2>1. s \in Seq(Unshifted) /\ Len(s) = 2
    BY DEF Unshifted
  <2>2. s[1] = 35 /\ s[2] = 45
    OBVIOUS
  <2>. HIDE DEF s
  <2>3. /\ IsPiece(KeycodeTable!Shift(s), 2)
        /\ \A i \in 1 .. 2 : KeycodeTable!Shift(s)[i] = 128 + s[i]
    BY <2>1, ShiftedPiece
  <2>4. Piece15 = KeycodeTable!Shift(s)
    BY DEF Piece15, s
  <2>. QED BY <2>2, <2>3, <2>4
<1>16. /\ IsPiece(Piece16, 1) /\ Piece16[1] = 53
  BY DEF IsPiece, Piece16, Entry
<1>17. IsPiece(Piece17, 26) /\ \A i \in 1 .. 26 : Piece17[i] = 3 + i
  BY LettersAre DEF IsPiece, Piece17
<1>18. /\ IsPiece(Piece18, 4) /\ Piece18[1] = 175 /\ Piece18[2] = 177 /\ Piece18[3] = 176
      /\ Piece18[4] = 181
  <2> DEFINE s == <<\h2F, \h31, \h30, \h35>>
  <2>1. s \in Seq(Unshifted) /\ Len(s) = 4
    BY DEF Unshifted
  <2>2. s[1] = 47 /\ s[2] = 49 /\ s[3] = 48 /\ s[4] = 53
    OBVIOUS
  <2>. HIDE DEF s
  <2>3. /\ IsPiece(KeycodeTable!Shift(s), 4)
        /\ \A i \in 1 .. 4 : KeycodeTable!Shift(s)[i] = 128 + s[i]
    BY <2>1, ShiftedPiece
  <2>4. Piece18 = KeycodeTable!Shift(s)
    BY DEF Piece18, s
  <2>. QED BY <2>2, <2>3, <2>4
<1>. QED BY <1>1, <1>2, <1>3, <1>4, <1>5, <1>6, <1>7, <1>8, <1>9,
            <1>10, <1>11, <1>12, <1>13, <1>14, <1>15, <1>16, <1>17, <1>18

LEMMA TableIs ==
  /\ KeycodeTable!ascii_to_keycode \in Seq(Entry)
  /\ Len(KeycodeTable!ascii_to_keycode) = 119
  /\ HasPiece(KeycodeTable!ascii_to_keycode, 0, Piece1, 3)
  /\ HasPiece(KeycodeTable!ascii_to_keycode, 3, Piece2, 16)
  /\ HasPiece(KeycodeTable!ascii_to_keycode, 19, Piece3, 1)
  /\ HasPiece(KeycodeTable!ascii_to_keycode, 20, Piece4, 4)
  /\ HasPiece(KeycodeTable!ascii_to_keycode, 24, Piece5, 1)
  /\ HasPiece(KeycodeTable!ascii_to_keycode, 25, Piece6, 6)
  /\ HasPiece(KeycodeTable!ascii_to_keycode, 31, Piece7, 1)
  /\ HasPiece(KeycodeTable!ascii_to_keycode, 32, Piece8, 4)
  /\ HasPiece(KeycodeTable!ascii_to_keycode, 36, Piece9, 5)
  /\ HasPiece(KeycodeTable!ascii_to_keycode, 41, Piece10, 9)
  /\ HasPiece(KeycodeTable!ascii_to_keycode, 50, Piece11, 4)
  /\ HasPiece(KeycodeTable!ascii_to_keycode, 54, Piece12, 3)
  /\ HasPiece(KeycodeTable!ascii_to_keycode, 57, Piece13, 26)
  /\ HasPiece(KeycodeTable!ascii_to_keycode, 83, Piece14, 3)
  /\ HasPiece(KeycodeTable!ascii_to_keycode, 86, Piece15, 2)
  /\ HasPiece(KeycodeTable!ascii_to_keycode, 88, Piece16, 1)
  /\ HasPiece(KeycodeTable!ascii_to_keycode, 89, Piece17, 26)
  /\ HasPiece(KeycodeTable!ascii_to_keycode, 115, Piece18, 4)
<1> DEFINE t == KeycodeTable!ascii_to_keycode
           t1 == Piece1
           t2 == t1 \o Piece2
           t3 == t2 \o Piece3
           t4 == t3 \o Piece4
           t5 == t4 \o Piece5
           t6 == t5 \o Piece6
           t7 == t6 \o Piece7
           t8 == t7 \o Piece8
           t9 == t8 \o Piece9
           t10 == t9 \o Piece10
           t11 == t10 \o Piece11
           t12 == t11 \o Piece12
           t13 == t12 \o Piece13
           t14 == t13 \o Piece14
           t15 == t14 \o Piece15
           t16 == t15 \o Piece16
           t17 == t16 \o Piece17
           t18 == t17 \o Piece18
<1>1. t = t18
  BY DEF KeycodeTable!ascii_to_keycode, KeycodeTable!SHIFT_FLAG,
         Piece1, Piece2, Piece3, Piece4, Piece5, Piece6, Piece7, Piece8, Piece9,
         Piece10, Piece11, Piece12, Piece13, Piece14, Piece15, Piece16, Piece17, Piece18
<1>. HIDE DEF t
<1>2. IsPiece(t1, 3)
  BY Pieces
<1>. HIDE DEF t1
<1>3. IsPiece(t2, 19)
  <2>1. IsPiece(Piece2, 16)
    BY Pieces
  <2>2. IsPiece(t2, 3 + 16)
    BY <1>2, <2>1, Join
  <2>. QED BY <2>2
<1>. HIDE DEF t2
<1>4. IsPiece(t3, 20)
  <2>1. IsPiece(Piece3, 1)
    BY Pieces
  <2>2. IsPiece(t3, 19 + 1)
    BY <1>3, <2>1, Join
  <2>. QED BY <2>2
<1>. HIDE DEF t3
<1>5. IsPiece(t4, 24)
  <2>1. IsPiece(Piece4, 4)
    BY Pieces
  <2>2. IsPiece(t4, 20 + 4)
    BY <1>4, <2>1, Join
  <2>. QED BY <2>2
<1>. HIDE DEF t4
<1>6. IsPiece(t5, 25)
  <2>1. IsPiece(Piece5, 1)
    BY Pieces
  <2>2. IsPiece(t5, 24 + 1)
    BY <1>5, <2>1, Join
  <2>. QED BY <2>2
<1>. HIDE DEF t5
<1>7. IsPiece(t6, 31)
  <2>1. IsPiece(Piece6, 6)
    BY Pieces
  <2>2. IsPiece(t6, 25 + 6)
    BY <1>6, <2>1, Join
  <2>. QED BY <2>2
<1>. HIDE DEF t6
<1>8. IsPiece(t7, 32)
  <2>1. IsPiece(Piece7, 1)
    BY Pieces
  <2>2. IsPiece(t7, 31 + 1)
    BY <1>7, <2>1, Join
  <2>. QED BY <2>2
<1>. HIDE DEF t7
<1>9. IsPiece(t8, 36)
  <2>1. IsPiece(Piece8, 4)
    BY Pieces
  <2>2. IsPiece(t8, 32 + 4)
    BY <1>8, <2>1, Join
  <2>. QED BY <2>2
<1>. HIDE DEF t8
<1>10. IsPiece(t9, 41)
  <2>1. IsPiece(Piece9, 5)
    BY Pieces
  <2>2. IsPiece(t9, 36 + 5)
    BY <1>9, <2>1, Join
  <2>. QED BY <2>2
<1>. HIDE DEF t9
<1>11. IsPiece(t10, 50)
  <2>1. IsPiece(Piece10, 9)
    BY Pieces
  <2>2. IsPiece(t10, 41 + 9)
    BY <1>10, <2>1, Join
  <2>. QED BY <2>2
<1>. HIDE DEF t10
<1>12. IsPiece(t11, 54)
  <2>1. IsPiece(Piece11, 4)
    BY Pieces
  <2>2. IsPiece(t11, 50 + 4)
    BY <1>11, <2>1, Join
  <2>. QED BY <2>2
<1>. HIDE DEF t11
<1>13. IsPiece(t12, 57)
  <2>1. IsPiece(Piece12, 3)
    BY Pieces
  <2>2. IsPiece(t12, 54 + 3)
    BY <1>12, <2>1, Join
  <2>. QED BY <2>2
<1>. HIDE DEF t12
<1>14. IsPiece(t13, 83)
  <2>1. IsPiece(Piece13, 26)
    BY Pieces
  <2>2. IsPiece(t13, 57 + 26)
    BY <1>13, <2>1, Join
  <2>. QED BY <2>2
<1>. HIDE DEF t13
<1>15. IsPiece(t14, 86)
  <2>1. IsPiece(Piece14, 3)
    BY Pieces
  <2>2. IsPiece(t14, 83 + 3)
    BY <1>14, <2>1, Join
  <2>. QED BY <2>2
<1>. HIDE DEF t14
<1>16. IsPiece(t15, 88)
  <2>1. IsPiece(Piece15, 2)
    BY Pieces
  <2>2. IsPiece(t15, 86 + 2)
    BY <1>15, <2>1, Join
  <2>. QED BY <2>2
<1>. HIDE DEF t15
<1>17. IsPiece(t16, 89)
  <2>1. IsPiece(Piece16, 1)
    BY Pieces
  <2>2. IsPiece(t16, 88 + 1)
    BY <1>16, <2>1, Join
  <2>. QED BY <2>2
<1>. HIDE DEF t16
<1>18. IsPiece(t17, 115)
  <2>1. IsPiece(Piece17, 26)
    BY Pieces
  <2>2. IsPiece(t17, 89 + 26)
    BY <1>17, <2>1, Join
  <2>. QED BY <2>2
<1>. HIDE DEF t17
<1>19. IsPiece(t18, 119)
  <2>1. IsPiece(Piece18, 4)
    BY Pieces
  <2>2. IsPiece(t18, 115 + 4)
    BY <1>18, <2>1, Join
  <2>. QED BY <2>2
<1>. HIDE DEF t18
<1>20. Agrees(t, t18, 119)
  BY <1>1 DEF Agrees
<1>21. Agrees(t, t17, 115) /\ HasPiece(t, 115, Piece18, 4)
  <2>1. t18 = t17 \o Piece18 /\ IsPiece(Piece18, 4)
    BY Pieces DEF t18
  <2>2. Agrees(t, t18, 115 + 4) /\ IsPiece(t17, 115)
    BY <1>18, <1>20
  <2>. QED BY <2>1, <2>2, Segment
<1>22. Agrees(t, t16, 89) /\ HasPiece(t, 89, Piece17, 26)
  <2>1. t17 = t16 \o Piece17 /\ IsPiece(Piece17, 26)
    BY Pieces DEF t17
  <2>2. Agrees(t, t17, 89 + 26) /\ IsPiece(t16, 89)
    BY <1>17, <1>21
  <2>. QED BY <2>1, <2>2, Segment
<1>23. Agrees(t, t15, 88) /\ HasPiece(t, 88, Piece16, 1)
  <2>1. t16 = t15 \o Piece16 /\ IsPiece(Piece16, 1)
    BY Pieces DEF t16
  <2>2. Agrees(t, t16, 88 + 1) /\ IsPiece(t15, 88)
    BY <1>16, <1>22
  <2>. QED BY <2>1, <2>2, Segment
<1>24. Agrees(t, t14, 86) /\ HasPiece(t, 86, Piece15, 2)
  <2>1. t15 = t14 \o Piece15 /\ IsPiece(Piece15, 2)
    BY Pieces DEF t15
  <2>2. Agrees(t, t15, 86 + 2) /\ IsPiece(t14, 86)
    BY <1>15, <1>23
  <2>. QED BY <2>1, <2>2, Segment
<1>25. Agrees(t, t13, 83) /\ HasPiece(t, 83, Piece14, 3)
  <2>1. t14 = t13 \o Piece14 /\ IsPiece(Piece14, 3)
    BY Pieces DEF t14
  <2>2. Agrees(t, t14, 83 + 3) /\ IsPiece(t13, 83)
    BY <1>14, <1>24
  <2>. QED BY <2>1, <2>2, Segment
<1>26. Agrees(t, t12, 57) /\ HasPiece(t, 57, Piece13, 26)
  <2>1. t13 = t12 \o Piece13 /\ IsPiece(Piece13, 26)
    BY Pieces DEF t13
  <2>2. Agrees(t, t13, 57 + 26) /\ IsPiece(t12, 57)
    BY <1>13, <1>25
  <2>. QED BY <2>1, <2>2, Segment
<1>27. Agrees(t, t11, 54) /\ HasPiece(t, 54, Piece12, 3)
  <2>1. t12 = t11 \o Piece12 /\ IsPiece(Piece12, 3)
    BY Pieces DEF t12
  <2>2. Agrees(t, t12, 54 + 3) /\ IsPiece(t11, 54)
    BY <1>12, <1>26
  <2>. QED BY <2>1, <2>2, Segment
<1>28. Agrees(t, t10, 50) /\ HasPiece(t, 50, Piece11, 4)
  <2>1. t11 = t10 \o Piece11 /\ IsPiece(Piece11, 4)
    BY Pieces DEF t11
  <2>2. Agrees(t, t11, 50 + 4) /\ IsPiece(t10, 50)
    BY <1>11, <1>27
  <2>. QED BY <2>1, <2>2, Segment
<1>29. Agrees(t, t9, 41) /\ HasPiece(t, 41, Piece10, 9)
  <2>1. t10 = t9 \o Piece10 /\ IsPiece(Piece10, 9)
    BY Pieces DEF t10
  <2>2. Agrees(t, t10, 41 + 9) /\ IsPiece(t9, 41)
    BY <1>10, <1>28
  <2>. QED BY <2>1, <2>2, Segment
<1>30. Agrees(t, t8, 36) /\ HasPiece(t, 36, Piece9, 5)
  <2>1. t9 = t8 \o Piece9 /\ IsPiece(Piece9, 5)
    BY Pieces DEF t9
  <2>2. Agrees(t, t9, 36 + 5) /\ IsPiece(t8, 36)
    BY <1>9, <1>29
  <2>. QED BY <2>1, <2>2, Segment
<1>31. Agrees(t, t7, 32) /\ HasPiece(t, 32, Piece8, 4)
  <2>1. t8 = t7 \o Piece8 /\ IsPiece(Piece8, 4)
    BY Pieces DEF t8
  <2>2. Agrees(t, t8, 32 + 4) /\ IsPiece(t7, 32)
    BY <1>8, <1>30
  <2>. QED BY <2>1, <2>2, Segment
<1>32. Agrees(t, t6, 31) /\ HasPiece(t, 31, Piece7, 1)
  <2>1. t7 = t6 \o Piece7 /\ IsPiece(Piece7, 1)
    BY Pieces DEF t7
  <2>2. Agrees(t, t7, 31 + 1) /\ IsPiece(t6, 31)
    BY <1>7, <1>31
  <2>. QED BY <2>1, <2>2, Segment
<1>33. Agrees(t, t5, 25) /\ HasPiece(t, 25, Piece6, 6)
  <2>1. t6 = t5 \o Piece6 /\ IsPiece(Piece6, 6)
    BY Pieces DEF t6
  <2>2. Agrees(t, t6, 25 + 6) /\ IsPiece(t5, 25)
    BY <1>6, <1>32
  <2>. QED BY <2>1, <2>2, Segment
<1>34. Agrees(t, t4, 24) /\ HasPiece(t, 24, Piece5, 1)
  <2>1. t5 = t4 \o Piece5 /\ IsPiece(Piece5, 1)
    BY Pieces DEF t5
  <2>2. Agrees(t, t5, 24 + 1) /\ IsPiece(t4, 24)
    BY <1>5, <1>33
  <2>. QED BY <2>1, <2>2, Segment
<1>35. Agrees(t, t3, 20) /\ HasPiece(t, 20, Piece4, 4)
  <2>1. t4 = t3 \o Piece4 /\ IsPiece(Piece4, 4)
    BY Pieces DEF t4
  <2>2. Agrees(t, t4, 20 + 4) /\ IsPiece(t3, 20)
    BY <1>4, <1>34
  <2>. QED BY <2>1, <2>2, Segment
<1>36. Agrees(t, t2, 19) /\ HasPiece(t, 19, Piece3, 1)
  <2>1. t3 = t2 \o Piece3 /\ IsPiece(Piece3, 1)
    BY Pieces DEF t3
  <2>2. Agrees(t, t3, 19 + 1) /\ IsPiece(t2, 19)
    BY <1>3, <1>35
  <2>. QED BY <2>1, <2>2, Segment
<1>37. Agrees(t, t1, 3) /\ HasPiece(t, 3, Piece2, 16)
  <2>1. t2 = t1 \o Piece2 /\ IsPiece(Piece2, 16)
    BY Pieces DEF t2
  <2>2. Agrees(t, t2, 3 + 16) /\ IsPiece(t1, 3)
    BY <1>2, <1>36
  <2>. QED BY <2>1, <2>2, Segment
<1>38. HasPiece(t, 0, Piece1, 3)
  BY <1>37 DEF t1, Agrees, HasPiece
<1>39. t \in Seq(Entry) /\ Len(t) = 119
  BY <1>1, <1>19 DEF IsPiece
<1>. QED BY <1>1, <1>19, <1>21, <1>22, <1>23, <1>24, <1>25, <1>26, <1>27, <1>28, <1>29,
            <1>30, <1>31, <1>32, <1>33, <1>34, <1>35, <1>36, <1>37, <1>38, <1>39 DEF t

(* An entry of the table, on a US keyboard.                                *)
Reads(e, c) ==
  /\ e % 128 \in DOMAIN UsLayout
  /\ UsLayout[e % 128][IF e >= 128 THEN 2 ELSE 1] = c

LEMMA PlainReads ==
  ASSUME NEW e \in 4 .. 56, NEW c, UsLayout[e][1] = c
  PROVE  Reads(e, c) /\ Reads(128 + e, UsLayout[e][2])
<1>1. e % 128 = e /\ ~ (e >= 128) /\ (128 + e) % 128 = e /\ 128 + e >= 128
  OBVIOUS
<1>2. DOMAIN UsLayout = 4 .. 56
  BY DEF UsLayout
<1>. QED BY <1>1, <1>2 DEF Reads

LEMMA LettersRead ==
  \A i \in 1 .. 26 : Reads(3 + i, 96 + i) /\ Reads(131 + i, 64 + i)
<1>. SUFFICES ASSUME NEW i \in 1 .. 26 PROVE Reads(3 + i, 96 + i) /\ Reads(131 + i, 64 + i)
  OBVIOUS
<1>1. 3 + i \in 4 .. 56 /\ 3 + i <= 29 /\ 131 + i = 128 + (3 + i)
      /\ 97 + (3 + i) - 4 = 96 + i /\ 65 + (3 + i) - 4 = 64 + i
  OBVIOUS
<1>2. UsLayout[3 + i] = <<97 + (3 + i) - 4, 65 + (3 + i) - 4>>
  BY <1>1 DEF UsLayout
<1>3. UsLayout[3 + i][1] = 96 + i /\ UsLayout[3 + i][2] = 64 + i
  BY <1>1, <1>2
<1>. QED BY <1>1, <1>3, PlainReads

(* The other keys.                                                         *)

LEMMA NumberKeys ==
  /\ UsLayout[30] = <<49, 33>>
  /\ UsLayout[31] = <<50, 64>>
  /\ UsLayout[32] = <<51, 35>>
  /\ UsLayout[33] = <<52, 36>>
  /\ UsLayout[34] = <<53, 37>>
  /\ UsLayout[35] = <<54, 94>>
  /\ UsLayout[36] = <<55, 38>>
  /\ UsLayout[37] = <<56, 42>>
  /\ UsLayout[38] = <<57, 40>>
  /\ UsLayout[39] = <<48, 41>>
<1>1. UsLayout[30] = <<49, 33>>
  BY DEF UsLayout, Numbers
<1>2. UsLayout[31] = <<50, 64>>
  BY DEF UsLayout, Numbers
<1>3. UsLayout[32] = <<51, 35>>
  BY DEF UsLayout, Numbers
<1>4. UsLayout[33] = <<52, 36>>
  BY DEF UsLayout, Numbers
<1>5. UsLayout[34] = <<53, 37>>
  BY DEF UsLayout, Numbers
<1>6. UsLayout[35] = <<54, 94>>
  BY DEF UsLayout, Numbers
<1>7. UsLayout[36] = <<55, 38>>
  BY DEF UsLayout, Numbers
<1>8. UsLayout[37] = <<56, 42>>
  BY DEF UsLayout, Numbers
<1>9. UsLayout[38] = <<57, 40>>
  BY DEF UsLayout, Numbers
<1>10. UsLayout[39] = <<48, 41>>
  BY DEF UsLayout, Numbers
<1>. QED BY <1>1, <1>2, <1>3, <1>4, <1>5, <1>6, <1>7, <1>8, <1>9, <1>10

LEMMA NamedKeys ==
  /\ UsLayout[40] = <<10, 10>>
  /\ UsLayout[41] = <<27, 27>>
  /\ UsLayout[42] = <<8, 8>>
  /\ UsLayout[43] = <<9, 9>>
  /\ UsLayout[44] = <<32, 32>>
<1>1. UsLayout[40] = <<10, 10>>
  BY DEF UsLayout, SpecialKeys
<1>2. UsLayout[41] = <<27, 27>>
  BY DEF UsLayout, SpecialKeys
<1>3. UsLayout[42] = <<8, 8>>
  BY DEF UsLayout, SpecialKeys
<1>4. UsLayout[43] = <<9, 9>>
  BY DEF UsLayout, SpecialKeys
<1>5. UsLayout[44] = <<32, 32>>
  BY DEF UsLayout, SpecialKeys
<1>. QED BY <1>1, <1>2, <1>3, <1>4, <1>5

LEMMA PunctuationKeys ==
  /\ UsLayout[45] = <<45, 95>>
  /\ UsLayout[46] = <<61, 43>>
  /\ UsLayout[47] = <<91, 123>>
  /\ UsLayout[48] = <<93, 125>>
  /\ UsLayout[49] = <<92, 124>>
  /\ UsLayout[50] = <<35, 126>>
  /\ UsLayout[51] = <<59, 58>>
  /\ UsLayout[52] = <<39, 34>>
  /\ UsLayout[53] = <<96, 126>>
  /\ UsLayout[54] = <<44, 60>>
  /\ UsLayout[55] = <<46, 62>>
  /\ UsLayout[56] = <<47, 63>>
<1>1. UsLayout[45] = <<45, 95>>
  BY DEF UsLayout, Punctuation
<1>2. UsLayout[46] = <<61, 43>>
  BY DEF UsLayout, Punctuation
<1>3. UsLayout[47] = <<91, 123>>
  BY DEF UsLayout, Punctuation
<1>4. UsLayout[48] = <<93, 125>>
  BY DEF UsLayout, Punctuation
<1>5. UsLayout[49] = <<92, 124>>
  BY DEF UsLayout, Punctuation
<1>6. UsLayout[50] = <<35, 126>>
  BY DEF UsLayout, Punctuation
<1>7. UsLayout[51] = <<59, 58>>
  BY DEF UsLayout, Punctuation
<1>8. UsLayout[52] = <<39, 34>>
  BY DEF UsLayout, Punctuation
<1>9. UsLayout[53] = <<96, 126>>
  BY DEF UsLayout, Punctuation
<1>10. UsLayout[54] = <<44, 60>>
  BY DEF UsLayout, Punctuation
<1>11. UsLayout[55] = <<46, 62>>
  BY DEF UsLayout, Punctuation
<1>12. UsLayout[56] = <<47, 63>>
  BY DEF UsLayout, Punctuation
<1>. QED BY <1>1, <1>2, <1>3, <1>4, <1>5, <1>6, <1>7, <1>8, <1>9, <1>10, <1>11, <1>12

(* An entry is right when it reads as its character, or is 0 for those that *)
(* no key has.                                                             *)
Right(e, c) == e \in Entry /\ IF Supported(c) THEN Reads(e, c) ELSE e = 0

LEMMA PiecesRight ==
  /\ \A i \in 1 .. 3 : Right(Piece1[i], 7 + i)
  /\ \A i \in 1 .. 16 : Right(Piece2[i], 10 + i)
  /\ \A i \in 1 .. 1 : Right(Piece3[i], 26 + i)
  /\ \A i \in 1 .. 4 : Right(Piece4[i], 27 + i)
  /\ \A i \in 1 .. 1 : Right(Piece5[i], 31 + i)
  /\ \A i \in 1 .. 6 : Right(Piece6[i], 32 + i)
  /\ \A i \in 1 .. 1 : Right(Piece7[i], 38 + i)
  /\ \A i \in 1 .. 4 : Right(Piece8[i], 39 + i)
  /\ \A i \in 1 .. 5 : Right(Piece9[i], 43 + i)
  /\ \A i \in 1 .. 9 : Right(Piece10[i], 48 + i)
  /\ \A i \in 1 .. 4 : Right(Piece11[i], 57 + i)
  /\ \A i \in 1 .. 3 : Right(Piece12[i], 61 + i)
  /\ \A i \in 1 .. 26 : Right(Piece13[i], 64 + i)
  /\ \A i \in 1 .. 3 : Right(Piece14[i], 90 + i)
  /\ \A i \in 1 .. 2 : Right(Piece15[i], 93 + i)
  /\ \A i \in 1 .. 1 : Right(Piece16[i], 95 + i)
  /\ \A i \in 1 .. 26 : Right(Piece17[i], 96 + i)
  /\ \A i \in 1 .. 4 : Right(Piece18[i], 122 + i)
<1>1. \A i \in 1 .. 3 : Right(Piece1[i], 7 + i)
  <2>1. Right(Piece1[1], 8)
    <3>1. UsLayout[42][1] = 8 /\ Piece1[1] = 42
      BY NamedKeys, Pieces
    <3>2. Reads(42, 8)
      BY <3>1, PlainReads
    <3>. QED BY <3>1, <3>2 DEF Right, Supported, Entry
  <2>2. Right(Piece1[2], 9)
    <3>1. UsLayout[43][1] = 9 /\ Piece1[2] = 43
      BY NamedKeys, Pieces
    <3>2. Reads(43, 9)
      BY <3>1, PlainReads
    <3>. QED BY <3>1, <3>2 DEF Right, Supported, Entry
  <2>3. Right(Piece1[3], 10)
    <3>1. UsLayout[40][1] = 10 /\ Piece1[3] = 40
      BY NamedKeys, Pieces
    <3>2. Reads(40, 10)
      BY <3>1, PlainReads
    <3>. QED BY <3>1, <3>2 DEF Right, Supported, Entry
  <2>. QED BY <2>1, <2>2, <2>3
<1>2. \A i \in 1 .. 16 : Right(Piece2[i], 10 + i)
  <2>1. \A i \in 1 .. 16 : ~ Supported(10 + i)
    BY DEF Supported
  <2>. QED BY <2>1, Pieces DEF Right, Entry
<1>3. \A i \in 1 .. 1 : Right(Piece3[i], 26 + i)
  <2>1. Right(Piece3[1], 27)
    <3>1. UsLayout[41][1] = 27 /\ Piece3[1] = 41
      BY NamedKeys, Pieces
    <3>2. Reads(41, 27)
      BY <3>1, PlainReads
    <3>. QED BY <3>1, <3>2 DEF Right, Supported, Entry
  <2>. QED BY <2>1
<1>4. \A i \in 1 .. 4 : Right(Piece4[i], 27 + i)
  <2>1. \A i \in 1 .. 4 : ~ Supported(27 + i)
    BY DEF Supported
  <2>. QED BY <2>1, Pieces DEF Right, Entry
<1>5. \A i \in 1 .. 1 : Right(Piece5[i], 31 + i)
  <2>1. Right(Piece5[1], 32)
    <3>1. UsLayout[44][1] = 32 /\ Piece5[1] = 44
      BY NamedKeys, Pieces
    <3>2. Reads(44, 32)
      BY <3>1, PlainReads
    <3>. QED BY <3>1, <3>2 DEF Right, Supported, Entry
  <2>. QED BY <2>1
<1>6. \A i \in 1 .. 6 : Right(Piece6[i], 32 + i)
  <2>1. Right(Piece6[1], 33)
    <3>1. UsLayout[30][2] = 33 /\ Piece6[1] = 158
      BY NumberKeys, Pieces
    <3>2. Reads(128 + 30, 33)
      BY <3>1, PlainReads
    <3>. QED BY <3>1, <3>2 DEF Right, Supported, Entry
  <2>2. Right(Piece6[2], 34)
    <3>1. UsLayout[52][2] = 34 /\ Piece6[2] = 180
      BY PunctuationKeys, Pieces
    <3>2. Reads(128 + 52, 34)
      BY <3>1, PlainReads
    <3>. QED BY <3>1, <3>2 DEF Right, Supported, Entry
  <2>3. Right(Piece6[3], 35)
    <3>1. UsLayout[32][2] = 35 /\ Piece6[3] = 160
      BY NumberKeys, Pieces
    <3>2. Reads(128 + 32, 35)
      BY <3>1, PlainReads
    <3>. QED BY <3>1, <3>2 DEF Right, Supported, Entry
  <2>4. Right(Piece6[4], 36)
    <3>1. UsLayout[33][2] = 36 /\ Piece6[4] = 161
      BY NumberKeys, Pieces
    <3>2. Reads(128 + 33, 36)
      BY <3>1, PlainReads
    <3>. QED BY <3>1, <3>2 DEF Right, Supported, Entry
  <2>5. Right(Piece6[5], 37)
    <3>1. UsLayout[34][2] = 37 /\ Piece6[5] = 162
      BY NumberKeys, Pieces
    <3>2. Reads(128 + 34, 37)
      BY <3>1, PlainReads
    <3>. QED BY <3>1, <3>2 DEF Right, Supported, Entry
  <2>6. Right(Piece6[6], 38)
    <3>1. UsLayout[36][2] = 38 /\ Piece6[6] = 164
      BY NumberKeys, Pieces
    <3>2. Reads(128 + 36, 38)
      BY <3>1, PlainReads
    <3>. QED BY <3>1, <3>2 DEF Right, Supported, Entry
  <2>. QED BY <2>1, <2>2, <2>3, <2>4, <2>5, <2>6
<1>7. \A i \in 1 .. 1 : Right(Piece7[i], 38 + i)
  <2>1. Right(Piece7[1], 39)
    <3>1. UsLayout[52][1] = 39 /\ Piece7[1] = 52
      BY PunctuationKeys, Pieces
    <3>2. Reads(52, 39)
      BY <3>1, PlainReads
    <3>. QED BY <3>1, <3>2 DEF Right, Supported, Entry
  <2>. QED BY <2>1
<1>8. \A i \in 1 .. 4 : Right(Piece8[i], 39 + i)
  <2>1. Right(Piece8[1], 40)
    <3>1. UsLayout[38][2] = 40 /\ Piece8[1] = 166
      BY NumberKeys, Pieces
    <3>2. Reads(128 + 38, 40)
      BY <3>1, PlainReads
    <3>. QED BY <3>1, <3>2 DEF Right, Supported, Entry
  <2>2. Right(Piece8[2], 41)
    <3>1. UsLayout[39][2] = 41 /\ Piece8[2] = 167
      BY NumberKeys, Pieces
    <3>2. Reads(128 + 39, 41)
      BY <3>1, PlainReads
    <3>. QED BY <3>1, <3>2 DEF Right, Supported, Entry
  <2>3. Right(Piece8[3], 42)
    <3>1. UsLayout[37][2] = 42 /\ Piece8[3] = 165
      BY NumberKeys, Pieces
    <3>2. Reads(128 + 37, 42)
      BY <3>1, PlainReads
    <3>. QED BY <3>1, <3>2 DEF Right, Supported, Entry
  <2>4. Right(Piece8[4], 43)
    <3>1. UsLayout[46][2] = 43 /\ Piece8[4] = 174
      BY PunctuationKeys, Pieces
    <3>2. Reads(128 + 46, 43)
      BY <3>1, PlainReads
    <3>. QED BY <3>1, <3>2 DEF Right, Supported, Entry
  <2>. QED BY <2>1, <2>2, <2>3, <2>4
<1>9. \A i \in 1 .. 5 : Right(Piece9[i], 43 + i)
  <2>1. Right(Piece9[1], 44)
    <3>1. UsLayout[54][1] = 44 /\ Piece9[1] = 54
      BY PunctuationKeys, Pieces
    <3>2. Reads(54, 44)
      BY <3>1, PlainReads
    <3>. QED BY <3>1, <3>2 DEF Right, Supported, Entry
  <2>2. Right(Piece9[2], 45)
    <3>1. UsLayout[45][1] = 45 /\ Piece9[2] = 45
      BY PunctuationKeys, Pieces
    <3>2. Reads(45, 45)
      BY <3>1, PlainReads
    <3>. QED BY <3>1, <3>2 DEF Right, Supported, Entry
  <2>3. Right(Piece9[3], 46)
    <3>1. UsLayout[55][1] = 46 /\ Piece9[3] = 55
      BY PunctuationKeys, Pieces
    <3>2. Reads(55, 46)
      BY <3>1, PlainReads
    <3>. QED BY <3>1, <3>2 DEF Right, Supported, Entry
  <2>4. Right(Piece9[4], 47)
    <3>1. UsLayout[56][1] = 47 /\ Piece9[4] = 56
      BY PunctuationKeys, Pieces
    <3>2. Reads(56, 47)
      BY <3>1, PlainReads
    <3>. QED BY <3>1, <3>2 DEF Right, Supported, Entry
  <2>5. Right(Piece9[5], 48)
    <3>1. UsLayout[39][1] = 48 /\ Piece9[5] = 39
      BY NumberKeys, Pieces
    <3>2. Reads(39, 48)
      BY <3>1, PlainReads
    <3>. QED BY <3>1, <3>2 DEF Right, Supported, Entry
  <2>. QED BY <2>1, <2>2, <2>3, <2>4, <2>5
<1>10. \A i \in 1 .. 9 : Right(Piece10[i], 48 + i)
  <2>1. \A i \in 1 .. 9 : Supported(48 + i) /\ 29 + i \in Entry
    BY DEF Supported, Entry
  <2>2. \A i \in 1 .. 9 : Piece10[i] = 29 + i
    BY Pieces
  <2>3. \A i \in 1 .. 9 : UsLayout[29 + i][1] = 48 + i /\ 29 + i \in 4 .. 56
    BY NumberKeys
  <2>4. \A i \in 1 .. 9 : Reads(29 + i, 48 + i)
    BY <2>3, PlainReads
  <2>. QED BY <2>1, <2>2, <2>4 DEF Right
<1>11. \A i \in 1 .. 4 : Right(Piece11[i], 57 + i)
  <2>1. Right(Piece11[1], 58)
    <3>1. UsLayout[51][2] = 58 /\ Piece11[1] = 179
      BY PunctuationKeys, Pieces
    <3>2. Reads(128 + 51, 58)
      BY <3>1, PlainReads
    <3>. QED BY <3>1, <3>2 DEF Right, Supported, Entry
  <2>2. Right(Piece11[2], 59)
    <3>1. UsLayout[51][1] = 59 /\ Piece11[2] = 51
      BY PunctuationKeys, Pieces
    <3>2. Reads(51, 59)
      BY <3>1, PlainReads
    <3>. QED BY <3>1, <3>2 DEF Right, Supported, Entry
  <2>3. Right(Piece11[3], 60)
    <3>1. UsLayout[54][2] = 60 /\ Piece11[3] = 182
      BY PunctuationKeys, Pieces
    <3>2. Reads(128 + 54, 60)
      BY <3>1, PlainReads
    <3>. QED BY <3>1, <3>2 DEF Right, Supported, Entry
  <2>4. Right(Piece11[4], 61)
    <3>1. UsLayout[46][1] = 61 /\ Piece11[4] = 46
      BY PunctuationKeys, Pieces
    <3>2. Reads(46, 61)
      BY <3>1, PlainReads
    <3>. QED BY <3>1, <3>2 DEF Right, Supported, Entry
  <2>. QED BY <2>1, <2>2, <2>3, <2>4
<1>12. \A i \in 1 .. 3 : Right(Piece12[i], 61 + i)
  <2>1. Right(Piece12[1], 62)
    <3>1. UsLayout[55][2] = 62 /\ Piece12[1] = 183
      BY PunctuationKeys, Pieces
    <3>2. Reads(128 + 55, 62)
      BY <3>1, PlainReads
    <3>. QED BY <3>1, <3>2 DEF Right, Supported, Entry
  <2>2. Right(Piece12[2], 63)
    <3>1. UsLayout[56][2] = 63 /\ Piece12[2] = 184
      BY PunctuationKeys, Pieces
    <3>2. Reads(128 + 56, 63)
      BY <3>1, PlainReads
    <3>. QED BY <3>1, <3>2 DEF Right, Supported, Entry
  <2>3. Right(Piece12[3], 64)
    <3>1. UsLayout[31][2] = 64 /\ Piece12[3] = 159
      BY NumberKeys, Pieces
    <3>2. Reads(128 + 31, 64)
      BY <3>1, PlainReads
    <3>. QED BY <3>1, <3>2 DEF Right, Supported, Entry
  <2>. QED BY <2>1, <2>2, <2>3
<1>13. \A i \in 1 .. 26 : Right(Piece13[i], 64 + i)
  <2>1. \A i \in 1 .. 26 : Supported(64 + i) /\ 131 + i \in Entry
    BY DEF Supported, Entry
  <2>2. \A i \in 1 .. 26 : Piece13[i] = 131 + i
    BY Pieces
  <2>. QED BY <2>1, <2>2, LettersRead DEF Right
<1>14. \A i \in 1 .. 3 : Right(Piece14[i], 90 + i)
  <2>1. Right(Piece14[1], 91)
    <3>1. UsLayout[47][1] = 91 /\ Piece14[1] = 47
      BY PunctuationKeys, Pieces
    <3>2. Reads(47, 91)
      BY <3>1, PlainReads
    <3>. QED BY <3>1, <3>2 DEF Right, Supported, Entry
  <2>2. Right(Piece14[2], 92)
    <3>1. UsLayout[49][1] = 92 /\ Piece14[2] = 49
      BY PunctuationKeys, Pieces
    <3>2. Reads(49, 92)
      BY <3>1, PlainReads
    <3>. QED BY <3>1, <3>2 DEF Right, Supported, Entry
  <2>3. Right(Piece14[3], 93)
    <3>1. UsLayout[48][1] = 93 /\ Piece14[3] = 48
      BY PunctuationKeys, Pieces
    <3>2. Reads(48, 93)
      BY <3>1, PlainReads
    <3>. QED BY <3>1, <3>2 DEF Right, Supported, Entry
  <2>. QED BY <2>1, <2>2, <2>3
<1>15. \A i \in 1 .. 2 : Right(Piece15[i], 93 + i)
  <2>1. Right(Piece15[1], 94)
    <3>1. UsLayout[35][2] = 94 /\ Piece15[1] = 163
      BY NumberKeys, Pieces
    <3>2. Reads(128 + 35, 94)
      BY <3>1, PlainReads
    <3>. QED BY <3>1, <3>2 DEF Right, Supported, Entry
  <2>2. Right(Piece15[2], 95)
    <3>1. UsLayout[45][2] = 95 /\ Piece15[2] = 173
      BY PunctuationKeys, Pieces
    <3>2. Reads(128 + 45, 95)
      BY <3>1, PlainReads
    <3>. QED BY <3>1, <3>2 DEF Right, Supported, Entry
  <2>. QED BY <2>1, <2>2
<1>16. \A i \in 1 .. 1 : Right(Piece16[i], 95 + i)
  <2>1. Right(Piece16[1], 96)
    <3>1. UsLayout[53][1] = 96 /\ Piece16[1] = 53
      BY PunctuationKeys, Pieces
    <3>2. Reads(53, 96)
      BY <3>1, PlainReads
    <3>. QED BY <3>1, <3>2 DEF Right, Supported, Entry
  <2>. QED BY <2>1
<1>17. \A i \in 1 .. 26 : Right(Piece17[i], 96 + i)
  <2>1. \A i \in 1 .. 26 : Supported(96 + i) /\ 3 + i \in Entry
    BY DEF Supported, Entry
  <2>2. \A i \in 1 .. 26 : Piece17[i] = 3 + i
    BY Pieces
  <2>. QED BY <2>1, <2>2, LettersRead DEF Right
<1>18. \A i \in 1 .. 4 : Right(Piece18[i], 122 + i)
  <2>1. Right(Piece18[1], 123)
    <3>1. UsLayout[47][2] = 123 /\ Piece18[1] = 175
      BY PunctuationKeys, Pieces
    <3>2. Reads(128 + 47, 123)
      BY <3>1, PlainReads
    <3>. QED BY <3>1, <3>2 DEF Right, Supported, Entry
  <2>2. Right(Piece18[2], 124)
    <3>1. UsLayout[49][2] = 124 /\ Piece18[2] = 177
      BY PunctuationKeys, Pieces
    <3>2. Reads(128 + 49, 124)
      BY <3>1, PlainReads
    <3>. QED BY <3>1, <3>2 DEF Right, Supported, Entry
  <2>3. Right(Piece18[3], 125)
    <3>1. UsLayout[48][2] = 125 /\ Piece18[3] = 176
      BY PunctuationKeys, Pieces
    <3>2. Reads(128 + 48, 125)
      BY <3>1, PlainReads
    <3>. QED BY <3>1, <3>2 DEF Right, Supported, Entry
  <2>4. Right(Piece18[4], 126)
    <3>1. UsLayout[53][2] = 126 /\ Piece18[4] = 181
      BY PunctuationKeys, Pieces
    <3>2. Reads(128 + 53, 126)
      BY <3>1, PlainReads
    <3>. QED BY <3>1, <3>2 DEF Right, Supported, Entry
  <2>. QED BY <2>1, <2>2, <2>3, <2>4
<1>. QED BY <1>1, <1>2, <1>3, <1>4, <1>5, <1>6, <1>7, <1>8, <1>9,
            <1>10, <1>11, <1>12, <1>13, <1>14, <1>15, <1>16, <1>17, <1>18

(* Every character of the table.                                           *)
LEMMA EntryRight ==
  ASSUME NEW c \in 8 .. 126
  PROVE  Right(KeycodeTable!ascii_to_keycode[c - 7], c)
<1> DEFINE t == KeycodeTable!ascii_to_keycode
<1>1. CASE c \in 8 .. 10
  <2>1. c - 7 \in 1 .. 3 /\ 0 + (c - 7) = c - 7 /\ 7 + (c - 7) = c
    BY <1>1
  <2>2. t[0 + (c - 7)] = Piece1[c - 7]
    BY <2>1, TableIs DEF HasPiece
  <2>3. Right(Piece1[c - 7], 7 + (c - 7))
    BY <2>1, PiecesRight
  <2>. QED BY <2>1, <2>2, <2>3
<1>2. CASE c \in 11 .. 26
  <2>1. c - 10 \in 1 .. 16 /\ 3 + (c - 10) = c - 7 /\ 10 + (c - 10) = c
    BY <1>2
  <2>2. t[3 + (c - 10)] = Piece2[c - 10]
    BY <2>1, TableIs DEF HasPiece
  <2>3. Right(Piece2[c - 10], 10 + (c - 10))
    BY <2>1, PiecesRight
  <2>. QED BY <2>1, <2>2, <2>3
<1>3. CASE c \in 27 .. 27
  <2>1. c - 26 \in 1 .. 1 /\ 19 + (c - 26) = c - 7 /\ 26 + (c - 26) = c
    BY <1>3
  <2>2. t[19 + (c - 26)] = Piece3[c - 26]
    BY <2>1, TableIs DEF HasPiece
  <2>3. Right(Piece3[c - 26], 26 + (c - 26))
    BY <2>1, PiecesRight
  <2>. QED BY <2>1, <2>2, <2>3
<1>4. CASE c \in 28 .. 31
  <2>1. c - 27 \in 1 .. 4 /\ 20 + (c - 27) = c - 7 /\ 27 + (c - 27) = c
    BY <1>4
  <2>2. t[20 + (c - 27)] = Piece4[c - 27]
    BY <2>1, TableIs DEF HasPiece
  <2>3. Right(Piece4[c - 27], 27 + (c - 27))
    BY <2>1, PiecesRight
  <2>. QED BY <2>1, <2>2, <2>3
<1>5. CASE c \in 32 .. 32
  <2>1. c - 31 \in 1 .. 1 /\ 24 + (c - 31) = c - 7 /\ 31 + (c - 31) = c
    BY <1>5
  <2>2. t[24 + (c - 31)] = Piece5[c - 31]
    BY <2>1, TableIs DEF HasPiece
  <2>3. Right(Piece5[c - 31], 31 + (c - 31))
    BY <2>1, PiecesRight
  <2>. QED BY <2>1, <2>2, <2>3
<1>6. CASE c \in 33 .. 38
  <2>1. c - 32 \in 1 .. 6 /\ 25 + (c - 32) = c - 7 /\ 32 + (c - 32) = c
    BY <1>6
  <2>2. t[25 + (c - 32)] = Piece6[c - 32]
    BY <2>1, TableIs DEF HasPiece
  <2>3. Right(Piece6[c - 32], 32 + (c - 32))
    BY <2>1, PiecesRight
  <2>. QED BY <2>1, <2>2, <2>3
<1>7. CASE c \in 39 .. 39
  <2>1. c - 38 \in 1 .. 1 /\ 31 + (c - 38) = c - 7 /\ 38 + (c - 38) = c
    BY <1>7
  <2>2. t[31 + (c - 38)] = Piece7[c - 38]
    BY <2>1, TableIs DEF HasPiece
  <2>3. Right(Piece7[c - 38], 38 + (c - 38))
    BY <2>1, PiecesRight
  <2>. QED BY <2>1, <2>2, <2>3
<1>8. CASE c \in 40 .. 43
  <2>1. c - 39 \in 1 .. 4 /\ 32 + (c - 39) = c - 7 /\ 39 + (c - 39) = c
    BY <1>8
  <2>2. t[32 + (c - 39)] = Piece8[c - 39]
    BY <2>1, TableIs DEF HasPiece
  <2>3. Right(Piece8[c - 39], 39 + (c - 39))
    BY <2>1, PiecesRight
  <2>. QED BY <2>1, <2>2, <2>3
<1>9. CASE c \in 44 .. 48
  <2>1. c - 43 \in 1 .. 5 /\ 36 + (c - 43) = c - 7 /\ 43 + (c - 43) = c
    BY <1>9
  <2>2. t[36 + (c - 43)] = Piece9[c - 43]
    BY <2>1, TableIs DEF HasPiece
  <2>3. Right(Piece9[c - 43], 43 + (c - 43))
    BY <2>1, PiecesRight
  <2>. QED BY <2>1, <2>2, <2>3
<1>10. CASE c \in 49 .. 57
  <2>1. c - 48 \in 1 .. 9 /\ 41 + (c - 48) = c - 7 /\ 48 + (c - 48) = c
    BY <1>10
  <2>2. t[41 + (c - 48)] = Piece10[c - 48]
    BY <2>1, TableIs DEF HasPiece
  <2>3. Right(Piece10[c - 48], 48 + (c - 48))
    BY <2>1, PiecesRight
  <2>. QED BY <2>1, <2>2, <2>3
<1>11. CASE c \in 58 .. 61
  <2>1. c - 57 \in 1 .. 4 /\ 50 + (c - 57) = c - 7 /\ 57 + (c - 57) = c
    BY <1>11
  <2>2. t[50 + (c - 57)] = Piece11[c - 57]
    BY <2>1, TableIs DEF HasPiece
  <2>3. Right(Piece11[c - 57], 57 + (c - 57))
    BY <2>1, PiecesRight
  <2>. QED BY <2>1, <2>2, <2>3
<1>12. CASE c \in 62 .. 64
  <2>1. c - 61 \in 1 .. 3 /\ 54 + (c - 61) = c - 7 /\ 61 + (c - 61) = c
    BY <1>12
  <2>2. t[54 + (c - 61)] = Piece12[c - 61]
    BY <2>1, TableIs DEF HasPiece
  <2>3. Right(Piece12[c - 61], 61 + (c - 61))
    BY <2>1, PiecesRight
  <2>. QED BY <2>1, <2>2, <2>3
<1>13. CASE c \in 65 .. 90
  <2>1. c - 64 \in 1 .. 26 /\ 57 + (c - 64) = c - 7 /\ 64 + (c - 64) = c
    BY <1>13
  <2>2. t[57 + (c - 64)] = Piece13[c - 64]
    BY <2>1, TableIs DEF HasPiece
  <2>3. Right(Piece13[c - 64], 64 + (c - 64))
    BY <2>1, PiecesRight
  <2>. QED BY <2>1, <2>2, <2>3
<1>14. CASE c \in 91 .. 93
  <2>1. c - 90 \in 1 .. 3 /\ 83 + (c - 90) = c - 7 /\ 90 + (c - 90) = c
    BY <1>14
  <2>2. t[83 + (c - 90)] = Piece14[c - 90]
    BY <2>1, TableIs DEF HasPiece
  <2>3. Right(Piece14[c - 90], 90 + (c - 90))
    BY <2>1, PiecesRight
  <2>. QED BY <2>1, <2>2, <2>3
<1>15. CASE c \in 94 .. 95
  <2>1. c - 93 \in 1 .. 2 /\ 86 + (c - 93) = c - 7 /\ 93 + (c - 93) = c
    BY <1>15
  <2>2. t[86 + (c - 93)] = Piece15[c - 93]
    BY <2>1, TableIs DEF HasPiece
  <2>3. Right(Piece15[c - 93], 93 + (c - 93))
    BY <2>1, PiecesRight
  <2>. QED BY <2>1, <2>2, <2>3
<1>16. CASE c \in 96 .. 96
  <2>1. c - 95 \in 1 .. 1 /\ 88 + (c - 95) = c - 7 /\ 95 + (c - 95) = c
    BY <1>16
  <2>2. t[88 + (c - 95)] = Piece16[c - 95]
    BY <2>1, TableIs DEF HasPiece
  <2>3. Right(Piece16[c - 95], 95 + (c - 95))
    BY <2>1, PiecesRight
  <2>. QED BY <2>1, <2>2, <2>3
<1>17. CASE c \in 97 .. 122
  <2>1. c - 96 \in 1 .. 26 /\ 89 + (c - 96) = c - 7 /\ 96 + (c - 96) = c
    BY <1>17
  <2>2. t[89 + (c - 96)] = Piece17[c - 96]
    BY <2>1, TableIs DEF HasPiece
  <2>3. Right(Piece17[c - 96], 96 + (c - 96))
    BY <2>1, PiecesRight
  <2>. QED BY <2>1, <2>2, <2>3
<1>18. CASE c \in 123 .. 126
  <2>1. c - 122 \in 1 .. 4 /\ 115 + (c - 122) = c - 7 /\ 122 + (c - 122) = c
    BY <1>18
  <2>2. t[115 + (c - 122)] = Piece18[c - 122]
    BY <2>1, TableIs DEF HasPiece
  <2>3. Right(Piece18[c - 122], 122 + (c - 122))
    BY <2>1, PiecesRight
  <2>. QED BY <2>1, <2>2, <2>3
<1>. QED BY <1>1, <1>2, <1>3, <1>4, <1>5, <1>6, <1>7, <1>8, <1>9,
            <1>10, <1>11, <1>12, <1>13, <1>14, <1>15, <1>16, <1>17, <1>18

(* What the firmware's table does with a character of a STRING.            *)
LEMMA KeycodeRight ==
  ASSUME NEW c \in Byte
  PROVE  LET k == keycode_of(c)
         IN  /\ k.keycode \in Byte /\ k.modifiers \in Byte
             /\ Supported(c) => /\ k.keycode \in DOMAIN UsLayout /\ k.keycode # 0
                                /\ UsLayout[k.keycode][IF k.modifiers = 0 THEN 1 ELSE 2] = c
             /\ ~ Supported(c) => k.keycode = 0
<1> DEFINE index == (c + 256 - 8) % 256
           e == IF index < 119 THEN KeycodeTable!ascii_to_keycode[index + 1] ELSE 0
           k == keycode_of(c)
<1>1. c \in 0 .. 255
  BY FirmwareAssumption DEF Byte
<1>2. k = [keycode |-> e % 128, modifiers |-> IF e >= 128 THEN 2 ELSE 0]
  <2>1. k = KeycodeTable!keycode_from_ascii(c)
    BY FirmwareAssumption
  <2>. QED BY <2>1 DEF KeycodeTable!keycode_from_ascii, KeycodeTable!Masked,
                KeycodeTable!SHIFT_FLAG, KeycodeTable!TABLE_OFFSET, KeycodeTable!TABLE_SIZE,
                KeycodeTable!MOD_SHIFT, KeycodeTable!MOD_NONE
<1>3. Right(e, c)
  <2>1. CASE c \in 8 .. 126
    <3>1. index = c - 8 /\ index < 119 /\ index + 1 = c - 7
      BY <2>1
    <3>. QED BY <2>1, <3>1, EntryRight
  <2>2. CASE c \notin 8 .. 126
    <3>1. ~ (index < 119)
      BY <1>1, <2>2
    <3>2. ~ Supported(c)
      BY <1>1, <2>2 DEF Supported
    <3>. QED BY <3>1, <3>2 DEF Right, Entry
  <2>. QED BY <2>1, <2>2
<1>. HIDE DEF e, k
<1>4. e \in Entry
  BY <1>3 DEF Right
<1>5. k.keycode = e % 128 /\ k.modifiers = (IF e >= 128 THEN 2 ELSE 0)
  BY <1>2
<1>6. k.keycode \in Byte /\ k.modifiers \in Byte
  BY KeycodeAssumption DEF k
<1>7. ASSUME Supported(c)
      PROVE  /\ k.keycode \in DOMAIN UsLayout /\ k.keycode # 0
             /\ UsLayout[k.keycode][IF k.modifiers = 0 THEN 1 ELSE 2] = c
  <2>1. Reads(e, c)
    BY <1>3, <1>7 DEF Right
  <2>2. e % 128 \in DOMAIN UsLayout /\ UsLayout[e % 128][IF e >= 128 THEN 2 ELSE 1] = c
    BY <2>1 DEF Reads
  <2>3. 0 \notin DOMAIN UsLayout
    BY DEF UsLayout
  <2>4. (IF k.modifiers = 0 THEN 1 ELSE 2) = IF e >= 128 THEN 2 ELSE 1
    BY <1>5
  <2>. QED BY <1>5, <2>2, <2>3, <2>4
<1>8. ASSUME ~ Supported(c) PROVE k.keycode = 0
  <2>1. e = 0
    BY <1>3, <1>8 DEF Right
  <2>2. 0 % 128 = 0
    OBVIOUS
  <2>. QED BY <1>5, <2>1, <2>2
<1>. QED BY <1>6, <1>7, <1>8 DEF k
-----------------------------------------------------------------------------
(* What the host has read after each report.                               *)
Hosts == [text : Seq(Nat), held : SUBSET Byte]

LEMMA LayoutType ==
  ASSUME NEW key \in DOMAIN UsLayout, NEW level \in {1, 2}
  PROVE  UsLayout[key][level] \in Nat
<1>1. key \in 4 .. 56
  BY DEF UsLayout
<1>2. CASE key <= 29
  <2>1. UsLayout[key] = <<97 + key - 4, 65 + key - 4>>
    BY <1>1, <1>2 DEF UsLayout
  <2>2. 97 + key - 4 \in Nat /\ 65 + key - 4 \in Nat
    BY <1>1
  <2>. HIDE DEF UsLayout
  <2>. QED BY <2>1, <2>2
<1>3. CASE key \in 30 .. 39
  BY <1>3, NumberKeys
<1>4. CASE key \in 40 .. 44
  BY <1>4, NamedKeys
<1>5. CASE key \in 45 .. 56
  BY <1>5, PunctuationKeys
<1>. QED BY <1>1, <1>2, <1>3, <1>4, <1>5

(* A report that presses nothing new types nothing; one that presses one   *)
(* key of the layout types its character.                                  *)
LEMMA HostIs ==
  ASSUME NEW host \in Hosts, NEW v \in Views
  PROVE  LET pressed == (v.held \ host.held) \intersect DOMAIN UsLayout
         IN  /\ HostReads(host, v) \in Hosts
             /\ HostReads(host, v).held = v.held
             /\ pressed = {} => HostReads(host, v).text = host.text
             /\ \A key : pressed = {key} =>
                  HostReads(host, v).text
                    = Append(host.text, UsLayout[key][IF v.mods = 0 THEN 1 ELSE 2])
<1> DEFINE pressed == (v.held \ host.held) \intersect DOMAIN UsLayout
           chosen == CHOOSE key \in pressed : TRUE
           char == UsLayout[chosen][IF v.mods = 0 THEN 1 ELSE 2]
           text == IF pressed = {} THEN host.text ELSE Append(host.text, char)
<1>1. HostReads(host, v) = [text |-> text, held |-> v.held]
  BY DEF HostReads
<1>2. v.held \in SUBSET Byte /\ host.text \in Seq(Nat)
  BY DEF Views, Hosts
<1>3. pressed # {} => chosen \in pressed
  OBVIOUS
<1>4. pressed # {} => chosen \in DOMAIN UsLayout
  BY <1>3
<1>5. \A key : pressed = {key} => chosen = key
  BY <1>3
<1>. HIDE DEF pressed, chosen
<1>6. pressed # {} => char \in Nat
  BY <1>4, LayoutType
<1>7. text \in Seq(Nat)
  <2>. HIDE DEF char
  <2>. QED BY <1>2, <1>6
<1>8. pressed = {} => text = host.text
  OBVIOUS
<1>9. ASSUME NEW key, pressed = {key}
      PROVE  text = Append(host.text, UsLayout[key][IF v.mods = 0 THEN 1 ELSE 2])
  BY <1>5, <1>9
<1>. HIDE DEF text
<1>10. HostReads(host, v) \in Hosts /\ HostReads(host, v).held = v.held
       /\ HostReads(host, v).text = text
  BY <1>1, <1>2, <1>7 DEF Hosts
<1>. QED BY <1>8, <1>9, <1>10 DEF pressed

LEMMA HostType ==
  ASSUME NEW host \in Hosts, NEW v \in Views
  PROVE  HostReads(host, v) \in Hosts
  BY HostIs

HostTrace(f, host, reports) ==
  /\ f[0] = host
  /\ \A i \in 0 .. Len(reports) : f[i] \in Hosts
  /\ \A i \in 1 .. Len(reports) : f[i] = HostReads(f[i - 1], reports[i])
  /\ FoldLeft(HostReads, host, reports) = f[Len(reports)]

LEMMA HostFold ==
  ASSUME NEW host \in Hosts, NEW reports \in Seq(Views)
  PROVE  \E f : HostTrace(f, host, reports)
<1> DEFINE n == Len(reports)
           g == [i \in 1 .. n |-> [v \in Hosts |-> HostReads(v, reports[i])]]
<1>1. n \in Nat /\ DOMAIN reports = 1 .. n /\ \A i \in 1 .. n : reports[i] \in Views
  OBVIOUS
<1>2. g \in [1 .. n -> [Hosts -> Hosts]]
  BY <1>1, HostType
<1>3. PICK h : IsFold(h, Hosts, host, n, g)
  <2>. HIDE DEF n, g
  <2>. QED BY <1>1, <1>2, FoldExists
<1>4. h = [s \in SUBSET (DOMAIN reports) |->
             IF s = {} THEN host ELSE HostReads(h[s \ {Max(s)}], reports[Max(s)])]
  <2> DEFINE e(s) == IF s = {} THEN host ELSE HostReads(h[s \ {Max(s)}], reports[Max(s)])
  <2>1. ASSUME NEW s \in SUBSET (1 .. n) PROVE h[s] = e(s)
    <3>1. CASE s = {}
      BY <1>3, <3>1 DEF IsFold
    <3>2. CASE s # {}
      <4>1. Max(s) \in 1 .. n
        BY <1>1, <3>2, MaxIn
      <4>2. h[s \ {Max(s)}] \in Hosts /\ h[s] = g[Max(s)][h[s \ {Max(s)}]]
        BY <1>3, <3>2 DEF IsFold
      <4>. QED BY <3>2, <4>1, <4>2
    <3>. QED BY <3>1, <3>2
  <2>2. h = [s \in SUBSET (1 .. n) |-> e(s)]
    <3>1. h \in [SUBSET (1 .. n) -> Hosts]
      BY <1>3 DEF IsFold
    <3>. HIDE DEF e, n, g
    <3>. QED BY <2>1, <3>1
  <2>. QED BY <2>2, <1>1
<1>5. \E r : /\ r = [s \in SUBSET (DOMAIN reports) |->
                       IF s = {} THEN host ELSE HostReads(r[s \ {Max(s)}], reports[Max(s)])]
             /\ FoldLeft(HostReads, host, reports) = r[DOMAIN reports]
  BY <1>4, Zenon DEF FoldLeft, MapThenFoldSet
<1>6. PICK r : /\ r = [s \in SUBSET (1 .. n) |->
                         IF s = {} THEN host ELSE HostReads(r[s \ {Max(s)}], reports[Max(s)])]
               /\ FoldLeft(HostReads, host, reports) = r[1 .. n]
  BY <1>1, <1>5
<1>7. ASSUME NEW s \in SUBSET (1 .. n), s # {}, r[s \ {Max(s)}] \in Hosts
      PROVE  r[s] = g[Max(s)][r[s \ {Max(s)}]]
  <2>1. Max(s) \in 1 .. n
    BY <1>1, <1>7, MaxIn
  <2>2. r[s] = HostReads(r[s \ {Max(s)}], reports[Max(s)])
    BY <1>6, <1>7
  <2>. QED BY <1>7, <2>1, <2>2
<1>8. r[{}] = host
  BY <1>6
<1>9. \E f : IsLoop(f, Hosts, host, n, g) /\ f[n] = r[1 .. n]
  <2>. HIDE DEF n, g
  <2>1. IsFolding(r, Hosts, host, n, g)
    BY <1>7, <1>8 DEF IsFolding
  <2>. QED BY <1>1, <1>2, <2>1, FoldIsLoop
<1>10. PICK f : IsLoop(f, Hosts, host, n, g) /\ f[n] = r[1 .. n]
  BY <1>9
<1>11. /\ f[0] = host /\ \A i \in 0 .. n : f[i] \in Hosts
       /\ \A i \in 1 .. n : f[i] = g[i][f[i - 1]]
  BY <1>10 DEF IsLoop
<1>12. \A i \in 1 .. n : f[i] = HostReads(f[i - 1], reports[i])
  <2>1. \A i \in 1 .. n : i - 1 \in 0 .. n
    BY <1>1
  <2>. QED BY <1>11, <2>1
<1>13. HostTrace(f, host, reports)
  BY <1>6, <1>10, <1>11, <1>12 DEF HostTrace
<1>. QED BY <1>13

(* One report more is one step of the host more.                           *)
HostAfter(reports) == FoldLeft(HostReads, NothingTyped, reports)

LEMMA NothingType == NothingTyped \in Hosts
  BY DEF NothingTyped, Hosts

LEMMA HostAfterType ==
  ASSUME NEW reports \in Seq(Views)
  PROVE  HostAfter(reports) \in Hosts
<1>1. PICK f : HostTrace(f, NothingTyped, reports)
  BY NothingType, HostFold
<1>2. Len(reports) \in 0 .. Len(reports)
  OBVIOUS
<1>. QED BY <1>1, <1>2 DEF HostTrace, HostAfter

LEMMA HostAppend ==
  ASSUME NEW reports \in Seq(Views), NEW v \in Views
  PROVE  HostAfter(Append(reports, v)) = HostReads(HostAfter(reports), v)
<1> DEFINE n == Len(reports)
           more == Append(reports, v)
<1>1. /\ n \in Nat /\ more \in Seq(Views) /\ Len(more) = n + 1 /\ more[n + 1] = v
      /\ \A i \in 1 .. n : more[i] = reports[i]
  OBVIOUS
<1>. HIDE DEF more
<1>2. PICK f : HostTrace(f, NothingTyped, reports)
  BY NothingType, HostFold
<1>3. PICK h : HostTrace(h, NothingTyped, more)
  BY <1>1, NothingType, HostFold
<1>. HIDE DEF n
<1>4. /\ f[0] = NothingTyped /\ HostAfter(reports) = f[n]
      /\ \A i \in 1 .. n : f[i] = HostReads(f[i - 1], reports[i])
  BY <1>2 DEF HostTrace, HostAfter, n
<1>5. /\ h[0] = NothingTyped /\ HostAfter(more) = h[n + 1]
      /\ \A i \in 1 .. n + 1 : h[i] = HostReads(h[i - 1], more[i])
  BY <1>1, <1>3 DEF HostTrace, HostAfter
<1> DEFINE K == {k \in Nat : k <= n => h[k] = f[k]}
<1>6. 0 \in K
  BY <1>4, <1>5
<1>7. ASSUME NEW k \in K PROVE k + 1 \in K
  <2>1. SUFFICES ASSUME k + 1 <= n PROVE h[k + 1] = f[k + 1]
    OBVIOUS
  <2>2. k + 1 \in 1 .. n /\ k + 1 \in 1 .. n + 1 /\ (k + 1) - 1 = k /\ k <= n
    BY <1>1, <2>1
  <2>3. h[k] = f[k] /\ more[k + 1] = reports[k + 1]
    BY <1>1, <2>2
  <2>. QED BY <1>4, <1>5, <2>2, <2>3
<1>8. K \in SUBSET Nat
  OBVIOUS
<1>9. \A k \in Nat : k \in K
  <2>. HIDE DEF K
  <2>. QED BY <1>6, <1>7, <1>8, SetInduction
<1>10. h[n] = f[n]
  BY <1>1, <1>9
<1>11. n + 1 \in 1 .. n + 1 /\ (n + 1) - 1 = n
  BY <1>1
<1>. QED BY <1>1, <1>4, <1>5, <1>10, <1>11 DEF more
-----------------------------------------------------------------------------
(* The text of a program, character by character.                          *)
Read == Seq(Nat)

LEMMA AddCharacterType ==
  ASSUME NEW text \in Read, NEW c \in Byte
  PROVE  AddCharacter(text, c) \in Read
  BY Bytes DEF AddCharacter, Read

CharacterTrace(f, read, text) ==
  /\ f[0] = read
  /\ \A i \in 0 .. Len(text) : f[i] \in Read
  /\ \A i \in 1 .. Len(text) : f[i] = AddCharacter(f[i - 1], text[i])
  /\ FoldLeft(AddCharacter, read, text) = f[Len(text)]

LEMMA CharacterFold ==
  ASSUME NEW read \in Read, NEW text \in Seq(Byte)
  PROVE  \E f : CharacterTrace(f, read, text)
<1> DEFINE n == Len(text)
           g == [i \in 1 .. n |-> [v \in Read |-> AddCharacter(v, text[i])]]
<1>1. n \in Nat /\ DOMAIN text = 1 .. n /\ \A i \in 1 .. n : text[i] \in Byte
  OBVIOUS
<1>2. g \in [1 .. n -> [Read -> Read]]
  BY <1>1, AddCharacterType
<1>3. PICK h : IsFold(h, Read, read, n, g)
  <2>. HIDE DEF n, g
  <2>. QED BY <1>1, <1>2, FoldExists
<1>4. h = [s \in SUBSET (DOMAIN text) |->
             IF s = {} THEN read ELSE AddCharacter(h[s \ {Max(s)}], text[Max(s)])]
  <2> DEFINE e(s) == IF s = {} THEN read ELSE AddCharacter(h[s \ {Max(s)}], text[Max(s)])
  <2>1. ASSUME NEW s \in SUBSET (1 .. n) PROVE h[s] = e(s)
    <3>1. CASE s = {}
      BY <1>3, <3>1 DEF IsFold
    <3>2. CASE s # {}
      <4>1. Max(s) \in 1 .. n
        BY <1>1, <3>2, MaxIn
      <4>2. h[s \ {Max(s)}] \in Read /\ h[s] = g[Max(s)][h[s \ {Max(s)}]]
        BY <1>3, <3>2 DEF IsFold
      <4>. QED BY <3>2, <4>1, <4>2
    <3>. QED BY <3>1, <3>2
  <2>2. h = [s \in SUBSET (1 .. n) |-> e(s)]
    <3>1. h \in [SUBSET (1 .. n) -> Read]
      BY <1>3 DEF IsFold
    <3>. HIDE DEF e, n, g
    <3>. QED BY <2>1, <3>1
  <2>. QED BY <2>2, <1>1
<1>5. \E r : /\ r = [s \in SUBSET (DOMAIN text) |->
                       IF s = {} THEN read ELSE AddCharacter(r[s \ {Max(s)}], text[Max(s)])]
             /\ FoldLeft(AddCharacter, read, text) = r[DOMAIN text]
  BY <1>4, Zenon DEF FoldLeft, MapThenFoldSet
<1>6. PICK r : /\ r = [s \in SUBSET (1 .. n) |->
                         IF s = {} THEN read ELSE AddCharacter(r[s \ {Max(s)}], text[Max(s)])]
               /\ FoldLeft(AddCharacter, read, text) = r[1 .. n]
  BY <1>1, <1>5
<1>7. ASSUME NEW s \in SUBSET (1 .. n), s # {}, r[s \ {Max(s)}] \in Read
      PROVE  r[s] = g[Max(s)][r[s \ {Max(s)}]]
  <2>1. Max(s) \in 1 .. n
    BY <1>1, <1>7, MaxIn
  <2>2. r[s] = AddCharacter(r[s \ {Max(s)}], text[Max(s)])
    BY <1>6, <1>7
  <2>. QED BY <1>7, <2>1, <2>2
<1>8. r[{}] = read
  BY <1>6
<1>9. \E f : IsLoop(f, Read, read, n, g) /\ f[n] = r[1 .. n]
  <2>. HIDE DEF n, g
  <2>1. IsFolding(r, Read, read, n, g)
    BY <1>7, <1>8 DEF IsFolding
  <2>. QED BY <1>1, <1>2, <2>1, FoldIsLoop
<1>10. PICK f : IsLoop(f, Read, read, n, g) /\ f[n] = r[1 .. n]
  BY <1>9
<1>11. /\ f[0] = read /\ \A i \in 0 .. n : f[i] \in Read
       /\ \A i \in 1 .. n : f[i] = g[i][f[i - 1]]
  BY <1>10 DEF IsLoop
<1>12. \A i \in 1 .. n : f[i] = AddCharacter(f[i - 1], text[i])
  <2>1. \A i \in 1 .. n : i - 1 \in 0 .. n
    BY <1>1
  <2>. QED BY <1>11, <2>1
<1>13. CharacterTrace(f, read, text)
  BY <1>6, <1>10, <1>11, <1>12 DEF CharacterTrace
<1>. QED BY <1>13

LEMMA AddTextType ==
  ASSUME NEW text \in Read, NEW i \in Instructions
  PROVE  AddText(text, i) \in Read
<1>1. CASE i.op = "STRING"
  <2>1. i \in PlainInstructions
    BY <1>1 DEF Instructions
  <2>2. i.text \in Seq(Byte)
    BY <1>1, <2>1, PlainIs
  <2>3. PICK f : CharacterTrace(f, text, i.text)
    BY <2>2, CharacterFold
  <2>4. Len(i.text) \in 0 .. Len(i.text)
    BY <2>2
  <2>. QED BY <1>1, <2>3, <2>4 DEF CharacterTrace, AddText
<1>2. CASE i.op # "STRING"
  BY <1>2 DEF AddText
<1>. QED BY <1>1, <1>2

WordTrace(f, read, program) ==
  /\ f[0] = read
  /\ \A i \in 0 .. Len(program) : f[i] \in Read
  /\ \A i \in 1 .. Len(program) : f[i] = AddText(f[i - 1], program[i])
  /\ FoldLeft(AddText, read, program) = f[Len(program)]

LEMMA WordFold ==
  ASSUME NEW read \in Read, NEW program \in Seq(Instructions)
  PROVE  \E f : WordTrace(f, read, program)
<1> DEFINE n == Len(program)
           g == [i \in 1 .. n |-> [v \in Read |-> AddText(v, program[i])]]
<1>1. n \in Nat /\ DOMAIN program = 1 .. n /\ \A i \in 1 .. n : program[i] \in Instructions
  OBVIOUS
<1>2. g \in [1 .. n -> [Read -> Read]]
  BY <1>1, AddTextType
<1>3. PICK h : IsFold(h, Read, read, n, g)
  <2>. HIDE DEF n, g
  <2>. QED BY <1>1, <1>2, FoldExists
<1>4. h = [s \in SUBSET (DOMAIN program) |->
             IF s = {} THEN read ELSE AddText(h[s \ {Max(s)}], program[Max(s)])]
  <2> DEFINE e(s) == IF s = {} THEN read ELSE AddText(h[s \ {Max(s)}], program[Max(s)])
  <2>1. ASSUME NEW s \in SUBSET (1 .. n) PROVE h[s] = e(s)
    <3>1. CASE s = {}
      BY <1>3, <3>1 DEF IsFold
    <3>2. CASE s # {}
      <4>1. Max(s) \in 1 .. n
        BY <1>1, <3>2, MaxIn
      <4>2. h[s \ {Max(s)}] \in Read /\ h[s] = g[Max(s)][h[s \ {Max(s)}]]
        BY <1>3, <3>2 DEF IsFold
      <4>. QED BY <3>2, <4>1, <4>2
    <3>. QED BY <3>1, <3>2
  <2>2. h = [s \in SUBSET (1 .. n) |-> e(s)]
    <3>1. h \in [SUBSET (1 .. n) -> Read]
      BY <1>3 DEF IsFold
    <3>. HIDE DEF e, n, g
    <3>. QED BY <2>1, <3>1
  <2>. QED BY <2>2, <1>1
<1>5. \E r : /\ r = [s \in SUBSET (DOMAIN program) |->
                       IF s = {} THEN read ELSE AddText(r[s \ {Max(s)}], program[Max(s)])]
             /\ FoldLeft(AddText, read, program) = r[DOMAIN program]
  BY <1>4, Zenon DEF FoldLeft, MapThenFoldSet
<1>6. PICK r : /\ r = [s \in SUBSET (1 .. n) |->
                         IF s = {} THEN read ELSE AddText(r[s \ {Max(s)}], program[Max(s)])]
               /\ FoldLeft(AddText, read, program) = r[1 .. n]
  BY <1>1, <1>5
<1>7. ASSUME NEW s \in SUBSET (1 .. n), s # {}, r[s \ {Max(s)}] \in Read
      PROVE  r[s] = g[Max(s)][r[s \ {Max(s)}]]
  <2>1. Max(s) \in 1 .. n
    BY <1>1, <1>7, MaxIn
  <2>2. r[s] = AddText(r[s \ {Max(s)}], program[Max(s)])
    BY <1>6, <1>7
  <2>. QED BY <1>7, <2>1, <2>2
<1>8. r[{}] = read
  BY <1>6
<1>9. \E f : IsLoop(f, Read, read, n, g) /\ f[n] = r[1 .. n]
  <2>. HIDE DEF n, g
  <2>1. IsFolding(r, Read, read, n, g)
    BY <1>7, <1>8 DEF IsFolding
  <2>. QED BY <1>1, <1>2, <2>1, FoldIsLoop
<1>10. PICK f : IsLoop(f, Read, read, n, g) /\ f[n] = r[1 .. n]
  BY <1>9
<1>11. /\ f[0] = read /\ \A i \in 0 .. n : f[i] \in Read
       /\ \A i \in 1 .. n : f[i] = g[i][f[i - 1]]
  BY <1>10 DEF IsLoop
<1>12. \A i \in 1 .. n : f[i] = AddText(f[i - 1], program[i])
  <2>1. \A i \in 1 .. n : i - 1 \in 0 .. n
    BY <1>1
  <2>. QED BY <1>11, <2>1
<1>13. WordTrace(f, read, program)
  BY <1>6, <1>10, <1>11, <1>12 DEF WordTrace
<1>. QED BY <1>13

-----------------------------------------------------------------------------
(* A keyboard that holds nothing, and whose reports the host has read as   *)
(* the text.                                                               *)
HasTyped(kb, text) ==
  /\ kb \in Keyboards /\ kb.mods = 0 /\ kb.held = {}
  /\ HostAfter(kb.shown) = [text |-> text, held |-> {}]

(* A key pressed is one character.                                         *)
LEMMA HostPresses ==
  ASSUME NEW host \in Hosts, NEW v \in Views, NEW key,
         (v.held \ host.held) \intersect DOMAIN UsLayout = {key}
  PROVE  /\ HostReads(host, v) \in Hosts /\ HostReads(host, v).held = v.held
         /\ HostReads(host, v).text
              = Append(host.text, UsLayout[key][IF v.mods = 0 THEN 1 ELSE 2])
  BY HostIs, Zenon

LEMMA PressedReads ==
  ASSUME NEW shown \in Seq(Views), NEW text \in Read, NEW mods \in Byte,
         NEW key \in DOMAIN UsLayout, key \in Byte,
         HostAfter(shown) = [text |-> text, held |-> {}]
  PROVE  LET v == [mods |-> mods, held |-> {key}]
         IN  /\ v \in Views /\ Append(shown, v) \in Seq(Views)
             /\ HostAfter(Append(shown, v))
                  = [text |-> Append(text, UsLayout[key][IF mods = 0 THEN 1 ELSE 2]),
                     held |-> {key}]
<1> DEFINE v == [mods |-> mods, held |-> {key}]
           host == [text |-> text, held |-> {}]
           char == UsLayout[key][IF mods = 0 THEN 1 ELSE 2]
<1>1. v \in Views /\ v.held = {key} /\ v.mods = mods
  BY DEF Views
<1>2. host \in Hosts /\ host.held = {} /\ host.text = text
  BY DEF Hosts, Read
<1>3. ({key} \ {}) \intersect DOMAIN UsLayout = {key}
  OBVIOUS
<1>. HIDE DEF v, host
<1>4. HostReads(host, v) \in Hosts /\ HostReads(host, v).held = {key}
      /\ HostReads(host, v).text = Append(text, char)
  <2>1. (v.held \ host.held) \intersect DOMAIN UsLayout = {key}
    BY <1>1, <1>2, <1>3
  <2>2. /\ HostReads(host, v) \in Hosts /\ HostReads(host, v).held = v.held
        /\ HostReads(host, v).text
             = Append(host.text, UsLayout[key][IF v.mods = 0 THEN 1 ELSE 2])
    BY <1>1, <1>2, <2>1, HostPresses
  <2>. QED BY <1>1, <1>2, <2>2
<1>5. HostReads(host, v) = [text |-> Append(text, char), held |-> {key}]
  <2>. HIDE DEF char
  <2>. QED BY <1>4 DEF Hosts
<1>6. HostAfter(shown) = host
  BY DEF host
<1>7. HostAfter(Append(shown, v)) = HostReads(host, v)
  BY <1>1, <1>6, HostAppend
<1>8. Append(shown, v) \in Seq(Views)
  BY <1>1
<1>. QED BY <1>1, <1>5, <1>7, <1>8 DEF v

(* Nothing held is nothing more.                                           *)
LEMMA ReleasedReads ==
  ASSUME NEW shown \in Seq(Views), NEW text \in Read, NEW mods \in Byte,
         NEW held \in SUBSET Byte, HostAfter(shown) = [text |-> text, held |-> held]
  PROVE  LET v == [mods |-> mods, held |-> {}]
         IN  /\ v \in Views /\ Append(shown, v) \in Seq(Views)
             /\ HostAfter(Append(shown, v)) = [text |-> text, held |-> {}]
<1> DEFINE v == [mods |-> mods, held |-> {}]
           host == [text |-> text, held |-> held]
<1>1. v \in Views /\ v.held = {}
  BY DEF Views
<1>2. host \in Hosts /\ host.held = held /\ host.text = text
  BY DEF Hosts, Read
<1>3. ({} \ held) \intersect DOMAIN UsLayout = {}
  OBVIOUS
<1>. HIDE DEF v, host
<1>4. HostReads(host, v) \in Hosts /\ HostReads(host, v).held = {}
      /\ HostReads(host, v).text = text
  BY <1>1, <1>2, <1>3, HostIs
<1>5. HostReads(host, v) = [text |-> text, held |-> {}]
  BY <1>4 DEF Hosts
<1>6. HostAfter(Append(shown, v)) = HostReads(host, v) /\ Append(shown, v) \in Seq(Views)
  BY <1>1, HostAppend DEF host
<1>. QED BY <1>1, <1>5, <1>6 DEF v

(* A tap is one character.                                                 *)
LEMMA FirstTap ==
  ASSUME NEW kb \in Keyboards, NEW mods \in Byte, NEW key \in Byte
  PROVE  kb.held = {} =>
           /\ Taps(kb, mods, mods, key) \in Keyboards
           /\ Taps(kb, mods, mods, key).mods = kb.mods
           /\ Taps(kb, mods, mods, key).held = {}
           /\ Taps(kb, mods, mods, key).shown
                = Append(Append(kb.shown, [mods |-> mods, held |-> {key}]),
                         [mods |-> mods, held |-> {}])
<1> DEFINE p == Press(kb.held, key)
<1>1. /\ Taps(kb, mods, mods, key) \in Keyboards
      /\ Taps(kb, mods, mods, key).mods = kb.mods
      /\ Taps(kb, mods, mods, key).held = p \ {key}
      /\ Taps(kb, mods, mods, key).shown
           = Append(Append(kb.shown, [mods |-> mods, held |-> p]),
                    [mods |-> mods, held |-> p \ {key}])
  BY TapsIs
<1>2. Press({}, key) = {key}
  <2>1. {} \union {key} = {key} /\ Cardinality({key}) = 1
    BY FS_Singleton
  <2>. QED BY <2>1, EngineAssumption DEF Press
<1>3. kb.held = {} => p = {key} /\ p \ {key} = {}
  BY <1>2
<1>. HIDE DEF p
<1>. QED BY <1>1, <1>3

LEMMA TapReads ==
  ASSUME NEW kb, NEW text \in Read, HasTyped(kb, text), NEW mods \in Byte,
         NEW key \in DOMAIN UsLayout, key \in Byte
  PROVE  LET after == Taps(kb, mods, mods, key)
         IN  /\ after \in Keyboards /\ after.mods = 0 /\ after.held = {}
             /\ HostAfter(after.shown)
                  = [text |-> Append(text, UsLayout[key][IF mods = 0 THEN 1 ELSE 2]),
                     held |-> {}]
<1> DEFINE after == Taps(kb, mods, mods, key)
           char == UsLayout[key][IF mods = 0 THEN 1 ELSE 2]
           down == Append(kb.shown, [mods |-> mods, held |-> {key}])
<1>1. /\ kb \in Keyboards /\ kb.mods = 0 /\ kb.held = {} /\ kb.shown \in Seq(Views)
      /\ HostAfter(kb.shown) = [text |-> text, held |-> {}]
  BY DEF HasTyped, Keyboards
<1>2. /\ after \in Keyboards /\ after.mods = kb.mods /\ after.held = {}
      /\ after.shown = Append(down, [mods |-> mods, held |-> {}])
  <2>. HIDE DEF char
  <2>. QED BY <1>1, FirstTap
<1>3. down \in Seq(Views) /\ HostAfter(down) = [text |-> Append(text, char), held |-> {key}]
  BY <1>1, PressedReads
<1>4. Append(text, char) \in Read
  <2>1. char \in Nat
    BY LayoutType
  <2>. HIDE DEF char
  <2>. QED BY <2>1 DEF Read
<1>5. {key} \in SUBSET Byte
  OBVIOUS
<1>. HIDE DEF after, down, char
<1>6. HostAfter(Append(down, [mods |-> mods, held |-> {}]))
        = [text |-> Append(text, char), held |-> {}]
  BY <1>3, <1>4, <1>5, ReleasedReads
<1>. QED BY <1>1, <1>2, <1>6 DEF after, char

(* A character of a STRING is read, or typed by no key.                    *)
LEMMA CharacterReads ==
  ASSUME NEW kb, NEW text \in Read, HasTyped(kb, text), NEW c \in Byte
  PROVE  HasTyped(Types(kb, c), AddCharacter(text, c))
<1> DEFINE k == keycode_of(c)
           level == IF k.modifiers = 0 THEN 1 ELSE 2
           tap == Taps(kb, k.modifiers, k.modifiers, k.keycode)
           last == Show(tap, kb.mods, tap.held)
<1>1. kb \in Keyboards /\ kb.mods = 0
  BY DEF HasTyped
<1>2. Types(kb, c) = IF k.keycode = 0 THEN kb
        ELSE IF k.modifiers = 0 THEN Taps(kb, kb.mods, kb.mods, k.keycode) ELSE last
  BY DEF Types
<1>3. /\ k.keycode \in Byte /\ k.modifiers \in Byte
      /\ Supported(c) => /\ k.keycode \in DOMAIN UsLayout /\ k.keycode # 0
                         /\ UsLayout[k.keycode][level] = c
      /\ ~ Supported(c) => k.keycode = 0
  BY KeycodeRight
<1>. HIDE DEF k
<1>4. CASE ~ Supported(c)
  BY <1>2, <1>3, <1>4 DEF AddCharacter
<1>5. CASE Supported(c)
  <2>1. k.keycode \in DOMAIN UsLayout /\ k.keycode \in Byte /\ k.keycode # 0
    BY <1>3, <1>5
  <2>2. /\ tap \in Keyboards /\ tap.mods = 0 /\ tap.held = {}
        /\ HostAfter(tap.shown)
             = [text |-> Append(text, UsLayout[k.keycode][level]), held |-> {}]
    BY <1>3, <2>1, TapReads
  <2>3. UsLayout[k.keycode][level] = c /\ AddCharacter(text, c) = Append(text, c)
    BY <1>3, <1>5 DEF AddCharacter
  <2>. HIDE DEF tap
  <2>4. HasTyped(tap, AddCharacter(text, c))
    BY <2>2, <2>3 DEF HasTyped
  <2>5. CASE k.modifiers = 0
    BY <1>1, <1>2, <2>1, <2>4, <2>5 DEF tap
  <2>6. CASE k.modifiers # 0
    <3>1. Types(kb, c) = last
      BY <1>2, <2>1, <2>6
    <3>2. last \in Keyboards /\ last.mods = 0 /\ last.held = {}
          /\ last.shown = Append(tap.shown, [mods |-> 0, held |-> {}])
      <4>1. kb.mods \in Byte /\ tap.held \in SUBSET Byte
        BY <1>1, <2>2, Bytes
      <4>2. last \in Keyboards /\ last.mods = tap.mods /\ last.held = tap.held
            /\ last.shown = Append(tap.shown, [mods |-> kb.mods, held |-> tap.held])
        BY <2>2, <4>1, ShowType
      <4>. QED BY <1>1, <2>2, <4>2
    <3>3. tap.shown \in Seq(Views) /\ AddCharacter(text, c) \in Read
      BY <2>2, AddCharacterType DEF Keyboards
    <3>4. HostAfter(tap.shown) = [text |-> AddCharacter(text, c), held |-> {}]
      BY <2>4 DEF HasTyped
    <3>. HIDE DEF last
    <3>5. HostAfter(Append(tap.shown, [mods |-> 0, held |-> {}]))
            = [text |-> AddCharacter(text, c), held |-> {}]
      BY <3>3, <3>4, Bytes, ReleasedReads
    <3>. QED BY <3>1, <3>2, <3>5 DEF HasTyped
  <2>. QED BY <2>5, <2>6
<1>. QED BY <1>4, <1>5

(* A STRING is read whole.                                                 *)
LEMMA TextReads ==
  ASSUME NEW kb, NEW read \in Read, HasTyped(kb, read), NEW text \in Seq(Byte)
  PROVE  HasTyped(FoldLeft(Types, kb, text), FoldLeft(AddCharacter, read, text))
<1> DEFINE n == Len(text)
<1>1. n \in Nat /\ \A i \in 1 .. n : text[i] \in Byte
  OBVIOUS
<1>2. kb \in Keyboards
  BY DEF HasTyped
<1>3. PICK f : TextTrace(f, kb, text)
  BY <1>2, TextFold
<1>4. PICK h : CharacterTrace(h, read, text)
  BY CharacterFold
<1>. HIDE DEF n
<1>5. /\ f[0] = kb /\ FoldLeft(Types, kb, text) = f[n]
      /\ \A i \in 1 .. n : f[i] = Types(f[i - 1], text[i])
  BY <1>3 DEF TextTrace, n
<1>6. /\ h[0] = read /\ FoldLeft(AddCharacter, read, text) = h[n]
      /\ \A i \in 0 .. n : h[i] \in Read
      /\ \A i \in 1 .. n : h[i] = AddCharacter(h[i - 1], text[i])
  BY <1>4 DEF CharacterTrace, n
<1> DEFINE K == {k \in Nat : k <= n => HasTyped(f[k], h[k])}
<1>7. 0 \in K
  BY <1>5, <1>6
<1>8. ASSUME NEW k \in K PROVE k + 1 \in K
  <2>1. SUFFICES ASSUME k + 1 <= n PROVE HasTyped(f[k + 1], h[k + 1])
    OBVIOUS
  <2>2. k + 1 \in 1 .. n /\ (k + 1) - 1 = k /\ k <= n /\ k \in 0 .. n
    BY <1>1, <2>1
  <2>3. HasTyped(f[k], h[k]) /\ h[k] \in Read /\ text[k + 1] \in Byte
    BY <1>1, <1>6, <2>2
  <2>4. HasTyped(Types(f[k], text[k + 1]), AddCharacter(h[k], text[k + 1]))
    BY <2>3, CharacterReads
  <2>. QED BY <1>5, <1>6, <2>2, <2>4
<1>9. K \in SUBSET Nat
  OBVIOUS
<1>10. \A k \in Nat : k \in K
  <2>. HIDE DEF K
  <2>. QED BY <1>7, <1>8, <1>9, SetInduction
<1>. QED BY <1>1, <1>5, <1>6, <1>10

(* So is a program of them.                                                *)
LEMMA ProgramReads ==
  ASSUME NEW program \in Seq(Instructions), OnlyText(program)
  PROVE  HasTyped(FoldLeft(Plays, Idle, program), TextOf(program))
<1> DEFINE n == Len(program)
<1>1. n \in Nat /\ \A i \in 1 .. n : program[i] \in Instructions
  OBVIOUS
<1>2. PICK f : ProgramTrace(f, Idle, program)
  BY IdleType, ProgramFold
<1>3. << >> \in Read
  BY DEF Read
<1>4. PICK h : WordTrace(h, << >>, program)
  BY <1>3, WordFold
<1>. HIDE DEF n
<1>5. /\ f[0] = Idle /\ FoldLeft(Plays, Idle, program) = f[n]
      /\ \A i \in 1 .. n : f[i] = Plays(f[i - 1], program[i])
  BY <1>2 DEF ProgramTrace, n
<1>6. /\ h[0] = << >> /\ TextOf(program) = h[n]
      /\ \A i \in 0 .. n : h[i] \in Read
      /\ \A i \in 1 .. n : h[i] = AddText(h[i - 1], program[i])
  BY <1>4 DEF WordTrace, n, TextOf
<1> DEFINE K == {k \in Nat : k <= n => HasTyped(f[k], h[k])}
<1>7. HasTyped(Idle, << >>)
  <2>1. << >> \in Seq(Views) /\ Len(<< >>) = 0
    OBVIOUS
  <2>2. PICK t : HostTrace(t, NothingTyped, << >>)
    BY <2>1, NothingType, HostFold
  <2>3. HostAfter(<< >>) = NothingTyped
    BY <2>1, <2>2 DEF HostTrace, HostAfter
  <2>. QED BY <2>3, IdleType DEF HasTyped, Idle, NothingTyped
<1>8. 0 \in K
  BY <1>5, <1>6, <1>7
<1>9. ASSUME NEW k \in K PROVE k + 1 \in K
  <2>1. SUFFICES ASSUME k + 1 <= n PROVE HasTyped(f[k + 1], h[k + 1])
    OBVIOUS
  <2>2. k + 1 \in 1 .. n /\ (k + 1) - 1 = k /\ k <= n /\ k \in 0 .. n
    BY <1>1, <2>1
  <2>3. PICK i \in Instructions : i = program[k + 1]
    BY <1>1, <2>2
  <2>4. HasTyped(f[k], h[k]) /\ h[k] \in Read
    BY <1>6, <2>2
  <2>5. i.op \in {"STRING", "DELAY"}
    BY <2>2, <2>3 DEF OnlyText, n
  <2>6. i \in PlainInstructions /\ IsPlain(i)
    BY <2>5 DEF Instructions, IsPlain
  <2>7. Plays(f[k], i) = PlaysPlain(f[k], i)
    BY <2>6 DEF Plays
  <2>8. HasTyped(Plays(f[k], i), AddText(h[k], i))
    <3>1. CASE i.op = "STRING"
      <4>1. i.text \in Seq(Byte)
        BY <2>6, <3>1, PlainIs
      <4>2. PlaysPlain(f[k], i) = FoldLeft(Types, f[k], i.text)
        BY <3>1 DEF PlaysPlain
      <4>3. AddText(h[k], i) = FoldLeft(AddCharacter, h[k], i.text)
        BY <3>1 DEF AddText
      <4>. QED BY <2>4, <2>7, <4>1, <4>2, <4>3, TextReads
    <3>2. CASE i.op = "DELAY"
      BY <2>4, <2>7, <3>2 DEF PlaysPlain, AddText
    <3>. QED BY <2>5, <3>1, <3>2
  <2>. QED BY <1>5, <1>6, <2>2, <2>3, <2>8
<1>10. K \in SUBSET Nat
  OBVIOUS
<1>11. \A k \in Nat : k \in K
  <2>. HIDE DEF K
  <2>. QED BY <1>8, <1>9, <1>10, SetInduction
<1>. QED BY <1>1, <1>5, <1>6, <1>11

LEMMA MeaningReads ==
  ASSUME NEW program \in Seq(Instructions), OnlyText(program)
  PROVE  TypedBy(Meaning(program)) = TextOf(program)
<1> DEFINE last == FoldLeft(Plays, Idle, program)
           text == TextOf(program)
           v == [mods |-> 0, held |-> {}]
<1>1. /\ last \in Keyboards /\ last.shown \in Seq(Views)
      /\ HostAfter(last.shown) = [text |-> text, held |-> {}]
  BY ProgramReads DEF HasTyped, Keyboards
<1>2. Meaning(program) = Show(last, 0, {}).shown
  BY DEF Meaning
<1>. HIDE DEF last, text
<1>3. Show(last, 0, {}).shown = Append(last.shown, v)
  BY <1>1, Bytes, ShowType
<1>4. v \in Views
  BY Bytes DEF Views
<1>5. HostAfter(last.shown) \in Hosts
  BY <1>1, HostAfterType
<1>6. text \in Read
  BY <1>1, <1>5 DEF Hosts, Read
<1>7. HostAfter(Append(last.shown, v)) = [text |-> text, held |-> {}]
  BY <1>1, <1>6, Bytes, ReleasedReads
<1>8. TypedBy(Meaning(program)) = HostAfter(Append(last.shown, v)).text
  BY <1>2, <1>3 DEF TypedBy, HostAfter
<1>. QED BY <1>7, <1>8 DEF text

(* A program of STRINGs and DELAYs types its text: a host with a US        *)
(* keyboard reads every supported character of it, in order and once, and  *)
(* nothing else, whatever the texts and however many they are.             *)
THEOREM AlwaysTypesTheText == ProgramSpec => []TypesTheText
<1>1. PlaysTheProgram /\ (written # NoProgram => written \in Programs) => TypesTheText
  <2>. SUFFICES ASSUME PlaysTheProgram, written \in Programs,
                       state = "FINISHED", written # NoProgram, OnlyText(written)
                PROVE  TypedBy(Shown(Output)) = TextOf(written)
    BY DEF TypesTheText
  <2>1. Shown(Output) = Meaning(written)
    BY DEF PlaysTheProgram
  <2>2. PICK program \in Seq(Instructions) : program = written
    BY ProgramsAssumption
  <2>. QED BY <2>1, <2>2, MeaningReads
<1>2. ProgramInit => (written # NoProgram => written \in Programs)
  BY DEF ProgramInit
<1>3. /\ written # NoProgram => written \in Programs
      /\ [Next /\ UNCHANGED written]_<<vars, written>>
      => (written # NoProgram => written \in Programs)'
  OBVIOUS
<1>. QED BY <1>1, <1>2, <1>3, AlwaysPlaysTheProgram, PTL DEF ProgramSpec
=============================================================================
