--------------------------- MODULE ScriptMeaning ---------------------------
(***************************************************************************)
(* What a well-formed script means, without bytes, pointers or counters: a *)
(* program is a sequence of instructions, a REPEAT holds its block, and a  *)
(* keyboard holds a set of keys.  Module ScriptEngine is checked against   *)
(* it: it has to send Meaning(program) when the EEPROM holds               *)
(* Encode(program).                                                        *)
(*                                                                         *)
(* The meaning is that of the code.  script-bytecode-specification.md      *)
(* gives a KEY_DOWN of a held key and a KEY_UP of a released one no        *)
(* report, where the code sends one; a shifted character of a STRING two   *)
(* reports, where it sends three; and only printable ASCII a key, where    *)
(* its table has four control codes too.  PlaysAsDocumented (MCEngine) is  *)
(* the statement that the code does not keep.                              *)
(***************************************************************************)
EXTENDS ScriptEngine, SequencesExt

CONSTANT Programs  \* the programs the EEPROM may hold

Key(op, key) == [op |-> op, key |-> key]
Delay == [op |-> "DELAY"]
Mod(mask) == [op |-> "MOD", mask |-> mask]
Combo(mask, key) == [op |-> "COMBO", mask |-> mask, key |-> key]
String(text) == [op |-> "STRING", text |-> text]
Repeat(times, block) == [op |-> "REPEAT", times |-> times, block |-> block]
IsPlain(i) == i.op # "REPEAT"
-----------------------------------------------------------------------------
(* The bytes of a program.  The block of a REPEAT may hold a REPEAT, whose *)
(* own block holds none.                                                   *)
EncodePlain(i) ==
  CASE i.op = "KEY_DOWN" -> <<OP_KEY_DOWN, i.key>>
    [] i.op = "KEY_UP" -> <<OP_KEY_UP, i.key>>
    [] i.op = "TAP" -> <<OP_TAP, i.key>>
    [] i.op = "DELAY" -> <<OP_DELAY, 1, 0>>
    [] i.op = "MOD" -> <<OP_MOD, i.mask>>
    [] i.op = "COMBO" -> <<OP_COMBO, i.mask, i.key>>
    [] i.op = "STRING" -> <<OP_STRING, Len(i.text)>> \o i.text

EncodePlainBlock(block) == FlattenSeq([n \in 1 .. Len(block) |-> EncodePlain(block[n])])

EncodeRepeat(times, bytes) == <<OP_REPEAT, times, Len(bytes)>> \o bytes

EncodeInner(i) ==
  IF IsPlain(i) THEN EncodePlain(i) ELSE EncodeRepeat(i.times, EncodePlainBlock(i.block))

EncodeBlock(block) == FlattenSeq([n \in 1 .. Len(block) |-> EncodeInner(block[n])])

EncodeOne(i) ==
  IF IsPlain(i) THEN EncodePlain(i) ELSE EncodeRepeat(i.times, EncodeBlock(i.block))

Encode(program) ==
  Append(FlattenSeq([n \in 1 .. Len(program) |-> EncodeOne(program[n])]), OP_END)
-----------------------------------------------------------------------------
(* The well-formed programs: operands and lengths fit their bytes, and a   *)
(* REPEAT that is not ignored repeats something, at least once.            *)
PlainInstructions ==
  [op : {"KEY_DOWN", "KEY_UP", "TAP"}, key : Byte]
  \union [op : {"DELAY"}]
  \union [op : {"MOD"}, mask : Byte]
  \union [op : {"COMBO"}, mask : Byte, key : Byte]
  \union [op : {"STRING"}, text : {t \in Seq(Byte) : Len(t) < ByteBase}]

InnerInstructions ==
  PlainInstructions \union
  {r \in [op : {"REPEAT"}, times : Byte, block : Seq(PlainInstructions)] :
     Len(EncodePlainBlock(r.block)) < ByteBase}

Instructions ==
  PlainInstructions \union
  {r \in [op : {"REPEAT"}, times : Byte \ {0}, block : Seq(InnerInstructions) \ {<< >>}] :
     Len(EncodeBlock(r.block)) < ByteBase}

ASSUME ProgramsAssumption ==
  /\ Programs \subseteq Seq(Instructions)
  /\ \A program \in Programs : Encode(program) \in Scripts
-----------------------------------------------------------------------------
(* A keyboard: its modifiers, the keys it holds, and what it has shown.    *)
Idle == [mods |-> 0, held |-> {}, shown |-> << >>]

Press(held, key) ==
  IF Cardinality(held \union {key}) > MaxKeys THEN held ELSE held \union {key}

Show(kb, mods, held) == [kb EXCEPT !.shown = Append(@, [mods |-> mods, held |-> held])]

Taps(kb, mods, after, key) ==
  LET pressed == Press(kb.held, key)
      down == Show(kb, mods, pressed)
  IN  [Show(down, after, pressed \ {key}) EXCEPT !.held = pressed \ {key}]

(* A shifted character restores the modifiers in a report of its own, the  *)
(* third, which the specification does not have.                           *)
Types(kb, char) ==
  LET c == keycode_of(char)
      typed == Taps(kb, c.modifiers, c.modifiers, c.keycode)
  IN  IF c.keycode = 0 THEN kb
      ELSE IF c.modifiers = 0 THEN Taps(kb, kb.mods, kb.mods, c.keycode)
      ELSE Show(typed, kb.mods, typed.held)

(* A KEY_DOWN and a KEY_UP that change nothing send their report all the   *)
(* same, which the specification says they do not.                         *)
PlaysPlain(kb, i) ==
  CASE i.op = "KEY_DOWN" ->
         [Show(kb, kb.mods, Press(kb.held, i.key)) EXCEPT !.held = Press(kb.held, i.key)]
    [] i.op = "KEY_UP" ->
         [Show(kb, kb.mods, kb.held \ {i.key}) EXCEPT !.held = kb.held \ {i.key}]
    [] i.op = "TAP" -> Taps(kb, kb.mods, kb.mods, i.key)
    [] i.op = "DELAY" -> kb
    [] i.op = "MOD" -> [Show(kb, i.mask, kb.held) EXCEPT !.mods = i.mask]
    [] i.op = "COMBO" -> Taps(kb, i.mask, kb.mods, i.key)
    [] i.op = "STRING" -> FoldLeft(Types, kb, i.text)

(* A REPEAT in a block is ignored.                                         *)
PlaysInner(kb, i) == IF IsPlain(i) THEN PlaysPlain(kb, i) ELSE kb
PlaysBlock(kb, block) == FoldLeft(PlaysInner, kb, block)

Plays(kb, i) ==
  IF IsPlain(i) THEN PlaysPlain(kb, i)
  ELSE FoldLeft(PlaysBlock, kb, [n \in 1 .. i.times |-> i.block])

Meaning(program) == Show(FoldLeft(Plays, Idle, program), 0, {}).shown
-----------------------------------------------------------------------------
(* A report as the host sees it: the order of the keys does not matter.    *)
Shown(reports) ==
  [n \in 1 .. Len(reports) |->
     [mods |-> reports[n].modifiers,
      held |-> {reports[n].keys[i] : i \in 1 .. Len(reports[n].keys)}]]
-----------------------------------------------------------------------------
(* The program written to the EEPROM; NoProgram for arbitrary bytes.       *)
VARIABLE written
NoProgram == << >>

ProgramInit ==
  /\ \/ written = NoProgram /\ script \in Scripts
     \/ written \in Programs /\ script = Encode(written)
  /\ Init

ProgramSpec ==
  ProgramInit /\ [][Next /\ UNCHANGED written]_<<vars, written>> /\ Fairness

(* A well-formed program plays what it means: the host is shown exactly    *)
(* the reports of its instructions, in order, none lost or repeated, with  *)
(* REPEAT blocks run as often as they say and inner ones skipped, and the  *)
(* program stops at its END.  Which reports an instruction has is taken    *)
(* from its handler in script_engine.c, not from the specification; that   *)
(* they arrive in every mixture of instructions is what is checked.        *)
PlaysTheProgram ==
  written # NoProgram =>
    /\ IsPrefix(Shown(Output), Meaning(written))
    /\ state = "FINISHED" => Shown(Output) = Meaning(written)
    /\ state # "ERROR"
=============================================================================
