------------------------------ MODULE MCEngine ------------------------------
(***************************************************************************)
(* An instance of ScriptEngine with the firmware's own bytes and keycode   *)
(* table.  It plays arbitrary bytes, well-formed programs, which are       *)
(* compared with their meaning, and strings, which the host reads back;    *)
(* and two statements of the documentation that the code does not keep.    *)
(***************************************************************************)
EXTENDS UsKeyboard

KeycodeOf == [c \in 0 .. 255 |-> KeycodeTable!keycode_from_ascii(c)]
MCKeycode(c) == KeycodeOf[c]

MCByteBase == 256
-----------------------------------------------------------------------------
(* Arbitrary bytes: the opcodes and characters whose keys are also         *)
(* operands, a (key 4) and C (key 6 with Shift).  Every script of up to    *)
(* three of them, and every one of four or five of the bytes that hold     *)
(* keys, repeat, delay or type.                                            *)
CharA == 97
CharC == 67

AnyBytes ==
  BoundedSeq((0 .. 9) \union {CharA, CharC}, 3) \union
  UNION {[1 .. n -> {OP_END, OP_DELAY, OP_KEY_DOWN, OP_REPEAT, OP_STRING, CharC}] :
           n \in 4 .. 5}
-----------------------------------------------------------------------------
(* Well-formed programs.                                                   *)
KeyA == 4
KeyB == 5
KeyC == 6

Plain == {Key("KEY_DOWN", KeyA), Key("KEY_DOWN", KeyB), Key("KEY_DOWN", KeyC),
          Key("KEY_UP", KeyA), Key("TAP", KeyB), Mod(1), Combo(4, KeyA),
          String(<<CharA, CharC, 200>>), Delay}

Blocks == {<<i>> : i \in Plain} \union
          {<<i, j>> : i \in {Key("KEY_DOWN", KeyA), Mod(1), Delay}, j \in Plain}

(* A REPEAT first, in the middle, and last in the block of another.        *)
Inner == Repeat(2, <<Key("TAP", KeyA)>>)
NestedBlocks ==
  {<<i, Inner, j>> : i \in {Mod(1), Key("KEY_DOWN", KeyB)}, j \in Plain}
  \union {<<i, Inner>> : i \in Plain}
  \union {<<Inner, i>> : i \in Plain}

(* Programs of up to three instructions, and a REPEAT between two.         *)
Compositions ==
  BoundedSeq(Plain, 3) \union
  {<<i, Repeat(n, b), j>> : i \in {Key("KEY_DOWN", KeyB), Mod(1)}, n \in 1 .. 3,
                            b \in Blocks \union NestedBlocks,
                            j \in {Key("TAP", KeyA), Repeat(2, <<Key("KEY_UP", KeyA)>>)}}

(* Strings: every character alone, every one after a shifted and after a   *)
(* plain character, and every one twice.                                   *)
Texts == {<<c>> : c \in Byte}
         \union {t \o <<c>> : t \in {<<CharA>>, <<CharC>>}, c \in Byte}
         \union {<<c, c>> : c \in Byte}

Strings == {<<String(t)>> : t \in Texts}

(* Definitions of their own, because TLC keeps their values and evaluates  *)
(* what a constant is replaced by again and again.                         *)
AllPrograms == (Compositions \union Strings) \ {NoProgram}
MCPrograms == AllPrograms
Written == {Encode(p) : p \in AllPrograms \union {NoProgram}}
AllScripts == AnyBytes \union Written
MCScripts == AllScripts
-----------------------------------------------------------------------------
(* "If bytecode reading extends beyond LENGTH: execution immediately       *)
(* terminates as if END was reached, all keys and modifiers are released"  *)
(* (script-bytecode-specification.md, Malformed Bytecode): when a script   *)
(* has stopped, the last report presses no modifier and no key (0 is none).*)
ErrorReleasesKeys ==
  Stopped => /\ LastReport.modifiers = 0
             /\ \A i \in 1 .. Len(LastReport.keys) : LastReport.keys[i] = 0

-----------------------------------------------------------------------------
(* What script-bytecode-specification.md says an instruction plays, where  *)
(* it differs from Meaning, which is what the code plays.                  *)
(*                                                                         *)
(* STRING "generates 2 reports per character", the second with the         *)
(* modifiers restored, and skips those that are not printable ASCII.       *)
DocumentedTypes(kb, char) ==
  LET c == keycode_of(char)
  IN  IF char \notin 32 .. 126 THEN kb
      ELSE Taps(kb, IF c.modifiers = 0 THEN kb.mods ELSE c.modifiers, kb.mods, c.keycode)

(* A KEY_DOWN of a held key and a KEY_UP of a released one generate no     *)
(* report.                                                                 *)
DocumentedPlain(kb, i) ==
  CASE i.op = "KEY_DOWN" /\ i.key \in kb.held -> kb
    [] i.op = "KEY_UP" /\ i.key \notin kb.held -> kb
    [] i.op = "STRING" -> FoldLeft(DocumentedTypes, kb, i.text)
    [] OTHER -> PlaysPlain(kb, i)

DocumentedInner(kb, i) == IF IsPlain(i) THEN DocumentedPlain(kb, i) ELSE kb
DocumentedBlock(kb, block) == FoldLeft(DocumentedInner, kb, block)

(* A REPEAT of 0 iterations skips its block, and one of size 0 does        *)
(* nothing.                                                                *)
Documented(kb, i) ==
  IF IsPlain(i) THEN DocumentedPlain(kb, i)
  ELSE FoldLeft(DocumentedBlock, kb, [n \in 1 .. i.times |-> i.block])

DocumentedMeaning(program) == Show(FoldLeft(Documented, Idle, program), 0, {}).shown

(* Each case once: the second KEY_DOWN and KEY_UP, a shifted character, a  *)
(* control code, a REPEAT of nothing before a TAP, and one of no times.    *)
Differing ==
  <<Key("KEY_DOWN", KeyA), Key("KEY_DOWN", KeyA), Key("KEY_UP", KeyA), Key("KEY_UP", KeyA),
    String(<<CharC>>), String(<<10>>), Repeat(3, << >>), Key("TAP", KeyB),
    Repeat(0, <<Mod(1)>>)>>

DifferingScript == {Encode(Differing)}
DocumentedScripts == DifferingScript

(* A script that has stopped has shown the host the reports that           *)
(* script-bytecode-specification.md says its instructions generate         *)
(* (KEY_DOWN, KEY_UP, REPEAT, STRING), no more and no fewer.  (op_key_down,*)
(* op_key_up, op_string, check_repeat.)                                    *)
PlaysAsDocumented ==
  Stopped /\ script = Encode(Differing) => Shown(Output) = DocumentedMeaning(Differing)
=============================================================================
