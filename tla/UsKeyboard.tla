----------------------------- MODULE UsKeyboard -----------------------------
(***************************************************************************)
(* What a host with a US keyboard reads from the reports, with the bytes   *)
(* and the keycode table of the firmware.                                  *)
(***************************************************************************)
EXTENDS ScriptMeaning

KeycodeTable == INSTANCE Keycode

(* The engine is built with keycode.c, and its bytes have eight bits.      *)
ASSUME FirmwareAssumption ==
  /\ ByteBase = 256
  /\ \A c \in Byte : keycode_of(c) = KeycodeTable!keycode_from_ascii(c)
-----------------------------------------------------------------------------
(* The character of a key, and that of the key with Shift                  *)
(* (hid-keycodes-reference.md: Letters, Numbers, Special Keys, Punctuation *)
(* and Symbols).                                                           *)
Numbers == <<<<49, 33>>, <<50, 64>>, <<51, 35>>, <<52, 36>>, <<53, 37>>, <<54, 94>>,
             <<55, 38>>, <<56, 42>>, <<57, 40>>, <<48, 41>>>>
SpecialKeys == <<10, 27, 8, 9, 32>>
Punctuation == <<<<45, 95>>, <<61, 43>>, <<91, 123>>, <<93, 125>>, <<92, 124>>, <<35, 126>>,
                 <<59, 58>>, <<39, 34>>, <<96, 126>>, <<44, 60>>, <<46, 62>>, <<47, 63>>>>

UsLayout ==
  [key \in \h04 .. \h38 |->
     IF key <= \h1D THEN <<97 + key - \h04, 65 + key - \h04>>
     ELSE IF key <= \h27 THEN Numbers[key - \h1D]
     ELSE IF key <= \h2C THEN <<SpecialKeys[key - \h27], SpecialKeys[key - \h27]>>
     ELSE Punctuation[key - \h2C]]

(* The host types the character of the key that a report presses and the   *)
(* report before it did not.                                               *)
NothingTyped == [text |-> << >>, held |-> {}]

HostReads(host, report) ==
  LET pressed == (report.held \ host.held) \intersect DOMAIN UsLayout
      characters == UsLayout[CHOOSE key \in pressed : TRUE]
  IN  [text |-> IF pressed = {} THEN host.text
                ELSE Append(host.text, characters[IF report.mods = 0 THEN 1 ELSE 2]),
       held |-> report.held]

TypedBy(reports) == FoldLeft(HostReads, NothingTyped, reports).text
-----------------------------------------------------------------------------
(* What the documentation promises to type (script-bytecode-specification, *)
(* STRING: 32 to 126), and the four control characters that it does not    *)
(* list and the table has: backspace, tab, newline and escape.             *)
Supported(c) == c \in 32 .. 126 \/ c \in {8, 9, 10, 27}

AddCharacter(text, c) == IF Supported(c) THEN Append(text, c) ELSE text

AddText(text, i) == IF i.op = "STRING" THEN FoldLeft(AddCharacter, text, i.text) ELSE text

TextOf(program) == FoldLeft(AddText, << >>, program)

OnlyText(program) == \A n \in 1 .. Len(program) : program[n].op \in {"STRING", "DELAY"}

(* A program of STRINGs, with DELAYs between them, types its text: a host  *)
(* with a US keyboard reads back every supported character, whatever was   *)
(* typed before it, the same character twice in a row included, and        *)
(* nothing for the characters that no key has.  (keycode_from_ascii,       *)
(* op_string, send_report.)                                                *)
TypesTheText ==
  state = "FINISHED" /\ written # NoProgram /\ OnlyText(written) =>
    TypedBy(Shown(Output)) = TextOf(written)
=============================================================================
