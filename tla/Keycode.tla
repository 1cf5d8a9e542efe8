------------------------------ MODULE Keycode ------------------------------
(***************************************************************************)
(* keycode.c: the key, and whether it needs Shift, that types a character  *)
(* on a US keyboard.                                                       *)
(***************************************************************************)
EXTENDS Naturals, Sequences

SHIFT_FLAG == \h80

TABLE_OFFSET == 8
TABLE_SIZE == 119   \* ASCII 8 to 126

MOD_NONE == 0
MOD_SHIFT == 2

Masked(entry) == entry % SHIFT_FLAG   \* & KEYCODE_MASK
-----------------------------------------------------------------------------
None(n) == [i \in 1 .. n |-> 0]
Shift(keys) == [i \in 1 .. Len(keys) |-> SHIFT_FLAG + keys[i]]
Letters == [i \in 1 .. 26 |-> \h03 + i]

(* Mutant: the table starts a character late.                              *)
table_off_by_one ==
  <<\h2B, \h28>> \o None(16) \o <<\h29>> \o None(4) \o <<\h2C>>
  \o Shift(<<\h1E, \h34, \h20, \h21, \h22, \h24>>) \o <<\h34>>
  \o Shift(<<\h26, \h27, \h25, \h2E>>) \o <<\h36, \h2D, \h37, \h38, \h27>>
  \o [i \in 1 .. 9 |-> \h1D + i]
  \o <<SHIFT_FLAG + \h33, \h33, SHIFT_FLAG + \h36, \h2E>>
  \o Shift(<<\h37, \h38, \h1F>>) \o Shift(Letters)
  \o <<\h2F, \h31, \h30>> \o Shift(<<\h23, \h2D>>) \o <<\h35>>
  \o Letters \o Shift(<<\h2F, \h31, \h30, \h35>>) \o None(1)

(* A byte each: Backspace, Tab, Enter; Escape; Space to &, ', ( to +,      *)
(* comma to 0, 1 to 9, : to =, > to @, A to Z, [ \ ], ^ and _, `, a to z,  *)
(* { to ~.                                                                 *)
ascii_to_keycode ==
  <<\h2A, \h2B, \h28>> \o None(16) \o <<\h29>> \o None(4) \o <<\h2C>>
  \o Shift(<<\h1E, \h34, \h20, \h21, \h22, \h24>>) \o <<\h34>>
  \o Shift(<<\h26, \h27, \h25, \h2E>>) \o <<\h36, \h2D, \h37, \h38, \h27>>
  \o [i \in 1 .. 9 |-> \h1D + i]
  \o <<SHIFT_FLAG + \h33, \h33, SHIFT_FLAG + \h36, \h2E>>
  \o Shift(<<\h37, \h38, \h1F>>) \o Shift(Letters)
  \o <<\h2F, \h31, \h30>> \o Shift(<<\h23, \h2D>>) \o <<\h35>>
  \o Letters \o Shift(<<\h2F, \h31, \h30, \h35>>)

(* The index is a byte: a character below the table wraps to one above it. *)
keycode_from_ascii(c) ==
  LET index == (c + 256 - TABLE_OFFSET) % 256
      entry == IF index < TABLE_SIZE THEN ascii_to_keycode[index + 1] ELSE 0
  IN  [keycode |-> Masked(entry),
       modifiers |-> IF entry >= SHIFT_FLAG THEN MOD_SHIFT ELSE MOD_NONE]
=============================================================================
