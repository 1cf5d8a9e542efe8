------------------------------- MODULE Crc16 -------------------------------
(***************************************************************************)
(* crc16.c: the bit-by-bit CRC-16/CCITT-FALSE of a byte sequence.          *)
(*                                                                         *)
(* The code works on 8-bit bytes and 16-bit words, with polynomial 0x1021  *)
(* and initial value 0xFFFF (config.h).  Here the number of bits of a byte *)
(* is a parameter, and a word is always two bytes wide, so the modules     *)
(* that use the checksum can be model-checked with narrower bytes by the   *)
(* same algorithm; the module's own run uses the real widths.              *)
(***************************************************************************)
EXTENDS Naturals, Sequences

CONSTANTS
  BitsPerByte,  \* 8
  CRC16_POLY,   \* 0x1021
  CRC16_INIT    \* 0xFFFF

WordBits == 2 * BitsPerByte
ByteLimit == 2 ^ BitsPerByte
WordLimit == 2 ^ WordBits

ASSUME Crc16Assumption ==
  /\ BitsPerByte \in Nat \ {0}
  /\ CRC16_POLY \in 0 .. WordLimit - 1 /\ CRC16_POLY % 2 = 1
  /\ CRC16_INIT \in 0 .. WordLimit - 1
-----------------------------------------------------------------------------
(* Bit i of a word, and the bitwise exclusive or of two words.             *)
Bit(w, i) == (w \div 2^i) % 2

Xor(a, b) ==
  LET low[n \in 0 .. WordBits] ==  \* the exclusive or of the low n bits
        IF n = 0 THEN 0
        ELSE low[n - 1] + 2^(n - 1) * ((Bit(a, n - 1) + Bit(b, n - 1)) % 2)
  IN  IF a = 0 THEN b ELSE IF b = 0 THEN a ELSE low[WordBits]

(* Mutant: the round forgets the polynomial.                               *)
shift_without_poly(crc) == (2 * crc) % WordLimit

(* One round of the loop: shift the top bit out of the word and, when it   *)
(* was set, subtract the polynomial.                                       *)
crc16_shift(crc) ==
  LET shifted == (2 * crc) % WordLimit
  IN  IF Bit(crc, WordBits - 1) = 1 THEN Xor(shifted, CRC16_POLY) ELSE shifted

crc16_init == CRC16_INIT

(* Mutant: the loop stops one round early.                                 *)
update_short_loop(crc, byte) ==
  LET round[i \in 0 .. BitsPerByte - 1] ==
        IF i = 0 THEN Xor(crc, byte * ByteLimit) ELSE crc16_shift(round[i - 1])
  IN  round[BitsPerByte - 1]

crc16_update(crc, byte) ==
  LET round[i \in 0 .. BitsPerByte] ==
        IF i = 0 THEN Xor(crc, byte * ByteLimit) ELSE crc16_shift(round[i - 1])
  IN  round[BitsPerByte]

crc16_finalize(crc) == crc

(* The loop the callers write around the three functions.                  *)
crc16_of(bytes) ==
  LET crc[i \in 0 .. Len(bytes)] ==
        IF i = 0 THEN crc16_init ELSE crc16_update(crc[i - 1], bytes[i])
  IN  crc16_finalize(crc[Len(bytes)])
=============================================================================
