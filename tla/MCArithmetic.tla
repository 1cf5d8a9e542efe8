---------------------------- MODULE MCArithmetic ----------------------------
(***************************************************************************)
(* The program's two calculations, each from its own inputs: the search    *)
(* for the oscillator's value, and the checksum.                           *)
(*                                                                         *)
(* The search is made on a register of three bits, and on every oscillator *)
(* of five frame lengths that rises within each half of the register: the  *)
(* ATtiny85's has two ranges, and the second starts below the end of the   *)
(* first.                                                                  *)
(*                                                                         *)
(* A host then feeds the device bytes one at a time, as APPEND does; on    *)
(* one of the oscillators, because the checksum does not depend on it.     *)
(* The running value is compared with the definition of a CRC, after every *)
(* byte: the remainder of the message, followed by WordBits zero bits, on  *)
(* division by the generator polynomial over GF(2).                        *)
(***************************************************************************)
EXTENDS Oscillator, Crc16, FiniteSetsExt

CONSTANTS
  Bytes,       \* the byte values the host sends
  MaxMessage   \* bound: the longest message

ASSUME ArithmeticAssumption ==
  Bytes \subseteq 0 .. ByteLimit - 1 /\ MaxMessage \in Nat

VARIABLES message, crc
arithmetic_vars == <<vars, message, crc>>

RisesOver(f, low, high) == \A v \in low .. high - 1 : f[v] <= f[v + 1]

MCFrames ==
  {f \in [0 .. 7 -> 4 .. 8] : RisesOver(f, 0, 3) /\ RisesOver(f, 4, 7)}

Exact == [v \in Register |-> target_value]

ArithmeticInit == Init /\ message = << >> /\ crc = crc16_init

Calibrate == Next /\ UNCHANGED <<message, crc>>

Feed(byte) ==
  /\ phase = "done" /\ frame = Exact
  /\ Len(message) < MaxMessage
  /\ message' = Append(message, byte)
  /\ crc' = crc16_update(crc, byte)
  /\ UNCHANGED vars

ArithmeticNext == Calibrate \/ \E byte \in Bytes : Feed(byte)

ArithmeticSpec ==
  ArithmeticInit /\ [][ArithmeticNext]_arithmetic_vars /\ WF_vars(Calibrate)
-----------------------------------------------------------------------------
(* A polynomial over GF(2) is the set of its exponents; adding two is the  *)
(* symmetric difference.                                                   *)
TimesX(p, n) == {e + n : e \in p}
PolyOf(w, bits) == {i \in 0 .. bits - 1 : Bit(w, i) = 1}

Generator == PolyOf(CRC16_POLY, WordBits) \union {WordBits}

MessagePoly(m) ==
  UNION {TimesX(PolyOf(m[i], BitsPerByte), BitsPerByte * (Len(m) - i)) :
           i \in 1 .. Len(m)}

(* The initial value is added to the first bits of the padded message.     *)
Dividend(m) ==
  SymDiff(TimesX(MessagePoly(m), WordBits),
       TimesX(PolyOf(CRC16_INIT, WordBits), BitsPerByte * Len(m)))

(* Long division, from the highest exponent down to WordBits.              *)
Remainder(m) ==
  LET top == WordBits + BitsPerByte * Len(m)
      from[k \in WordBits .. top] ==
        IF k = top THEN Dividend(m)
        ELSE LET rest == from[k + 1]
             IN  IF k \in rest
                 THEN SymDiff(rest, TimesX(Generator, k - WordBits)) ELSE rest
  IN  from[WordBits]

(* The running value of crc16_update is the CRC the name promises, after   *)
(* every byte: the remainder of the division.                              *)
RunningIsRemainder == PolyOf(crc, WordBits) = Remainder(message)

(* A script of which one stored byte differs from the byte that was        *)
(* checksummed never has the same CRC: a COMMIT that re-reads the EEPROM   *)
(* detects one wrong byte wherever it is.                                  *)
OneWrongByteDetected ==
  \A i \in 1 .. Len(message) : \A b \in Bytes \ {message[i]} :
    crc16_of([message EXCEPT ![i] = b]) # crc
=============================================================================
