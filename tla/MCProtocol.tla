----------------------------- MODULE MCProtocol -----------------------------
(***************************************************************************)
(* A small instance of Protocol: bytes of two bits, words of four, a       *)
(* script of at most four bytes, so that a length needs both bytes of its  *)
(* word, and the algorithm of crc16.c at that width (polynomial x^4+x+1).  *)
(***************************************************************************)
EXTENDS Protocol

Crc == INSTANCE Crc16 WITH BitsPerByte <- 2, CRC16_POLY <- 3, CRC16_INIT <- 15

MCCrcInit == Crc!crc16_init
MCCrcUpdate(crc, byte) == Crc!crc16_update(crc, byte)
MCCrcOf(bytes) == Crc!crc16_of(bytes)

Image(version, length, crc, script) ==
  [a \in 0 .. 11 |->
     CASE a = 0 -> version
       [] a = 4 -> length % 4 [] a = 5 -> length \div 4
       [] a = 6 -> crc % 4 [] a = 7 -> crc \div 4
       [] a >= 8 -> script[a - 7]
       [] a = 2 -> 2 [] a = 3 -> 1
       [] OTHER -> 0]

Erased == [a \in 0 .. 11 |-> 3]
OldScript == <<2, 1, 2, 1>>

MCImages ==
  {Erased,                                       \* a new device
   Image(1, 4, MCCrcOf(OldScript), OldScript),   \* a committed script
   Image(1, 7, 0, OldScript)}                    \* a length above the limit

Commits(from_eeprom, lengths) ==
  [command : {"COMMIT"}, from_eeprom : from_eeprom, version : {1}, flags : {0},
   delay : {6}, length : lengths, crc : {MCCrcOf(<<1, 2, 2>>)}]

(* Appending <<1, 2>> and <<2>> gives the checksum the COMMITs carry; each *)
(* limit is exceeded by one report.                                        *)
MCReports ==
  [command : {"WRITE"}, address : {4, 9, 11, 12}, length : {2}, data : {<<3, 0>>}]
  \union [command : {"READ"}, address : {9}, length : {2, 3}]
  \union [command : {"READ"}, address : {12}, length : {2}]
  \union [command : {"APPEND"}, length : {0, 2, 3}, data : {<<1, 2>>}]
  \union [command : {"APPEND"}, length : {1}, data : {<<2, 2>>}]
  \union Commits(BOOLEAN, {3, 4})
  \union Commits({TRUE}, {0, 5})
  \union [command : {"RESET", "STATUS", "EXIT", "INVALID"}]
=============================================================================
