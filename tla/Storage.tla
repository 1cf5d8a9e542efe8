------------------------------ MODULE Storage ------------------------------
(***************************************************************************)
(* eeprom_storage.c: the script image in the EEPROM and the header fields  *)
(* the firmware caches in RAM.                                             *)
(*                                                                         *)
(* The EEPROM is a function from addresses to bytes: a header of 8 bytes   *)
(* (version, flags, delay, length, CRC; words little-endian) and then the  *)
(* script.  The operators are the functions of the file.  Those that       *)
(* change several bytes are given as the sequence of the single-byte       *)
(* writes they make, in order, because the power may fail between two of   *)
(* them; the module that calls them performs the writes one per step.      *)
(* Programming one byte is taken to be atomic.                             *)
(*                                                                         *)
(* The widths are parameters: the code has 256 byte values, 504 script     *)
(* bytes and the checksum of crc16.c (module Crc16).                       *)
(***************************************************************************)
EXTENDS Integers, Sequences, SequencesExt

CONSTANTS
  ByteBase,           \* number of values of a byte (256); a word is two bytes
  MaxScript,          \* STORAGE_MAX_SCRIPT_SIZE (504)
  PayloadVersion,     \* STORAGE_PAYLOAD_VERSION (0x1A)
  CrcInit,         \* crc16.c
  CrcUpdate(_, _), \* crc16.c
  CrcOf(_)         \* the callers' loop over CrcUpdate, as a function

HEADER_OFFSET_VERSION == 0
HEADER_OFFSET_FLAGS == 1
HEADER_OFFSET_DELAY == 2
HEADER_OFFSET_LENGTH == 4
HEADER_OFFSET_CRC == 6
STORAGE_SCRIPT_START == 8

Byte == 0 .. ByteBase - 1
Word == 0 .. ByteBase * ByteBase - 1
STORAGE_EEPROM_SIZE == STORAGE_SCRIPT_START + MaxScript
Address == 0 .. STORAGE_EEPROM_SIZE - 1

(* Byte values include the two a torn length can have; every address is a  *)
(* word.                                                                   *)
ASSUME StorageAssumption ==
  /\ ByteBase \in Nat /\ ByteBase > 1
  /\ MaxScript \in Nat /\ MaxScript > 0
  /\ STORAGE_EEPROM_SIZE < ByteBase * ByteBase
  /\ PayloadVersion \in Byte

(* What the callers rely on: a word in and out of the update, and the loop *)
(* over a sequence is the loop over all but its last byte and one update.  *)
ASSUME CrcAssumption ==
  /\ CrcInit \in Word
  /\ \A crc \in Word, byte \in Byte : CrcUpdate(crc, byte) \in Word
  /\ CrcOf(<< >>) = CrcInit
  /\ \A bytes \in BoundedSeq(Byte, MaxScript) : CrcOf(bytes) \in Word
  /\ \A bytes \in BoundedSeq(Byte, MaxScript - 1), byte \in Byte :
       CrcOf(Append(bytes, byte)) = CrcUpdate(CrcOf(bytes), byte)

VARIABLES
  eeprom,  \* the EEPROM: survives every reset
  cache    \* static struct cache: the header fields, in RAM

Eeprom == [Address -> Byte]
Cache == [valid : BOOLEAN, flags : Byte, delay : Word, length : Word]

(* Static storage is zero when main starts.                                *)
ZeroCache == [valid |-> FALSE, flags |-> 0, delay |-> 0, length |-> 0]

StorageTypeOK == eeprom \in Eeprom /\ cache \in Cache
-----------------------------------------------------------------------------
(* Reading.                                                                *)
read_u16(e, addr) == e[addr] + ByteBase * e[addr + 1]

Script(e, length) == [i \in 1 .. length |-> e[STORAGE_SCRIPT_START + i - 1]]

(* Out of range, every bit reads as one.                                   *)
storage_read_byte(e, address) ==
  IF address < STORAGE_EEPROM_SIZE THEN e[address] ELSE ByteBase - 1

storage_read_bytes(e, address, length) ==
  [i \in 1 .. length |-> storage_read_byte(e, address + i - 1)]

LengthOK(length) == length > 0 /\ length <= MaxScript

(* Mutant: the length is read with its bytes swapped.                      *)
validate_header_swapped(e, c) ==
  IF e[HEADER_OFFSET_VERSION] # PayloadVersion
  THEN [c EXCEPT !.valid = FALSE]
  ELSE LET length == e[HEADER_OFFSET_LENGTH + 1] + ByteBase * e[HEADER_OFFSET_LENGTH]
       IN  [valid |-> LengthOK(length), flags |-> e[HEADER_OFFSET_FLAGS],
            delay |-> read_u16(e, HEADER_OFFSET_DELAY), length |-> length]

(* The cache after validate_header: a wrong version only clears valid.     *)
validate_header(e, c) ==
  IF e[HEADER_OFFSET_VERSION] # PayloadVersion
  THEN [c EXCEPT !.valid = FALSE]
  ELSE [valid |-> LengthOK(read_u16(e, HEADER_OFFSET_LENGTH)),
        flags |-> e[HEADER_OFFSET_FLAGS],
        delay |-> read_u16(e, HEADER_OFFSET_DELAY),
        length |-> read_u16(e, HEADER_OFFSET_LENGTH)]

ValidImage(e) == validate_header(e, ZeroCache).valid

storage_verify_crc(e, length, expected_crc) ==
  LengthOK(length) /\ CrcOf(Script(e, length)) = expected_crc
-----------------------------------------------------------------------------
(* Writing.  A write is a record of an address and a byte.                 *)
Put(address, byte) == [address |-> address, byte |-> byte]
Lo(word) == word % ByteBase
Hi(word) == word \div ByteBase

(* Out of range, the byte is silently dropped.                             *)
storage_write_byte(e, put) ==
  IF put.address < STORAGE_EEPROM_SIZE
  THEN [e EXCEPT ![put.address] = put.byte] ELSE e

storage_write_bytes(address, data, length) ==
  [i \in 1 .. length |-> Put(address + i - 1, data[i])]

(* Mutant: the length is left out of the header.                           *)
write_header_without_length(version, flags, delay, length, crc) ==
  << Put(HEADER_OFFSET_VERSION, version), Put(HEADER_OFFSET_FLAGS, flags),
     Put(HEADER_OFFSET_DELAY, Lo(delay)), Put(HEADER_OFFSET_DELAY + 1, Hi(delay)),
     Put(HEADER_OFFSET_LENGTH, Lo(length)),
     Put(HEADER_OFFSET_CRC, Lo(crc)), Put(HEADER_OFFSET_CRC + 1, Hi(crc)) >>

storage_write_header(version, flags, delay, length, crc) ==
  << Put(HEADER_OFFSET_VERSION, version), Put(HEADER_OFFSET_FLAGS, flags),
     Put(HEADER_OFFSET_DELAY, Lo(delay)), Put(HEADER_OFFSET_DELAY + 1, Hi(delay)),
     Put(HEADER_OFFSET_LENGTH, Lo(length)), Put(HEADER_OFFSET_LENGTH + 1, Hi(length)),
     Put(HEADER_OFFSET_CRC, Lo(crc)), Put(HEADER_OFFSET_CRC + 1, Hi(crc)) >>

(* The cache after storage_write_header: the version is not looked at.     *)
cache_header(flags, delay, length) ==
  [valid |-> LengthOK(length), flags |-> flags, delay |-> delay, length |-> length]

(* Mutant: only the low byte of the length is cleared.                     *)
invalidate_low_byte == << Put(HEADER_OFFSET_LENGTH, 0) >>

storage_invalidate_script ==
  << Put(HEADER_OFFSET_LENGTH, 0), Put(HEADER_OFFSET_LENGTH + 1, 0) >>

cache_invalidated(c) == [c EXCEPT !.valid = FALSE, !.length = 0]

(* storage_init, run by main on the zeroed static storage.                 *)
StorageInit(e) == validate_header(e, ZeroCache)
=============================================================================
