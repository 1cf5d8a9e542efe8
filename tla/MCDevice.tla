------------------------------ MODULE MCDevice ------------------------------
(***************************************************************************)
(* The instance of MCProtocol with fewer reports, on a device that is      *)
(* reset in every way.                                                     *)
(***************************************************************************)
EXTENDS DeviceMode, MCProtocol

(* An upload of three bytes in two reports, COMMITs of it, which fail when *)
(* it is incomplete, a WRITE that goes over it, and EXIT.                  *)
DeviceReports ==
  [command : {"APPEND"}, length : {2}, data : {<<1, 2>>}]
  \union [command : {"APPEND"}, length : {1}, data : {<<2, 2>>}]
  \union [command : {"WRITE"}, address : {9}, length : {2}, data : {<<3, 0>>}]
  \union Commits(BOOLEAN, {3})
  \union [command : {"EXIT"}]

DeviceImages == {Image(1, 4, MCCrcOf(OldScript), OldScript)}

(* "Validation Requirements: [...] CRC16 must match computed checksum of   *)
(* bytecode" (script-bytecode-specification.md, Header Layout): what       *)
(* keyboard mode plays has the CRC its header says.                        *)
PlayedCrcMatches ==
  mode = "keyboard" /\ cache.valid =>
    CrcOf(PlayedScript) = read_u16(eeprom, HEADER_OFFSET_CRC)
=============================================================================
