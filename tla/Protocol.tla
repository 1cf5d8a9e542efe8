------------------------------ MODULE Protocol ------------------------------
(***************************************************************************)
(* hid_protocol.c: the commands a host uses in programming mode to read    *)
(* and write the EEPROM and to put a script in it.                         *)
(*                                                                         *)
(* A report is handled by one call of protocol_process_report.  A handler  *)
(* that writes nothing is one action.  A handler that writes the EEPROM    *)
(* (WRITE, APPEND, COMMIT) is split at the bytes it programs, since the    *)
(* power may fail between any two of them: it validates its arguments      *)
(* (action XxxCommand), programs the bytes of Writes in order (StoreByte)  *)
(* and returns (ReturnXxx).  No other code runs in between: the firmware   *)
(* calls the handler from its only loop.                                   *)
(*                                                                         *)
(* Reports are records of their decoded fields; the transport that fills   *)
(* the report buffer is not part of this module.                           *)
(***************************************************************************)
EXTENDS Storage

CONSTANTS
  MaxWriteData,   \* PROTOCOL_MAX_WRITE_DATA (27)
  MaxAppendData,  \* PROTOCOL_MAX_APPEND_DATA (29)
  MaxReadData,    \* PROTOCOL_MAX_READ_DATA (29)
  Reports,        \* the reports the host may send
  Images          \* what the EEPROM may hold when the device is first powered

WriteReport == [command : {"WRITE"}, address : Word, length : Word,
                data : [1 .. MaxWriteData -> Byte]]
ReadReport == [command : {"READ"}, address : Word, length : Word]
AppendReport == [command : {"APPEND"}, length : Word,
                 data : [1 .. MaxAppendData -> Byte]]
CommitReport == [command : {"COMMIT"}, from_eeprom : BOOLEAN, version : Byte,
                 flags : Byte, delay : Word, length : Word, crc : Word]
(* INVALID is an unknown command byte, or a report of no bytes.            *)
PlainReport == [command : {"RESET", "STATUS", "EXIT", "INVALID"}]
Report ==
  UNION {WriteReport, ReadReport, AppendReport, CommitReport, PlainReport}
NoReport == [command |-> "NONE"]

(* The sums the code compares with a limit do not overflow a word.         *)
ASSUME ProtocolAssumption ==
  /\ MaxWriteData \in Nat /\ MaxAppendData \in Nat /\ MaxReadData \in Nat
  /\ \A max \in {MaxWriteData, MaxAppendData, MaxReadData} :
       STORAGE_EEPROM_SIZE + max < ByteBase * ByteBase
  /\ Reports \subseteq Report
  /\ Images \subseteq Eeprom

VARIABLES
  current_offset,   \* bytes appended since the last reset
  running_crc,      \* CRC of the bytes appended
  exit_requested,   \* EXIT was received
  response,         \* the response buffer, response_length bytes of it
  report,           \* the report being handled, or handled last
  handler,          \* the writing handler in progress, or "idle"
  done,             \* how many of its bytes it has programmed
  (* Two history variables, which no action reads as a guard:              *)
  spoiled,          \* a WRITE touched the bytes appended since the reset
  vouched           \* the COMMIT being handled, or handled last, checked a
                    \* CRC that covers the stored script

storage_vars == <<eeprom, cache>>
upload_vars == <<current_offset, running_crc, spoiled>>
vars == <<eeprom, cache, current_offset, running_crc, exit_requested,
          response, report, handler, done, spoiled, vouched>>

NoResponse == [status |-> "NONE"]
Error(status) == [status |-> status]
OkPlain == [status |-> "OK"]
Response ==
  UNION {[status : {"NONE", "OK", "INVALID_COMMAND", "INVALID_ADDRESS",
                    "INVALID_LENGTH", "CRC_MISMATCH"}],
         [status : {"OK"}, bytes_written : Word],
         [status : {"OK"}, bytes_read : Word, data : BoundedSeq(Byte, MaxReadData)],
         [status : {"OK"}, next_offset : Word, running_crc : Word],
         [status : {"OK"}, running_crc : Word, current_offset : Word]}

Handlers == {"idle", "write", "append", "header", "invalidate"}

(* Mutant: the script area is addressed without its start.                 *)
append_unbased(offset) == offset

AppendAddress(offset) == STORAGE_SCRIPT_START + offset

(* The bytes a handler programs for a report, in order.                    *)
WritesOf(h, r, offset) ==
  IF h = "write" THEN storage_write_bytes(r.address, r.data, r.length)
  ELSE IF h = "append" THEN storage_write_bytes(AppendAddress(offset), r.data, r.length)
  ELSE IF h = "header" THEN
    storage_write_header(r.version, r.flags, r.delay, r.length, r.crc)
  ELSE IF h = "invalidate" THEN storage_invalidate_script
  ELSE << >>

Writes == WritesOf(handler, report, current_offset)

TypeOK ==
  /\ StorageTypeOK
  /\ current_offset \in 0 .. MaxScript
  /\ running_crc \in Word
  /\ exit_requested \in BOOLEAN
  /\ response \in Response
  /\ report \in Report \union {NoReport}
  /\ handler \in Handlers
  /\ done \in 0 .. Len(Writes)
  /\ spoiled \in BOOLEAN
  /\ vouched \in BOOLEAN
-----------------------------------------------------------------------------
(* protocol_init, with the transport's report buffer cleared.              *)
ProtocolInit ==
  /\ current_offset = 0
  /\ running_crc = CrcInit
  /\ exit_requested = FALSE
  /\ response = NoResponse
  /\ report = NoReport
  /\ handler = "idle"
  /\ done = 0
  /\ spoiled = FALSE
  /\ vouched = FALSE

(* The same, as a step.                                                    *)
ProtocolRestart ==
  /\ current_offset' = 0
  /\ running_crc' = CrcInit
  /\ exit_requested' = FALSE
  /\ response' = NoResponse
  /\ report' = NoReport
  /\ handler' = "idle"
  /\ done' = 0
  /\ spoiled' = FALSE
  /\ vouched' = FALSE

Init ==
  /\ eeprom \in Images
  /\ cache = StorageInit(eeprom)
  /\ ProtocolInit
-----------------------------------------------------------------------------
(* A report is taken only between two handlers, and none after an EXIT:    *)
(* the loop that polls the bus resets the device before its next poll.     *)
Receive(r, command) ==
  /\ handler = "idle"
  /\ ~ exit_requested
  /\ r.command = command
  /\ report' = r

(* The handler returns at once with a response.                            *)
Answer(res) ==
  /\ response' = res
  /\ UNCHANGED <<handler, done>>

(* The handler starts to program bytes.                                    *)
StartWriting(h) ==
  /\ handler' = h
  /\ done' = 0
  /\ UNCHANGED response

LengthRefused(length, max) == length = 0 \/ length > max

(* A range [address, address + length) that meets the appended bytes.      *)
MeetsAppended(address, length) ==
  /\ address < STORAGE_SCRIPT_START + current_offset
  /\ address + length > STORAGE_SCRIPT_START

WriteCommand(r) ==
  /\ Receive(r, "WRITE")
  /\ \/ /\ r.address >= STORAGE_EEPROM_SIZE
        /\ Answer(Error("INVALID_ADDRESS"))
        /\ UNCHANGED spoiled
     \/ /\ r.address < STORAGE_EEPROM_SIZE
        /\ \/ LengthRefused(r.length, MaxWriteData)
           \/ r.address + r.length > STORAGE_EEPROM_SIZE
        /\ Answer(Error("INVALID_LENGTH"))
        /\ UNCHANGED spoiled
     \/ /\ r.address < STORAGE_EEPROM_SIZE
        /\ ~ LengthRefused(r.length, MaxWriteData)
        /\ r.address + r.length <= STORAGE_EEPROM_SIZE
        /\ StartWriting("write")
        /\ spoiled' = (spoiled \/ MeetsAppended(r.address, r.length))
  /\ UNCHANGED <<storage_vars, current_offset, running_crc, exit_requested, vouched>>

ReadCommand(r) ==
  /\ Receive(r, "READ")
  /\ \/ /\ r.address >= STORAGE_EEPROM_SIZE
        /\ Answer(Error("INVALID_ADDRESS"))
     \/ /\ r.address < STORAGE_EEPROM_SIZE
        /\ \/ LengthRefused(r.length, MaxReadData)
           \/ r.address + r.length > STORAGE_EEPROM_SIZE
        /\ Answer(Error("INVALID_LENGTH"))
     \/ /\ r.address < STORAGE_EEPROM_SIZE
        /\ ~ LengthRefused(r.length, MaxReadData)
        /\ r.address + r.length <= STORAGE_EEPROM_SIZE
        /\ Answer([status |-> "OK", bytes_read |-> r.length,
                   data |-> storage_read_bytes(eeprom, r.address, r.length)])
  /\ UNCHANGED <<storage_vars, upload_vars, exit_requested, vouched>>

(* Mutant: the bytes appended before are not counted against the limit.    *)
AppendFitsAlone(length) == length <= MaxScript

AppendFits(length) == current_offset + length <= MaxScript

AppendCommand(r) ==
  /\ Receive(r, "APPEND")
  /\ \/ /\ LengthRefused(r.length, MaxAppendData) \/ ~ AppendFits(r.length)
        /\ Answer(Error("INVALID_LENGTH"))
     \/ /\ ~ LengthRefused(r.length, MaxAppendData) /\ AppendFits(r.length)
        /\ StartWriting("append")
  /\ UNCHANGED <<storage_vars, upload_vars, exit_requested, vouched>>

(* Mutant: RESET rewinds the offset and keeps the running CRC.             *)
ResetOffsetOnly(r) ==
  /\ Receive(r, "RESET")
  /\ current_offset' = 0
  /\ spoiled' = FALSE
  /\ Answer(OkPlain)
  /\ UNCHANGED <<storage_vars, running_crc, exit_requested, vouched>>

ResetCommand(r) ==
  /\ Receive(r, "RESET")
  /\ current_offset' = 0
  /\ running_crc' = CrcInit
  /\ spoiled' = FALSE
  /\ Answer(OkPlain)
  /\ UNCHANGED <<storage_vars, exit_requested, vouched>>

(* Mutant: the option to read the EEPROM back is ignored.                  *)
RunningCrcOnly(r) == running_crc

(* The CRC a COMMIT compares: of the stored script, or the running one.    *)
CalculatedCrc(r) ==
  IF r.from_eeprom THEN CrcOf(Script(eeprom, r.length)) ELSE running_crc

CommitCommand(r) ==
  /\ Receive(r, "COMMIT")
  /\ \/ /\ ~ LengthOK(r.length)
        /\ Answer(Error("INVALID_LENGTH"))
        /\ UNCHANGED <<upload_vars, vouched>>
     \/ /\ LengthOK(r.length)
        /\ StartWriting(IF CalculatedCrc(r) = r.crc THEN "header" ELSE "invalidate")
        /\ vouched' = (r.from_eeprom \/ (r.length = current_offset /\ ~ spoiled))
        /\ current_offset' = 0
        /\ running_crc' = CrcInit
        /\ spoiled' = FALSE
  /\ UNCHANGED <<storage_vars, exit_requested>>

StatusCommand(r) ==
  /\ Receive(r, "STATUS")
  /\ Answer([status |-> "OK", running_crc |-> running_crc,
             current_offset |-> current_offset])
  /\ UNCHANGED <<storage_vars, upload_vars, exit_requested, vouched>>

ExitCommand(r) ==
  /\ Receive(r, "EXIT")
  /\ exit_requested' = TRUE
  /\ Answer(NoResponse)
  /\ UNCHANGED <<storage_vars, upload_vars, vouched>>

InvalidCommand(r) ==
  /\ Receive(r, "INVALID")
  /\ Answer(Error("INVALID_COMMAND"))
  /\ UNCHANGED <<storage_vars, upload_vars, exit_requested, vouched>>

protocol_process_report(r) ==
  \/ WriteCommand(r)
  \/ ReadCommand(r)
  \/ AppendCommand(r)
  \/ ResetCommand(r)
  \/ CommitCommand(r)
  \/ StatusCommand(r)
  \/ ExitCommand(r)
  \/ InvalidCommand(r)
-----------------------------------------------------------------------------
(* One eeprom_update_byte of the handler in progress; handle_append also   *)
(* adds the byte to the running CRC.                                       *)
StoreByte ==
  /\ done < Len(Writes)
  /\ LET put == Writes[done + 1]
     IN  /\ eeprom' = storage_write_byte(eeprom, put)
         /\ running_crc' = IF handler = "append"
                           THEN CrcUpdate(running_crc, put.byte)
                           ELSE running_crc
  /\ done' = done + 1
  /\ UNCHANGED <<cache, current_offset, exit_requested, response, report,
                 handler, spoiled, vouched>>

Return(h, res) ==
  /\ handler = h
  /\ done = Len(Writes)
  /\ response' = res
  /\ handler' = "idle"
  /\ done' = 0
  /\ UNCHANGED <<eeprom, running_crc, exit_requested, report, spoiled, vouched>>

ReturnWrite ==
  /\ Return("write", [status |-> "OK", bytes_written |-> report.length])
  /\ UNCHANGED <<cache, current_offset>>

ReturnAppend ==
  /\ Return("append", [status |-> "OK", running_crc |-> running_crc,
                       next_offset |-> current_offset + report.length])
  /\ current_offset' = current_offset + report.length
  /\ UNCHANGED cache

ReturnCommit ==
  /\ Return("header", OkPlain)
  /\ cache' = cache_header(report.flags, report.delay, report.length)
  /\ UNCHANGED current_offset

ReturnMismatch ==
  /\ Return("invalidate", Error("CRC_MISMATCH"))
  /\ cache' = cache_invalidated(cache)
  /\ UNCHANGED current_offset

(* The power fails, at any point, and comes back: RAM is lost.             *)
PowerLoss ==
  /\ UNCHANGED eeprom
  /\ cache' = StorageInit(eeprom)
  /\ ProtocolRestart

Proceed ==
  \/ StoreByte
  \/ ReturnWrite
  \/ ReturnAppend
  \/ ReturnCommit
  \/ ReturnMismatch

Next ==
  \/ \E r \in Reports : protocol_process_report(r)
  \/ Proceed
  \/ PowerLoss

Spec == Init /\ [][Next]_vars
-----------------------------------------------------------------------------
(* handle_append adds to the running CRC exactly the bytes it stores, in   *)
(* order: whatever refused commands and resets came in between, the CRC is *)
(* that of the first bytes of the script area, unless a WRITE went over    *)
(* them.  (handle_append_command, handle_reset_command.)                   *)
Appended == current_offset + (IF handler = "append" THEN done ELSE 0)

RunningCrcCoversScript ==
  ~ spoiled => running_crc = CrcOf(Script(eeprom, Appended))

(* An OK response is true of the EEPROM: WRITE and APPEND stored every     *)
(* byte they count, READ returned what is stored, COMMIT stored every      *)
(* field of the header and cached what it stored.                          *)
AcknowledgedIsStored ==
  handler = "idle" /\ response.status = "OK" =>
    /\ report.command = "WRITE" =>
         /\ response.bytes_written = report.length
         /\ \A i \in 1 .. report.length :
              eeprom[report.address + i - 1] = report.data[i]
    /\ report.command = "APPEND" =>
         /\ response.next_offset = current_offset
         /\ \A i \in 1 .. report.length :
              eeprom[STORAGE_SCRIPT_START + (current_offset - report.length) + i - 1]
                = report.data[i]
    /\ report.command = "READ" =>
         \A i \in 1 .. report.length :
           response.data[i] = eeprom[report.address + i - 1]
    /\ report.command = "COMMIT" =>
         /\ eeprom[HEADER_OFFSET_VERSION] = report.version
         /\ read_u16(eeprom, HEADER_OFFSET_CRC) = report.crc
         /\ eeprom[HEADER_OFFSET_FLAGS] = report.flags
         /\ read_u16(eeprom, HEADER_OFFSET_DELAY) = report.delay
         /\ read_u16(eeprom, HEADER_OFFSET_LENGTH) = report.length
         /\ cache = cache_header(report.flags, report.delay, report.length)

(* A COMMIT that answers OK after reading the EEPROM back, or after the    *)
(* host appended exactly the committed length and wrote nothing over it,   *)
(* leaves a script whose CRC is the one in the header.                     *)
CommitVerifies ==
  /\ handler = "idle" /\ report.command = "COMMIT"
  /\ response.status = "OK" /\ vouched
  => storage_verify_crc(eeprom, report.length, read_u16(eeprom, HEADER_OFFSET_CRC))

(* After a CRC mismatch no script can start, now or after any reset.       *)
MismatchInvalidates ==
  handler = "idle" /\ response.status = "CRC_MISMATCH" =>
    ~ cache.valid /\ ~ ValidImage(eeprom)

(* No command writes outside what it was asked to write: WRITE stays in    *)
(* its range, APPEND in as many bytes as it has, behind those appended     *)
(* before, COMMIT in the header, and the others write nothing.             *)
FrameOf(a) ==
  \/ /\ handler = "write"
     /\ a \in report.address .. report.address + report.length - 1
  \/ /\ handler = "append"
     /\ a - STORAGE_SCRIPT_START - current_offset \in 0 .. report.length - 1
  \/ /\ handler \in {"header", "invalidate"}
     /\ a < STORAGE_SCRIPT_START

FrameRespected ==
  [][\A a \in Address : eeprom'[a] # eeprom[a] => FrameOf(a)]_vars

(* A stored script becomes startable only by WRITEs of the host, or while  *)
(* a COMMIT writes its header, and then with the CRC of the stored bytes   *)
(* wherever CommitVerifies promises it.  The exception is a torn           *)
(* invalidation: of a length above the limit the low byte is cleared       *)
(* first, and what is left for one byte's time may be a length within it.  *)
ValidOnlyByCommit ==
  [][~ ValidImage(eeprom) /\ ValidImage(eeprom') =>
       \/ handler = "write"
       \/ /\ handler = "header"
          /\ vouched => storage_verify_crc(eeprom, report.length, report.crc)
       \/ /\ handler = "invalidate" /\ done = 0
          /\ read_u16(eeprom, HEADER_OFFSET_LENGTH) > MaxScript]_vars
=============================================================================
