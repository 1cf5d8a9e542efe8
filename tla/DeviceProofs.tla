---------------------------- MODULE DeviceProofs ----------------------------
(***************************************************************************)
(* The command handlers keep their types and the upload protocol's frame:  *)
(* only an APPEND or a WRITE changes script bytes, at the place it names.  *)
(* Then what the protocol's checksums establish: the running CRC is that   *)
(* of the stored bytes, a COMMIT that answers OK is right about the        *)
(* script, and nothing else makes a script startable.                      *)
(*                                                                         *)
(* The device implements the protocol, so that every theorem about the     *)
(* protocol holds of the device through resets and mode changes; keyboard  *)
(* mode is entered only on request; and what a COMMIT stored is played.    *)
(***************************************************************************)
EXTENDS DeviceMode, TLAPS, SequenceTheorems

LEMMA WordsAreNaturals == Byte \subseteq Nat /\ Word \subseteq Nat /\ 0 \in Byte
<1>1. ByteBase * ByteBase \in Nat
  BY StorageAssumption
<1>. QED BY <1>1, StorageAssumption DEF Byte, Word

LEMMA Halves ==
  ASSUME NEW w \in Word
  PROVE  /\ Lo(w) \in Byte
         /\ Hi(w) \in Byte
         /\ Lo(w) + ByteBase * Hi(w) = w
<1>. USE StorageAssumption
<1>1. w \in Int /\ 0 <= w /\ w < ByteBase * ByteBase
  BY DEF Word
<1>2. Lo(w) \in Byte
  BY <1>1 DEF Lo, Byte
<1>3. Hi(w) \in Int /\ Lo(w) + ByteBase * Hi(w) = w
  BY <1>1 DEF Lo, Hi
<1>4. Hi(w) >= 0
  BY <1>1, <1>2, <1>3 DEF Byte
<1>5. Hi(w) < ByteBase
  BY <1>1, <1>2, <1>3 DEF Byte
<1>. QED BY <1>2, <1>3, <1>4, <1>5 DEF Byte

LEMMA ReadU16 ==
  ASSUME NEW lo \in Byte, NEW hi \in Byte
  PROVE  lo + ByteBase * hi \in Word
<1>. USE StorageAssumption
<1>1. ByteBase * hi <= ByteBase * (ByteBase - 1)
  BY DEF Byte
<1>2. ByteBase * (ByteBase - 1) = ByteBase * ByteBase - ByteBase
  OBVIOUS
<1>3. ByteBase * hi >= 0 /\ ByteBase * hi \in Int
  BY DEF Byte
<1>. QED BY <1>1, <1>2, <1>3 DEF Byte, Word

-----------------------------------------------------------------------------
(* What the handlers have checked before they write.                       *)
Put0 == [address : Address, byte : Byte]

Accepted(h, r, offset) ==
  /\ h \in Handlers
  /\ h = "write" =>
       /\ r \in WriteReport
       /\ ~ LengthRefused(r.length, MaxWriteData)
       /\ r.address + r.length <= STORAGE_EEPROM_SIZE
  /\ h = "append" =>
       /\ r \in AppendReport
       /\ ~ LengthRefused(r.length, MaxAppendData)
       /\ offset + r.length <= MaxScript
  /\ h \in {"header", "invalidate"} => r \in CommitReport /\ LengthOK(r.length)

CountOf(h, r) ==
  IF h \in {"write", "append"} THEN r.length
  ELSE IF h = "header" THEN 8
  ELSE IF h = "invalidate" THEN 2
  ELSE 0

LEMMA HeaderAddresses ==
  /\ 0 \in Address /\ 1 \in Address /\ 2 \in Address /\ 3 \in Address
  /\ 4 \in Address /\ 5 \in Address /\ 6 \in Address /\ 7 \in Address
  BY StorageAssumption DEF Address, STORAGE_EEPROM_SIZE, STORAGE_SCRIPT_START

LEMMA WritesShape ==
  ASSUME NEW h, NEW r, NEW offset \in 0 .. MaxScript, Accepted(h, r, offset)
  PROVE  /\ CountOf(h, r) \in Nat
         /\ Len(WritesOf(h, r, offset)) = CountOf(h, r)
         /\ \A i \in 1 .. CountOf(h, r) : WritesOf(h, r, offset)[i] \in Put0
<1>0. h \in Handlers
  BY DEF Accepted, Handlers
<1>1. CASE h = "write"
  <2>0. r \in WriteReport
    BY <1>1 DEF Accepted
  <2>2. r.length \in Nat /\ r.address \in Nat /\ r.data \in [1 .. MaxWriteData -> Byte]
    BY <2>0, WordsAreNaturals DEF WriteReport
  <2>1. r.length <= MaxWriteData /\ r.address + r.length <= STORAGE_EEPROM_SIZE
    BY <1>1, <2>2, ProtocolAssumption DEF Accepted, LengthRefused
  <2>3. \A i \in 1 .. r.length : Put(r.address + i - 1, r.data[i]) \in Put0
    BY <2>1, <2>2, ProtocolAssumption, StorageAssumption DEF Put, Put0, Address, STORAGE_EEPROM_SIZE, STORAGE_SCRIPT_START
  <2>4. WritesOf(h, r, offset) = [i \in 1 .. r.length |-> Put(r.address + i - 1, r.data[i])]
    BY <1>1 DEF WritesOf, storage_write_bytes
  <2>. QED BY <1>1, <2>2, <2>3, <2>4 DEF CountOf
<1>2. CASE h = "append"
  <2>0. r \in AppendReport
    BY <1>2 DEF Accepted
  <2>2. r.length \in Nat /\ r.data \in [1 .. MaxAppendData -> Byte]
    BY <2>0, WordsAreNaturals DEF AppendReport
  <2>1. r.length <= MaxAppendData /\ offset + r.length <= MaxScript
    BY <1>2, <2>2, ProtocolAssumption DEF Accepted, LengthRefused
  <2>3. \A i \in 1 .. r.length : Put(AppendAddress(offset) + i - 1, r.data[i]) \in Put0
    BY <2>1, <2>2, ProtocolAssumption, StorageAssumption
       DEF Put, Put0, Address, AppendAddress, STORAGE_EEPROM_SIZE, STORAGE_SCRIPT_START
  <2>4. WritesOf(h, r, offset)
          = [i \in 1 .. r.length |-> Put(AppendAddress(offset) + i - 1, r.data[i])]
    BY <1>2 DEF WritesOf, storage_write_bytes
  <2>. QED BY <1>2, <2>2, <2>3, <2>4 DEF CountOf
<1>3. CASE h = "header"
  <2>1. r \in CommitReport
    BY <1>3 DEF Accepted
  <2>2. /\ r.version \in Byte /\ r.flags \in Byte
        /\ r.delay \in Word /\ r.length \in Word /\ r.crc \in Word
    BY <2>1 DEF CommitReport
  <2>3. /\ Lo(r.delay) \in Byte /\ Hi(r.delay) \in Byte
        /\ Lo(r.length) \in Byte /\ Hi(r.length) \in Byte
        /\ Lo(r.crc) \in Byte /\ Hi(r.crc) \in Byte
    BY <2>2, Halves
  <2>4. WritesOf(h, r, offset)
          = storage_write_header(r.version, r.flags, r.delay, r.length, r.crc)
    BY <1>3 DEF WritesOf
  <2>5. /\ Len(WritesOf(h, r, offset)) = 8
        /\ \A i \in 1 .. 8 : WritesOf(h, r, offset)[i] \in Put0
    BY <2>2, <2>3, <2>4, HeaderAddresses
       DEF storage_write_header, Put, Put0, HEADER_OFFSET_VERSION, HEADER_OFFSET_FLAGS,
           HEADER_OFFSET_DELAY, HEADER_OFFSET_LENGTH, HEADER_OFFSET_CRC
  <2>. QED BY <1>3, <2>5 DEF CountOf
<1>4. CASE h = "invalidate"
  <2>. QED BY <1>4, WordsAreNaturals, HeaderAddresses
       DEF CountOf, WritesOf, storage_invalidate_script, Put, Put0, HEADER_OFFSET_LENGTH
<1>5. CASE h = "idle"
  BY <1>5 DEF CountOf, WritesOf
<1>. QED BY <1>0, <1>1, <1>2, <1>3, <1>4, <1>5 DEF Handlers
-----------------------------------------------------------------------------
(* Type correctness.  What makes the types inductive is that a handler     *)
(* only starts to write when it has accepted the report.                   *)
IInv == TypeOK /\ Accepted(handler, report, current_offset)

LEMMA ReportOfCommand ==
  ASSUME NEW r \in Reports
  PROVE  /\ r \in Report
         /\ r.command = "WRITE" => r \in WriteReport
         /\ r.command = "READ" => r \in ReadReport
         /\ r.command = "APPEND" => r \in AppendReport
         /\ r.command = "COMMIT" => r \in CommitReport
<1>1. r \in Report
  BY ProtocolAssumption
<1>. QED BY <1>1 DEF Report, WriteReport, ReadReport, AppendReport, CommitReport,
                     PlainReport

LEMMA ValidateType ==
  ASSUME NEW e \in Eeprom, NEW c \in Cache
  PROVE  validate_header(e, c) \in Cache
<1>1. \A a \in Address : e[a] \in Byte
  BY DEF Eeprom
<1>2. /\ e[0] \in Byte /\ e[1] \in Byte /\ e[2] \in Byte /\ e[3] \in Byte
      /\ e[4] \in Byte /\ e[5] \in Byte /\ e[6] \in Byte /\ e[7] \in Byte
  BY <1>1, HeaderAddresses
<1>3. read_u16(e, 2) \in Word /\ read_u16(e, 4) \in Word
  BY <1>2, ReadU16 DEF read_u16
<1>. QED BY <1>2, <1>3
     DEF validate_header, Cache, LengthOK, HEADER_OFFSET_VERSION, HEADER_OFFSET_FLAGS,
         HEADER_OFFSET_DELAY, HEADER_OFFSET_LENGTH

LEMMA StorageInitType ==
  ASSUME NEW e \in Eeprom
  PROVE  StorageInit(e) \in Cache
<1>1. ZeroCache \in Cache
  BY WordsAreNaturals, StorageAssumption DEF ZeroCache, Cache, Byte, Word
<1>. QED BY <1>1, ValidateType DEF StorageInit

LEMMA ValidImageMeans ==
  ASSUME NEW e
  PROVE  ValidImage(e) <=> /\ e[HEADER_OFFSET_VERSION] = PayloadVersion
                           /\ LengthOK(read_u16(e, HEADER_OFFSET_LENGTH))
<1>1. [ZeroCache EXCEPT !.valid = FALSE].valid = FALSE
  BY DEF ZeroCache
<1>. QED BY <1>1 DEF ValidImage, validate_header, LengthOK

LEMMA IdleWrites ==
  ASSUME NEW r, NEW offset
  PROVE  Len(WritesOf("idle", r, offset)) = 0
  BY DEF WritesOf

LEMMA InitIInv == Init => IInv
<1>. SUFFICES ASSUME Init PROVE IInv
  OBVIOUS
<1>1. StorageTypeOK
  BY ProtocolAssumption, StorageInitType DEF Init, StorageTypeOK
<1>2. Accepted(handler, report, current_offset)
  BY DEF Init, ProtocolInit, Accepted, Handlers
<1>3. response \in Response
  BY DEF Init, ProtocolInit, NoResponse, Response
<1>4. done \in 0 .. Len(Writes)
  BY IdleWrites DEF Init, ProtocolInit, Writes
<1>5. running_crc \in Word /\ current_offset \in 0 .. MaxScript
  BY CrcAssumption, StorageAssumption DEF Init, ProtocolInit
<1>. QED BY <1>1, <1>2, <1>3, <1>4, <1>5
         DEF IInv, TypeOK, Init, ProtocolInit, Handlers

(* A command that answers at once keeps the handler idle; one that starts  *)
(* to write has accepted its report.                                       *)
LEMMA AnswerKeeps ==
  ASSUME handler' = "idle", done' = 0,
         StorageTypeOK', current_offset' \in 0 .. MaxScript, running_crc' \in Word,
         exit_requested' \in BOOLEAN, response' \in Response,
         report' \in Report \union {NoReport}, spoiled' \in BOOLEAN, vouched' \in BOOLEAN
  PROVE  IInv'
<1>1. done' \in 0 .. Len(Writes')
  BY IdleWrites DEF Writes
<1>. QED BY <1>1 DEF IInv, TypeOK, Accepted, Handlers

LEMMA StartKeeps ==
  ASSUME done' = 0, Accepted(handler', report', current_offset'),
         StorageTypeOK', current_offset' \in 0 .. MaxScript, running_crc' \in Word,
         exit_requested' \in BOOLEAN, response' \in Response,
         report' \in Report, spoiled' \in BOOLEAN, vouched' \in BOOLEAN
  PROVE  IInv'
<1>1. Len(Writes') \in Nat
  BY WritesShape DEF Writes
<1>2. done' \in 0 .. Len(Writes')
  BY <1>1
<1>3. handler' \in Handlers
  BY DEF Accepted
<1>. QED BY <1>2, <1>3 DEF IInv, TypeOK

LEMMA ErrorResponse ==
  /\ \A status \in {"INVALID_COMMAND", "INVALID_ADDRESS", "INVALID_LENGTH",
                    "CRC_MISMATCH"} : Error(status) \in Response
  /\ OkPlain \in Response /\ NoResponse \in Response
  BY DEF Error, OkPlain, NoResponse, Response

LEMMA WriteCommandType ==
  ASSUME IInv, NEW r \in Reports, WriteCommand(r)
  PROVE  IInv'
<1>1. /\ r \in WriteReport /\ r \in Report /\ report' = r
      /\ handler = "idle" /\ done = 0
  BY ReportOfCommand, IdleWrites DEF WriteCommand, Receive, IInv, TypeOK, Writes
<1>2. /\ StorageTypeOK' /\ current_offset' \in 0 .. MaxScript /\ running_crc' \in Word
      /\ exit_requested' \in BOOLEAN /\ vouched' \in BOOLEAN /\ spoiled \in BOOLEAN
      /\ response \in Response
  BY DEF WriteCommand, IInv, TypeOK, StorageTypeOK, storage_vars
<1>3. CASE \E status \in {"INVALID_ADDRESS", "INVALID_LENGTH"} : Answer(Error(status))
                                                           /\ UNCHANGED spoiled
  BY <1>1, <1>2, <1>3, ErrorResponse, AnswerKeeps DEF Answer
<1>4. CASE /\ ~ LengthRefused(r.length, MaxWriteData)
           /\ r.address + r.length <= STORAGE_EEPROM_SIZE
           /\ StartWriting("write")
           /\ spoiled' = (spoiled \/ MeetsAppended(r.address, r.length))
  <2>1. Accepted(handler', report', current_offset')
    BY <1>1, <1>4 DEF Accepted, StartWriting, Handlers
  <2>2. spoiled' \in BOOLEAN
    BY <1>2, <1>4 DEF MeetsAppended
  <2>. QED BY <1>1, <1>2, <1>4, <2>1, <2>2, StartKeeps DEF StartWriting
<1>. QED BY <1>3, <1>4 DEF WriteCommand

(* Within the EEPROM, reading a block is reading its bytes.                *)
BytesAt(e, address, length) == [i \in 1 .. length |-> e[address + i - 1]]

LEMMA ReadPlain ==
  ASSUME NEW e, NEW address \in Nat, NEW length \in Nat,
         address + length <= STORAGE_EEPROM_SIZE
  PROVE  storage_read_bytes(e, address, length) = BytesAt(e, address, length)
<1>1. \A i \in 1 .. length : address + i - 1 < STORAGE_EEPROM_SIZE
  BY StorageAssumption DEF STORAGE_EEPROM_SIZE, STORAGE_SCRIPT_START
<1>2. \A i \in 1 .. length : storage_read_byte(e, address + i - 1) = e[address + i - 1]
  BY <1>1 DEF storage_read_byte
<1>. QED BY <1>2 DEF storage_read_bytes, BytesAt

LEMMA ReadData ==
  ASSUME NEW e \in Eeprom, NEW address \in Nat, NEW length \in Nat,
         length <= MaxReadData, address + length <= STORAGE_EEPROM_SIZE
  PROVE  storage_read_bytes(e, address, length) \in BoundedSeq(Byte, MaxReadData)
<1>1. \A i \in 1 .. length : address + i - 1 \in Address
  BY StorageAssumption DEF Address, STORAGE_EEPROM_SIZE, STORAGE_SCRIPT_START
<1>2. storage_read_bytes(e, address, length) \in [1 .. length -> Byte]
  <2>1. BytesAt(e, address, length) \in [1 .. length -> Byte]
    BY <1>1 DEF Eeprom, BytesAt
  <2>. QED BY <2>1, ReadPlain
<1>3. length \in 0 .. MaxReadData
  BY ProtocolAssumption
<1>. QED BY <1>2, <1>3 DEF BoundedSeq, SeqOf

LEMMA ReadCommandType ==
  ASSUME IInv, NEW r \in Reports, ReadCommand(r)
  PROVE  IInv'
<1>1. /\ r \in ReadReport /\ r \in Report /\ report' = r
      /\ handler = "idle" /\ done = 0
  BY ReportOfCommand, IdleWrites DEF ReadCommand, Receive, IInv, TypeOK, Writes
<1>2. /\ StorageTypeOK' /\ current_offset' \in 0 .. MaxScript /\ running_crc' \in Word
      /\ exit_requested' \in BOOLEAN /\ vouched' \in BOOLEAN /\ spoiled' \in BOOLEAN
      /\ eeprom \in Eeprom
  BY DEF ReadCommand, IInv, TypeOK, StorageTypeOK, storage_vars, upload_vars
<1>3. CASE \E status \in {"INVALID_ADDRESS", "INVALID_LENGTH"} : Answer(Error(status))
  BY <1>1, <1>2, <1>3, ErrorResponse, AnswerKeeps DEF Answer
<1>4. CASE /\ ~ LengthRefused(r.length, MaxReadData)
           /\ r.address + r.length <= STORAGE_EEPROM_SIZE
           /\ Answer([status |-> "OK", bytes_read |-> r.length,
                      data |-> storage_read_bytes(eeprom, r.address, r.length)])
  <2>1. r.length \in Word /\ r.length \in Nat /\ r.address \in Nat
    BY <1>1, WordsAreNaturals DEF ReadReport
  <2>2. r.length <= MaxReadData
    BY <1>4, <2>1, ProtocolAssumption DEF LengthRefused
  <2>3. storage_read_bytes(eeprom, r.address, r.length) \in BoundedSeq(Byte, MaxReadData)
    BY <1>2, <1>4, <2>1, <2>2, ReadData
  <2>4. response' \in Response
    BY <1>4, <2>1, <2>3 DEF Answer, Response
  <2>. QED BY <1>1, <1>2, <1>4, <2>4, AnswerKeeps DEF Answer
<1>. QED BY <1>3, <1>4 DEF ReadCommand

LEMMA AppendCommandType ==
  ASSUME IInv, NEW r \in Reports, AppendCommand(r)
  PROVE  IInv'
<1>1. /\ r \in AppendReport /\ r \in Report /\ report' = r
      /\ handler = "idle" /\ done = 0
  BY ReportOfCommand, IdleWrites DEF AppendCommand, Receive, IInv, TypeOK, Writes
<1>2. /\ StorageTypeOK' /\ current_offset' \in 0 .. MaxScript /\ running_crc' \in Word
      /\ exit_requested' \in BOOLEAN /\ vouched' \in BOOLEAN /\ spoiled' \in BOOLEAN
      /\ response \in Response /\ current_offset' = current_offset
  BY DEF AppendCommand, IInv, TypeOK, StorageTypeOK, storage_vars, upload_vars
<1>3. CASE Answer(Error("INVALID_LENGTH"))
  BY <1>1, <1>2, <1>3, ErrorResponse, AnswerKeeps DEF Answer
<1>4. CASE /\ ~ LengthRefused(r.length, MaxAppendData) /\ AppendFits(r.length)
           /\ StartWriting("append")
  <2>1. Accepted(handler', report', current_offset')
    BY <1>1, <1>2, <1>4 DEF Accepted, StartWriting, Handlers, AppendFits
  <2>. QED BY <1>1, <1>2, <1>4, <2>1, StartKeeps DEF StartWriting
<1>. QED BY <1>3, <1>4 DEF AppendCommand

LEMMA CommitCommandType ==
  ASSUME IInv, NEW r \in Reports, CommitCommand(r)
  PROVE  IInv'
<1>1. /\ r \in CommitReport /\ r \in Report /\ report' = r
      /\ handler = "idle" /\ done = 0
  BY ReportOfCommand, IdleWrites DEF CommitCommand, Receive, IInv, TypeOK, Writes
<1>2. /\ StorageTypeOK' /\ exit_requested' \in BOOLEAN /\ response \in Response
      /\ vouched \in BOOLEAN /\ spoiled \in BOOLEAN
      /\ current_offset \in 0 .. MaxScript /\ running_crc \in Word
      /\ r.from_eeprom \in BOOLEAN
  BY <1>1 DEF CommitCommand, IInv, TypeOK, StorageTypeOK, storage_vars, CommitReport
<1>3. CASE Answer(Error("INVALID_LENGTH")) /\ UNCHANGED <<upload_vars, vouched>>
  BY <1>1, <1>2, <1>3, ErrorResponse, AnswerKeeps DEF Answer, upload_vars
<1>4. CASE /\ LengthOK(r.length)
           /\ StartWriting(IF CalculatedCrc(r) = r.crc THEN "header" ELSE "invalidate")
           /\ vouched' = (r.from_eeprom \/ (r.length = current_offset /\ ~ spoiled))
           /\ current_offset' = 0
           /\ running_crc' = CrcInit
           /\ spoiled' = FALSE
  <2>1. handler' \in {"header", "invalidate"}
    BY <1>4 DEF StartWriting
  <2>2. Accepted(handler', report', current_offset')
    BY <1>1, <1>4, <2>1 DEF Accepted, Handlers
  <2>3. running_crc' \in Word /\ current_offset' \in 0 .. MaxScript
    BY <1>4, CrcAssumption, StorageAssumption
  <2>4. vouched' \in BOOLEAN /\ spoiled' \in BOOLEAN
    BY <1>4
  <2>. QED BY <1>1, <1>2, <1>4, <2>2, <2>3, <2>4, StartKeeps DEF StartWriting
<1>. QED BY <1>3, <1>4 DEF CommitCommand

LEMMA PlainCommandType ==
  ASSUME IInv, NEW r \in Reports,
         ResetCommand(r) \/ StatusCommand(r) \/ ExitCommand(r) \/ InvalidCommand(r)
  PROVE  IInv'
<1>1. r \in Report /\ report' = r /\ handler = "idle" /\ done = 0
  BY ReportOfCommand, IdleWrites
     DEF ResetCommand, StatusCommand, ExitCommand, InvalidCommand, Receive, IInv, TypeOK, Writes
<1>0. /\ CrcInit \in Word /\ 0 \in 0 .. MaxScript
  BY CrcAssumption, StorageAssumption
<1>2. /\ StorageTypeOK' /\ vouched' \in BOOLEAN /\ spoiled' \in BOOLEAN
      /\ exit_requested' \in BOOLEAN
      /\ current_offset' \in 0 .. MaxScript /\ running_crc' \in Word
  BY <1>0
     DEF ResetCommand, StatusCommand, ExitCommand, InvalidCommand, IInv, TypeOK,
         StorageTypeOK, storage_vars, upload_vars
<1>3. MaxScript \in Word /\ current_offset \in Word /\ running_crc \in Word
  BY StorageAssumption
     DEF IInv, TypeOK, Word, STORAGE_EEPROM_SIZE, STORAGE_SCRIPT_START
<1>4. /\ response' \in Response /\ handler' = "idle" /\ done' = 0
  <2>1. CASE ResetCommand(r)
    BY <1>1, <2>1, ErrorResponse DEF ResetCommand, Answer
  <2>2. CASE StatusCommand(r)
    BY <1>1, <1>3, <2>2 DEF StatusCommand, Answer, Response
  <2>3. CASE ExitCommand(r)
    BY <1>1, <2>3, ErrorResponse DEF ExitCommand, Answer
  <2>4. CASE InvalidCommand(r)
    BY <1>1, <2>4, ErrorResponse DEF InvalidCommand, Answer
  <2>. QED BY <2>1, <2>2, <2>3, <2>4
<1>. QED BY <1>1, <1>2, <1>4, AnswerKeeps

(* A byte that a handler programs is in range, so it is never dropped.     *)
LEMMA StoreByteEffect ==
  ASSUME IInv, StoreByte
  PROVE  /\ done + 1 \in 1 .. Len(Writes)
         /\ Writes[done + 1] \in Put0
         /\ eeprom' = [eeprom EXCEPT ![Writes[done + 1].address] = Writes[done + 1].byte]
         /\ Writes' = Writes
<1>1. /\ CountOf(handler, report) \in Nat
      /\ Len(Writes) = CountOf(handler, report)
      /\ \A i \in 1 .. CountOf(handler, report) : Writes[i] \in Put0
  BY WritesShape DEF IInv, TypeOK, Writes
<1>2. done \in Nat /\ done + 1 \in 1 .. Len(Writes)
  BY <1>1 DEF StoreByte, IInv, TypeOK
<1>3. Writes[done + 1] \in Put0
  BY <1>1, <1>2
<1>4. Writes[done + 1].address \in Address /\ Writes[done + 1].address < STORAGE_EEPROM_SIZE
  BY <1>3, StorageAssumption
     DEF Put0, Address, STORAGE_EEPROM_SIZE, STORAGE_SCRIPT_START
<1>5. eeprom' = [eeprom EXCEPT ![Writes[done + 1].address] = Writes[done + 1].byte]
  BY <1>4 DEF StoreByte, storage_write_byte
<1>6. Writes' = Writes
  BY DEF StoreByte, Writes
<1>. QED BY <1>2, <1>3, <1>5, <1>6

LEMMA StoreByteType ==
  ASSUME IInv, StoreByte
  PROVE  IInv'
<1>1. /\ done + 1 \in 1 .. Len(Writes)
      /\ Writes[done + 1] \in Put0
      /\ eeprom' = [eeprom EXCEPT ![Writes[done + 1].address] = Writes[done + 1].byte]
      /\ Writes' = Writes
  BY StoreByteEffect
<1>2. eeprom' \in Eeprom
  BY <1>1 DEF IInv, TypeOK, StorageTypeOK, Eeprom, Put0
<1>3. running_crc' \in Word
  BY <1>1, CrcAssumption DEF StoreByte, IInv, TypeOK, Put0
<1>4. done' \in 0 .. Len(Writes')
  BY <1>1 DEF StoreByte, IInv, TypeOK
<1>. QED BY <1>2, <1>3, <1>4 DEF StoreByte, IInv, TypeOK, StorageTypeOK

LEMMA ReturnType ==
  ASSUME IInv, ReturnWrite \/ ReturnAppend \/ ReturnCommit \/ ReturnMismatch
  PROVE  IInv'
<1>1. /\ handler' = "idle" /\ done' = 0 /\ report' = report
      /\ eeprom' = eeprom /\ running_crc' = running_crc
      /\ exit_requested' = exit_requested /\ spoiled' = spoiled /\ vouched' = vouched
  BY DEF ReturnWrite, ReturnAppend, ReturnCommit, ReturnMismatch, Return
<1>2. cache' \in Cache /\ current_offset' \in 0 .. MaxScript /\ response' \in Response
  <2>1. CASE ReturnWrite
    <3>1. report.length \in Word
      BY <2>1 DEF ReturnWrite, Return, IInv, Accepted, WriteReport
    <3>. QED BY <2>1, <3>1 DEF ReturnWrite, Return, IInv, TypeOK, StorageTypeOK, Response
  <2>2. CASE ReturnAppend
    <3>0. /\ report \in AppendReport /\ current_offset \in 0 .. MaxScript
          /\ current_offset + report.length <= MaxScript
      BY <2>2 DEF ReturnAppend, Return, IInv, TypeOK, Accepted
    <3>1. report.length \in Nat /\ current_offset \in Nat
          /\ current_offset + report.length <= MaxScript
      <4>1. report.length \in Word
        BY <3>0 DEF AppendReport
      <4>2. report.length \in Nat
        BY <4>1, WordsAreNaturals
      <4>. QED BY <3>0, <4>2, StorageAssumption
    <3>2. current_offset + report.length \in Word
      BY <3>1, StorageAssumption DEF Word, STORAGE_EEPROM_SIZE, STORAGE_SCRIPT_START
    <3>3. response' \in Response
      BY <2>2, <3>2 DEF ReturnAppend, Return, IInv, TypeOK, Response
    <3>. QED BY <2>2, <3>1, <3>3, StorageAssumption
             DEF ReturnAppend, IInv, TypeOK, StorageTypeOK
  <2>3. CASE ReturnCommit
    <3>1. report \in CommitReport
      BY <2>3 DEF ReturnCommit, Return, IInv, Accepted
    <3>. QED BY <2>3, <3>1, ErrorResponse
             DEF ReturnCommit, Return, IInv, TypeOK, cache_header, Cache, CommitReport, LengthOK
  <2>4. CASE ReturnMismatch
    <3>1. 0 \in Word
      BY StorageAssumption DEF Word
    <3>2. cache_invalidated(cache) \in Cache
      BY <3>1 DEF cache_invalidated, IInv, TypeOK, StorageTypeOK, Cache
    <3>. QED BY <2>4, <3>2, ErrorResponse DEF ReturnMismatch, Return, IInv, TypeOK
  <2>. QED BY <2>1, <2>2, <2>3, <2>4
<1>. QED BY <1>1, <1>2, AnswerKeeps DEF IInv, TypeOK, StorageTypeOK

LEMMA PowerLossType ==
  ASSUME IInv, PowerLoss
  PROVE  IInv'
<1>1. StorageTypeOK'
  BY StorageInitType DEF PowerLoss, IInv, TypeOK, StorageTypeOK
<1>2. running_crc' \in Word /\ current_offset' \in 0 .. MaxScript
  BY CrcAssumption, StorageAssumption DEF PowerLoss, ProtocolRestart
<1>. QED BY <1>1, <1>2, ErrorResponse, AnswerKeeps DEF PowerLoss, ProtocolRestart

LEMMA StepIInv == IInv /\ [Next]_vars => IInv'
<1>. SUFFICES ASSUME IInv, [Next]_vars PROVE IInv'
  OBVIOUS
<1>1. ASSUME NEW r \in Reports, protocol_process_report(r) PROVE IInv'
  BY <1>1, WriteCommandType, ReadCommandType, AppendCommandType, CommitCommandType,
     PlainCommandType DEF protocol_process_report
<1>2. CASE Proceed
  BY <1>2, StoreByteType, ReturnType DEF Proceed
<1>3. CASE PowerLoss
  BY <1>3, PowerLossType
<1>4. CASE UNCHANGED vars
  BY <1>4 DEF vars, IInv, TypeOK, StorageTypeOK, Writes
<1>. QED BY <1>1, <1>2, <1>3, <1>4 DEF Next

(* Every variable keeps its type for every EEPROM size, byte width, set of *)
(* reports and EEPROM contents: in particular the append offset never      *)
(* passes the end of the script area (hid_protocol.c:107).                 *)
THEOREM TypeCorrect == Spec => []TypeOK
<1>1. IInv => TypeOK
  BY DEF IInv
<1>. QED BY InitIInv, StepIInv, <1>1, PTL DEF Spec
-----------------------------------------------------------------------------
(* What a handler has programmed so far is in the EEPROM.  This is what    *)
(* an OK or CRC_MISMATCH response rests on when the handler returns, and   *)
(* it is inductive because a handler never programs an address twice.      *)
Stored == \A i \in 1 .. done : eeprom[Writes[i].address] = Writes[i].byte

LEMMA WritesDistinct ==
  ASSUME NEW h, NEW r, NEW offset \in 0 .. MaxScript, Accepted(h, r, offset),
         NEW i \in 1 .. CountOf(h, r), NEW j \in 1 .. CountOf(h, r), i # j
  PROVE  WritesOf(h, r, offset)[i].address # WritesOf(h, r, offset)[j].address
<1>0. h \in Handlers
  BY DEF Accepted
<1>1. CASE h = "write"
  <2>1. r.length \in Nat /\ r.address \in Nat
    BY <1>1, WordsAreNaturals DEF Accepted, WriteReport
  <2>2. WritesOf(h, r, offset) = [k \in 1 .. r.length |-> Put(r.address + k - 1, r.data[k])]
    BY <1>1 DEF WritesOf, storage_write_bytes
  <2>. QED BY <1>1, <2>1, <2>2 DEF CountOf, Put
<1>2. CASE h = "append"
  <2>0. r.length \in Nat
    BY <1>2, WordsAreNaturals DEF Accepted, AppendReport
  <2>1. r.length \in Nat /\ AppendAddress(offset) \in Nat
    BY <2>0, StorageAssumption DEF AppendAddress, STORAGE_SCRIPT_START
  <2>2. WritesOf(h, r, offset)
          = [k \in 1 .. r.length |-> Put(AppendAddress(offset) + k - 1, r.data[k])]
    BY <1>2 DEF WritesOf, storage_write_bytes
  <2>. QED BY <1>2, <2>1, <2>2 DEF CountOf, Put
<1>3. CASE h = "header"
  BY <1>3 DEF CountOf, WritesOf, storage_write_header, Put, HEADER_OFFSET_VERSION,
     HEADER_OFFSET_FLAGS, HEADER_OFFSET_DELAY, HEADER_OFFSET_LENGTH, HEADER_OFFSET_CRC
<1>4. CASE h = "invalidate"
  BY <1>4 DEF CountOf, WritesOf, storage_invalidate_script, Put, HEADER_OFFSET_LENGTH
<1>5. CASE h = "idle"
  BY <1>5 DEF CountOf
<1>. QED BY <1>0, <1>1, <1>2, <1>3, <1>4, <1>5 DEF Handlers

LEMMA StoreByteStored ==
  ASSUME IInv, Stored, StoreByte
  PROVE  Stored'
<1>1. /\ done + 1 \in 1 .. Len(Writes)
      /\ Writes[done + 1] \in Put0
      /\ eeprom' = [eeprom EXCEPT ![Writes[done + 1].address] = Writes[done + 1].byte]
      /\ Writes' = Writes
  BY StoreByteEffect
<1>2. done \in Nat /\ done' = done + 1 /\ Len(Writes) = CountOf(handler, report)
  BY WritesShape DEF StoreByte, IInv, TypeOK, Writes
<1>3. \A i \in 1 .. Len(Writes) : Writes[i].address \in Address
  BY <1>2, WritesShape DEF IInv, TypeOK, Writes, Put0
<1>4. eeprom \in [Address -> Byte]
  BY DEF IInv, TypeOK, StorageTypeOK, Eeprom
<1>5. ASSUME NEW i \in 1 .. done'
      PROVE  eeprom'[Writes[i].address] = Writes[i].byte
  <2>1. CASE i = done + 1
    BY <1>1, <1>3, <1>4, <2>1
  <2>2. CASE i # done + 1
    <3>1. i \in 1 .. done /\ i \in 1 .. Len(Writes)
      BY <1>1, <1>2, <2>2
    <3>2. Writes[i].address # Writes[done + 1].address
      BY <1>1, <1>2, <2>2, <3>1, WritesDistinct DEF IInv, TypeOK, Writes
    <3>. QED BY <1>1, <1>3, <1>4, <3>1, <3>2 DEF Stored
  <2>. QED BY <2>1, <2>2
<1>. QED BY <1>1, <1>5 DEF Stored

(* A command, a return or a power loss starts the count again.             *)
LEMMA OtherStepsRestart ==
  ASSUME IInv, Next, ~ StoreByte
  PROVE  done' = 0
<1>1. ASSUME NEW r \in Reports, protocol_process_report(r), handler = "idle"
      PROVE  done' = 0
  <2>1. done = 0
    BY <1>1, IdleWrites DEF IInv, TypeOK, Writes
  <2>. QED BY <1>1, <2>1
       DEF protocol_process_report, WriteCommand, ReadCommand, AppendCommand,
           ResetCommand, CommitCommand, StatusCommand, ExitCommand, InvalidCommand,
           Answer, StartWriting
<1>2. ASSUME NEW r \in Reports, protocol_process_report(r)
      PROVE  handler = "idle"
  BY <1>2 DEF protocol_process_report, WriteCommand, ReadCommand, AppendCommand,
     ResetCommand, CommitCommand, StatusCommand, ExitCommand, InvalidCommand, Receive
<1>. QED BY <1>1, <1>2
     DEF Next, Proceed, ReturnWrite, ReturnAppend, ReturnCommit, ReturnMismatch,
         Return, PowerLoss, ProtocolRestart

LEMMA StepStored == IInv /\ Stored /\ [Next]_vars => Stored'
<1>. SUFFICES ASSUME IInv, Stored, [Next]_vars PROVE Stored'
  OBVIOUS
<1>1. CASE StoreByte
  BY <1>1, StoreByteStored
<1>2. CASE Next /\ ~ StoreByte
  BY <1>2, OtherStepsRestart DEF Stored
<1>3. CASE UNCHANGED vars
  BY <1>3 DEF vars, Stored, Writes
<1>. QED BY <1>1, <1>2, <1>3
-----------------------------------------------------------------------------
(* The three ways a step can change the response and the EEPROM.           *)
LEMMA StoreByteBusy ==
  ASSUME IInv, StoreByte
  PROVE  handler \in Handlers \ {"idle"} /\ handler' = handler /\ response' = response
         /\ report' = report /\ cache' = cache /\ current_offset' = current_offset
         /\ done' = done + 1 /\ spoiled' = spoiled /\ vouched' = vouched
<1>1. handler # "idle"
  BY IdleWrites DEF StoreByte, IInv, TypeOK, Writes
<1>. QED BY <1>1 DEF StoreByte, IInv, TypeOK

LEMMA CommandEffect ==
  ASSUME IInv, NEW r \in Reports, protocol_process_report(r)
  PROVE  /\ handler = "idle" /\ UNCHANGED storage_vars /\ report' = r
         /\ \/ handler' # "idle" /\ response' = response
            \/ response'.status # "OK" /\ response'.status # "CRC_MISMATCH"
            \/ /\ r.command \in {"RESET", "STATUS"}
               /\ response'.status # "CRC_MISMATCH"
            \/ /\ r.command = "READ" /\ r.length \in Nat
               /\ response' = [status |-> "OK", bytes_read |-> r.length,
                      data |-> BytesAt(eeprom, r.address, r.length)]
<1>1. CASE WriteCommand(r)
  BY <1>1 DEF WriteCommand, Receive, Answer, StartWriting, Error, storage_vars
<1>2. CASE ReadCommand(r)
  <2>1. r.length \in Nat /\ r.address \in Nat
    BY <1>2, ReportOfCommand, WordsAreNaturals DEF ReadCommand, Receive, ReadReport
  <2>2. r.address + r.length <= STORAGE_EEPROM_SIZE =>
          storage_read_bytes(eeprom, r.address, r.length)
            = BytesAt(eeprom, r.address, r.length)
    BY <2>1, ReadPlain
  <2>3. CASE response'.status # "OK" /\ response'.status # "CRC_MISMATCH"
    BY <1>2, <2>3 DEF ReadCommand, Receive, storage_vars
  <2>4. CASE /\ r.address + r.length <= STORAGE_EEPROM_SIZE
             /\ Answer([status |-> "OK", bytes_read |-> r.length,
                   data |-> storage_read_bytes(eeprom, r.address, r.length)])
    BY <1>2, <2>1, <2>2, <2>4 DEF ReadCommand, Receive, Answer, storage_vars
  <2>. QED BY <1>2, <2>3, <2>4 DEF ReadCommand, Answer, Error
<1>3. CASE AppendCommand(r)
  BY <1>3 DEF AppendCommand, Receive, Answer, StartWriting, Error, storage_vars
<1>4. CASE ResetCommand(r)
  BY <1>4 DEF ResetCommand, Receive, Answer, OkPlain, storage_vars
<1>5. CASE CommitCommand(r)
  BY <1>5 DEF CommitCommand, Receive, Answer, StartWriting, Error, storage_vars
<1>6. CASE StatusCommand(r)
  BY <1>6 DEF StatusCommand, Receive, Answer, storage_vars
<1>7. CASE ExitCommand(r)
  BY <1>7 DEF ExitCommand, Receive, Answer, NoResponse, storage_vars
<1>8. CASE InvalidCommand(r)
  BY <1>8 DEF InvalidCommand, Receive, Answer, Error, storage_vars
<1>. QED BY <1>1, <1>2, <1>3, <1>4, <1>5, <1>6, <1>7, <1>8 DEF protocol_process_report
-----------------------------------------------------------------------------
LEMMA StepMismatch ==
  ASSUME IInv, Stored, MismatchInvalidates, [Next]_vars
  PROVE  MismatchInvalidates'
<1>1. ASSUME NEW r \in Reports, protocol_process_report(r) PROVE MismatchInvalidates'
  BY <1>1, CommandEffect DEF MismatchInvalidates
<1>2. CASE StoreByte
  BY <1>2, StoreByteBusy DEF MismatchInvalidates
<1>3. CASE ReturnWrite \/ ReturnAppend \/ ReturnCommit
  BY <1>3 DEF ReturnWrite, ReturnAppend, ReturnCommit, Return, OkPlain, MismatchInvalidates
<1>4. CASE ReturnMismatch
  <2>1. handler = "invalidate" /\ done = Len(Writes) /\ Writes = storage_invalidate_script
    BY <1>4 DEF ReturnMismatch, Return, Writes, WritesOf
  <2>2. eeprom[4] = 0 /\ eeprom[5] = 0
    <3>1. done = 2 /\ Writes = << Put(4, 0), Put(5, 0) >>
      BY <2>1 DEF storage_invalidate_script, HEADER_OFFSET_LENGTH
    <3>. QED BY <3>1 DEF Stored, Put
  <2>3. read_u16(eeprom, HEADER_OFFSET_LENGTH) = 0
    BY <2>2, StorageAssumption DEF read_u16, HEADER_OFFSET_LENGTH
  <2>4. ~ ValidImage(eeprom)
    BY <2>3, ValidImageMeans DEF LengthOK
  <2>5. ~ cache'.valid /\ eeprom' = eeprom
    BY <1>4 DEF ReturnMismatch, Return, cache_invalidated, IInv, TypeOK, StorageTypeOK, Cache
  <2>. QED BY <2>4, <2>5 DEF MismatchInvalidates
<1>5. CASE PowerLoss
  BY <1>5 DEF PowerLoss, ProtocolRestart, NoResponse, MismatchInvalidates
<1>6. CASE UNCHANGED vars
  BY <1>6 DEF vars, MismatchInvalidates
<1>. QED BY <1>1, <1>2, <1>3, <1>4, <1>5, <1>6 DEF Next, Proceed

(* The response CRC_MISMATCH means that no script can start, at once and   *)
(* after every reset, whatever was in the EEPROM: handle_commit cleared    *)
(* both bytes of the length, and nothing has written since.                *)
THEOREM MismatchAlwaysInvalidates == Spec => []MismatchInvalidates
<1>1. Init => IInv /\ Stored /\ MismatchInvalidates
  BY InitIInv DEF Init, ProtocolInit, Stored, MismatchInvalidates, NoResponse
<1>2. IInv /\ Stored /\ MismatchInvalidates /\ [Next]_vars
        => (IInv /\ Stored /\ MismatchInvalidates)'
  BY StepIInv, StepStored, StepMismatch
<1>. QED BY <1>1, <1>2, PTL DEF Spec
-----------------------------------------------------------------------------
LEMMA StepAcknowledged ==
  ASSUME IInv, Stored, AcknowledgedIsStored, [Next]_vars
  PROVE  AcknowledgedIsStored'
<1>1. ASSUME NEW r \in Reports, protocol_process_report(r)
      PROVE  AcknowledgedIsStored'
  <2>1. CASE handler' # "idle" \/ response'.status # "OK"
    BY <2>1 DEF AcknowledgedIsStored
  <2>2. CASE r.command \in {"RESET", "STATUS"}
    BY <1>1, <2>2, CommandEffect DEF AcknowledgedIsStored
  <2>3. CASE /\ r.command = "READ" /\ r.length \in Nat
             /\ response' = [status |-> "OK", bytes_read |-> r.length,
                   data |-> BytesAt(eeprom, r.address, r.length)]
    BY <1>1, <2>3, CommandEffect DEF AcknowledgedIsStored, BytesAt, storage_vars
  <2>. QED BY <1>1, <2>1, <2>2, <2>3, CommandEffect
<1>2. CASE StoreByte
  BY <1>2, StoreByteBusy DEF AcknowledgedIsStored
<1>3. CASE ReturnWrite
  <2>1. /\ done = Len(Writes) /\ eeprom' = eeprom /\ report' = report
        /\ response' = [status |-> "OK", bytes_written |-> report.length]
        /\ Writes = storage_write_bytes(report.address, report.data, report.length)
        /\ report \in WriteReport
    BY <1>3 DEF ReturnWrite, Return, Writes, WritesOf, IInv, Accepted
  <2>2. report.length \in Nat /\ report.command = "WRITE"
    BY <2>1, WordsAreNaturals DEF WriteReport
  <2>3. \A i \in 1 .. report.length : eeprom[report.address + i - 1] = report.data[i]
    BY <2>1, <2>2 DEF Stored, storage_write_bytes, Put
  <2>. QED BY <2>1, <2>2, <2>3 DEF AcknowledgedIsStored
<1>4. CASE ReturnAppend
  <2>1. /\ done = Len(Writes) /\ eeprom' = eeprom /\ report' = report
        /\ response'.next_offset = current_offset + report.length
        /\ current_offset' = current_offset + report.length
        /\ Writes = storage_write_bytes(AppendAddress(current_offset), report.data,
                                        report.length)
        /\ report \in AppendReport
    BY <1>4 DEF ReturnAppend, Return, Writes, WritesOf, IInv, Accepted
  <2>2. report.length \in Nat /\ report.command = "APPEND"
    BY <2>1, WordsAreNaturals DEF AppendReport
  <2>3. current_offset \in Nat
    BY StorageAssumption DEF IInv, TypeOK
  <2>4. current_offset' - report.length = current_offset
    BY <2>1, <2>2, <2>3
  <2>5. \A i \in 1 .. report.length :
          eeprom[STORAGE_SCRIPT_START + current_offset + i - 1] = report.data[i]
    <3>1. Writes = [i \in 1 .. report.length |->
                      Put(AppendAddress(current_offset) + i - 1, report.data[i])]
      BY <2>1 DEF storage_write_bytes
    <3>2. done = report.length
      BY <2>1, <2>2, <3>1
    <3>3. \A i \in 1 .. report.length :
            /\ Writes[i].address = AppendAddress(current_offset) + i - 1
            /\ Writes[i].byte = report.data[i]
      BY <3>1 DEF Put
    <3>. QED BY <3>2, <3>3 DEF Stored, AppendAddress
  <2>. QED BY <2>1, <2>2, <2>4, <2>5 DEF AcknowledgedIsStored
<1>5. CASE ReturnCommit
  <2>1. /\ done = Len(Writes) /\ eeprom' = eeprom /\ report' = report
        /\ Writes = storage_write_header(report.version, report.flags, report.delay,
                                         report.length, report.crc)
        /\ report \in CommitReport
        /\ cache' = cache_header(report.flags, report.delay, report.length)
    BY <1>5 DEF ReturnCommit, Return, Writes, WritesOf, IInv, Accepted
  <2>2. /\ report.delay \in Word /\ report.length \in Word /\ report.crc \in Word
        /\ report.command = "COMMIT"
    BY <2>1 DEF CommitReport
  <2>3. Len(Writes) = 8 /\ done = 8
    BY <2>1 DEF storage_write_header
  <2>4. /\ eeprom[0] = report.version /\ eeprom[1] = report.flags
        /\ eeprom[2] = Lo(report.delay) /\ eeprom[3] = Hi(report.delay)
        /\ eeprom[4] = Lo(report.length) /\ eeprom[5] = Hi(report.length)
        /\ eeprom[6] = Lo(report.crc) /\ eeprom[7] = Hi(report.crc)
    BY <2>1, <2>3
       DEF Stored, storage_write_header, Put, HEADER_OFFSET_VERSION, HEADER_OFFSET_FLAGS,
           HEADER_OFFSET_DELAY, HEADER_OFFSET_LENGTH, HEADER_OFFSET_CRC
  <2>5. /\ read_u16(eeprom, 2) = report.delay
        /\ read_u16(eeprom, 4) = report.length
        /\ read_u16(eeprom, 6) = report.crc
    BY <2>2, <2>4, Halves DEF read_u16
  <2>. QED BY <2>1, <2>2, <2>4, <2>5
       DEF AcknowledgedIsStored, HEADER_OFFSET_VERSION, HEADER_OFFSET_FLAGS,
           HEADER_OFFSET_DELAY, HEADER_OFFSET_LENGTH, HEADER_OFFSET_CRC
<1>6. CASE ReturnMismatch
  BY <1>6 DEF ReturnMismatch, Return, Error, AcknowledgedIsStored
<1>7. CASE PowerLoss
  BY <1>7 DEF PowerLoss, ProtocolRestart, NoResponse, AcknowledgedIsStored
<1>8. CASE UNCHANGED vars
  BY <1>8 DEF vars, AcknowledgedIsStored
<1>. QED BY <1>1, <1>2, <1>3, <1>4, <1>5, <1>6, <1>7, <1>8 DEF Next, Proceed

(* An OK response to WRITE, READ, APPEND or COMMIT is true of the EEPROM   *)
(* for as long as it is the last response: every byte the response counts  *)
(* is stored where the command said, and the cached header is the stored   *)
(* one.                                                                    *)
THEOREM AcknowledgedAlwaysStored == Spec => []AcknowledgedIsStored
<1>1. Init => IInv /\ Stored /\ AcknowledgedIsStored
  BY InitIInv DEF Init, ProtocolInit, Stored, AcknowledgedIsStored, NoResponse
<1>2. IInv /\ Stored /\ AcknowledgedIsStored /\ [Next]_vars
        => (IInv /\ Stored /\ AcknowledgedIsStored)'
  BY StepIInv, StepStored, StepAcknowledged
<1>. QED BY <1>1, <1>2, PTL DEF Spec
-----------------------------------------------------------------------------
LEMMA StepFrame ==
  ASSUME IInv, [Next]_vars
  PROVE  [\A a \in Address : eeprom'[a] # eeprom[a] => FrameOf(a)]_vars
<1>1. CASE eeprom' = eeprom
  BY <1>1
<1>2. CASE StoreByte
  <2>1. /\ done + 1 \in 1 .. Len(Writes)
        /\ eeprom' = [eeprom EXCEPT ![Writes[done + 1].address] = Writes[done + 1].byte]
        /\ handler \in Handlers \ {"idle"}
    BY <1>2, StoreByteEffect, StoreByteBusy
  <2>2. eeprom \in [Address -> Byte]
    BY DEF IInv, TypeOK, StorageTypeOK, Eeprom
  <2>3. \A a \in Address : eeprom'[a] # eeprom[a] => a = Writes[done + 1].address
    BY <2>1, <2>2
  <2>4. FrameOf(Writes[done + 1].address)
    <3>1. CASE handler = "write"
      <4>1. report.length \in Nat /\ report.address \in Nat
        BY <3>1, WordsAreNaturals DEF IInv, Accepted, WriteReport
      <4>2. Writes = storage_write_bytes(report.address, report.data, report.length)
        BY <3>1 DEF Writes, WritesOf
      <4>. QED BY <2>1, <3>1, <4>1, <4>2 DEF FrameOf, storage_write_bytes, Put
    <3>2. CASE handler = "append"
      <4>1. report.length \in Nat
        BY <3>2, WordsAreNaturals DEF IInv, Accepted, AppendReport
      <4>2. AppendAddress(current_offset) \in Nat
        BY StorageAssumption DEF IInv, TypeOK, AppendAddress, STORAGE_SCRIPT_START
      <4>3. Writes
              = storage_write_bytes(AppendAddress(current_offset), report.data, report.length)
        BY <3>2 DEF Writes, WritesOf
      <4>4. /\ done + 1 \in 1 .. report.length
            /\ Writes[done + 1].address = AppendAddress(current_offset) + (done + 1) - 1
        BY <2>1, <4>1, <4>2, <4>3 DEF storage_write_bytes, Put
      <4>5. current_offset \in Nat /\ done \in Nat
        BY <4>1, <4>4, StorageAssumption DEF IInv, TypeOK
      <4>6. Writes[done + 1].address - STORAGE_SCRIPT_START - current_offset = done
        BY <4>4, <4>5 DEF AppendAddress, STORAGE_SCRIPT_START
      <4>7. done \in 0 .. report.length - 1
        BY <4>1, <4>4, <4>5
      <4>. QED BY <3>2, <4>6, <4>7 DEF FrameOf
    <3>3. CASE handler = "header"
      <4>1. Writes = storage_write_header(report.version, report.flags, report.delay,
                                          report.length, report.crc)
        BY <3>3 DEF Writes, WritesOf
      <4>. QED BY <2>1, <3>3, <4>1
           DEF FrameOf, storage_write_header, Put, HEADER_OFFSET_VERSION,
               HEADER_OFFSET_FLAGS, HEADER_OFFSET_DELAY, HEADER_OFFSET_LENGTH,
               HEADER_OFFSET_CRC, STORAGE_SCRIPT_START
    <3>4. CASE handler = "invalidate"
      <4>1. Writes = storage_invalidate_script
        BY <3>4 DEF Writes, WritesOf
      <4>. QED BY <2>1, <3>4, <4>1
           DEF FrameOf, storage_invalidate_script, Put, HEADER_OFFSET_LENGTH,
               STORAGE_SCRIPT_START
    <3>. QED BY <2>1, <3>1, <3>2, <3>3, <3>4 DEF Handlers
  <2>. QED BY <2>3, <2>4
<1>3. CASE Next /\ ~ StoreByte
  BY <1>1, <1>3, CommandEffect
     DEF Next, Proceed, ReturnWrite, ReturnAppend, ReturnCommit, ReturnMismatch, Return,
         PowerLoss, storage_vars
<1>4. CASE UNCHANGED vars
  BY <1>4 DEF vars
<1>. QED BY <1>1, <1>2, <1>3, <1>4

(* No sequence of reports makes a command write outside its frame: the     *)
(* limits hid_protocol.c checks are enough, on every EEPROM size.          *)
THEOREM FrameAlwaysRespected == Spec => FrameRespected
<1>1. IInv /\ [Next]_vars
        => [\A a \in Address : eeprom'[a] # eeprom[a] => FrameOf(a)]_vars
  BY StepFrame
<1>. QED BY InitIInv, StepIInv, <1>1, PTL DEF Spec, FrameRespected
-----------------------------------------------------------------------------
(* Writing outside the first n script bytes leaves them alone; writing the *)
(* next one appends it to them.                                            *)
LEMMA ScriptUntouched ==
  ASSUME NEW e \in Eeprom, NEW n \in 0 .. MaxScript, NEW a \in Address, NEW b,
         a < STORAGE_SCRIPT_START \/ a >= STORAGE_SCRIPT_START + n
  PROVE  Script([e EXCEPT ![a] = b], n) = Script(e, n)
<1>1. e \in [Address -> Byte]
  BY DEF Eeprom
<1>2. ASSUME NEW i \in 1 .. n
      PROVE  [e EXCEPT ![a] = b][STORAGE_SCRIPT_START + i - 1] = e[STORAGE_SCRIPT_START + i - 1]
  <2>1. STORAGE_SCRIPT_START + i - 1 \in Address /\ STORAGE_SCRIPT_START + i - 1 # a
    BY StorageAssumption DEF Address, STORAGE_EEPROM_SIZE, STORAGE_SCRIPT_START
  <2>. QED BY <1>1, <2>1
<1>. QED BY <1>2 DEF Script

LEMMA ScriptIsBounded ==
  ASSUME NEW e \in Eeprom, NEW n \in 0 .. MaxScript
  PROVE  /\ Script(e, n) \in Seq(Byte) /\ Len(Script(e, n)) = n
         /\ \A m \in Nat : n <= m => Script(e, n) \in BoundedSeq(Byte, m)
<1>1. n \in Nat /\ MaxScript \in Nat
  BY StorageAssumption
<1>2. Script(e, n) \in [1 .. n -> Byte]
  <2>1. \A i \in 1 .. n : STORAGE_SCRIPT_START + i - 1 \in Address
    BY StorageAssumption DEF Address, STORAGE_EEPROM_SIZE, STORAGE_SCRIPT_START
  <2>. QED BY <2>1 DEF Script, Eeprom
<1>3. ASSUME NEW m \in Nat, n <= m
      PROVE  Script(e, n) \in BoundedSeq(Byte, m)
  BY <1>1, <1>2, <1>3 DEF BoundedSeq, SeqOf
<1>. QED BY <1>1, <1>2, <1>3 DEF Script

LEMMA ScriptGrows ==
  ASSUME NEW e \in Eeprom, NEW n \in Nat, n < MaxScript, NEW b \in Byte
  PROVE  Script([e EXCEPT ![STORAGE_SCRIPT_START + n] = b], n + 1) = Append(Script(e, n), b)
<1>. DEFINE f == [e EXCEPT ![STORAGE_SCRIPT_START + n] = b]
<1>1. e \in [Address -> Byte] /\ STORAGE_SCRIPT_START + n \in Address
  BY StorageAssumption DEF Eeprom, Address, STORAGE_EEPROM_SIZE, STORAGE_SCRIPT_START
<1>2. f \in Eeprom
  BY <1>1 DEF Eeprom
<1>3. n \in 0 .. MaxScript /\ n + 1 \in 0 .. MaxScript
  BY StorageAssumption
<1>4. /\ Script(e, n) \in Seq(Byte) /\ Len(Script(e, n)) = n
      /\ Script(f, n + 1) \in Seq(Byte) /\ Len(Script(f, n + 1)) = n + 1
  BY <1>2, <1>3, ScriptIsBounded
<1>5. Append(Script(e, n), b) \in Seq(Byte) /\ Len(Append(Script(e, n), b)) = n + 1
  BY <1>4
<1>6. ASSUME NEW i \in 1 .. n + 1
      PROVE  Script(f, n + 1)[i] = Append(Script(e, n), b)[i]
  <2>1. Script(f, n + 1)[i] = f[STORAGE_SCRIPT_START + i - 1]
    BY DEF Script
  <2>2. STORAGE_SCRIPT_START + i - 1 \in Address
    BY StorageAssumption DEF Address, STORAGE_EEPROM_SIZE, STORAGE_SCRIPT_START
  <2>3. CASE i = n + 1
    <3>1. STORAGE_SCRIPT_START + i - 1 = STORAGE_SCRIPT_START + n
      BY <2>3 DEF STORAGE_SCRIPT_START
    <3>2. Append(Script(e, n), b)[i] = b
      BY <1>4, <2>3
    <3>. QED BY <1>1, <2>1, <3>1, <3>2
  <2>4. CASE i # n + 1
    <3>1. i \in 1 .. n /\ STORAGE_SCRIPT_START + i - 1 # STORAGE_SCRIPT_START + n
      BY <2>4 DEF STORAGE_SCRIPT_START
    <3>2. Append(Script(e, n), b)[i] = Script(e, n)[i]
      BY <1>4, <3>1
    <3>3. Script(e, n)[i] = e[STORAGE_SCRIPT_START + i - 1]
      BY <3>1 DEF Script
    <3>. QED BY <1>1, <2>1, <2>2, <3>1, <3>2, <3>3
  <2>. QED BY <2>3, <2>4
<1>7. Script(f, n + 1) = Append(Script(e, n), b)
  <2>. HIDE DEF f
  <2>. QED BY <1>4, <1>5, <1>6, SeqEqual
<1>. QED BY <1>7

LEMMA CrcGrows ==
  ASSUME NEW e \in Eeprom, NEW n \in Nat, n < MaxScript, NEW b \in Byte
  PROVE  CrcOf(Script([e EXCEPT ![STORAGE_SCRIPT_START + n] = b], n + 1))
           = CrcUpdate(CrcOf(Script(e, n)), b)
<1>1. n \in 0 .. MaxScript /\ MaxScript - 1 \in Nat /\ n <= MaxScript - 1
  BY StorageAssumption
<1>2. Script(e, n) \in BoundedSeq(Byte, MaxScript - 1)
  BY <1>1, ScriptIsBounded
<1>. QED BY <1>2, ScriptGrows, CrcAssumption

LEMMA EmptyScript ==
  ASSUME NEW e
  PROVE  Script(e, 0) = << >> /\ CrcOf(Script(e, 0)) = CrcInit
  BY CrcAssumption DEF Script
-----------------------------------------------------------------------------
(* The running CRC.  A WRITE in progress that spares the appended bytes    *)
(* has not been counted as spoiling them.                                  *)
CrcInv ==
  /\ RunningCrcCoversScript
  /\ handler = "write" /\ ~ spoiled => ~ MeetsAppended(report.address, report.length)

LEMMA CrcOfPrefix ==
  ASSUME IInv, handler = "idle"
  PROVE  Appended = current_offset
  BY StorageAssumption DEF Appended, IInv, TypeOK

LEMMA CommandCrc ==
  ASSUME IInv, CrcInv, NEW r \in Reports, protocol_process_report(r)
  PROVE  CrcInv'
<1>1. /\ handler = "idle" /\ eeprom' = eeprom /\ report' = r /\ done = 0
      /\ Appended = current_offset
  BY CommandEffect, CrcOfPrefix, IdleWrites DEF storage_vars, IInv, TypeOK, Writes
<1>2. current_offset' \in 0 .. MaxScript /\ done' = 0
  <2>1. ~ StoreByte /\ Next
    BY <1>1, StoreByteBusy DEF Next
  <2>. QED BY <2>1, OtherStepsRestart, StepIInv DEF IInv, TypeOK
<1>3. Appended' = current_offset'
  <2>1. current_offset' \in Nat
    BY <1>2, StorageAssumption
  <2>2. (IF handler' = "append" THEN done' ELSE 0) = 0
    BY <1>2
  <2>3. \A n \in Nat : n + 0 = n
    OBVIOUS
  <2>. QED BY <2>1, <2>2, <2>3 DEF Appended
<1>4. CASE ResetCommand(r) \/ (CommitCommand(r) /\ current_offset' = 0)
  <2>1. current_offset' = 0 /\ handler' # "write"
    BY <1>1, <1>4 DEF ResetCommand, CommitCommand, Answer, StartWriting
  <2>2. running_crc' = CrcInit \/ UNCHANGED <<upload_vars, current_offset>>
    BY <1>4 DEF ResetCommand, CommitCommand, upload_vars
  <2>. QED BY <1>1, <1>3, <2>1, <2>2, EmptyScript
           DEF CrcInv, RunningCrcCoversScript, upload_vars
<1>5. CASE ~ WriteCommand(r) /\ UNCHANGED upload_vars
  <2>1. handler' # "write"
    BY <1>1, <1>5
       DEF protocol_process_report, ReadCommand, AppendCommand, ResetCommand,
           CommitCommand, StatusCommand, ExitCommand, InvalidCommand, Answer, StartWriting
  <2>. QED BY <1>1, <1>3, <1>5, <2>1 DEF CrcInv, RunningCrcCoversScript, upload_vars
<1>6. CASE WriteCommand(r)
  <2>1. running_crc' = running_crc /\ current_offset' = current_offset
    BY <1>6 DEF WriteCommand
  <2>2. \/ spoiled' = spoiled /\ handler' = "idle"
        \/ spoiled' = (spoiled \/ MeetsAppended(r.address, r.length))
    BY <1>1, <1>6 DEF WriteCommand, Answer
  <2>4. MeetsAppended(report.address, report.length)' <=> MeetsAppended(r.address, r.length)
    BY <1>1, <2>1 DEF MeetsAppended
  <2>5. spoiled \in BOOLEAN
    BY DEF IInv, TypeOK
  <2>. QED BY <1>1, <1>3, <2>1, <2>2, <2>4, <2>5 DEF CrcInv, RunningCrcCoversScript
<1>7. \/ WriteCommand(r) \/ UNCHANGED upload_vars
      \/ ResetCommand(r) \/ (CommitCommand(r) /\ current_offset' = 0)
  BY DEF protocol_process_report, ReadCommand, AppendCommand, CommitCommand,
         StatusCommand, ExitCommand, InvalidCommand
<1>. QED BY <1>4, <1>5, <1>6, <1>7

LEMMA StoreByteCrc ==
  ASSUME IInv, CrcInv, StoreByte
  PROVE  CrcInv'
<1>1. /\ done + 1 \in 1 .. Len(Writes)
      /\ Writes[done + 1] \in Put0
      /\ eeprom' = [eeprom EXCEPT ![Writes[done + 1].address] = Writes[done + 1].byte]
  BY StoreByteEffect
<1>2. /\ handler' = handler /\ report' = report /\ current_offset' = current_offset
      /\ done' = done + 1 /\ spoiled' = spoiled /\ handler \in Handlers \ {"idle"}
  BY StoreByteBusy
<1>3. /\ eeprom \in Eeprom /\ current_offset \in 0 .. MaxScript /\ current_offset \in Nat
      /\ done \in Nat /\ running_crc \in Word
  BY <1>1, StorageAssumption, WritesShape DEF IInv, TypeOK, StorageTypeOK, Writes
<1>4. Writes[done + 1].address \in Address /\ Writes[done + 1].byte \in Byte
  BY <1>1 DEF Put0
<1>5. CASE handler = "append"
  <2>1. report \in AppendReport /\ current_offset + report.length <= MaxScript
    BY <1>5 DEF IInv, Accepted
  <2>2. report.length \in Nat
    BY <2>1, WordsAreNaturals DEF AppendReport
  <2>3. Writes = [i \in 1 .. report.length |->
                    Put(AppendAddress(current_offset) + i - 1, report.data[i])]
    BY <1>5 DEF Writes, WritesOf, storage_write_bytes
  <2>4. done + 1 \in 1 .. report.length
    BY <1>1, <2>2, <2>3
  <2>5. Writes[done + 1].address = STORAGE_SCRIPT_START + (current_offset + done)
    BY <1>3, <2>3, <2>4 DEF Put, AppendAddress, STORAGE_SCRIPT_START
  <2>6. current_offset + done \in Nat /\ current_offset + done < MaxScript
    BY <1>3, <2>1, <2>2, <2>4, StorageAssumption
  <2>7. Appended = current_offset + done /\ Appended' = current_offset + done + 1
    BY <1>2, <1>3, <1>5 DEF Appended
  <2>8. running_crc' = CrcUpdate(running_crc, Writes[done + 1].byte)
    BY <1>5 DEF StoreByte
  <2>9. CrcOf(Script(eeprom', current_offset + done + 1))
          = CrcUpdate(CrcOf(Script(eeprom, current_offset + done)), Writes[done + 1].byte)
    BY <1>1, <1>3, <1>4, <2>5, <2>6, CrcGrows
  <2>. QED BY <1>2, <1>5, <2>7, <2>8, <2>9 DEF CrcInv, RunningCrcCoversScript
<1>6. CASE handler # "append"
  <2>1. /\ running_crc' = running_crc
        /\ Appended = current_offset /\ Appended' = current_offset
    BY <1>2, <1>3, <1>6 DEF StoreByte, Appended
  <2>2. ASSUME ~ spoiled
        PROVE  \/ Writes[done + 1].address < STORAGE_SCRIPT_START
               \/ Writes[done + 1].address >= STORAGE_SCRIPT_START + current_offset
    <3>1. CASE handler = "write"
      <4>1. report.length \in Nat /\ report.address \in Nat
        BY <3>1, WordsAreNaturals DEF IInv, Accepted, WriteReport
      <4>2. Writes = [i \in 1 .. report.length |->
                        Put(report.address + i - 1, report.data[i])]
        BY <3>1 DEF Writes, WritesOf, storage_write_bytes
      <4>3. /\ Writes[done + 1].address = report.address + done
            /\ done + 1 \in 1 .. report.length
        BY <1>1, <1>3, <4>1, <4>2 DEF Put
      <4>4. \/ report.address >= STORAGE_SCRIPT_START + current_offset
            \/ report.address + report.length <= STORAGE_SCRIPT_START
        BY <1>3, <2>2, <3>1, <4>1 DEF CrcInv, MeetsAppended, STORAGE_SCRIPT_START
      <4>. QED BY <1>3, <4>1, <4>3, <4>4 DEF STORAGE_SCRIPT_START
    <3>2. CASE handler = "header"
      <4>1. Writes = storage_write_header(report.version, report.flags, report.delay,
                                          report.length, report.crc)
        BY <3>2 DEF Writes, WritesOf
      <4>. QED BY <1>1, <4>1
           DEF storage_write_header, Put, HEADER_OFFSET_VERSION, HEADER_OFFSET_FLAGS,
               HEADER_OFFSET_DELAY, HEADER_OFFSET_LENGTH, HEADER_OFFSET_CRC,
               STORAGE_SCRIPT_START
    <3>3. CASE handler = "invalidate"
      <4>1. Writes = storage_invalidate_script
        BY <3>3 DEF Writes, WritesOf
      <4>. QED BY <1>1, <4>1
           DEF storage_invalidate_script, Put, HEADER_OFFSET_LENGTH, STORAGE_SCRIPT_START
    <3>. QED BY <1>2, <1>6, <3>1, <3>2, <3>3 DEF Handlers
  <2>3. ~ spoiled => Script(eeprom', current_offset) = Script(eeprom, current_offset)
    BY <1>1, <1>3, <1>4, <2>2, ScriptUntouched
  <2>4. MeetsAppended(report.address, report.length)'
          <=> MeetsAppended(report.address, report.length)
    BY <1>2 DEF MeetsAppended
  <2>. QED BY <1>2, <2>1, <2>3, <2>4 DEF CrcInv, RunningCrcCoversScript
<1>. QED BY <1>5, <1>6

LEMMA StepCrc ==
  ASSUME IInv, CrcInv, [Next]_vars
  PROVE  CrcInv'
<1>1. ASSUME NEW r \in Reports, protocol_process_report(r) PROVE CrcInv'
  BY <1>1, CommandCrc
<1>2. CASE StoreByte
  BY <1>2, StoreByteCrc
<1>3. CASE ReturnWrite \/ ReturnAppend \/ ReturnCommit \/ ReturnMismatch
  <2>1. /\ handler' = "idle" /\ eeprom' = eeprom /\ running_crc' = running_crc
        /\ spoiled' = spoiled
    BY <1>3 DEF ReturnWrite, ReturnAppend, ReturnCommit, ReturnMismatch, Return
  <2>2. Appended' = Appended
    <3>1. current_offset' \in Nat /\ Appended' = current_offset'
      BY <1>3, <2>1, ReturnType, StorageAssumption DEF Appended, IInv, TypeOK
    <3>2. CASE ReturnAppend
      <4>1. /\ handler = "append" /\ done = Len(Writes)
            /\ current_offset' = current_offset + report.length
        BY <3>2 DEF ReturnAppend, Return
      <4>2. Len(Writes) = report.length
        BY <4>1, WritesShape DEF Writes, CountOf, IInv, TypeOK
      <4>. QED BY <3>1, <4>1, <4>2 DEF Appended
    <3>3. CASE ReturnWrite \/ ReturnCommit \/ ReturnMismatch
      <4>1. handler # "append" /\ current_offset' = current_offset
        BY <3>3 DEF ReturnWrite, ReturnCommit, ReturnMismatch, Return
      <4>. QED BY <3>1, <4>1 DEF Appended
    <3>. QED BY <1>3, <3>2, <3>3
  <2>. QED BY <2>1, <2>2 DEF CrcInv, RunningCrcCoversScript
<1>4. CASE PowerLoss
  <2>1. /\ running_crc' = CrcInit /\ current_offset' = 0 /\ handler' = "idle"
    BY <1>4 DEF PowerLoss, ProtocolRestart
  <2>2. Appended' = 0
    BY <2>1 DEF Appended
  <2>. QED BY <2>1, <2>2, EmptyScript DEF CrcInv, RunningCrcCoversScript
<1>5. CASE UNCHANGED vars
  BY <1>5 DEF vars, CrcInv, RunningCrcCoversScript, Appended, MeetsAppended
<1>. QED BY <1>1, <1>2, <1>3, <1>4, <1>5 DEF Next, Proceed

(* Whatever reports came before, refused ones included, the running CRC is *)
(* that of the first bytes of the script area, as long as no WRITE went    *)
(* over them: STATUS and the APPEND responses report a CRC of stored data. *)
THEOREM RunningCrcAlwaysCovers == Spec => []RunningCrcCoversScript
<1>1. Init => IInv /\ CrcInv
  <2>1. Init => Appended = 0 /\ running_crc = CrcInit /\ handler = "idle"
    BY DEF Init, ProtocolInit, Appended
  <2>. QED BY <2>1, InitIInv, EmptyScript DEF CrcInv, RunningCrcCoversScript
<1>2. IInv /\ CrcInv /\ [Next]_vars => (IInv /\ CrcInv)'
  BY StepIInv, StepCrc
<1>3. CrcInv => RunningCrcCoversScript
  BY DEF CrcInv
<1>. QED BY <1>1, <1>2, <1>3, PTL DEF Spec
-----------------------------------------------------------------------------
(* Between the check of a COMMIT and its response nothing changes the      *)
(* script: the header is programmed below it.                              *)
CheckedScript ==
  handler = "header" /\ vouched
    => storage_verify_crc(eeprom, report.length, report.crc)

LEMMA HeaderWritesBelow ==
  ASSUME IInv, StoreByte, handler = "header", NEW n \in 0 .. MaxScript
  PROVE  Script(eeprom', n) = Script(eeprom, n)
<1>1. /\ done + 1 \in 1 .. Len(Writes)
      /\ Writes[done + 1] \in Put0
      /\ eeprom' = [eeprom EXCEPT ![Writes[done + 1].address] = Writes[done + 1].byte]
  BY StoreByteEffect
<1>2. Writes = storage_write_header(report.version, report.flags, report.delay,
                                    report.length, report.crc)
  BY DEF Writes, WritesOf
<1>3. Writes[done + 1].address < STORAGE_SCRIPT_START
  BY <1>1, <1>2
     DEF storage_write_header, Put, HEADER_OFFSET_VERSION, HEADER_OFFSET_FLAGS,
         HEADER_OFFSET_DELAY, HEADER_OFFSET_LENGTH, HEADER_OFFSET_CRC,
         STORAGE_SCRIPT_START
<1>4. Writes[done + 1].address \in Address /\ eeprom \in Eeprom
  BY <1>1 DEF Put0, IInv, TypeOK, StorageTypeOK
<1>. QED BY <1>1, <1>3, <1>4, ScriptUntouched

LEMMA CommitChecks ==
  ASSUME IInv, CrcInv, NEW r \in Reports, CommitCommand(r), CheckedScript
  PROVE  CheckedScript'
<1>1. handler = "idle" /\ eeprom' = eeprom /\ report' = r
  BY DEF CommitCommand, Receive, storage_vars
<1>. SUFFICES ASSUME handler' = "header", vouched'
              PROVE  storage_verify_crc(eeprom, r.length, r.crc)
  BY <1>1 DEF CheckedScript
<1>2. /\ LengthOK(r.length) /\ CalculatedCrc(r) = r.crc
      /\ r.from_eeprom \/ (r.length = current_offset /\ ~ spoiled)
  BY <1>1 DEF CommitCommand, Answer, StartWriting
<1>3. CASE r.from_eeprom
  BY <1>2, <1>3 DEF CalculatedCrc, storage_verify_crc
<1>4. CASE ~ r.from_eeprom
  BY <1>1, <1>2, <1>4, CrcOfPrefix
     DEF CalculatedCrc, storage_verify_crc, CrcInv, RunningCrcCoversScript
<1>. QED BY <1>3, <1>4

LEMMA StepChecked ==
  ASSUME IInv, CrcInv, CheckedScript, [Next]_vars
  PROVE  CheckedScript'
<1>1. ASSUME NEW r \in Reports, protocol_process_report(r) PROVE CheckedScript'
  <2>1. CASE CommitCommand(r)
    BY <2>1, CommitChecks
  <2>2. CASE ~ CommitCommand(r)
    <3>1. handler = "idle"
      BY <1>1, CommandEffect
    <3>2. handler' # "header"
      BY <1>1, <2>2, <3>1
         DEF protocol_process_report, WriteCommand, ReadCommand, AppendCommand,
             ResetCommand, StatusCommand, ExitCommand, InvalidCommand, Answer, StartWriting
    <3>. QED BY <3>2 DEF CheckedScript
  <2>. QED BY <2>1, <2>2
<1>2. CASE StoreByte
  <2>. SUFFICES ASSUME handler' = "header", vouched'
                PROVE  storage_verify_crc(eeprom', report'.length, report'.crc)
    BY DEF CheckedScript
  <2>1. handler = "header" /\ vouched /\ report' = report
    BY <1>2, StoreByteBusy
  <2>2. report \in CommitReport /\ LengthOK(report.length)
    BY <2>1 DEF IInv, Accepted
  <2>3. report.length \in 0 .. MaxScript
    <3>1. report.length \in Nat
      BY <2>2, WordsAreNaturals DEF CommitReport
    <3>. QED BY <2>2, <3>1, StorageAssumption DEF LengthOK
  <2>. QED BY <1>2, <2>1, <2>3, HeaderWritesBelow DEF CheckedScript, storage_verify_crc
<1>3. CASE ReturnWrite \/ ReturnAppend \/ ReturnCommit \/ ReturnMismatch \/ PowerLoss
  <2>1. handler' = "idle"
    BY <1>3 DEF ReturnWrite, ReturnAppend, ReturnCommit, ReturnMismatch, Return, PowerLoss,
                ProtocolRestart
  <2>. QED BY <2>1 DEF CheckedScript
<1>4. CASE UNCHANGED vars
  BY <1>4 DEF vars, CheckedScript
<1>. QED BY <1>1, <1>2, <1>3, <1>4 DEF Next, Proceed

LEMMA StepCommitVerifies ==
  ASSUME IInv, CheckedScript, CommitVerifies, AcknowledgedIsStored', [Next]_vars
  PROVE  CommitVerifies'
<1>1. ASSUME NEW r \in Reports, protocol_process_report(r) PROVE CommitVerifies'
  <2>1. /\ report' = r
        /\ \/ handler' # "idle" \/ response'.status # "OK"
           \/ r.command \in {"RESET", "STATUS", "READ"}
    BY <1>1, CommandEffect
  <2>. QED BY <2>1 DEF CommitVerifies
<1>2. CASE StoreByte
  BY <1>2, StoreByteBusy DEF CommitVerifies
<1>3. CASE ReturnCommit
  <2>1. /\ handler = "header" /\ report \in CommitReport
        /\ handler' = "idle" /\ response' = OkPlain /\ report' = report
        /\ eeprom' = eeprom /\ vouched' = vouched
    BY <1>3 DEF ReturnCommit, Return, IInv, Accepted
  <2>2. report.command = "COMMIT" /\ OkPlain.status = "OK"
    BY <2>1 DEF CommitReport, OkPlain
  <2>3. read_u16(eeprom', HEADER_OFFSET_CRC) = report.crc
    BY <2>1, <2>2 DEF AcknowledgedIsStored
  <2>. QED BY <2>1, <2>3 DEF CommitVerifies, CheckedScript
<1>4. CASE ReturnWrite \/ ReturnAppend
  <2>1. report' = report /\ report.command # "COMMIT"
    BY <1>4 DEF ReturnWrite, ReturnAppend, Return, IInv, Accepted, WriteReport, AppendReport
  <2>. QED BY <2>1 DEF CommitVerifies
<1>5. CASE ReturnMismatch
  BY <1>5 DEF ReturnMismatch, Return, Error, CommitVerifies
<1>6. CASE PowerLoss
  BY <1>6 DEF PowerLoss, ProtocolRestart, NoResponse, CommitVerifies
<1>7. CASE UNCHANGED vars
  BY <1>7 DEF vars, CommitVerifies
<1>. QED BY <1>1, <1>2, <1>3, <1>4, <1>5, <1>6, <1>7 DEF Next, Proceed

LEMMA InitCrc == Init => IInv /\ CrcInv /\ CheckedScript
<1>1. Init => Appended = 0 /\ running_crc = CrcInit /\ handler = "idle"
  BY DEF Init, ProtocolInit, Appended
<1>. QED BY <1>1, InitIInv, EmptyScript DEF CrcInv, RunningCrcCoversScript, CheckedScript

(* The response OK to a COMMIT means that the CRC in the header is that of *)
(* the stored script, for every script and every history of commands, when *)
(* the host had it computed from the EEPROM, or committed what it appended *)
(* and nothing else.                                                       *)
THEOREM CommitAlwaysVerifies == Spec => []CommitVerifies
<1>1. Init => IInv /\ CrcInv /\ CheckedScript
  BY InitCrc
<1>2. Init => CommitVerifies
  BY DEF Init, ProtocolInit, NoReport, CommitVerifies
<1>3. IInv /\ CrcInv /\ CheckedScript /\ [Next]_vars => (IInv /\ CrcInv /\ CheckedScript)'
  BY StepIInv, StepCrc, StepChecked
<1>4. IInv /\ CheckedScript /\ CommitVerifies /\ AcknowledgedIsStored' /\ [Next]_vars
        => CommitVerifies'
  BY StepCommitVerifies
<1>. QED BY <1>1, <1>2, <1>3, <1>4, AcknowledgedAlwaysStored, PTL DEF Spec
-----------------------------------------------------------------------------
(* One byte programmed by a handler other than WRITE can make an image     *)
(* valid only in the two ways ValidOnlyByCommit names.                     *)
StartableStep ==
  ~ ValidImage(eeprom) /\ ValidImage(eeprom') =>
    \/ handler = "write"
    \/ /\ handler = "header"
       /\ vouched => storage_verify_crc(eeprom, report.length, report.crc)
    \/ /\ handler = "invalidate" /\ done = 0
       /\ read_u16(eeprom, HEADER_OFFSET_LENGTH) > MaxScript

LEMMA AppendKeepsHeader ==
  ASSUME IInv, StoreByte, handler = "append"
  PROVE  ValidImage(eeprom') <=> ValidImage(eeprom)
<1>1. /\ done + 1 \in 1 .. Len(Writes)
      /\ eeprom' = [eeprom EXCEPT ![Writes[done + 1].address] = Writes[done + 1].byte]
  BY StoreByteEffect
<1>2. report.length \in Nat /\ AppendAddress(current_offset) \in Nat
      /\ AppendAddress(current_offset) >= 8
  <2>1. report.length \in Nat
    BY WordsAreNaturals DEF IInv, Accepted, AppendReport
  <2>. QED BY <2>1, StorageAssumption DEF IInv, TypeOK, AppendAddress, STORAGE_SCRIPT_START
<1>3. Writes = [i \in 1 .. report.length |->
                  Put(AppendAddress(current_offset) + i - 1, report.data[i])]
  BY DEF Writes, WritesOf, storage_write_bytes
<1>4. Writes[done + 1].address >= 8
  BY <1>1, <1>2, <1>3 DEF Put
<1>5. eeprom \in [Address -> Byte]
  BY DEF IInv, TypeOK, StorageTypeOK, Eeprom
<1>6. eeprom'[0] = eeprom[0] /\ eeprom'[4] = eeprom[4] /\ eeprom'[5] = eeprom[5]
  BY <1>1, <1>4, <1>5, HeaderAddresses
<1>. QED BY <1>6, ValidImageMeans
         DEF HEADER_OFFSET_VERSION, HEADER_OFFSET_LENGTH, read_u16

LEMMA InvalidateMakesStartable ==
  ASSUME IInv, Stored, StoreByte, handler = "invalidate",
         ~ ValidImage(eeprom), ValidImage(eeprom')
  PROVE  done = 0 /\ read_u16(eeprom, HEADER_OFFSET_LENGTH) > MaxScript
<1>1. /\ done + 1 \in 1 .. Len(Writes) /\ done \in Nat
      /\ eeprom' = [eeprom EXCEPT ![Writes[done + 1].address] = Writes[done + 1].byte]
  BY StoreByteEffect, WritesShape DEF IInv, TypeOK, Writes
<1>2. Writes = << Put(4, 0), Put(5, 0) >>
  BY DEF Writes, WritesOf, storage_invalidate_script, HEADER_OFFSET_LENGTH
<1>3. eeprom \in [Address -> Byte]
  BY DEF IInv, TypeOK, StorageTypeOK, Eeprom
<1>4. /\ eeprom'[0] = PayloadVersion /\ LengthOK(read_u16(eeprom', 4))
      /\ eeprom[0] = PayloadVersion => ~ LengthOK(read_u16(eeprom, 4))
  BY ValidImageMeans DEF HEADER_OFFSET_VERSION, HEADER_OFFSET_LENGTH
<1>5. done = 0 \/ done = 1
  BY <1>1, <1>2
<1>6. CASE done = 1
  <2>1. eeprom[4] = 0
    BY <1>2, <1>6 DEF Stored, Put
  <2>2. eeprom'[4] = 0 /\ eeprom'[5] = 0
    BY <1>1, <1>2, <1>3, <1>6, <2>1, HeaderAddresses DEF Put
  <2>3. read_u16(eeprom', 4) = 0
    BY <2>2, StorageAssumption DEF read_u16
  <2>. QED BY <1>4, <2>3 DEF LengthOK
<1>7. CASE done = 0
  <2>1. eeprom'[4] = 0 /\ eeprom'[5] = eeprom[5] /\ eeprom'[0] = eeprom[0]
    BY <1>1, <1>2, <1>3, <1>7, HeaderAddresses DEF Put
  <2>2. eeprom[4] \in Nat /\ eeprom[5] \in Nat
    BY <1>3, HeaderAddresses, WordsAreNaturals
  <2>3. /\ read_u16(eeprom, 4) = eeprom[4] + ByteBase * eeprom[5]
        /\ read_u16(eeprom', 4) = 0 + ByteBase * eeprom[5]
    BY <2>1 DEF read_u16
  <2>4. ByteBase * eeprom[5] \in Nat
    BY <2>2, StorageAssumption
  <2>5. ByteBase * eeprom[5] > 0 /\ ~ LengthOK(read_u16(eeprom, 4))
    BY <1>4, <2>1, <2>3, <2>4 DEF LengthOK
  <2>. QED BY <1>7, <2>2, <2>3, <2>4, <2>5, StorageAssumption DEF LengthOK, HEADER_OFFSET_LENGTH
<1>. QED BY <1>5, <1>6, <1>7

LEMMA StepStartable ==
  ASSUME IInv, Stored, CheckedScript, [Next]_vars
  PROVE  [StartableStep]_vars
<1>1. CASE eeprom' = eeprom
  BY <1>1 DEF StartableStep
<1>2. CASE StoreByte
  BY <1>2, StoreByteBusy, AppendKeepsHeader, InvalidateMakesStartable
     DEF StartableStep, CheckedScript, Handlers
<1>3. CASE Next /\ ~ StoreByte
  BY <1>1, <1>3, CommandEffect
     DEF Next, Proceed, ReturnWrite, ReturnAppend, ReturnCommit, ReturnMismatch, Return,
         PowerLoss, storage_vars
<1>4. CASE UNCHANGED vars
  BY <1>4 DEF vars
<1>. QED BY <1>1, <1>2, <1>3, <1>4

(* No command but WRITE and COMMIT makes a stored script startable, and    *)
(* COMMIT only after checking its CRC; the torn invalidation is the single *)
(* exception, for any EEPROM size and any contents.                        *)
THEOREM ValidAlwaysByCommit == Spec => ValidOnlyByCommit
<1>1. Init => Stored
  BY DEF Init, ProtocolInit, Stored
<1>2. IInv /\ Stored /\ CrcInv /\ CheckedScript /\ [Next]_vars
        => (IInv /\ Stored /\ CrcInv /\ CheckedScript)'
  BY StepIInv, StepStored, StepCrc, StepChecked
<1>3. IInv /\ Stored /\ CheckedScript /\ [Next]_vars => [StartableStep]_vars
  BY StepStartable
<1>4. [][StartableStep]_vars => ValidOnlyByCommit
  BY DEF StartableStep, ValidOnlyByCommit
<1>. QED BY <1>1, <1>2, <1>3, <1>4, InitCrc, PTL DEF Spec
-----------------------------------------------------------------------------
LEMMA DeviceStep == [DeviceNext]_device_vars => [Next]_vars
<1>. SUFFICES ASSUME [DeviceNext]_device_vars PROVE [Next]_vars
  OBVIOUS
<1>1. CASE Main
  BY <1>1 DEF Main, PowerLoss, Next
<1>2. CASE ProcessReport
  BY <1>2 DEF ProcessReport, Next
<1>3. CASE HandlerStep
  BY <1>3 DEF HandlerStep, Next
<1>4. CASE PowerOn \/ ExternalReset \/ WatchdogReset \/ Bootloader \/ HostActivity
           \/ ExitRequested \/ TimeoutElapsed
  BY <1>4 DEF PowerOn, ExternalReset, WatchdogReset, Reset, Bootloader, HostActivity,
              ExitRequested, TimeoutElapsed, trigger_watchdog_reset
<1>5. CASE UNCHANGED device_vars
  BY <1>5 DEF device_vars
<1>. QED BY <1>1, <1>2, <1>3, <1>4, <1>5 DEF DeviceNext

(* Resets at any instant, the choice of mode and the keyboard mode change  *)
(* the EEPROM and the protocol's state only as Protocol says: what is      *)
(* proved of Protocol holds of the whole device.                           *)
THEOREM DeviceImplements == DeviceSpec => ImplementsProtocol
<1>1. DeviceInit => Init
  BY DEF DeviceInit
<1>. QED BY <1>1, DeviceStep, PTL DEF DeviceSpec, ImplementsProtocol, Spec
-----------------------------------------------------------------------------
(* The flags say "watchdog" only while the firmware's request is pending.  *)
FlagsInv ==
  /\ mode = "boot" /\ "WDRF" \in mcusr \union gpior0 => requested
  /\ mode = "resetting" => requested
  /\ mode # "boot" => mcusr = {}

LEMMA StepFlags == FlagsInv /\ [DeviceNext]_device_vars => FlagsInv'
<1>. SUFFICES ASSUME FlagsInv, [DeviceNext]_device_vars PROVE FlagsInv'
  OBVIOUS
<1>. USE DEF FlagsInv
<1>1. CASE PowerOn
  BY <1>1 DEF PowerOn, Reset
<1>2. CASE ExternalReset
  BY <1>2 DEF ExternalReset, Reset
<1>3. CASE WatchdogReset
  BY <1>3 DEF WatchdogReset, Reset
<1>4. CASE Bootloader
  BY <1>4 DEF Bootloader
<1>5. CASE Main
  BY <1>5 DEF Main, determine_initial_mode
<1>6. CASE HostActivity \/ ProcessReport \/ HandlerStep
  BY <1>6 DEF HostActivity, ProcessReport, HandlerStep, mode_vars
<1>7. CASE ExitRequested \/ TimeoutElapsed
  BY <1>7 DEF ExitRequested, TimeoutElapsed, trigger_watchdog_reset
<1>8. CASE UNCHANGED device_vars
  BY <1>8 DEF device_vars
<1>. QED BY <1>1, <1>2, <1>3, <1>4, <1>5, <1>6, <1>7, <1>8 DEF DeviceNext

LEMMA KeyboardStep ==
  FlagsInv /\ [DeviceNext]_device_vars
    => [mode # "keyboard" /\ mode' = "keyboard" => requested]_device_vars
<1>. SUFFICES ASSUME FlagsInv, DeviceNext, mode # "keyboard", mode' = "keyboard"
              PROVE  requested
  OBVIOUS
<1>1. Main
  BY DEF DeviceNext, PowerOn, ExternalReset, WatchdogReset, Reset, Bootloader,
         HostActivity, ProcessReport, HandlerStep, mode_vars, ExitRequested,
         TimeoutElapsed, trigger_watchdog_reset
<1>. QED BY <1>1 DEF Main, determine_initial_mode, FlagsInv

(* Whatever resets interrupt which others, with or without a bootloader    *)
(* that clears the flags, keyboard mode is entered only after the firmware *)
(* asked for it in programming mode.                                       *)
THEOREM KeyboardAlwaysByRequest == DeviceSpec => KeyboardOnlyByRequest
<1>1. DeviceInit => FlagsInv
  BY DEF DeviceInit, FlagsInv
<1>. QED BY <1>1, StepFlags, KeyboardStep, PTL DEF DeviceSpec, KeyboardOnlyByRequest
-----------------------------------------------------------------------------
(* What trusted records is in the EEPROM, and keyboard mode has the header *)
(* of the EEPROM in its cache.                                             *)
Trust ==
  trusted =>
    /\ eeprom[HEADER_OFFSET_VERSION] = PayloadVersion
    /\ storage_verify_crc(eeprom, read_u16(eeprom, HEADER_OFFSET_LENGTH),
                          read_u16(eeprom, HEADER_OFFSET_CRC))

KeyboardCache == mode = "keyboard" => cache = StorageInit(eeprom)

LEMMA HandlerStepTrust ==
  ASSUME IInv, CheckedScript, CommitVerifies', AcknowledgedIsStored', Trust, HandlerStep
  PROVE  Trust'
<1>. SUFFICES ASSUME trusted'
              PROVE  /\ eeprom'[HEADER_OFFSET_VERSION] = PayloadVersion
                     /\ storage_verify_crc(eeprom', read_u16(eeprom', HEADER_OFFSET_LENGTH),
                                           read_u16(eeprom', HEADER_OFFSET_CRC))
  BY DEF Trust
<1>1. /\ handler = "header" /\ handler' = "idle" /\ vouched
      /\ report.version = PayloadVersion
  BY DEF HandlerStep
<1>2. ReturnCommit
  BY <1>1, StoreByteBusy
     DEF HandlerStep, Proceed, ReturnWrite, ReturnAppend, ReturnMismatch, Return
<1>3. /\ report \in CommitReport /\ report' = report /\ vouched' = vouched
      /\ response' = OkPlain
  BY <1>1, <1>2 DEF ReturnCommit, Return, IInv, Accepted
<1>4. report'.command = "COMMIT" /\ response'.status = "OK"
  BY <1>3 DEF CommitReport, OkPlain
<1>5. /\ eeprom'[HEADER_OFFSET_VERSION] = report.version
      /\ read_u16(eeprom', HEADER_OFFSET_LENGTH) = report.length
  BY <1>1, <1>3, <1>4 DEF AcknowledgedIsStored
<1>6. storage_verify_crc(eeprom', report.length, read_u16(eeprom', HEADER_OFFSET_CRC))
  BY <1>1, <1>3, <1>4 DEF CommitVerifies
<1>. QED BY <1>1, <1>5, <1>6

LEMMA DeviceStepTrust ==
  ASSUME IInv, CheckedScript, CommitVerifies', AcknowledgedIsStored', Trust, KeyboardCache,
         [DeviceNext]_device_vars
  PROVE  Trust' /\ KeyboardCache'
<1>1. CASE HandlerStep
  BY <1>1, HandlerStepTrust DEF HandlerStep, mode_vars, KeyboardCache
<1>2. CASE ProcessReport
  <2>1. eeprom' = eeprom /\ trusted' = trusted /\ mode' # "keyboard"
    BY <1>2, CommandEffect DEF ProcessReport, storage_vars
  <2>. QED BY <2>1 DEF Trust, KeyboardCache
<1>3. CASE Main
  BY <1>3 DEF Main, Trust, KeyboardCache
<1>4. CASE PowerOn \/ ExternalReset \/ WatchdogReset
  BY <1>4 DEF PowerOn, ExternalReset, WatchdogReset, Reset, vars, Trust, KeyboardCache
<1>5. CASE Bootloader \/ HostActivity
  BY <1>5 DEF Bootloader, HostActivity, vars, Trust, KeyboardCache
<1>6. CASE ExitRequested \/ TimeoutElapsed
  BY <1>6 DEF ExitRequested, TimeoutElapsed, trigger_watchdog_reset, vars, Trust,
              KeyboardCache
<1>7. CASE UNCHANGED device_vars
  BY <1>7 DEF device_vars, vars, Trust, KeyboardCache
<1>. QED BY <1>1, <1>2, <1>3, <1>4, <1>5, <1>6, <1>7 DEF DeviceNext

LEMMA TrustedIsPlayed ==
  ASSUME IInv, Trust, KeyboardCache
  PROVE  CommittedIsPlayed
<1>. SUFFICES ASSUME mode = "keyboard", trusted
              PROVE  /\ PlayedScript # << >>
                     /\ Len(PlayedScript) = read_u16(eeprom, HEADER_OFFSET_LENGTH)
                     /\ CrcOf(PlayedScript) = read_u16(eeprom, HEADER_OFFSET_CRC)
  BY DEF CommittedIsPlayed
<1>. DEFINE length == read_u16(eeprom, HEADER_OFFSET_LENGTH)
<1>1. /\ eeprom[HEADER_OFFSET_VERSION] = PayloadVersion
      /\ LengthOK(length)
      /\ CrcOf(Script(eeprom, length)) = read_u16(eeprom, HEADER_OFFSET_CRC)
  BY DEF Trust, storage_verify_crc
<1>2. cache.valid /\ cache.length = length
  BY <1>1 DEF KeyboardCache, StorageInit, validate_header
<1>3. eeprom \in Eeprom /\ length \in 0 .. MaxScript
  <2>1. eeprom \in Eeprom
    BY DEF IInv, TypeOK, StorageTypeOK
  <2>2. eeprom[4] \in Byte /\ eeprom[5] \in Byte
    BY <2>1, HeaderAddresses DEF Eeprom
  <2>3. length \in Word
    BY <2>2, ReadU16 DEF read_u16, HEADER_OFFSET_LENGTH
  <2>4. length \in Nat
    BY <2>3, WordsAreNaturals
  <2>. QED BY <1>1, <2>1, <2>4, StorageAssumption DEF LengthOK
<1>4. PlayedScript = Script(eeprom, length)
  BY <1>2 DEF PlayedScript
<1>5. Len(PlayedScript) = length
  BY <1>3, <1>4, ScriptIsBounded
<1>6. length > 0 /\ Len(<< >>) = 0
  BY <1>1 DEF LengthOK
<1>. QED BY <1>1, <1>4, <1>5, <1>6

(* A script that a vouched COMMIT acknowledged is what keyboard mode plays *)
(* after any sequence of resets and of commands that program nothing, for  *)
(* every script and every EEPROM size.                                     *)
THEOREM CommittedIsAlwaysPlayed == DeviceSpec => []CommittedIsPlayed
<1>1. DeviceInit => Init /\ Trust /\ KeyboardCache
  BY DEF DeviceInit, Trust, KeyboardCache
<1>2. IInv /\ CrcInv /\ CheckedScript /\ [Next]_vars => (IInv /\ CrcInv /\ CheckedScript)'
  BY StepIInv, StepCrc, StepChecked
<1>3. IInv /\ CheckedScript /\ CommitVerifies' /\ AcknowledgedIsStored' /\ Trust
        /\ KeyboardCache /\ [DeviceNext]_device_vars
        => (Trust /\ KeyboardCache)'
  BY DeviceStepTrust
<1>4. IInv /\ Trust /\ KeyboardCache => CommittedIsPlayed
  BY TrustedIsPlayed
<1>5. DeviceSpec => Spec
  BY DeviceImplements DEF ImplementsProtocol
<1>6. Spec => [](IInv /\ CheckedScript)
  BY InitCrc, <1>2, PTL DEF Spec
<1>7. DeviceSpec => []CommitVerifies /\ []AcknowledgedIsStored /\ [](IInv /\ CheckedScript)
  BY <1>5, <1>6, CommitAlwaysVerifies, AcknowledgedAlwaysStored, PTL
<1>. QED BY <1>1, <1>3, <1>4, <1>7, PTL DEF DeviceSpec
=============================================================================
