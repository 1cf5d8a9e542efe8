------------------------------- MODULE RawHid -------------------------------
(***************************************************************************)
(* The transport of programming mode: usb_rawhid.c, the dispatcher that    *)
(* routes V-USB's callbacks to it, the part of V-USB that it depends on    *)
(* (one slot for a received packet, one for a packet to send, the message  *)
(* being answered) and a host that makes control transfers.                *)
(*                                                                         *)
(* A byte is a tag that says whose it is, so that a byte in the wrong      *)
(* report, or at the wrong place of it, is seen.  The protocol behind the  *)
(* transport is Protocol's; here it is any response, or none for EXIT.     *)
(*                                                                         *)
(* The host may give up a transfer at any point and start another.  The    *)
(* device's acknowledgement may be lost, and then the host repeats the     *)
(* packet, which the driver does not recognise (USB_CFG_CHECK_DATA_TOGGLING *)
(* is 0).  A packet to the host may be lost, and the driver does not send  *)
(* it again.  Requests are numbered, at most MaxTransfers of them, with at *)
(* most MaxRepeats repeated packets and one lost packet each.              *)
(***************************************************************************)
EXTENDS VUsb

CONSTANTS
  PROTOCOL_REPORT_SIZE,  \* 32
  ResponseLengths,       \* lengths of the protocol's responses but EXIT's
  WriteLengths,          \* values of wLength in a request that sends data
  ReadLengths,           \* values of wLength in a request that asks for data
  MaxTransfers, MaxRepeats

ASSUME RawHidAssumption ==
  /\ PacketSize \in Nat \ {0} /\ LengthBase \in Nat
  /\ PROTOCOL_REPORT_SIZE \in 1 .. USB_NO_MSG - 1
  /\ ResponseLengths \subseteq 1 .. PROTOCOL_REPORT_SIZE
  /\ WriteLengths \subseteq Nat /\ ReadLengths \subseteq Nat
  /\ MaxTransfers \in Nat /\ MaxRepeats \in Nat

VARIABLES
  report_buffer, report_offset, expected_length, idle_rate,
  response_pending, had_activity,    \* usb_rawhid.c
  response, exit_requested,          \* hid_protocol.c
  rx, tx,                            \* the packet received, the one to send
  usbMsgLen, usbMsgPtr, user_rw,     \* the answer V-USB is sending
  host,                              \* the host and its transfer
  last                               \* history: the last report processed

transport_vars == <<report_buffer, report_offset, expected_length, idle_rate,
                    response_pending, had_activity>>
protocol_vars == <<response, exit_requested, last>>
message_vars == <<usbMsgLen, usbMsgPtr, user_rw>>
device_vars == <<transport_vars, protocol_vars, message_vars>>
vars == <<device_vars, rx, tx, host>>

-----------------------------------------------------------------------------
(* Bytes and packets.                                                      *)
Zero == <<"zero", 0, 0>>
ReportByte(n, i) == <<"report", n, i>>
ResponseByte(n, i) == <<"response", n, i>>
IdleByte(n) == <<"idle", n, 0>>

Byte == {"zero", "report", "response", "idle"} \X Nat \X Nat

NAK == [sending |-> FALSE, data |-> << >>]
Packet(data) == [sending |-> TRUE, data |-> data]

Empty == [token |-> "none", data |-> << >>]
SetupPacket == [token |-> "SETUP", data |-> << >>]
DataPacket(data) == [token |-> "OUT", data |-> data]

Sending == {"SET_REPORT", "SET_IDLE", "OTHER"}   \* host to device
Asking == {"GET_REPORT", "GET_IDLE"}             \* device to host
-----------------------------------------------------------------------------
Init ==
  /\ report_buffer = [i \in 1 .. PROTOCOL_REPORT_SIZE |-> Zero]
  /\ report_offset = 0 /\ expected_length = 0 /\ idle_rate = IdleByte(0)
  /\ response_pending = FALSE /\ had_activity = FALSE
  /\ response = [number |-> 0, length |-> 0] /\ exit_requested = FALSE
  /\ rx = Empty /\ tx = NAK
  /\ usbMsgLen = USB_NO_MSG /\ user_rw = FALSE
  /\ usbMsgPtr = [of |-> "report_buffer", at |-> 0]
  /\ host = [number |-> 0, request |-> "OTHER", wLength |-> 0, stage |-> "done",
             sent |-> 0, repeats |-> 0, got |-> << >>, lost |-> FALSE,
             owed |-> FALSE, answered |-> 0]
  /\ last = [number |-> 0, wLength |-> 0, repeats |-> 0, length |-> 0,
             bytes |-> << >>, times |-> 0]
-----------------------------------------------------------------------------
(* The host.  Whatever it sends, the driver takes only while its receive   *)
(* buffer is free; otherwise it answers NAK and the host tries again.      *)
Begin(request, wLength) ==
  /\ rx = Empty
  /\ host.number < MaxTransfers
  /\ rx' = SetupPacket
  /\ host' = [host EXCEPT
       !.number = @ + 1, !.request = request, !.wLength = wLength,
       !.stage = IF wLength > 0 THEN "data" ELSE "status",
       !.sent = 0, !.repeats = 0, !.got = << >>, !.lost = FALSE,
       !.owed = \/ host.request = "SET_REPORT" /\ host.stage = "done"
                \/ host.request \notin {"SET_REPORT", "GET_REPORT"} /\ host.owed]
  /\ UNCHANGED <<device_vars, tx>>

(* The next packet of data.  If its acknowledgement is lost the host will  *)
(* send it again.                                                          *)
SendData ==
  /\ host.request \in Sending /\ host.stage = "data"
  /\ rx = Empty
  /\ LET upto == Least(host.sent + PacketSize, host.wLength)
         size == upto - host.sent
     IN  /\ rx' = DataPacket([i \in 1 .. size |->
                                ReportByte(host.number, host.sent + i)])
         /\ \/ host' = [host EXCEPT
                 !.sent = upto,
                 !.stage = IF upto = host.wLength THEN "status" ELSE "data"]
            \/ /\ host.repeats < MaxRepeats
               /\ host' = [host EXCEPT !.repeats = @ + 1]
  /\ UNCHANGED <<device_vars, tx>>

(* The host asks for a packet; the driver sends what is in its transmit    *)
(* buffer and forgets it, without waiting for the acknowledgement.         *)
TakePacket ==
  /\ rx = Empty
  /\ tx.sending
  /\ tx' = NAK
  /\ UNCHANGED <<device_vars, rx>>

LosePacket ==
  /\ host.stage = (IF host.request \in Asking THEN "data" ELSE "status")
  /\ TakePacket
  /\ host' = [host EXCEPT !.lost = TRUE]

ReceiveData ==
  /\ host.request \in Asking /\ host.stage = "data" /\ ~ host.lost
  /\ TakePacket
  /\ LET got == host.got \o tx.data
     IN  host' = [host EXCEPT
           !.got = got,
           !.stage = IF \/ Len(tx.data) < PacketSize
                        \/ Len(got) >= host.wLength
                     THEN "status" ELSE "data"]

ReceiveStatus ==
  /\ host.request \in Sending /\ host.stage = "status" /\ ~ host.lost
  /\ TakePacket
  /\ host' = [host EXCEPT
       !.stage = IF tx.data = << >> THEN "done" ELSE "failed"]

(* A packet without data is acknowledged and ignored.                      *)
SendStatus ==
  /\ host.request \in Asking /\ host.stage = "status"
  /\ rx = Empty
  /\ host' = [host EXCEPT
       !.stage = "done",
       !.answered = IF host.request = "GET_REPORT" /\ host.got # << >>
                    THEN response.number ELSE @]
  /\ UNCHANGED <<device_vars, rx, tx>>

Host ==
  \/ \E request \in Sending \ {"SET_IDLE"}, wLength \in WriteLengths :
       Begin(request, wLength)
  \/ Begin("SET_IDLE", 0)
  \/ \E request \in Asking, wLength \in ReadLengths : Begin(request, wLength)
  \/ SendData
  \/ LosePacket
  \/ ReceiveData
  \/ ReceiveStatus
  \/ SendStatus
-----------------------------------------------------------------------------
(* usbBuildTxBlock: the next packet of the answer, once the transmit       *)
(* buffer is free; a short packet is the last one.                         *)
Pointed(ptr, len) ==
  SubSeq(IF ptr.of = "idle_rate" THEN <<idle_rate'>> ELSE report_buffer',
         ptr.at + 1, ptr.at + len)

BuildTxBlock(slot, len, ptr) ==
  IF slot.sending \/ len = USB_NO_MSG
  THEN tx' = slot /\ usbMsgLen' = len /\ usbMsgPtr' = ptr
  ELSE LET wantLen == Least(len, PacketSize)
       IN  /\ tx' = Packet(Pointed(ptr, wantLen))
           /\ usbMsgPtr' = [ptr EXCEPT !.at = @ + wantLen]
           /\ usbMsgLen' = IF wantLen < PacketSize THEN USB_NO_MSG
                           ELSE len - wantLen

(* usbProcessRx for a SETUP packet: what was being sent is aborted, the    *)
(* handler's answer limited to the length that the host asks for.          *)
Answer(slot, replyLen, ptr) ==
  BuildTxBlock(slot,
               IF replyLen = USB_NO_MSG THEN USB_NO_MSG
               ELSE Limited(replyLen, host.wLength),
               ptr)

ReceiveSetup(request, replyLen) ==
  /\ ~ exit_requested
  /\ rx.token = "SETUP" /\ host.request = request
  /\ rx' = Empty
  /\ user_rw' = (replyLen = USB_NO_MSG)
  /\ UNCHANGED <<protocol_vars, host>>

(* Mutant: a packet still waiting to be sent is left where it is.          *)
ProcessSetupUnaborted(request, replyLen, ptr) ==
  /\ ReceiveSetup(request, replyLen)
  /\ Answer(tx, replyLen, ptr)

ProcessSetup(request, replyLen, ptr) ==
  /\ ReceiveSetup(request, replyLen)
  /\ Answer(NAK, replyLen, ptr)

(* rawhid_handle_setup, one action per request; two for GET_REPORT.        *)
(* Mutant: the rest of the buffer keeps what the last reports left there.  *)
ResponseUnpadded ==
  [i \in 1 .. PROTOCOL_REPORT_SIZE |->
     IF i <= response.length THEN ResponseByte(response.number, i)
     ELSE report_buffer[i]]

PaddedResponse ==
  [i \in 1 .. PROTOCOL_REPORT_SIZE |->
     IF i <= response.length THEN ResponseByte(response.number, i) ELSE Zero]

(* Mutant: the response stays pending.                                     *)
ReturnResponseAgain ==
  /\ response_pending
  /\ report_buffer' = PaddedResponse
  /\ UNCHANGED <<report_offset, expected_length, idle_rate, response_pending,
                 had_activity>>
  /\ ProcessSetup("GET_REPORT", PROTOCOL_REPORT_SIZE,
                  [of |-> "report_buffer", at |-> 0])

ReturnResponse ==
  /\ response_pending
  /\ response_pending' = FALSE
  /\ report_buffer' = PaddedResponse
  /\ UNCHANGED <<report_offset, expected_length, idle_rate, had_activity>>
  /\ ProcessSetup("GET_REPORT", PROTOCOL_REPORT_SIZE,
                  [of |-> "report_buffer", at |-> 0])

ReturnNothing ==
  /\ ~ response_pending
  /\ UNCHANGED transport_vars
  /\ ProcessSetup("GET_REPORT", 0, usbMsgPtr)

(* Mutant: the length of a report is not limited to that of the buffer.    *)
AnnouncedLength == host.wLength % LengthBase

ExpectedLength == Least(host.wLength % LengthBase, PROTOCOL_REPORT_SIZE)

(* Mutant: the bytes of an abandoned report are kept.                      *)
SetReportAppends ==
  /\ had_activity' = TRUE
  /\ expected_length' = ExpectedLength
  /\ UNCHANGED <<report_buffer, report_offset, idle_rate, response_pending>>
  /\ ProcessSetup("SET_REPORT", USB_NO_MSG, usbMsgPtr)

SetReport ==
  /\ had_activity' = TRUE
  /\ report_offset' = 0
  /\ expected_length' = ExpectedLength
  /\ UNCHANGED <<report_buffer, idle_rate, response_pending>>
  /\ ProcessSetup("SET_REPORT", USB_NO_MSG, usbMsgPtr)

SetIdle ==
  /\ idle_rate' = IdleByte(host.number)
  /\ UNCHANGED <<report_buffer, report_offset, expected_length,
                 response_pending, had_activity>>
  /\ ProcessSetup("SET_IDLE", 0, usbMsgPtr)

GetIdle ==
  /\ UNCHANGED transport_vars
  /\ ProcessSetup("GET_IDLE", 1, [of |-> "idle_rate", at |-> 0])

OtherRequest ==
  /\ UNCHANGED transport_vars
  /\ ProcessSetup("OTHER", 0, usbMsgPtr)

(* rawhid_handle_write: accumulate, and process a complete report.         *)
Accepted == Least(Len(rx.data), expected_length - report_offset)

Accumulate ==
  report_buffer' =
    [i \in 1 .. PROTOCOL_REPORT_SIZE |->
       IF i \in report_offset + 1 .. report_offset + Accepted
       THEN rx.data[i - report_offset] ELSE report_buffer[i]]

TakeData ==
  /\ ~ exit_requested
  /\ rx.token = "OUT" /\ user_rw
  /\ rx' = Empty
  /\ had_activity' = TRUE
  /\ Accumulate
  /\ UNCHANGED <<expected_length, idle_rate, user_rw, host>>

Complete == report_offset + Accepted >= expected_length

MoreData ==
  /\ ~ Complete
  /\ TakeData
  /\ report_offset' = report_offset + Accepted
  /\ BuildTxBlock(tx, usbMsgLen, usbMsgPtr)
  /\ UNCHANGED <<protocol_vars, response_pending>>

(* protocol_process_report: an error for a report without bytes, no        *)
(* response for EXIT, some response for any other command.                 *)
protocol_process_report ==
  /\ \E length \in ResponseLengths
                     \union (IF expected_length > 0 THEN {0} ELSE {}) :
       /\ response' = [number |-> host.number, length |-> length]
       /\ exit_requested' = (length = 0)
  /\ last' = [number |-> host.number, wLength |-> host.wLength,
              repeats |-> host.repeats, length |-> expected_length,
              bytes |-> report_buffer',
              times |-> IF last.number = host.number THEN last.times + 1 ELSE 1]

(* Mutant: the driver is not told that the report is complete.             *)
CompleteReportUnanswered ==
  /\ Complete
  /\ TakeData
  /\ protocol_process_report
  /\ response_pending' = (response'.length > 0)
  /\ report_offset' = 0
  /\ BuildTxBlock(tx, usbMsgLen, usbMsgPtr)

(* Mutant: the offset is left at the end of the report.                    *)
CompleteReportKeepsOffset ==
  /\ Complete
  /\ TakeData
  /\ protocol_process_report
  /\ response_pending' = (response'.length > 0)
  /\ report_offset' = expected_length
  /\ BuildTxBlock(tx, 0, usbMsgPtr)

CompleteReport ==
  /\ Complete
  /\ TakeData
  /\ protocol_process_report
  /\ response_pending' = (response'.length > 0)
  /\ report_offset' = 0
  /\ BuildTxBlock(tx, 0, usbMsgPtr)

(* Data that no handler asked for.                                         *)
IgnoreData ==
  /\ ~ exit_requested
  /\ rx.token = "OUT" /\ ~ user_rw
  /\ rx' = Empty
  /\ UNCHANGED <<transport_vars, protocol_vars, user_rw, host>>
  /\ BuildTxBlock(tx, usbMsgLen, usbMsgPtr)

(* A call of usbPoll that finds nothing received.                          *)
SendNext ==
  /\ ~ exit_requested
  /\ rx = Empty
  /\ ~ tx.sending /\ usbMsgLen # USB_NO_MSG
  /\ UNCHANGED <<transport_vars, protocol_vars, rx, user_rw, host>>
  /\ BuildTxBlock(tx, usbMsgLen, usbMsgPtr)

(* run_programming_loop calls usbPoll until EXIT has been requested.       *)
usbPoll ==
  \/ ReturnResponse \/ ReturnNothing
  \/ SetReport \/ SetIdle \/ GetIdle \/ OtherRequest
  \/ MoreData \/ CompleteReport \/ IgnoreData
  \/ SendNext

Next == Host \/ usbPoll

Fairness ==
  /\ WF_vars(usbPoll)
  /\ WF_vars(SendData) /\ WF_vars(ReceiveData)
  /\ WF_vars(ReceiveStatus) /\ WF_vars(SendStatus)

Spec == Init /\ [][Next]_vars /\ Fairness
-----------------------------------------------------------------------------
Stages == {"data", "status", "done", "failed"}

HostState ==
  [number : Nat, request : Sending \union Asking, wLength : Nat, stage : Stages,
   sent : Nat, repeats : Nat, got : Seq(Byte), lost : BOOLEAN, owed : BOOLEAN,
   answered : Nat]

Processed ==
  [number : Nat, wLength : Nat, repeats : Nat, length : Nat, bytes : Seq(Byte),
   times : Nat]

Room(of) == IF of = "idle_rate" THEN 1 ELSE PROTOCOL_REPORT_SIZE

(* The offset never passes the buffer, nor does what is being sent.        *)
TypeOK ==
  /\ report_buffer \in [1 .. PROTOCOL_REPORT_SIZE -> Byte]
  /\ expected_length \in 0 .. PROTOCOL_REPORT_SIZE
  /\ report_offset \in 0 .. PROTOCOL_REPORT_SIZE
  /\ idle_rate \in Byte
  /\ response_pending \in BOOLEAN /\ had_activity \in BOOLEAN
  /\ response \in [number : Nat, length : 0 .. PROTOCOL_REPORT_SIZE]
  /\ exit_requested \in BOOLEAN
  /\ rx \in [token : {"none", "SETUP", "OUT"}, data : Seq(Byte)]
  /\ tx \in [sending : BOOLEAN, data : Seq(Byte)]
  /\ Len(rx.data) <= PacketSize /\ Len(tx.data) <= PacketSize
  /\ usbMsgPtr \in [of : {"report_buffer", "idle_rate"}, at : Nat]
  /\ usbMsgPtr.at <= Room(usbMsgPtr.of)
  /\ usbMsgLen \in 0 .. USB_NO_MSG
  /\ usbMsgLen # USB_NO_MSG => usbMsgPtr.at + usbMsgLen <= Room(usbMsgPtr.of)
  /\ user_rw \in BOOLEAN
  /\ host \in HostState
  /\ last \in Processed

(* A whole report, whose packets were not repeated, reaches the protocol   *)
(* as it was sent: every byte at its place, none of an abandoned transfer  *)
(* or of the response that shares the buffer.  (rawhid_handle_setup resets *)
(* report_offset, rawhid_handle_write fills the buffer.)                   *)
InOneReport(n) == n \in 1 .. PROTOCOL_REPORT_SIZE

ReceivedAsSent ==
  InOneReport(last.wLength) /\ last.repeats = 0 =>
    /\ last.length = last.wLength
    /\ \A i \in 1 .. last.length : last.bytes[i] = ReportByte(last.number, i)

(* A command is executed at most once, although packets are repeated       *)
(* unnoticed, as long as fewer are repeated than the report has.           *)
Packets(n) == (n + PacketSize - 1) \div PacketSize

ExecutedOnce ==
  InOneReport(last.wLength) /\ last.repeats < Packets(last.wLength)
    => last.times <= 1

(* A SET_REPORT that the host saw complete has been executed: its status   *)
(* packet is not one left over from another transfer, and the device does  *)
(* not send it early.                                                      *)
CompletedIsExecuted ==
  host.request = "SET_REPORT" /\ host.stage = "done" => last.number = host.number

(* A GET_REPORT that loses no packet returns nothing or the response to    *)
(* the last report, zero-padded and cut at the length asked for; and it    *)
(* returns that if the command before it had one and no one collected it.  *)
GetReportAnswers ==
  /\ host.request = "GET_REPORT" /\ host.stage = "done" /\ host.wLength > 0
  => /\ host.got # << >> =>
          /\ Len(host.got) = Least(host.wLength, PROTOCOL_REPORT_SIZE)
          /\ \A i \in 1 .. Len(host.got) :
               host.got[i] = IF i <= response.length
                             THEN ResponseByte(response.number, i) ELSE Zero
     /\ host.owed /\ response.length > 0 => host.got # << >>

(* No response is returned to two GET_REPORTs: a host that polls does not  *)
(* take an old response for that of its next command.                      *)
AnsweredOnce ==
  [][host.request = "GET_REPORT" /\ host.stage = "status" /\ host'.stage = "done"
       /\ host.got # << >> => response.number # host.answered]_vars

(* Every transfer that loses no packet to the host comes to its end or is  *)
(* given up, even when packets are repeated.  Excused are a SET_REPORT     *)
(* without data, which the driver never acknowledges, and packets that     *)
(* follow an EXIT.                                                         *)
InTransfer(n) == host.number = n /\ host.stage # "done"

Excused ==
  \/ host.lost
  \/ host.request = "SET_REPORT" /\ host.wLength = 0
  \/ exit_requested /\ ~ (last.number = host.number /\ host.repeats = 0
                            /\ InOneReport(host.wLength))

TransfersEnd ==
  \A n \in 1 .. MaxTransfers :
    InTransfer(n) ~> (~ InTransfer(n) \/ Excused)
=============================================================================
