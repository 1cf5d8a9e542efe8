---------------------------- MODULE RawHidProofs ----------------------------
(***************************************************************************)
(* The transport for every size of packet, report and length, and every    *)
(* choice of requests: its types; that a report reaches the protocol as    *)
(* it was sent and is executed once; that a completed SET_REPORT has been  *)
(* executed; and that a GET_REPORT returns the response to it, once.       *)
(***************************************************************************)
EXTENDS RawHid, SequenceTheorems, TLAPS

(* Sizes are positive, and a report's length is not that of no message.    *)
LEMMA Sizes ==
  /\ PacketSize \in Nat /\ PacketSize > 0
  /\ LengthBase \in Nat /\ USB_NO_MSG \in Nat /\ USB_NO_MSG = LengthBase - 1
  /\ PROTOCOL_REPORT_SIZE \in Nat /\ PROTOCOL_REPORT_SIZE > 0
  /\ PROTOCOL_REPORT_SIZE < USB_NO_MSG
BY RawHidAssumption DEF RawHidAssumption, USB_NO_MSG

(* The shorter of two lengths.                                             *)
LEMMA LeastIs ==
  ASSUME NEW a \in Nat, NEW b \in Nat
  PROVE  Least(a, b) \in Nat /\ Least(a, b) <= a /\ Least(a, b) <= b
         /\ (Least(a, b) = a \/ Least(a, b) = b)
BY DEF Least

(* Each kind of byte is one.                                               *)
LEMMA BytesAre ==
  ASSUME NEW n \in Nat, NEW i \in Nat
  PROVE  /\ Zero \in Byte /\ IdleByte(n) \in Byte
         /\ ReportByte(n, i) \in Byte /\ ResponseByte(n, i) \in Byte
BY DEF Byte, Zero, IdleByte, ReportByte, ResponseByte

(* usbBuildTxBlock reads within what usbMsgPtr points to.                  *)
LEMMA BuildTxBlockType ==
  ASSUME NEW slot \in [sending : BOOLEAN, data : Seq(Byte)],
         Len(slot.data) <= PacketSize,
         NEW len \in 0 .. USB_NO_MSG,
         NEW ptr \in [of : {"report_buffer", "idle_rate"}, at : Nat],
         ptr.at <= Room(ptr.of),
         len # USB_NO_MSG => ptr.at + len <= Room(ptr.of),
         report_buffer' \in [1 .. PROTOCOL_REPORT_SIZE -> Byte],
         idle_rate' \in Byte,
         BuildTxBlock(slot, len, ptr)
  PROVE  /\ tx' \in [sending : BOOLEAN, data : Seq(Byte)]
         /\ Len(tx'.data) <= PacketSize
         /\ usbMsgPtr' \in [of : {"report_buffer", "idle_rate"}, at : Nat]
         /\ usbMsgPtr'.at <= Room(usbMsgPtr'.of)
         /\ usbMsgLen' \in 0 .. USB_NO_MSG
         /\ usbMsgLen' # USB_NO_MSG =>
              usbMsgPtr'.at + usbMsgLen' <= Room(usbMsgPtr'.of)
<1>1. CASE slot.sending \/ len = USB_NO_MSG
  BY <1>1 DEF BuildTxBlock
<1>2. CASE ~ (slot.sending \/ len = USB_NO_MSG)
  <2> DEFINE memory == IF ptr.of = "idle_rate" THEN <<idle_rate'>>
                       ELSE report_buffer'
             wantLen == Least(len, PacketSize)
  <2>1. memory \in Seq(Byte) /\ Len(memory) = Room(ptr.of)
    BY Sizes DEF Room
  <2>2. wantLen \in Nat /\ wantLen <= len /\ wantLen <= PacketSize
    BY Sizes, LeastIs
  <2>3. ptr.at + 1 \in 1 .. Len(memory) + 1
        /\ ptr.at + wantLen \in (ptr.at + 1) - 1 .. Len(memory)
    BY <1>2, <2>1, <2>2, Sizes DEF Room
  <2>4. /\ SubSeq(memory, ptr.at + 1, ptr.at + wantLen) \in Seq(Byte)
        /\ Len(SubSeq(memory, ptr.at + 1, ptr.at + wantLen)) = wantLen
    <3> HIDE DEF memory, wantLen
    <3>1. \A i \in ptr.at + 1 .. ptr.at + wantLen : memory[i] \in Byte
      BY <2>1, <2>2, <2>3
    <3> DEFINE first == ptr.at + 1
               final == ptr.at + wantLen
    <3>2. /\ first \in Int /\ final \in Int
          /\ wantLen = IF first <= final THEN final - first + 1 ELSE 0
      BY <2>2
    <3> HIDE DEF first, final
    <3>3. \A i \in first .. final : memory[i] \in Byte
      BY <3>1 DEF first, final
    <3>4. /\ SubSeq(memory, first, final) \in Seq(Byte)
          /\ Len(SubSeq(memory, first, final))
               = IF first <= final THEN final - first + 1 ELSE 0
      BY <3>2, <3>3, SubSeqProperties
    <3> QED
      BY <3>2, <3>4 DEF first, final
  <2>5. /\ tx' = [sending |-> TRUE,
                  data |-> SubSeq(memory, ptr.at + 1, ptr.at + wantLen)]
        /\ usbMsgPtr' = [ptr EXCEPT !.at = @ + wantLen]
        /\ usbMsgLen' = IF wantLen < PacketSize THEN USB_NO_MSG ELSE len - wantLen
    BY <1>2 DEF BuildTxBlock, Pointed, Packet
  <2> HIDE DEF memory, wantLen
  <2>6. /\ usbMsgPtr'.of = ptr.of /\ usbMsgPtr'.at = ptr.at + wantLen
        /\ usbMsgPtr' \in [of : {"report_buffer", "idle_rate"}, at : Nat]
    <3>1. ptr = [of |-> ptr.of, at |-> ptr.at] /\ ptr.at \in Nat
          /\ ptr.of \in {"report_buffer", "idle_rate"}
      OBVIOUS
    <3>2. usbMsgPtr' = [of |-> ptr.of, at |-> ptr.at + wantLen]
      BY <2>5, <3>1
    <3> QED
      BY <2>2, <3>1, <3>2
  <2>7. ptr.at + wantLen + (len - wantLen) <= Room(ptr.of)
        /\ ptr.at + wantLen <= Room(ptr.of)
    BY <1>2, <2>1, <2>2, <2>3
  <2>8. /\ usbMsgLen' \in 0 .. USB_NO_MSG
        /\ usbMsgLen' # USB_NO_MSG => usbMsgLen' = len - wantLen
    BY <2>2, <2>5, Sizes
  <2> QED
    BY <2>2, <2>4, <2>5, <2>6, <2>7, <2>8
<1> QED
  BY <1>1, <1>2

(* The state after usbInit and rawhid_init.                                *)
LEMMA InitType == Init => TypeOK
<1> SUFFICES ASSUME Init
             PROVE  TypeOK
  OBVIOUS
<1>1. Zero \in Byte /\ IdleByte(0) \in Byte /\ << >> \in Seq(Byte)
  BY BytesAre
<1>2. host \in HostState /\ last \in Processed
  BY <1>1 DEF Init, HostState, Processed, Stages, Sending, Asking
<1>3. /\ rx \in [token : {"none", "SETUP", "OUT"}, data : Seq(Byte)]
      /\ tx \in [sending : BOOLEAN, data : Seq(Byte)]
      /\ Len(rx.data) <= PacketSize /\ Len(tx.data) <= PacketSize
  BY <1>1, Sizes DEF Init, Empty, NAK
<1>4. /\ report_buffer \in [1 .. PROTOCOL_REPORT_SIZE -> Byte]
      /\ idle_rate \in Byte
      /\ response \in [number : Nat, length : 0 .. PROTOCOL_REPORT_SIZE]
  BY <1>1, Sizes DEF Init
<1>5. /\ usbMsgPtr \in [of : {"report_buffer", "idle_rate"}, at : Nat]
      /\ usbMsgPtr.at <= Room(usbMsgPtr.of)
  BY Sizes DEF Init, Room
<1>6. /\ expected_length \in 0 .. PROTOCOL_REPORT_SIZE
      /\ report_offset \in 0 .. PROTOCOL_REPORT_SIZE
      /\ usbMsgLen \in 0 .. USB_NO_MSG /\ usbMsgLen = USB_NO_MSG
  BY Sizes DEF Init
<1>7. /\ response_pending \in BOOLEAN /\ had_activity \in BOOLEAN
      /\ exit_requested \in BOOLEAN /\ user_rw \in BOOLEAN
  BY DEF Init
<1> QED
  BY <1>2, <1>3, <1>4, <1>5, <1>6, <1>7 DEF TypeOK
-----------------------------------------------------------------------------
(* The host's actions leave the device's variables alone.                  *)
LEMMA PacketsSent ==
  ASSUME TypeOK,
         host.request \in Sending, host.stage = "data", host.sent < host.wLength
  PROVE  LET upto == Least(host.sent + PacketSize, host.wLength)
             size == upto - host.sent
             data == [i \in 1 .. size |-> ReportByte(host.number, host.sent + i)]
         IN  /\ upto \in Nat /\ upto <= host.wLength /\ upto > host.sent
             /\ data \in Seq(Byte) /\ Len(data) = size /\ size <= PacketSize
<1> DEFINE upto == Least(host.sent + PacketSize, host.wLength)
           size == upto - host.sent
           data == [i \in 1 .. size |-> ReportByte(host.number, host.sent + i)]
<1>1. host.sent \in Nat /\ host.wLength \in Nat /\ host.number \in Nat
  BY DEF TypeOK, HostState
<1>2. upto \in Nat /\ upto <= host.wLength /\ upto <= host.sent + PacketSize
      /\ upto > host.sent
  BY <1>1, Sizes DEF Least
<1> HIDE DEF upto
<1>3. size \in Nat /\ size <= PacketSize
  BY <1>1, <1>2, Sizes
<1>4. data \in [1 .. size -> Byte]
  BY <1>1, <1>3, BytesAre
<1>5. data \in Seq(Byte) /\ Len(data) = size
  BY <1>3, <1>4
<1> QED
  BY <1>2, <1>3, <1>5 DEF upto

(* What the host's transfer and the offset allow besides their types.      *)
Progress ==
  /\ host.request \in Sending /\ host.stage = "data" => host.sent < host.wLength
  /\ report_offset <= expected_length

Typed == TypeOK /\ Progress

(* A new transfer, one action of the host after the other.                 *)
LEMMA BeginTyped ==
  ASSUME Typed, NEW request \in Sending \union Asking, NEW wLength \in Nat,
         Begin(request, wLength)
  PROVE  Typed'
<1>1. host' \in HostState
      /\ host'.sent = 0 /\ host'.wLength = wLength
      /\ host'.stage = (IF wLength > 0 THEN "data" ELSE "status")
  <2> DEFINE owed == \/ host.request = "SET_REPORT" /\ host.stage = "done"
                     \/ host.request \notin {"SET_REPORT", "GET_REPORT"}
                        /\ host.owed
             stage == IF wLength > 0 THEN "data" ELSE "status"
  <2>1. host \in HostState
    BY DEF Typed, TypeOK
  <2>2. owed \in BOOLEAN
    BY <2>1 DEF HostState
  <2>3. stage \in Stages
    BY DEF Stages
  <2>4. host' = [host EXCEPT
          !.number = @ + 1, !.request = request, !.wLength = wLength,
          !.stage = stage, !.sent = 0, !.repeats = 0, !.got = << >>,
          !.lost = FALSE, !.owed = owed]
    BY DEF Begin
  <2>5. << >> \in Seq(Byte)
    OBVIOUS
  <2> HIDE DEF owed, stage
  <2>6. host' = [number |-> host.number + 1, request |-> request,
                 wLength |-> wLength, stage |-> stage, sent |-> 0,
                 repeats |-> 0, got |-> << >>, lost |-> FALSE, owed |-> owed,
                 answered |-> host.answered]
    BY <2>1, <2>4 DEF HostState
  <2>7. host.number + 1 \in Nat /\ host.answered \in Nat
    BY <2>1 DEF HostState
  <2>8. host' \in HostState
    BY <2>2, <2>3, <2>5, <2>6, <2>7 DEF HostState
  <2>9. host'.sent = 0 /\ host'.wLength = wLength /\ host'.stage = stage
    BY <2>6
  <2> QED
    BY <2>8, <2>9 DEF stage
<1>2. rx' \in [token : {"none", "SETUP", "OUT"}, data : Seq(Byte)]
      /\ Len(rx'.data) <= PacketSize
  BY Sizes DEF Begin, SetupPacket
<1>3. Progress'
  BY <1>1 DEF Typed, Progress, Begin, device_vars, transport_vars
<1> QED
  BY <1>1, <1>2, <1>3
  DEF Typed, TypeOK, Begin, device_vars, transport_vars, protocol_vars,
      message_vars

LEMMA SendDataTyped ==
  ASSUME Typed, SendData
  PROVE  Typed'
<1> DEFINE upto == Least(host.sent + PacketSize, host.wLength)
           data == [i \in 1 .. upto - host.sent |->
                      ReportByte(host.number, host.sent + i)]
<1>1. /\ upto \in Nat /\ upto <= host.wLength /\ upto > host.sent
      /\ data \in Seq(Byte) /\ Len(data) <= PacketSize
  BY PacketsSent DEF Typed, Progress, SendData
<1>2. rx' = [token |-> "OUT", data |-> data]
      /\ \/ host' = [host EXCEPT
              !.sent = upto,
              !.stage = IF upto = host.wLength THEN "status" ELSE "data"]
         \/ host' = [host EXCEPT !.repeats = @ + 1]
  BY DEF SendData, DataPacket
<1> HIDE DEF upto, data
<1>3. rx' \in [token : {"none", "SETUP", "OUT"}, data : Seq(Byte)]
      /\ Len(rx'.data) <= PacketSize
  BY <1>1, <1>2
<1>4. host' \in HostState /\ host'.wLength = host.wLength
      /\ (host'.stage = "data" => host'.sent < host'.wLength)
  <2>1. host \in HostState /\ (host.stage = "data" => host.sent < host.wLength)
    BY DEF Typed, TypeOK, Progress, SendData
  <2>2. CASE host' = [host EXCEPT !.repeats = @ + 1]
    BY <2>1, <2>2 DEF HostState
  <2>3. ASSUME NEW stage \in Stages, stage = "data" => upto # host.wLength,
               host' = [host EXCEPT !.sent = upto, !.stage = stage]
        PROVE  /\ host' \in HostState /\ host'.wLength = host.wLength
               /\ (host'.stage = "data" => host'.sent < host'.wLength)
    <3>1. upto \in Nat /\ host.wLength \in Nat /\ upto <= host.wLength
      BY <1>1, <2>1 DEF HostState
    <3>2. host' \in HostState /\ host'.wLength = host.wLength
          /\ host'.sent = upto /\ host'.stage = stage
      BY <2>1, <2>3, <3>1 DEF HostState
    <3> QED
      BY <2>3, <3>1, <3>2
  <2> QED
    BY <1>2, <2>2, <2>3 DEF Stages
<1> QED
  BY <1>3, <1>4
  DEF Typed, TypeOK, Progress, SendData, device_vars, transport_vars,
      protocol_vars, message_vars

LEMMA TakePacketTyped ==
  ASSUME Typed, TakePacket, host' \in HostState,
         host'.stage = "data" /\ host'.request \in Sending =>
           host'.sent < host'.wLength
  PROVE  Typed'
<1>1. tx' \in [sending : BOOLEAN, data : Seq(Byte)] /\ Len(tx'.data) <= PacketSize
  BY Sizes DEF TakePacket, NAK
<1> QED
  BY <1>1
  DEF Typed, TypeOK, Progress, TakePacket, device_vars, transport_vars,
      protocol_vars, message_vars

LEMMA HostTyped ==
  ASSUME Typed, Host
  PROVE  Typed'
<1>0. host \in HostState
      /\ (host.request \in Sending /\ host.stage = "data" =>
            host.sent < host.wLength)
  BY DEF Typed, TypeOK, Progress
<1>1. ASSUME NEW request \in Sending \union Asking,
             NEW wLength \in WriteLengths \union ReadLengths \union {0},
             Begin(request, wLength)
      PROVE  Typed'
  BY <1>1, BeginTyped, RawHidAssumption DEF RawHidAssumption
<1>2. CASE SendData
  BY <1>2, SendDataTyped
<1>3. CASE LosePacket
  <2>1. host' \in HostState /\ host'.stage = host.stage
        /\ host'.request = host.request /\ host'.sent = host.sent
        /\ host'.wLength = host.wLength
    BY <1>0, <1>3 DEF LosePacket, HostState
  <2> QED
    BY <1>0, <1>3, <2>1, TakePacketTyped DEF LosePacket
<1>4. CASE ReceiveData
  <2>1. host.got \o tx.data \in Seq(Byte)
    BY <1>0, ConcatProperties DEF Typed, TypeOK, HostState
  <2>2. host' \in HostState /\ host'.request \notin Sending
    BY <1>0, <1>4, <2>1 DEF ReceiveData, HostState, Stages, Sending, Asking
  <2> QED
    BY <1>4, <2>2, TakePacketTyped DEF ReceiveData
<1>5. CASE ReceiveStatus
  <2>1. host' \in HostState /\ host'.stage # "data"
    BY <1>0, <1>5 DEF ReceiveStatus, HostState, Stages
  <2> QED
    BY <1>5, <2>1, TakePacketTyped DEF ReceiveStatus
<1>6. CASE SendStatus
  <2>1. response.number \in Nat
    BY DEF Typed, TypeOK
  <2>2. host' \in HostState /\ host'.stage # "data"
    BY <1>0, <1>6, <2>1 DEF SendStatus, HostState, Stages
  <2> QED
    BY <1>6, <2>2
    DEF Typed, TypeOK, Progress, SendStatus, device_vars, transport_vars,
        protocol_vars, message_vars
<1> QED
  BY <1>1, <1>2, <1>3, <1>4, <1>5, <1>6 DEF Host, Sending, Asking
-----------------------------------------------------------------------------
(* The driver's part of every call of a handler.                           *)
Driver ==
  /\ rx \in [token : {"none", "SETUP", "OUT"}, data : Seq(Byte)]
  /\ Len(rx.data) <= PacketSize
  /\ tx \in [sending : BOOLEAN, data : Seq(Byte)]
  /\ Len(tx.data) <= PacketSize
  /\ usbMsgPtr \in [of : {"report_buffer", "idle_rate"}, at : Nat]
  /\ usbMsgPtr.at <= Room(usbMsgPtr.of)
  /\ usbMsgLen \in 0 .. USB_NO_MSG
  /\ usbMsgLen # USB_NO_MSG => usbMsgPtr.at + usbMsgLen <= Room(usbMsgPtr.of)
  /\ user_rw \in BOOLEAN
  /\ host \in HostState

(* The rest: what the handlers of usb_rawhid.c and the protocol keep.      *)
Handlers ==
  /\ report_buffer \in [1 .. PROTOCOL_REPORT_SIZE -> Byte]
  /\ expected_length \in 0 .. PROTOCOL_REPORT_SIZE
  /\ report_offset \in 0 .. PROTOCOL_REPORT_SIZE
  /\ idle_rate \in Byte
  /\ response_pending \in BOOLEAN /\ had_activity \in BOOLEAN
  /\ response \in [number : Nat, length : 0 .. PROTOCOL_REPORT_SIZE]
  /\ exit_requested \in BOOLEAN
  /\ last \in Processed
  /\ report_offset <= expected_length

(* The invariant splits into the driver's part and the handlers'.          *)
LEMMA TypedParts == Typed => Driver /\ Handlers
BY DEF Typed, TypeOK, Progress, Driver, Handlers

LEMMA PartsTyped ==
  Driver' /\ Handlers' /\ Progress' => Typed'
BY DEF Typed, TypeOK, Driver, Handlers

(* Polling leaves the host, and so its transfer, as it was.                *)
LEMMA HostUntouched ==
  ASSUME Typed, host' = host, report_offset' <= expected_length'
  PROVE  Progress'
BY DEF Typed, Progress

(* Nothing received, nothing to send.                                      *)
LEMMA NoPacket ==
  /\ NAK \in [sending : BOOLEAN, data : Seq(Byte)]
  /\ Len(NAK.data) <= PacketSize
  /\ Empty \in [token : {"none", "SETUP", "OUT"}, data : Seq(Byte)]
  /\ Len(Empty.data) <= PacketSize
BY Sizes DEF NAK, Empty

(* A SETUP: the answer is limited and its first packet built.              *)
LEMMA ProcessSetupDriver ==
  ASSUME Typed, NEW request, NEW replyLen \in 0 .. USB_NO_MSG,
         NEW ptr \in [of : {"report_buffer", "idle_rate"}, at : Nat],
         ptr.at <= Room(ptr.of),
         replyLen # USB_NO_MSG => ptr.at + replyLen <= Room(ptr.of),
         report_buffer' \in [1 .. PROTOCOL_REPORT_SIZE -> Byte],
         idle_rate' \in Byte,
         ProcessSetup(request, replyLen, ptr)
  PROVE  Driver' /\ host' = host
<1> DEFINE len == IF replyLen = USB_NO_MSG THEN USB_NO_MSG
                  ELSE Limited(replyLen, host.wLength)
<1>1. host.wLength \in Nat
  BY DEF Typed, TypeOK, HostState
<1>2. len \in 0 .. USB_NO_MSG
      /\ (len # USB_NO_MSG => len <= replyLen /\ replyLen # USB_NO_MSG)
  BY <1>1, Sizes DEF Limited, Least
<1>3. BuildTxBlock(NAK, len, ptr)
  BY DEF ProcessSetup, Answer
<1> HIDE DEF len
<1>4. len # USB_NO_MSG => ptr.at + len <= Room(ptr.of)
  BY <1>2, Sizes DEF Room
<1>5. /\ tx' \in [sending : BOOLEAN, data : Seq(Byte)]
      /\ Len(tx'.data) <= PacketSize
      /\ usbMsgPtr' \in [of : {"report_buffer", "idle_rate"}, at : Nat]
      /\ usbMsgPtr'.at <= Room(usbMsgPtr'.of)
      /\ usbMsgLen' \in 0 .. USB_NO_MSG
      /\ usbMsgLen' # USB_NO_MSG =>
           usbMsgPtr'.at + usbMsgLen' <= Room(usbMsgPtr'.of)
  BY <1>2, <1>3, <1>4, NoPacket, BuildTxBlockType
<1>6. rx' = Empty /\ user_rw' \in BOOLEAN /\ host' = host
  BY DEF ProcessSetup, ReceiveSetup
<1>7. host' \in HostState
  BY <1>6 DEF Typed, TypeOK
<1> QED
  BY <1>5, <1>6, <1>7, NoPacket DEF Driver

(* The same for a call that goes on with the answer in progress.           *)
LEMMA ContinueDriver ==
  ASSUME Typed, rx' = Empty, user_rw' = user_rw, host' = host,
         NEW len \in {0, usbMsgLen},
         report_buffer' \in [1 .. PROTOCOL_REPORT_SIZE -> Byte],
         idle_rate' \in Byte,
         BuildTxBlock(tx, len, usbMsgPtr)
  PROVE  Driver'
<1>1. Driver
  BY TypedParts
<1>2. len \in 0 .. USB_NO_MSG
      /\ (len # USB_NO_MSG => usbMsgPtr.at + len <= Room(usbMsgPtr.of))
  BY <1>1, Sizes DEF Driver, Room
<1>3. /\ tx' \in [sending : BOOLEAN, data : Seq(Byte)]
      /\ Len(tx'.data) <= PacketSize
      /\ usbMsgPtr' \in [of : {"report_buffer", "idle_rate"}, at : Nat]
      /\ usbMsgPtr'.at <= Room(usbMsgPtr'.of)
      /\ usbMsgLen' \in 0 .. USB_NO_MSG
      /\ usbMsgLen' # USB_NO_MSG =>
           usbMsgPtr'.at + usbMsgLen' <= Room(usbMsgPtr'.of)
  BY <1>1, <1>2, BuildTxBlockType DEF Driver
<1>4. user_rw' \in BOOLEAN /\ host' \in HostState
  BY <1>1 DEF Driver
<1> QED
  BY <1>3, <1>4, NoPacket DEF Driver

(* The length kept for a report, and that it is the host's when it fits.   *)
LEMMA ExpectedLengthIs ==
  ASSUME Typed
  PROVE  /\ ExpectedLength \in 0 .. PROTOCOL_REPORT_SIZE
         /\ InOneReport(host.wLength) => ExpectedLength = host.wLength
<1>1. host.wLength \in Nat
  BY DEF Typed, TypeOK, HostState
<1> DEFINE announced == host.wLength % LengthBase
<1>2. announced \in Nat
  BY <1>1, Sizes
<1>3. host.wLength < LengthBase => announced = host.wLength
  BY <1>1, Sizes
<1> HIDE DEF announced
<1>4. ExpectedLength = Least(announced, PROTOCOL_REPORT_SIZE)
  BY DEF ExpectedLength, announced
<1> QED
  BY <1>1, <1>2, <1>3, <1>4, Sizes DEF Least, InOneReport

(* The response as GET_REPORT lays it out in the shared buffer.            *)
LEMMA PaddedIsTyped ==
  ASSUME Typed
  PROVE  PaddedResponse \in [1 .. PROTOCOL_REPORT_SIZE -> Byte]
BY BytesAre, Sizes DEF PaddedResponse, Typed, TypeOK

(* rawhid_handle_setup, one case per request.                              *)
LEMMA SetupTyped ==
  ASSUME Typed,
         \/ ReturnResponse \/ ReturnNothing \/ SetReport
         \/ SetIdle \/ GetIdle \/ OtherRequest
  PROVE  Typed'
<1>1. Driver /\ Handlers
  BY TypedParts
<1>2. /\ 0 \in 0 .. USB_NO_MSG /\ 1 \in 0 .. USB_NO_MSG
      /\ USB_NO_MSG \in 0 .. USB_NO_MSG
      /\ PROTOCOL_REPORT_SIZE \in 0 .. USB_NO_MSG
  BY Sizes
<1>3. host.number \in Nat
  BY <1>1 DEF Driver, HostState
<1>4. CASE ReturnResponse
  <2>1. Driver' /\ host' = host
    <3>1. /\ report_buffer' \in [1 .. PROTOCOL_REPORT_SIZE -> Byte]
          /\ idle_rate' \in Byte
      BY <1>1, <1>4, PaddedIsTyped DEF ReturnResponse, Handlers
    <3>2. [of |-> "report_buffer", at |-> 0]
            \in [of : {"report_buffer", "idle_rate"}, at : Nat]
      OBVIOUS
    <3>3. 0 <= Room("report_buffer") /\ 0 + PROTOCOL_REPORT_SIZE <= Room("report_buffer")
      BY Sizes DEF Room
    <3> QED
      BY <1>2, <1>4, <3>1, <3>2, <3>3, ProcessSetupDriver DEF ReturnResponse
  <2>2. Handlers'
    BY <1>1, <1>4, PaddedIsTyped
    DEF ReturnResponse, ProcessSetup, ReceiveSetup, Handlers, protocol_vars
  <2> QED
    BY <2>1, <2>2, PartsTyped, HostUntouched DEF Handlers
<1>5. ASSUME NEW request, ProcessSetup(request, 0, usbMsgPtr), Handlers'
      PROVE  Typed'
  <2>1. usbMsgPtr.at + 0 <= Room(usbMsgPtr.of)
    BY <1>1, Sizes DEF Driver, Room
  <2>2. Driver' /\ host' = host
    BY <1>1, <1>2, <1>5, <2>1, ProcessSetupDriver DEF Driver, Handlers
  <2> QED
    BY <1>5, <2>2, PartsTyped, HostUntouched DEF Handlers
<1>6. CASE ReturnNothing
  BY <1>1, <1>5, <1>6
  DEF ReturnNothing, ProcessSetup, ReceiveSetup, Handlers, transport_vars,
      protocol_vars
<1>7. CASE OtherRequest
  BY <1>1, <1>5, <1>7
  DEF OtherRequest, ProcessSetup, ReceiveSetup, Handlers, transport_vars,
      protocol_vars
<1>8. CASE SetIdle
  BY <1>1, <1>3, <1>5, <1>8, BytesAre
  DEF SetIdle, ProcessSetup, ReceiveSetup, Handlers, protocol_vars
<1>9. CASE GetIdle
  <2>1. Handlers'
    BY <1>1, <1>9
    DEF GetIdle, ProcessSetup, ReceiveSetup, Handlers, transport_vars,
        protocol_vars
  <2>2. /\ [of |-> "idle_rate", at |-> 0]
             \in [of : {"report_buffer", "idle_rate"}, at : Nat]
        /\ 0 <= Room("idle_rate") /\ 0 + 1 <= Room("idle_rate")
    BY DEF Room
  <2>3. Driver' /\ host' = host
    BY <1>2, <1>9, <2>1, <2>2, ProcessSetupDriver DEF GetIdle, Handlers
  <2> QED
    BY <2>1, <2>3, PartsTyped, HostUntouched DEF Handlers
<1>10. CASE SetReport
  <2>1. Handlers'
    BY <1>1, <1>10, ExpectedLengthIs, Sizes
    DEF SetReport, ProcessSetup, ReceiveSetup, Handlers, protocol_vars
  <2>2. Driver' /\ host' = host
    BY <1>1, <1>2, <1>10, <2>1, ProcessSetupDriver DEF SetReport, Handlers, Driver
  <2> QED
    BY <2>1, <2>2, PartsTyped, HostUntouched DEF Handlers
<1> QED
  BY <1>4, <1>6, <1>7, <1>8, <1>9, <1>10

(* The bytes a packet adds to the report being received.                   *)
LEMMA AcceptedIs ==
  ASSUME Typed
  PROVE  /\ Accepted \in Nat /\ Accepted <= Len(rx.data)
         /\ report_offset + Accepted <= expected_length
         /\ Accepted = Len(rx.data) \/ report_offset + Accepted = expected_length
<1>1. Len(rx.data) \in Nat
  BY DEF Typed, TypeOK
<1>2. expected_length - report_offset \in Nat
  BY Sizes DEF Typed, TypeOK, Progress
<1>3. report_offset \in Nat /\ expected_length \in Nat
  BY Sizes DEF Typed, TypeOK
<1> DEFINE room == expected_length - report_offset
           size == Len(rx.data)
<1>4. Accepted = Least(size, room)
  BY DEF Accepted
<1>5. size \in Nat /\ room \in Nat
  BY <1>1, <1>2
<1> HIDE DEF size
<1>6. /\ Accepted \in Nat /\ Accepted <= size /\ Accepted <= room
      /\ Accepted = size \/ Accepted = room
  BY <1>4, <1>5, LeastIs
<1> QED
  BY <1>3, <1>6 DEF size

(* The buffer after a packet has been copied into it.                      *)
LEMMA AccumulateTyped ==
  ASSUME Typed, Accumulate
  PROVE  report_buffer' \in [1 .. PROTOCOL_REPORT_SIZE -> Byte]
<1>1. /\ rx.data \in Seq(Byte)
      /\ report_buffer \in [1 .. PROTOCOL_REPORT_SIZE -> Byte]
      /\ report_offset \in Nat
  BY Sizes DEF Typed, TypeOK
<1>2. ASSUME NEW i \in 1 .. PROTOCOL_REPORT_SIZE,
             i \in report_offset + 1 .. report_offset + Accepted
      PROVE  rx.data[i - report_offset] \in Byte
  <2>1. i - report_offset \in 1 .. Len(rx.data)
    BY <1>1, <1>2, AcceptedIs
  <2> QED
    BY <1>1, <2>1
<1> QED
  BY <1>1, <1>2 DEF Accumulate

(* What the protocol leaves after a report.                                *)
LEMMA ProcessedIs ==
  ASSUME Typed, protocol_process_report,
         report_buffer' \in [1 .. PROTOCOL_REPORT_SIZE -> Byte]
  PROVE  /\ response' \in [number : Nat, length : 0 .. PROTOCOL_REPORT_SIZE]
         /\ exit_requested' \in BOOLEAN
         /\ last' \in Processed
<1>1. /\ host.number \in Nat /\ host.wLength \in Nat /\ host.repeats \in Nat
      /\ expected_length \in Nat /\ last.times \in Nat
  BY Sizes DEF Typed, TypeOK, HostState, Processed
<1>2. report_buffer' \in Seq(Byte)
  BY Sizes
<1>3. PICK length \in ResponseLengths
                        \union (IF expected_length > 0 THEN {0} ELSE {}) :
             /\ response' = [number |-> host.number, length |-> length]
             /\ exit_requested' = (length = 0)
  BY DEF protocol_process_report
<1>4. length \in 0 .. PROTOCOL_REPORT_SIZE
  BY <1>3, Sizes, RawHidAssumption DEF RawHidAssumption
<1>5. /\ response' \in [number : Nat, length : 0 .. PROTOCOL_REPORT_SIZE]
      /\ exit_requested' \in BOOLEAN
  BY <1>1, <1>3, <1>4
<1>6. last' \in Processed
  <2> DEFINE times == IF last.number = host.number THEN last.times + 1 ELSE 1
  <2>1. times \in Nat
    BY <1>1
  <2>2. last' = [number |-> host.number, wLength |-> host.wLength,
                 repeats |-> host.repeats, length |-> expected_length,
                 bytes |-> report_buffer', times |-> times]
    BY DEF protocol_process_report
  <2> HIDE DEF times
  <2> QED
    BY <1>1, <1>2, <2>1, <2>2 DEF Processed
<1> QED
  BY <1>5, <1>6

(* rawhid_handle_write, data nobody asked for, and the next packet.        *)
LEMMA DataTyped ==
  ASSUME Typed, MoreData \/ CompleteReport \/ IgnoreData \/ SendNext
  PROVE  Typed'
<1>1. Driver /\ Handlers
  BY TypedParts
<1>2. CASE MoreData
  <2>1. report_buffer' \in [1 .. PROTOCOL_REPORT_SIZE -> Byte]
    BY <1>2, AccumulateTyped DEF MoreData, TakeData
  <2>2. report_offset' \in 0 .. PROTOCOL_REPORT_SIZE
        /\ report_offset' <= expected_length'
    BY <1>1, <1>2, AcceptedIs, Sizes DEF MoreData, TakeData, Handlers
  <2>3. Handlers'
    BY <1>1, <1>2, <2>1, <2>2 DEF MoreData, TakeData, Handlers, protocol_vars
  <2>4. Driver' /\ host' = host
    BY <1>2, <2>1, <2>3, ContinueDriver DEF MoreData, TakeData, Handlers
  <2> QED
    BY <2>2, <2>3, <2>4, PartsTyped, HostUntouched
<1>3. CASE CompleteReport
  <2>1. report_buffer' \in [1 .. PROTOCOL_REPORT_SIZE -> Byte]
    BY <1>3, AccumulateTyped DEF CompleteReport, TakeData
  <2>2. /\ response' \in [number : Nat, length : 0 .. PROTOCOL_REPORT_SIZE]
        /\ exit_requested' \in BOOLEAN
        /\ last' \in Processed
    BY <1>3, <2>1, ProcessedIs DEF CompleteReport
  <2>3. report_offset' \in 0 .. PROTOCOL_REPORT_SIZE
        /\ report_offset' <= expected_length'
        /\ response_pending' \in BOOLEAN
    BY <1>1, <1>3, Sizes DEF CompleteReport, TakeData, Handlers
  <2>4. Handlers'
    BY <1>1, <1>3, <2>1, <2>2, <2>3 DEF CompleteReport, TakeData, Handlers
  <2>5. Driver' /\ host' = host
    BY <1>3, <2>1, <2>4, ContinueDriver DEF CompleteReport, TakeData, Handlers
  <2> QED
    BY <2>3, <2>4, <2>5, PartsTyped, HostUntouched
<1>4. CASE IgnoreData
  <2>1. Handlers'
    BY <1>1, <1>4 DEF IgnoreData, Handlers, transport_vars, protocol_vars
  <2>2. Driver' /\ host' = host
    BY <1>4, <2>1, ContinueDriver DEF IgnoreData, Handlers
  <2> QED
    BY <2>1, <2>2, PartsTyped, HostUntouched DEF Handlers
<1>5. CASE SendNext
  <2>1. Handlers'
    BY <1>1, <1>5 DEF SendNext, Handlers, transport_vars, protocol_vars
  <2>2. Driver' /\ host' = host
    BY <1>5, <2>1, ContinueDriver DEF SendNext, Handlers
  <2> QED
    BY <2>1, <2>2, PartsTyped, HostUntouched DEF Handlers
<1> QED
  BY <1>2, <1>3, <1>4, <1>5

(* The types, with Progress, are inductive.                                *)
LEMMA InitTyped == Init => Typed
<1>1. Init => Progress
  BY DEF Init, Progress
<1> QED
  BY <1>1, InitType DEF Typed

LEMMA StepTyped == Typed /\ [Next]_vars => Typed'
<1> SUFFICES ASSUME Typed, [Next]_vars
             PROVE  Typed'
  OBVIOUS
<1>1. CASE Next
  BY <1>1, HostTyped, SetupTyped, DataTyped DEF Next, usbPoll
<1>2. CASE UNCHANGED vars
  BY <1>2 DEF vars, device_vars, transport_vars, protocol_vars, message_vars,
              Typed, TypeOK, Progress
<1> QED
  BY <1>1, <1>2

(* The buffer is never written beyond its end nor read beyond it, for      *)
(* every sequence of requests, packets and lengths.                        *)
THEOREM TransportTypeCorrect == Spec => []TypeOK
<1>1. Typed => TypeOK
  BY DEF Typed
<1> QED
  BY InitTyped, StepTyped, <1>1, PTL DEF Spec
-----------------------------------------------------------------------------
(* What waits in the receive buffer, and who is to be given data: the      *)
(* dispatcher's handler, exactly in a SET_REPORT whose SETUP has been      *)
(* processed.                                                              *)
Routed ==
  /\ rx.token = "none" => rx = Empty
  /\ rx.token = "SETUP" => rx = SetupPacket /\ host.sent = 0
  /\ rx.token # "SETUP" => (user_rw <=> host.request = "SET_REPORT")

(* Nothing is there to be sent to the host before its report has been      *)
(* processed, so that no status packet can be taken for it.                *)
Silent ==
  host.request = "SET_REPORT" /\ rx.token # "SETUP" /\ last.number # host.number
    => ~ tx.sending /\ usbMsgLen = USB_NO_MSG

Ended ==
  host.request = "SET_REPORT" /\ host.stage \in {"done", "failed"}
    => last.number = host.number

Executed == Typed /\ Routed /\ Silent /\ Ended

(* What a SETUP leaves behind it, whatever its handler answers.            *)
LEMMA SetupAnswered ==
  ASSUME NEW request, NEW replyLen, NEW ptr, ProcessSetup(request, replyLen, ptr)
  PROVE  /\ host.request = request /\ host' = host /\ last' = last
         /\ rx.token = "SETUP" /\ rx' = Empty /\ rx'.token = "none"
         /\ user_rw' <=> replyLen = USB_NO_MSG
         /\ replyLen = USB_NO_MSG => ~ tx'.sending /\ usbMsgLen' = USB_NO_MSG
<1>1. /\ host.request = request /\ host' = host /\ last' = last
      /\ rx.token = "SETUP" /\ rx' = Empty
      /\ user_rw' = (replyLen = USB_NO_MSG)
  BY DEF ProcessSetup, ReceiveSetup, protocol_vars
<1>2. user_rw' <=> replyLen = USB_NO_MSG
  BY <1>1
<1>3. rx'.token = "none"
  BY <1>1 DEF Empty
<1>4. ASSUME replyLen = USB_NO_MSG
      PROVE  ~ tx'.sending /\ usbMsgLen' = USB_NO_MSG
  <2>1. BuildTxBlock(NAK, USB_NO_MSG, ptr)
    BY <1>4 DEF ProcessSetup, Answer
  <2>2. tx' = NAK /\ usbMsgLen' = USB_NO_MSG
    BY <2>1 DEF BuildTxBlock
  <2> QED
    BY <2>2 DEF NAK
<1> QED
  BY <1>1, <1>2, <1>3, <1>4

(* A request, a packet of data, and the host keep Executed.                *)
LEMMA SetupRouted ==
  ASSUME Executed,
         \/ ReturnResponse \/ ReturnNothing \/ SetReport
         \/ SetIdle \/ GetIdle \/ OtherRequest
  PROVE  Routed' /\ Silent' /\ Ended'
<1>1. 0 # USB_NO_MSG /\ 1 # USB_NO_MSG /\ PROTOCOL_REPORT_SIZE # USB_NO_MSG
  BY Sizes
<1>2. PICK request, replyLen, ptr :
         /\ ProcessSetup(request, replyLen, ptr)
         /\ request = "SET_REPORT" <=> replyLen = USB_NO_MSG
  BY <1>1
  DEF ReturnResponse, ReturnNothing, SetReport, SetIdle, GetIdle, OtherRequest
<1>3. /\ host' = host /\ last' = last /\ rx' = Empty /\ rx'.token = "none"
      /\ user_rw' <=> host'.request = "SET_REPORT"
      /\ host'.request = "SET_REPORT" => ~ tx'.sending /\ usbMsgLen' = USB_NO_MSG
  BY <1>2, SetupAnswered
<1> QED
  BY <1>3 DEF Executed, Routed, Silent, Ended

LEMMA DataRouted ==
  ASSUME Executed, MoreData \/ CompleteReport \/ IgnoreData \/ SendNext
  PROVE  Routed' /\ Silent' /\ Ended'
<1>1. /\ rx' = Empty /\ rx'.token = "none" /\ rx.token # "SETUP"
      /\ user_rw' = user_rw /\ host' = host
  BY DEF MoreData, CompleteReport, IgnoreData, SendNext, TakeData, Empty
<1>2. Routed'
  BY <1>1 DEF Executed, Routed
<1>3. CASE CompleteReport
  <2>1. last'.number = host'.number
    BY <1>1, <1>3 DEF CompleteReport, protocol_process_report
  <2> QED
    BY <1>2, <2>1 DEF Silent, Ended
<1>4. CASE MoreData \/ IgnoreData \/ SendNext
  <2>1. last' = last /\ BuildTxBlock(tx, usbMsgLen, usbMsgPtr)
    BY <1>4 DEF MoreData, IgnoreData, SendNext, protocol_vars
  <2>2. ASSUME ~ tx.sending, usbMsgLen = USB_NO_MSG
        PROVE  ~ tx'.sending /\ usbMsgLen' = USB_NO_MSG
    BY <2>1, <2>2 DEF BuildTxBlock
  <2> QED
    BY <1>1, <1>2, <2>1, <2>2 DEF Executed, Silent, Ended
<1> QED
  BY <1>3, <1>4

LEMMA HostRouted ==
  ASSUME Executed, Host
  PROVE  Routed' /\ Silent' /\ Ended'
<1>0. host \in HostState
  BY DEF Executed, Typed, TypeOK
<1>1. user_rw' = user_rw /\ last' = last /\ usbMsgLen' = usbMsgLen
  BY DEF Host, Begin, SendData, LosePacket, ReceiveData, ReceiveStatus,
         SendStatus, TakePacket, device_vars, protocol_vars, message_vars
<1>2. ASSUME NEW request, NEW wLength \in Nat, Begin(request, wLength)
      PROVE  Routed' /\ Silent' /\ Ended'
  <2>1. rx' = SetupPacket /\ rx'.token = "SETUP" /\ host'.sent = 0
        /\ host'.stage \notin {"done", "failed"}
    BY <1>0, <1>2 DEF Begin, SetupPacket, HostState
  <2> QED
    BY <2>1 DEF Routed, Silent, Ended
<1>3. CASE SendData
  <2>1. host'.request = host.request /\ host'.number = host.number
        /\ host'.stage \notin {"done", "failed"}
    BY <1>0, <1>3 DEF SendData, HostState
  <2>2. rx.token # "SETUP" /\ rx'.token = "OUT" /\ tx' = tx
    BY <1>3 DEF SendData, DataPacket, Empty
  <2> QED
    BY <1>1, <2>1, <2>2 DEF Executed, Routed, Silent, Ended
<1>4. CASE LosePacket \/ ReceiveData \/ ReceiveStatus \/ SendStatus
  <2>1. host'.request = host.request /\ host'.number = host.number
    BY <1>0, <1>4
    DEF LosePacket, ReceiveData, ReceiveStatus, SendStatus, HostState
  <2>2. rx' = rx /\ rx = Empty /\ rx.token = "none"
        /\ (tx' = tx \/ ~ tx'.sending)
    BY <1>4
    DEF LosePacket, ReceiveData, ReceiveStatus, SendStatus, TakePacket, Empty, NAK
  <2>3. Routed' /\ Silent'
    BY <1>1, <2>1, <2>2 DEF Executed, Routed, Silent
  <2>4. CASE ReceiveStatus
    <3>1. host.request = "SET_REPORT" => last.number = host.number
      BY <2>2, <2>4 DEF Executed, Silent, ReceiveStatus, TakePacket
    <3> QED
      BY <1>1, <2>1, <2>3, <3>1 DEF Ended
  <2>5. CASE LosePacket
    <3>1. host'.stage = host.stage
      BY <1>0, <2>5 DEF LosePacket, HostState
    <3> QED
      BY <1>1, <2>1, <2>3, <3>1 DEF Executed, Ended
  <2>6. CASE ReceiveData \/ SendStatus
    BY <2>1, <2>3, <2>6 DEF ReceiveData, SendStatus, Asking, Ended
  <2> QED
    BY <1>4, <2>4, <2>5, <2>6
<1> QED
  BY <1>2, <1>3, <1>4, RawHidAssumption DEF Host, RawHidAssumption

LEMMA InitExecuted == Init => Executed
<1> SUFFICES ASSUME Init
             PROVE  Executed
  OBVIOUS
<1>1. Routed /\ Silent /\ Ended
  BY DEF Init, Routed, Silent, Ended, Empty, NAK
<1> QED
  BY <1>1, InitTyped DEF Executed

LEMMA StepExecuted == Executed /\ [Next]_vars => Executed'
<1> SUFFICES ASSUME Executed, [Next]_vars
             PROVE  Executed'
  OBVIOUS
<1>1. Typed'
  BY StepTyped DEF Executed
<1>2. CASE Next
  BY <1>1, <1>2, HostRouted, SetupRouted, DataRouted DEF Next, usbPoll, Executed
<1>3. CASE UNCHANGED vars
  BY <1>1, <1>3
  DEF vars, device_vars, protocol_vars, message_vars, Executed, Routed, Silent,
      Ended
<1> QED
  BY <1>2, <1>3

(* A SET_REPORT whose status the host received has been executed, however  *)
(* transfers are abandoned and packets repeated or lost.                   *)
THEOREM CompletedAlwaysExecuted == Spec => []CompletedIsExecuted
<1>1. Executed => CompletedIsExecuted
  BY DEF Executed, Ended, CompletedIsExecuted
<1> QED
  BY InitExecuted, StepExecuted, <1>1, PTL DEF Spec
-----------------------------------------------------------------------------
(* A report on its way: what the host has sent of it is in the buffer, or  *)
(* in the packet that waits, until the last packet has been processed.     *)
Whole ==
  /\ host.request = "SET_REPORT" /\ rx.token # "SETUP"
  /\ host.repeats = 0 /\ InOneReport(host.wLength)

Partial ==
  /\ report_offset < expected_length
  /\ report_offset + Len(rx.data) = host.sent
  /\ host.sent <= host.wLength
  /\ \A i \in 1 .. report_offset : report_buffer[i] = ReportByte(host.number, i)
  /\ \A i \in 1 .. Len(rx.data) :
       rx.data[i] = ReportByte(host.number, report_offset + i)

Assembled ==
  Whole => /\ expected_length = host.wLength
           /\ \/ Partial
              \/ rx.token = "none" /\ host.sent = host.wLength

Faithful == Executed /\ Assembled /\ ReceivedAsSent

(* The numbers that the positions of bytes are computed with.              *)
LEMMA NumbersAre ==
  ASSUME Typed
  PROVE  /\ host.sent \in Nat /\ host.wLength \in Nat /\ host.number \in Nat
         /\ report_offset \in Nat /\ expected_length \in Nat
         /\ report_offset <= expected_length
         /\ expected_length <= PROTOCOL_REPORT_SIZE
         /\ Len(rx.data) \in Nat
BY Sizes DEF Typed, TypeOK, Progress, HostState

(* The host's next packet continues where the buffer ends.                 *)
LEMMA SendDataAssembled ==
  ASSUME Faithful, SendData
  PROVE  Assembled'
<1> SUFFICES ASSUME Whole'
             PROVE  expected_length' = host'.wLength /\ Partial'
  BY DEF Assembled
<1> DEFINE upto == Least(host.sent + PacketSize, host.wLength)
           data == [i \in 1 .. upto - host.sent |->
                      ReportByte(host.number, host.sent + i)]
<1>1. Typed /\ host \in HostState
  BY DEF Faithful, Executed, Typed, TypeOK
<1>2. /\ upto \in Nat /\ upto <= host.wLength /\ upto > host.sent
      /\ data \in Seq(Byte) /\ Len(data) = upto - host.sent
  BY <1>1, PacketsSent DEF Typed, Progress, SendData
<1>3. rx' = [token |-> "OUT", data |-> data]
  BY DEF SendData, DataPacket
<1>4. /\ host'.request = host.request /\ host'.wLength = host.wLength
      /\ host'.number = host.number
      /\ \/ host'.sent = upto /\ host'.repeats = host.repeats
         \/ host'.repeats = host.repeats + 1
  <2> HIDE DEF upto
  <2>1. \/ host' = [host EXCEPT
             !.sent = upto,
             !.stage = IF upto = host.wLength THEN "status" ELSE "data"]
        \/ host' = [host EXCEPT !.repeats = @ + 1]
    BY DEF SendData, upto
  <2> QED
    BY <1>1, <2>1 DEF HostState
<1>5. /\ report_buffer' = report_buffer /\ report_offset' = report_offset
      /\ expected_length' = expected_length
  BY DEF SendData, device_vars, transport_vars
<1>6. host'.repeats = 0 /\ host.repeats \in Nat
  BY <1>1 DEF Whole, HostState
<1>7. host'.sent = upto /\ host.repeats = 0
  BY <1>4, <1>6
<1>8. Whole /\ rx = Empty /\ rx.data = << >> /\ host.sent < host.wLength
  BY <1>1, <1>4, <1>7
  DEF Whole, SendData, Empty, InOneReport, Typed, Progress
<1>9. expected_length = host.wLength /\ Partial
  BY <1>1, <1>8, NumbersAre DEF Faithful, Assembled
<1>10. report_offset = host.sent
  BY <1>1, <1>8, <1>9, NumbersAre DEF Partial
<1>11. \A i \in 1 .. Len(data) :
         data[i] = ReportByte(host.number, report_offset + i)
  BY <1>2, <1>10
<1> HIDE DEF upto, data
<1>12. rx'.data = data /\ report_offset + Len(data) = upto
  BY <1>1, <1>2, <1>3, <1>10, NumbersAre
<1> QED
  BY <1>2, <1>4, <1>5, <1>7, <1>9, <1>11, <1>12 DEF Partial

(* An action that leaves the report, its packet and its transfer alone.    *)
LEMMA KeptAssembled ==
  ASSUME Assembled, rx' = rx, host'.request = host.request,
         host'.number = host.number, host'.wLength = host.wLength,
         host'.sent = host.sent, host'.repeats = host.repeats,
         report_buffer' = report_buffer, report_offset' = report_offset,
         expected_length' = expected_length
  PROVE  Assembled'
BY DEF Assembled, Whole, Partial

LEMMA HostAssembled ==
  ASSUME Faithful, Host
  PROVE  Assembled'
<1>0. host \in HostState /\ Assembled
  BY DEF Faithful, Executed, Typed, TypeOK
<1>1. ASSUME NEW request, NEW wLength, Begin(request, wLength)
      PROVE  Assembled'
  BY <1>1 DEF Begin, SetupPacket, Assembled, Whole
<1>2. CASE SendData
  BY <1>2, SendDataAssembled
<1>3. CASE LosePacket \/ ReceiveStatus
  <2>1. /\ host'.request = host.request /\ host'.number = host.number
        /\ host'.wLength = host.wLength /\ host'.sent = host.sent
        /\ host'.repeats = host.repeats
    BY <1>0, <1>3 DEF LosePacket, ReceiveStatus, HostState
  <2> QED
    BY <1>0, <1>3, <2>1, KeptAssembled
    DEF LosePacket, ReceiveStatus, TakePacket, device_vars, transport_vars
<1>4. CASE ReceiveData \/ SendStatus
  <2>1. host'.request = host.request
    BY <1>0, <1>4 DEF ReceiveData, SendStatus, HostState
  <2> QED
    BY <1>4, <2>1 DEF ReceiveData, SendStatus, Asking, Assembled, Whole
<1> QED
  BY <1>1, <1>2, <1>3, <1>4 DEF Host

(* A SET_REPORT starts an empty report; other requests carry none.         *)
LEMMA SetupAssembled ==
  ASSUME Faithful,
         \/ ReturnResponse \/ ReturnNothing \/ SetReport
         \/ SetIdle \/ GetIdle \/ OtherRequest
  PROVE  Assembled'
<1>1. CASE SetReport
  <2>1. /\ host' = host /\ rx.token = "SETUP" /\ rx' = Empty
        /\ expected_length' = ExpectedLength /\ report_offset' = 0
    BY <1>1 DEF SetReport, ProcessSetup, ReceiveSetup
  <2>2. Typed /\ host.sent = 0
    BY <2>1 DEF Faithful, Executed, Routed
  <2>3. rx'.data = << >>
    BY <2>1 DEF Empty
  <2> SUFFICES ASSUME Whole'
               PROVE  expected_length' = host'.wLength /\ Partial'
    BY DEF Assembled
  <2>4. expected_length' = host.wLength /\ host.wLength > 0
    BY <2>1, <2>2, ExpectedLengthIs, Sizes DEF Whole, InOneReport
  <2>5. Len(rx'.data) = 0 /\ host.wLength \in Nat
    BY <2>2, <2>3, NumbersAre
  <2> QED
    BY <2>1, <2>2, <2>4, <2>5 DEF Partial
<1>2. CASE ReturnResponse \/ ReturnNothing \/ SetIdle \/ GetIdle \/ OtherRequest
  <2>1. host' = host /\ host.request # "SET_REPORT"
    BY <1>2
    DEF ReturnResponse, ReturnNothing, SetIdle, GetIdle, OtherRequest,
        ProcessSetup, ReceiveSetup
  <2> QED
    BY <2>1 DEF Assembled, Whole
<1> QED
  BY <1>1, <1>2

(* A packet of a whole report is taken whole.                              *)
LEMMA PacketAccumulated ==
  ASSUME Faithful, TakeData, Whole
  PROVE  /\ expected_length = host.wLength
         /\ report_offset + Accepted = host.sent
         /\ host.sent <= host.wLength
         /\ \A i \in 1 .. host.sent :
              report_buffer'[i] = ReportByte(host.number, i)
<1>1. Typed
  BY DEF Faithful, Executed
<1>2. rx.token = "OUT" /\ Accumulate
  BY DEF TakeData
<1>3. Partial /\ expected_length = host.wLength
  BY <1>2 DEF Faithful, Assembled
<1> DEFINE size == Len(rx.data)
<1>4. size \in Nat /\ report_offset + size = host.sent
      /\ host.sent <= host.wLength
  BY <1>1, <1>3, NumbersAre DEF Partial
<1>5. Accepted \in Nat /\ Accepted <= size
      /\ (Accepted = size \/ report_offset + Accepted = expected_length)
  BY <1>1, AcceptedIs
<1> HIDE DEF size
<1>6. Accepted = size
  BY <1>1, <1>3, <1>4, <1>5, NumbersAre
<1>7. ASSUME NEW i \in 1 .. host.sent
      PROVE  report_buffer'[i] = ReportByte(host.number, i)
  <2>1. i \in 1 .. PROTOCOL_REPORT_SIZE
    BY <1>1, <1>3, <1>4, NumbersAre, Sizes
  <2>2. CASE i <= report_offset
    BY <1>1, <1>2, <1>3, <2>1, <2>2, NumbersAre DEF Accumulate, Partial
  <2>3. CASE i > report_offset
    <3> DEFINE j == i - report_offset
    <3>1. j \in 1 .. size /\ report_offset + j = i
          /\ i \in report_offset + 1 .. report_offset + Accepted
      BY <1>1, <1>4, <1>6, <2>3, NumbersAre
    <3>2. report_buffer'[i] = rx.data[j]
      BY <1>2, <2>1, <3>1 DEF Accumulate
    <3>3. rx.data[j] = ReportByte(host.number, report_offset + j)
      BY <1>3, <3>1 DEF Partial, size
    <3> QED
      BY <3>1, <3>2, <3>3
  <2> QED
    BY <1>1, <2>2, <2>3, NumbersAre
<1> QED
  BY <1>3, <1>4, <1>6, <1>7

(* The report grows by its packets and is processed after the last.        *)
LEMMA DataAssembled ==
  ASSUME Faithful, MoreData \/ CompleteReport \/ IgnoreData \/ SendNext
  PROVE  Assembled' /\ ReceivedAsSent'
<1>1. Typed /\ Routed /\ Assembled /\ ReceivedAsSent
  BY DEF Faithful, Executed
<1>2. CASE MoreData
  <2>1. TakeData /\ host' = host /\ rx.token = "OUT" /\ rx' = Empty
        /\ rx'.data = << >> /\ expected_length' = expected_length
        /\ report_offset' = report_offset + Accepted /\ last' = last
        /\ ~ Complete
    BY <1>2 DEF MoreData, TakeData, Empty, protocol_vars
  <2>2. ReceivedAsSent'
    BY <1>1, <2>1 DEF ReceivedAsSent
  <2>3. ASSUME Whole'
        PROVE  expected_length' = host'.wLength /\ Partial'
    <3>1. Whole
      BY <2>1, <2>3 DEF Whole
    <3>2. report_offset' < expected_length'
      BY <1>1, <2>1, AcceptedIs, NumbersAre DEF Complete
    <3>3. report_offset' = host.sent /\ Len(rx'.data) = 0 /\ host.sent \in Nat
      BY <1>1, <2>1, <3>1, PacketAccumulated, NumbersAre
    <3> QED
      BY <2>1, <3>1, <3>2, <3>3, PacketAccumulated DEF Partial
  <2> QED
    BY <2>2, <2>3 DEF Assembled
<1>3. CASE CompleteReport
  <2>1. TakeData /\ host' = host /\ rx.token = "OUT" /\ rx' = Empty
        /\ rx'.token = "none" /\ expected_length' = expected_length
        /\ Complete /\ user_rw
    BY <1>3 DEF CompleteReport, TakeData, Empty
  <2>2. /\ last'.number = host.number /\ last'.wLength = host.wLength
        /\ last'.repeats = host.repeats /\ last'.length = expected_length
        /\ last'.bytes = report_buffer'
    BY <1>3 DEF CompleteReport, protocol_process_report
  <2>3. host.request = "SET_REPORT"
    BY <1>1, <2>1 DEF Routed
  <2>4. Whole => expected_length = host.wLength /\ host.sent = host.wLength
    BY <1>1, <2>1, PacketAccumulated, NumbersAre, AcceptedIs DEF Complete
  <2>5. Assembled'
    BY <2>1, <2>4 DEF Assembled, Whole
  <2>6. ReceivedAsSent'
    <3> SUFFICES ASSUME InOneReport(last'.wLength), last'.repeats = 0
                 PROVE  /\ last'.length = last'.wLength
                        /\ \A i \in 1 .. last'.length :
                             last'.bytes[i] = ReportByte(last'.number, i)
      BY DEF ReceivedAsSent
    <3>1. Whole
      BY <2>1, <2>2, <2>3 DEF Whole
    <3> QED
      BY <2>1, <2>2, <2>4, <3>1, PacketAccumulated
  <2> QED
    BY <2>5, <2>6
<1>4. CASE IgnoreData
  <2>1. host' = host /\ last' = last /\ rx.token = "OUT" /\ ~ user_rw
    BY <1>4 DEF IgnoreData, protocol_vars
  <2>2. host'.request # "SET_REPORT"
    BY <1>1, <2>1 DEF Routed
  <2> QED
    BY <1>1, <2>1, <2>2 DEF Assembled, Whole, ReceivedAsSent
<1>5. CASE SendNext
  <2>1. ReceivedAsSent'
    BY <1>1, <1>5 DEF SendNext, protocol_vars, ReceivedAsSent
  <2>2. Assembled'
    BY <1>1, <1>5, KeptAssembled DEF SendNext, transport_vars
  <2> QED
    BY <2>1, <2>2
<1> QED
  BY <1>2, <1>3, <1>4, <1>5

(* Faithful is inductive.                                                  *)
LEMMA StepFaithful == Faithful /\ [Next]_vars => Faithful'
<1> SUFFICES ASSUME Faithful, [Next]_vars
             PROVE  Faithful'
  OBVIOUS
<1>1. Executed' /\ Assembled /\ ReceivedAsSent
  BY StepExecuted DEF Faithful
<1>2. last' = last => ReceivedAsSent'
  BY <1>1 DEF ReceivedAsSent
<1>3. CASE Host
  <2>1. last' = last
    BY <1>3
    DEF Host, Begin, SendData, LosePacket, ReceiveData, ReceiveStatus,
        SendStatus, TakePacket, device_vars, protocol_vars
  <2> QED
    BY <1>1, <1>2, <1>3, <2>1, HostAssembled DEF Faithful
<1>4. CASE \/ ReturnResponse \/ ReturnNothing \/ SetReport
           \/ SetIdle \/ GetIdle \/ OtherRequest
  <2>1. last' = last
    BY <1>4
    DEF ReturnResponse, ReturnNothing, SetReport, SetIdle, GetIdle,
        OtherRequest, ProcessSetup, ReceiveSetup, protocol_vars
  <2> QED
    BY <1>1, <1>2, <1>4, <2>1, SetupAssembled DEF Faithful
<1>5. CASE MoreData \/ CompleteReport \/ IgnoreData \/ SendNext
  BY <1>1, <1>5, DataAssembled DEF Faithful
<1>6. CASE UNCHANGED vars
  BY <1>1, <1>2, <1>6, KeptAssembled
  DEF vars, device_vars, transport_vars, protocol_vars, Faithful
<1> QED
  BY <1>3, <1>4, <1>5, <1>6 DEF Next, usbPoll

(* A report that fits the buffer and lost no acknowledgement reaches the   *)
(* protocol byte for byte as the host sent it, whatever transfers were     *)
(* abandoned before it.                                                    *)
THEOREM AlwaysReceivedAsSent == Spec => []ReceivedAsSent
<1>1. Init => Faithful
  <2> SUFFICES ASSUME Init
               PROVE  Faithful
    OBVIOUS
  <2>1. Assembled /\ ReceivedAsSent
    BY DEF Init, Assembled, Whole, ReceivedAsSent, InOneReport
  <2> QED
    BY <2>1, InitExecuted DEF Faithful
<1>2. Faithful => ReceivedAsSent
  BY DEF Faithful
<1> QED
  BY <1>1, <1>2, StepFaithful, PTL DEF Spec
-----------------------------------------------------------------------------
(* Requests, reports and responses are numbered in the order in which they *)
(* are made, processed and collected.                                      *)
Numbered ==
  /\ host.answered <= response.number
  /\ response.number <= last.number /\ last.number <= host.number
  /\ host.number > 0 => host.answered < host.number
  /\ host.number > 0 /\ (host.request # "SET_REPORT" \/ rx.token = "SETUP")
       => last.number < host.number
  /\ host.number = 0 => host.request = "OTHER"

(* The bytes the device has been given cannot be more than those of the    *)
(* packets the host sent, and every execution takes a whole report.        *)
Fitting ==
  host.request = "SET_REPORT" /\ rx.token # "SETUP" /\ InOneReport(host.wLength)

Delivered == host.sent + PacketSize * host.repeats

Budgeted ==
  /\ expected_length = host.wLength
  /\ host.sent <= host.wLength
  /\ report_offset + Len(rx.data) <= Delivered
  /\ last.number = host.number /\ host.repeats < Packets(host.wLength) =>
       /\ last.times = 1
       /\ host.wLength + report_offset + Len(rx.data) <= Delivered

Counted == Fitting => Budgeted

Once == Executed /\ Numbered /\ Counted /\ ExecutedOnce

(* Fewer packets than a report has do not make up a report.                *)
LEMMA FewerPackets ==
  ASSUME NEW n \in Nat, n > 0, NEW r \in Nat, r < Packets(n)
  PROVE  PacketSize * r < n
<1> DEFINE p == Packets(n)
<1>1. PacketSize \in Nat /\ PacketSize > 0
  BY Sizes
<1>2. p \in Int /\ PacketSize * p <= n + PacketSize - 1
  BY <1>1 DEF Packets
<1>3. r <= p - 1
  BY <1>2
<1> HIDE DEF p
<1>4. PacketSize * r <= PacketSize * (p - 1)
  BY <1>1, <1>2, <1>3
<1>5. PacketSize * (p - 1) = PacketSize * p - PacketSize
  BY <1>1, <1>2
<1> DEFINE a == PacketSize * r
           b == PacketSize * (p - 1)
           c == PacketSize * p
<1>6. a \in Int /\ b \in Int /\ c \in Int
  BY <1>1, <1>2
<1> HIDE DEF a, b, c
<1>7. a <= b /\ b = c - PacketSize /\ c <= n + PacketSize - 1
  BY <1>2, <1>4, <1>5 DEF a, b, c
<1>8. a < n
  BY <1>1, <1>6, <1>7
<1> QED
  BY <1>8 DEF a

(* One packet more.                                                        *)
LEMMA OnePacketMore ==
  ASSUME NEW r \in Nat
  PROVE  /\ PacketSize * r \in Nat
         /\ PacketSize * (r + 1) = PacketSize * r + PacketSize
BY Sizes

(* Who is numbered what.                                                   *)
LEMMA CountersAre ==
  ASSUME Typed
  PROVE  /\ host.number \in Nat /\ host.answered \in Nat /\ host.repeats \in Nat
         /\ response.number \in Nat /\ last.number \in Nat
         /\ last.times \in Nat /\ response.length \in Nat
BY Sizes DEF Typed, TypeOK, HostState, Processed

(* Bytes are counted.                                                      *)
LEMMA DeliveredIs ==
  ASSUME Typed
  PROVE  Delivered \in Nat
<1>1. host.sent \in Nat /\ PacketSize * host.repeats \in Nat
  BY CountersAre, NumbersAre, OnePacketMore
<1> QED
  BY <1>1 DEF Delivered

(* What Begin makes of the host.                                           *)
LEMMA BeginIs ==
  ASSUME host \in HostState, NEW request, NEW wLength, Begin(request, wLength)
  PROVE  /\ host'.number = host.number + 1 /\ host'.request = request
         /\ host'.wLength = wLength /\ host'.answered = host.answered
         /\ host'.stage = (IF wLength > 0 THEN "data" ELSE "status")
         /\ host'.got = << >> /\ host'.lost = FALSE
         /\ host'.owed <=>
              \/ host.request = "SET_REPORT" /\ host.stage = "done"
              \/ host.request \notin {"SET_REPORT", "GET_REPORT"} /\ host.owed
         /\ rx = Empty /\ rx.token = "none" /\ rx'.token = "SETUP"
BY DEF Begin, HostState, Empty, SetupPacket

(* The host's later actions leave the transfer's identity alone.           *)
LEMMA HostContinues ==
  ASSUME host \in HostState,
         SendData \/ LosePacket \/ ReceiveData \/ ReceiveStatus \/ SendStatus
  PROVE  /\ host'.number = host.number /\ host'.request = host.request
         /\ host'.wLength = host.wLength /\ host'.owed = host.owed
         /\ host'.answered = host.answered \/ host'.answered = response.number
         /\ ~ SendData => rx' = rx /\ host'.sent = host.sent
                          /\ host'.repeats = host.repeats
         /\ rx = Empty /\ rx.token = "none" /\ rx'.token # "SETUP"
<1>0. Empty.token = "none"
  BY DEF Empty
<1>1. CASE SendData
  <2>1. rx = Empty /\ rx'.token = "OUT"
    BY <1>1 DEF SendData, DataPacket
  <2> DEFINE upto == Least(host.sent + PacketSize, host.wLength)
             stage == IF upto = host.wLength THEN "status" ELSE "data"
  <2>2. \/ host' = [host EXCEPT !.sent = upto, !.stage = stage]
        \/ host' = [host EXCEPT !.repeats = @ + 1]
    BY <1>1 DEF SendData
  <2> HIDE DEF upto, stage
  <2> QED
    BY <1>0, <1>1, <2>1, <2>2 DEF HostState
<1>2. CASE LosePacket
  BY <1>0, <1>2 DEF LosePacket, TakePacket, HostState
<1>3. CASE ReceiveData
  <2>1. rx = Empty /\ rx' = rx
    BY <1>3 DEF ReceiveData, TakePacket
  <2>2. PICK got, stage : host' = [host EXCEPT !.got = got, !.stage = stage]
    BY <1>3 DEF ReceiveData
  <2> QED
    BY <1>0, <2>1, <2>2 DEF HostState
<1>4. CASE ReceiveStatus
  BY <1>0, <1>4 DEF ReceiveStatus, TakePacket, HostState
<1>5. CASE SendStatus
  <2>1. rx = Empty /\ rx' = rx
    BY <1>5 DEF SendStatus
  <2>2. PICK answered : /\ host' = [host EXCEPT !.stage = "done", !.answered = answered]
                        /\ answered \in {host.answered, response.number}
    BY <1>5 DEF SendStatus
  <2> QED
    BY <1>0, <2>1, <2>2 DEF HostState
<1> QED
  BY <1>1, <1>2, <1>3, <1>4, <1>5

(* The host does not touch the device's variables.                         *)
LEMMA HostLeaves ==
  ASSUME Host
  PROVE  UNCHANGED device_vars
BY DEF Host, Begin, SendData, LosePacket, ReceiveData, ReceiveStatus, SendStatus,
       TakePacket

(* The numbers keep their order.                                           *)
LEMMA HostNumbered ==
  ASSUME Executed, Numbered, Host
  PROVE  Numbered'
<1>0. Typed /\ host \in HostState
  BY DEF Executed, Typed, TypeOK
<1>1. response' = response /\ last' = last
  BY HostLeaves DEF device_vars, protocol_vars
<1>2. ASSUME NEW request, NEW wLength, Begin(request, wLength)
      PROVE  Numbered'
  <2>1. /\ host'.number = host.number + 1 /\ host'.answered = host.answered
        /\ host.number \in Nat /\ host.answered \in Nat
        /\ response.number \in Nat /\ last.number \in Nat
    BY <1>0, <1>2, BeginIs, CountersAre
  <2> QED
    BY <1>1, <2>1 DEF Numbered
<1>3. CASE SendData \/ LosePacket \/ ReceiveData \/ ReceiveStatus
  <2>1. host'.answered = host.answered
    BY <1>0, <1>3
    DEF SendData, LosePacket, ReceiveData, ReceiveStatus, HostState
  <2> QED
    BY <1>0, <1>1, <1>3, <2>1, HostContinues, CountersAre DEF Numbered
<1>4. CASE SendStatus
  <2>1. host.request # "SET_REPORT"
    BY <1>4 DEF SendStatus, Asking
  <2> QED
    BY <1>0, <1>1, <1>4, <2>1, HostContinues, CountersAre DEF Numbered
<1> QED
  BY <1>2, <1>3, <1>4 DEF Host

(* So does every call of usbPoll.                                          *)
LEMMA PollNumbered ==
  ASSUME Executed, Numbered, usbPoll
  PROVE  Numbered'
<1>0. Typed /\ Routed
  BY DEF Executed
<1>1. host' = host /\ rx' = Empty /\ rx'.token # "SETUP"
  BY DEF usbPoll, ReturnResponse, ReturnNothing, SetReport, SetIdle, GetIdle,
         OtherRequest, ProcessSetup, ReceiveSetup, MoreData, CompleteReport,
         IgnoreData, SendNext, TakeData, Empty
<1>2. CASE CompleteReport
  <2>1. response'.number = host.number /\ last'.number = host.number
    BY <1>2 DEF CompleteReport, protocol_process_report
  <2>2. host.request = "SET_REPORT"
    BY <1>0, <1>2 DEF CompleteReport, TakeData, Routed
  <2> QED
    BY <1>0, <1>1, <2>1, <2>2, CountersAre DEF Numbered
<1>3. CASE ~ CompleteReport
  <2>1. response' = response /\ last' = last
    BY <1>3
    DEF usbPoll, ReturnResponse, ReturnNothing, SetReport, SetIdle, GetIdle,
        OtherRequest, ProcessSetup, ReceiveSetup, MoreData, IgnoreData, SendNext,
        protocol_vars
  <2>2. host.request # "SET_REPORT" => rx'.token = rx.token \/ rx.token # "none"
    BY <1>1 DEF Empty
  <2> QED
    BY <1>0, <1>1, <2>1, CountersAre DEF Numbered
<1> QED
  BY <1>2, <1>3

(* What the device was given of a report grows with what the host sent.    *)
LEMMA HostCounted ==
  ASSUME Once, Host
  PROVE  Counted' /\ ExecutedOnce'
<1>0. Typed /\ host \in HostState /\ Counted /\ ExecutedOnce
  BY DEF Once, Executed, Typed, TypeOK
<1>1. /\ expected_length' = expected_length /\ last' = last
      /\ report_offset' = report_offset
  BY HostLeaves DEF device_vars, protocol_vars, transport_vars
<1>2. ExecutedOnce'
  BY <1>0, <1>1 DEF ExecutedOnce
<1>3. ASSUME NEW request, NEW wLength, Begin(request, wLength)
      PROVE  Counted'
  BY <1>0, <1>3, BeginIs DEF Counted, Fitting
<1>4. CASE LosePacket \/ ReceiveData \/ ReceiveStatus \/ SendStatus
  <2>1. ~ SendData
    BY <1>4
    DEF SendData, LosePacket, ReceiveData, ReceiveStatus, SendStatus, TakePacket,
        Empty, DataPacket
  <2>2. /\ host'.request = host.request /\ host'.number = host.number
        /\ host'.wLength = host.wLength /\ host'.sent = host.sent
        /\ host'.repeats = host.repeats /\ rx' = rx
    BY <1>0, <1>4, <2>1, HostContinues
  <2> QED
    BY <1>0, <1>1, <1>2, <2>2 DEF Counted, Fitting, Budgeted, Delivered
<1>5. CASE SendData
  <2> SUFFICES ASSUME Fitting'
               PROVE  Budgeted'
    BY <1>2 DEF Counted
  <2> DEFINE upto == Least(host.sent + PacketSize, host.wLength)
             data == [i \in 1 .. upto - host.sent |->
                        ReportByte(host.number, host.sent + i)]
             size == Len(data)
  <2>1. /\ upto \in Nat /\ upto <= host.wLength /\ upto > host.sent
        /\ size = upto - host.sent /\ size <= PacketSize
    BY <1>0, <1>5, PacketsSent DEF Typed, Progress, SendData
  <2>2. rx'.data = data /\ rx = Empty /\ rx.data = << >>
    BY <1>5 DEF SendData, DataPacket, Empty
  <2>3. /\ host'.request = host.request /\ host'.number = host.number
        /\ host'.wLength = host.wLength /\ rx.token # "SETUP"
    BY <1>0, <1>5, HostContinues
  <2>4. \/ host'.sent = upto /\ host'.repeats = host.repeats
        \/ host'.sent = host.sent /\ host'.repeats = host.repeats + 1
    <3> DEFINE stage == IF upto = host.wLength THEN "status" ELSE "data"
    <3>1. \/ host' = [host EXCEPT !.sent = upto, !.stage = stage]
          \/ host' = [host EXCEPT !.repeats = @ + 1]
      BY <1>5 DEF SendData
    <3> HIDE DEF upto, stage
    <3> QED
      BY <1>0, <3>1 DEF HostState
  <2>5. Fitting /\ Budgeted
    BY <1>0, <2>3 DEF Counted, Fitting
  <2>6. Len(rx'.data) = size /\ Len(rx.data) = 0
    BY <2>2
  <2> HIDE DEF upto, data, size
  <2>7. /\ host.sent \in Nat /\ host.repeats \in Nat /\ report_offset \in Nat
        /\ host.wLength \in Nat
    BY <1>0, CountersAre, NumbersAre
  <2> DEFINE before == Delivered
             after == Delivered'
  <2>8. /\ before \in Nat /\ after \in Nat /\ after >= before + size
        /\ host'.sent <= host.wLength
        /\ host'.repeats \in Nat /\ host.repeats <= host'.repeats
    <3> DEFINE a == PacketSize * host.repeats
               b == PacketSize * host'.repeats
    <3>1. /\ a \in Nat
          /\ host'.repeats = host.repeats + 1 => b = a + PacketSize
      BY <2>7, OnePacketMore
    <3>2. host'.repeats = host.repeats => b = a
      OBVIOUS
    <3>3. before = host.sent + a /\ after = host'.sent + b
      BY DEF Delivered
    <3>4. host.sent <= host.wLength
      BY <2>5 DEF Budgeted
    <3>5. PacketSize \in Nat
      BY Sizes
    <3> HIDE DEF a, b, before, after
    <3> QED
      BY <2>1, <2>4, <2>7, <3>1, <3>2, <3>3, <3>4, <3>5
  <2>9. Packets(host'.wLength) = Packets(host.wLength)
    BY <2>3
  <2>10. /\ host.sent <= host.wLength /\ report_offset <= before
         /\ expected_length = host.wLength
         /\ last.number = host.number /\ host.repeats < Packets(host.wLength) =>
              last.times = 1 /\ host.wLength + report_offset <= before
    BY <2>5, <2>6, <2>7 DEF Budgeted
  <2>11. Packets(host.wLength) \in Int
    BY <2>7, Sizes DEF Packets
  <2>12. size \in Nat /\ (report_offset <= before => report_offset + size <= after)
         /\ (host.wLength + report_offset <= before =>
               host.wLength + report_offset + size <= after)
    <3> HIDE DEF before, after
    <3> QED
      BY <2>1, <2>7, <2>8
  <2>13. host'.repeats < Packets(host.wLength) => host.repeats < Packets(host.wLength)
    BY <2>7, <2>8, <2>11
  <2> HIDE DEF before, after
  <2>14. /\ expected_length' = host'.wLength /\ host'.sent <= host'.wLength
         /\ report_offset' + Len(rx'.data) <= after
    BY <1>1, <2>3, <2>6, <2>8, <2>10, <2>12
  <2>15. last'.number = host'.number /\ host'.repeats < Packets(host'.wLength) =>
           /\ last'.times = 1
           /\ host'.wLength + report_offset' + Len(rx'.data) <= after
    BY <1>1, <2>3, <2>6, <2>9, <2>10, <2>12, <2>13
  <2> QED
    BY <2>14, <2>15 DEF Budgeted, after
<1> QED
  BY <1>2, <1>3, <1>4, <1>5 DEF Host

(* A SETUP starts a report of which nothing has been taken.                *)
LEMMA SetupCounted ==
  ASSUME Once,
         \/ ReturnResponse \/ ReturnNothing \/ SetReport
         \/ SetIdle \/ GetIdle \/ OtherRequest
  PROVE  Counted' /\ ExecutedOnce'
<1>0. Typed /\ Routed /\ Numbered /\ ExecutedOnce
  BY DEF Once, Executed
<1>1. /\ host' = host /\ last' = last /\ rx.token = "SETUP"
      /\ rx' = Empty /\ rx'.data = << >>
  BY DEF ReturnResponse, ReturnNothing, SetReport, SetIdle, GetIdle, OtherRequest,
         ProcessSetup, ReceiveSetup, protocol_vars, Empty
<1>2. ExecutedOnce'
  BY <1>0, <1>1 DEF ExecutedOnce
<1>3. CASE SetReport
  <2> SUFFICES ASSUME Fitting'
               PROVE  Budgeted'
    BY <1>2 DEF Counted
  <2>1. expected_length' = host.wLength
    BY <1>0, <1>1, <1>3, ExpectedLengthIs DEF SetReport, Fitting
  <2>2. report_offset' = 0 /\ Len(rx'.data) = 0 /\ host.sent = 0
    BY <1>0, <1>1, <1>3 DEF SetReport, Routed
  <2>3. host.wLength \in Nat /\ Delivered' \in Nat
    BY <1>0, <1>1, NumbersAre, DeliveredIs DEF Delivered
  <2>4. last'.number # host'.number
    BY <1>0, <1>1, CountersAre DEF Fitting, Numbered
  <2> QED
    BY <1>1, <2>1, <2>2, <2>3, <2>4 DEF Budgeted
<1>4. CASE ReturnResponse \/ ReturnNothing \/ SetIdle \/ GetIdle \/ OtherRequest
  <2>1. host.request # "SET_REPORT"
    BY <1>4
    DEF ReturnResponse, ReturnNothing, SetIdle, GetIdle, OtherRequest,
        ProcessSetup, ReceiveSetup
  <2> QED
    BY <1>1, <1>2, <2>1 DEF Counted, Fitting
<1> QED
  BY <1>3, <1>4

(* A second execution would take as many bytes again as the report has.    *)
LEMMA CompleteReportCounted ==
  ASSUME Once, CompleteReport
  PROVE  Counted' /\ ExecutedOnce'
<1>0. Typed /\ Routed /\ Counted
  BY DEF Once, Executed
<1>1. /\ host' = host /\ rx.token = "OUT" /\ rx' = Empty /\ rx'.data = << >>
      /\ expected_length' = expected_length /\ report_offset' = 0 /\ Complete
      /\ user_rw
  BY DEF CompleteReport, TakeData, Empty
<1>2. /\ last'.number = host.number /\ last'.wLength = host.wLength
      /\ last'.repeats = host.repeats
      /\ last'.times = IF last.number = host.number THEN last.times + 1 ELSE 1
  BY DEF CompleteReport, protocol_process_report
<1>3. host.request = "SET_REPORT" /\ rx.token # "SETUP" /\ rx'.token # "SETUP"
  BY <1>0, <1>1 DEF Routed, Empty
<1> SUFFICES ASSUME InOneReport(host.wLength)
             PROVE  Counted' /\ ExecutedOnce'
  BY <1>1, <1>2, <1>3 DEF Counted, Fitting, ExecutedOnce
<1>4. Budgeted
  BY <1>0, <1>3 DEF Counted, Fitting
<1> DEFINE before == Delivered
           size == Len(rx.data)
<1>5. /\ host.wLength \in Nat /\ host.wLength > 0 /\ report_offset \in Nat
      /\ size \in Nat /\ before \in Nat /\ Delivered' = before
      /\ host.sent \in Nat /\ host.sent <= host.wLength
      /\ expected_length = host.wLength
  BY <1>0, <1>1, <1>4, NumbersAre, DeliveredIs
  DEF Budgeted, Delivered, InOneReport
<1>6. host.wLength <= report_offset + size
  BY <1>0, <1>1, <1>5, AcceptedIs DEF Complete
<1>7. report_offset + size <= before
  BY <1>4 DEF Budgeted
<1>8. ASSUME host.repeats < Packets(host.wLength)
      PROVE  last.number # host.number
  <2> DEFINE again == PacketSize * host.repeats
  <2>1. again \in Nat /\ again < host.wLength
    BY <1>0, <1>5, <1>8, FewerPackets, OnePacketMore, CountersAre
  <2>2. before = host.sent + again
    BY DEF Delivered
  <2>3. last.number = host.number => host.wLength + report_offset + size <= before
    BY <1>4, <1>8 DEF Budgeted
  <2> HIDE DEF again, before, size
  <2> QED
    BY <1>5, <1>6, <2>1, <2>2, <2>3
<1>9. host.repeats < Packets(host.wLength) => last'.times = 1
  BY <1>2, <1>8
<1>10. ExecutedOnce'
  BY <1>2, <1>9 DEF ExecutedOnce
<1>11. Budgeted'
  <2>1. Len(rx'.data) = 0
    BY <1>1
  <2> HIDE DEF before, size
  <2>2. host.wLength <= before
    BY <1>5, <1>6, <1>7
  <2> QED
    BY <1>1, <1>2, <1>5, <1>9, <2>1, <2>2 DEF Budgeted
<1> QED
  BY <1>10, <1>11 DEF Counted

(* Any other packet is taken once.                                         *)
LEMMA DataCounted ==
  ASSUME Once, MoreData \/ IgnoreData \/ SendNext
  PROVE  Counted' /\ ExecutedOnce'
<1>0. Typed /\ Routed /\ Counted /\ ExecutedOnce
  BY DEF Once, Executed
<1>1. /\ host' = host /\ last' = last /\ rx.token # "SETUP"
      /\ rx' = Empty /\ rx'.data = << >> /\ expected_length' = expected_length
  BY DEF MoreData, IgnoreData, SendNext, TakeData, transport_vars, protocol_vars,
         Empty
<1>2. ExecutedOnce' /\ Delivered' = Delivered /\ Len(rx'.data) = 0
  BY <1>0, <1>1 DEF ExecutedOnce, Delivered
<1>3. report_offset' \in Nat /\ report_offset' <= report_offset + Len(rx.data)
  <2>1. CASE MoreData
    BY <1>0, <2>1, AcceptedIs, NumbersAre DEF MoreData
  <2>2. CASE IgnoreData \/ SendNext
    BY <1>0, <2>2, NumbersAre DEF IgnoreData, SendNext, transport_vars
  <2> QED
    BY <2>1, <2>2
<1> SUFFICES ASSUME Fitting'
             PROVE  Budgeted'
  BY <1>2 DEF Counted
<1>4. Budgeted
  BY <1>0, <1>1 DEF Counted, Fitting
<1> DEFINE size == Len(rx.data)
           now == report_offset'
<1>5. /\ size \in Nat /\ report_offset \in Nat /\ host.wLength \in Nat
      /\ Delivered \in Nat
  BY <1>0, NumbersAre, DeliveredIs
<1> HIDE DEF size, now
<1>6. /\ (report_offset + size <= Delivered => now <= Delivered)
      /\ (host.wLength + report_offset + size <= Delivered =>
            host.wLength + now <= Delivered)
  <2>1. now \in Nat /\ now <= report_offset + size
    BY <1>3 DEF now, size
  <2> QED
    BY <1>5, <2>1
<1> QED
  BY <1>1, <1>2, <1>3, <1>4, <1>5, <1>6 DEF Budgeted, size, now

(* Once is inductive.                                                      *)
LEMMA StepOnce == Once /\ [Next]_vars => Once'
<1> SUFFICES ASSUME Once, [Next]_vars
             PROVE  Once'
  OBVIOUS
<1>1. Executed'
  BY StepExecuted DEF Once
<1>2. CASE Host
  BY <1>1, <1>2, HostNumbered, HostCounted DEF Once
<1>3. CASE usbPoll
  <2>1. Numbered'
    BY <1>3, PollNumbered DEF Once
  <2>2. Counted' /\ ExecutedOnce'
    BY <1>3, SetupCounted, CompleteReportCounted, DataCounted DEF usbPoll
  <2> QED
    BY <1>1, <2>1, <2>2 DEF Once
<1>4. CASE UNCHANGED vars
  BY <1>1, <1>4
  DEF vars, device_vars, transport_vars, protocol_vars, Once, Numbered, Counted,
      Fitting, Budgeted, Delivered, ExecutedOnce
<1> QED
  BY <1>2, <1>3, <1>4 DEF Next

(* It holds after a reset.                                                 *)
LEMMA InitOnce == Init => Once
<1> SUFFICES ASSUME Init
             PROVE  Once
  OBVIOUS
<1>1. Numbered /\ Counted /\ ExecutedOnce
  BY DEF Init, Numbered, Counted, Fitting, ExecutedOnce, InOneReport
<1> QED
  BY <1>1, InitExecuted DEF Once

(* A command is executed once although the host repeats packets that the   *)
(* driver takes for new ones, for every size of packet and report.         *)
THEOREM AlwaysExecutedOnce == Spec => []ExecutedOnce
<1>1. Once => ExecutedOnce
  BY DEF Once
<1> QED
  BY InitOnce, StepOnce, <1>1, PTL DEF Spec
-----------------------------------------------------------------------------
(* Who has a response to collect: the host after a report whose processing *)
(* it is at, and a later request that it has not asked for it with yet.    *)
Waits ==
  \/ /\ host.request = "SET_REPORT" /\ rx.token # "SETUP"
     /\ last.number = host.number
  \/ host.owed /\ host.request \notin {"SET_REPORT", "GET_REPORT"}
  \/ host.owed /\ host.request = "GET_REPORT" /\ rx.token = "SETUP"

Uncollected ==
  /\ response_pending => host.answered < response.number
  /\ Waits => (response_pending <=> response.length > 0)

(* How much is asked for, and how much of it is with the host or in the    *)
(* packet that it will take next.                                          *)
Wanted == Least(host.wLength, PROTOCOL_REPORT_SIZE)

Carried == IF tx.sending THEN host.got \o tx.data ELSE host.got

Remaining == IF usbMsgLen = USB_NO_MSG THEN 0 ELSE usbMsgLen

ReturnsNothing ==
  /\ host.got = << >> /\ usbMsgLen = USB_NO_MSG
  /\ tx.sending => tx.data = << >>
  /\ ~ (host.owed /\ response.length > 0)

ReturnsResponse ==
  /\ report_buffer = PaddedResponse
  /\ usbMsgPtr.of = "report_buffer"
  /\ usbMsgPtr.at + Remaining = Wanted
  /\ tx.sending /\ Len(tx.data) < PacketSize => usbMsgLen = USB_NO_MSG
  /\ host.stage = "data" => Carried = SubSeq(PaddedResponse, 1, usbMsgPtr.at)
  /\ host.stage # "data" => host.got = SubSeq(PaddedResponse, 1, Wanted)

(* Between the SETUP of a GET_REPORT and the end of its transfer.          *)
Reading == host.request = "GET_REPORT" /\ rx.token # "SETUP"

Collecting ==
  /\ host.stage # "done" => host.answered < response.number
  /\ ~ host.lost /\ host.wLength > 0 => ReturnsResponse

Answering == Reading => ~ response_pending /\ (ReturnsNothing \/ Collecting)

(* The stages a GET_REPORT goes through.                                   *)
Staged ==
  host.request = "GET_REPORT" =>
    /\ host.lost => host.stage = "data"
    /\ host.wLength = 0 => host.got = << >> /\ host.stage # "data"
    /\ rx.token = "SETUP" =>
         /\ host.got = << >> /\ ~ host.lost
         /\ host.stage = IF host.wLength > 0 THEN "data" ELSE "status"

Answered == Executed /\ Numbered /\ Uncollected /\ Staged /\ Answering

(* Two consecutive parts of a sequence make up one.                        *)
LEMMA PartsJoin ==
  ASSUME NEW S, NEW s \in Seq(S), NEW i \in Nat, NEW j \in Nat,
         i <= j, j <= Len(s)
  PROVE  /\ SubSeq(s, 1, i) \o SubSeq(s, i + 1, j) = SubSeq(s, 1, j)
         /\ SubSeq(s, 1, i) \in Seq(S) /\ Len(SubSeq(s, 1, i)) = i
         /\ \A k \in 1 .. i : SubSeq(s, 1, i)[k] = s[k]
         /\ SubSeq(s, i + 1, j) \in Seq(S) /\ Len(SubSeq(s, i + 1, j)) = j - i
<1> DEFINE a == SubSeq(s, 1, i)
           b == SubSeq(s, i + 1, j)
           c == SubSeq(s, 1, j)
<1>0. Len(s) \in Nat /\ \A k \in 1 .. Len(s) : s[k] \in S
  BY ElementOfSeq
<1>1. a \in Seq(S) /\ Len(a) = i /\ \A k \in 1 .. i : a[k] = s[k]
  BY <1>0, SubSeqProperties
<1>2. b \in Seq(S) /\ Len(b) = j - i /\ \A k \in 1 .. j - i : b[k] = s[i + k]
  BY <1>0, SubSeqProperties
<1>3. c \in Seq(S) /\ Len(c) = j /\ \A k \in 1 .. j : c[k] = s[k]
  BY <1>0, SubSeqProperties
<1> HIDE DEF a, b, c
<1>4. /\ a \o b \in Seq(S) /\ Len(a \o b) = Len(a) + Len(b)
      /\ \A k \in 1 .. Len(a) + Len(b) :
           (a \o b)[k] = IF k <= Len(a) THEN a[k] ELSE b[k - Len(a)]
  BY <1>1, <1>2, ConcatProperties
<1> DEFINE joined == a \o b
<1>5. Len(joined) = j /\ joined \in Seq(S)
      /\ \A k \in 1 .. j : joined[k] = c[k]
  <2> HIDE DEF joined
  <2>1. \A k \in 1 .. j : joined[k] = IF k <= i THEN a[k] ELSE b[k - i]
    BY <1>1, <1>2, <1>4 DEF joined
  <2>2. ASSUME NEW k \in 1 .. j
        PROVE  joined[k] = c[k]
    <3>1. CASE k <= i
      BY <1>1, <1>3, <2>1, <3>1
    <3>2. CASE k > i
      <4>1. k - i \in 1 .. j - i /\ i + (k - i) = k
        BY <3>2
      <4>2. b[k - i] = s[k]
        BY <1>2, <4>1
      <4> QED
        BY <1>3, <2>1, <3>2, <4>2
    <3> QED
      BY <3>1, <3>2
  <2> QED
    BY <1>1, <1>2, <1>4, <2>2 DEF joined
<1>6. a \o b = c
  BY <1>3, <1>4, <1>5, SeqEqual
<1> QED
  BY <1>1, <1>2, <1>6 DEF a, b, c

(* The response is as long as the buffer, whatever is asked of it.         *)
LEMMA ResponseIs ==
  ASSUME Typed
  PROVE  /\ PaddedResponse \in Seq(Byte) /\ Len(PaddedResponse) = PROTOCOL_REPORT_SIZE
         /\ Wanted \in Nat /\ Wanted <= PROTOCOL_REPORT_SIZE
         /\ Wanted <= host.wLength /\ (host.wLength > 0 => Wanted > 0)
         /\ host.wLength \in Nat
         /\ Limited(PROTOCOL_REPORT_SIZE, host.wLength) = Wanted
<1>1. PaddedResponse \in [1 .. PROTOCOL_REPORT_SIZE -> Byte]
  BY PaddedIsTyped
<1>2. PaddedResponse \in Seq(Byte) /\ Len(PaddedResponse) = PROTOCOL_REPORT_SIZE
  BY <1>1, Sizes
<1>3. host.wLength \in Nat
  BY NumbersAre
<1> QED
  BY <1>2, <1>3, Sizes DEF Wanted, Limited, Least

(* It changes with the response only.                                      *)
LEMMA ResponseKept ==
  ASSUME response' = response
  PROVE  PaddedResponse' = PaddedResponse
BY DEF PaddedResponse

(* The types of the packet to send and of the message.                     *)
LEMMA MessageIs ==
  ASSUME Typed
  PROVE  /\ host.got \in Seq(Byte) /\ tx.data \in Seq(Byte)
         /\ Len(tx.data) \in Nat /\ Len(tx.data) <= PacketSize
         /\ usbMsgPtr \in [of : {"report_buffer", "idle_rate"}, at : Nat]
         /\ usbMsgPtr.at \in Nat /\ usbMsgLen \in 0 .. USB_NO_MSG
         /\ host \in HostState
BY DEF Typed, TypeOK, HostState

(* The packet that usbBuildTxBlock cuts off the response, at any place.    *)
LEMMA PacketOfResponse ==
  ASSUME Typed, NEW slot, ~ slot.sending,
         NEW ptr \in [of : {"report_buffer", "idle_rate"}, at : Nat],
         ptr.of = "report_buffer",
         NEW len \in 0 .. USB_NO_MSG, len # USB_NO_MSG, ptr.at + len = Wanted,
         report_buffer' = PaddedResponse, BuildTxBlock(slot, len, ptr)
  PROVE  /\ tx'.sending
         /\ usbMsgPtr'.of = "report_buffer" /\ usbMsgPtr'.at \in Nat
         /\ usbMsgPtr'.at + Remaining' = Wanted
         /\ Len(tx'.data) < PacketSize => usbMsgLen' = USB_NO_MSG
         /\ SubSeq(PaddedResponse, 1, ptr.at) \o tx'.data
              = SubSeq(PaddedResponse, 1, usbMsgPtr'.at)
         /\ ptr.at = 0 => tx'.data = SubSeq(PaddedResponse, 1, usbMsgPtr'.at)
<1> DEFINE size == Least(len, PacketSize)
           upto == ptr.at + size
<1>1. /\ size \in Nat /\ size <= len /\ size <= PacketSize /\ len \in Nat
      /\ size < PacketSize => size = len
      /\ len - size \in Nat /\ len - size # USB_NO_MSG
  <2>1. len \in Nat /\ PacketSize \in Nat /\ len < USB_NO_MSG /\ USB_NO_MSG \in Nat
    BY Sizes
  <2>2. /\ size \in Nat /\ size <= len /\ size <= PacketSize
        /\ size = len \/ size = PacketSize
    BY <2>1, LeastIs
  <2> HIDE DEF size
  <2> QED
    BY <2>1, <2>2
<1>2. /\ tx' = [sending |-> TRUE,
                data |-> SubSeq(PaddedResponse, ptr.at + 1, upto)]
      /\ usbMsgPtr' = [ptr EXCEPT !.at = @ + size]
      /\ usbMsgLen' = IF size < PacketSize THEN USB_NO_MSG ELSE len - size
  BY DEF BuildTxBlock, Pointed, Packet
<1> HIDE DEF size
<1>3. usbMsgPtr'.of = "report_buffer" /\ usbMsgPtr'.at = upto
  <2>1. ptr = [of |-> "report_buffer", at |-> ptr.at]
    OBVIOUS
  <2>2. usbMsgPtr' = [of |-> "report_buffer", at |-> upto]
    BY <1>2, <2>1
  <2> QED
    BY <2>2
<1>4. /\ ptr.at \in Nat /\ upto \in Nat /\ ptr.at <= upto /\ upto <= Wanted
      /\ upto <= Len(PaddedResponse)
  BY <1>1, ResponseIs, Sizes
<1>5. /\ SubSeq(PaddedResponse, 1, ptr.at)
             \o SubSeq(PaddedResponse, ptr.at + 1, upto)
           = SubSeq(PaddedResponse, 1, upto)
      /\ Len(SubSeq(PaddedResponse, ptr.at + 1, upto)) = upto - ptr.at
  <2>1. PICK whole \in Seq(Byte) : whole = PaddedResponse
    BY ResponseIs
  <2>2. PICK from \in Nat : from = ptr.at
    BY <1>4
  <2>3. PICK to \in Nat : to = upto
    BY <1>4
  <2>4. from <= to /\ to <= Len(whole)
    BY <1>4, <2>1, <2>2, <2>3
  <2>5. /\ SubSeq(whole, 1, from) \o SubSeq(whole, from + 1, to)
             = SubSeq(whole, 1, to)
        /\ Len(SubSeq(whole, from + 1, to)) = to - from
    BY <2>4, PartsJoin
  <2> HIDE DEF upto
  <2> QED
    BY <2>1, <2>2, <2>3, <2>5
<1>6. upto + Remaining' = Wanted
  <2>1. Remaining' = len - size
    BY <1>1, <1>2 DEF Remaining
  <2>2. ptr.at \in Nat /\ ptr.at + len = Wanted
    OBVIOUS
  <2> QED
    BY <1>1, <2>1, <2>2
<1>7. Len(tx'.data) = size
  <2>1. upto - ptr.at = size
    BY <1>1, <1>4
  <2> HIDE DEF upto
  <2> QED
    BY <1>2, <1>5, <2>1
<1>8. ptr.at = 0 => tx'.data = SubSeq(PaddedResponse, 1, upto)
  <2>1. ptr.at = 0 => ptr.at + 1 = 1
    OBVIOUS
  <2>2. tx'.data = SubSeq(PaddedResponse, ptr.at + 1, upto)
    BY <1>2
  <2> HIDE DEF upto
  <2> QED
    BY <2>1, <2>2
<1>9. tx'.sending /\ tx'.data = SubSeq(PaddedResponse, ptr.at + 1, upto)
  BY <1>2
<1> HIDE DEF upto
<1> QED
  BY <1>2, <1>3, <1>4, <1>5, <1>6, <1>7, <1>8, <1>9

(* Polling goes on with the answer.                                        *)
LEMMA AnswerGoesOn ==
  ASSUME Typed, Reading, Answering, Staged, BuildTxBlock(tx, usbMsgLen, usbMsgPtr),
         UNCHANGED <<host, response, report_buffer, response_pending>>
  PROVE  Answering'
<1>1. CASE ReturnsNothing
  <2>1. tx' = tx /\ usbMsgLen' = usbMsgLen
    BY <1>1 DEF ReturnsNothing, BuildTxBlock
  <2> QED
    BY <1>1, <2>1 DEF ReturnsNothing, Answering, Reading
<1>2. CASE Collecting
  <2> SUFFICES ASSUME ReturnsResponse
               PROVE  ReturnsResponse'
    BY <1>2 DEF Collecting, Answering, Reading
  <2>1. PaddedResponse' = PaddedResponse /\ Wanted' = Wanted
    BY ResponseKept DEF Wanted
  <2>2. CASE tx.sending \/ usbMsgLen = USB_NO_MSG
    <3>1. tx' = tx /\ usbMsgLen' = usbMsgLen /\ usbMsgPtr' = usbMsgPtr
      BY <2>2 DEF BuildTxBlock
    <3> QED
      BY <2>1, <3>1 DEF ReturnsResponse, Carried, Remaining
  <2>3. CASE ~ tx.sending /\ usbMsgLen # USB_NO_MSG
    <3>1. /\ usbMsgPtr.of = "report_buffer"
          /\ usbMsgPtr.at + usbMsgLen = Wanted
          /\ report_buffer' = PaddedResponse
          /\ host.stage = "data" => host.got = SubSeq(PaddedResponse, 1, usbMsgPtr.at)
      BY <2>3 DEF ReturnsResponse, Remaining, Carried
    <3>2. /\ tx'.sending
          /\ usbMsgPtr'.of = "report_buffer"
          /\ usbMsgPtr'.at + Remaining' = Wanted
          /\ Len(tx'.data) < PacketSize => usbMsgLen' = USB_NO_MSG
          /\ SubSeq(PaddedResponse, 1, usbMsgPtr.at) \o tx'.data
               = SubSeq(PaddedResponse, 1, usbMsgPtr'.at)
      BY <2>3, <3>1, MessageIs, PacketOfResponse
    <3> QED
      BY <2>1, <3>1, <3>2 DEF ReturnsResponse, Carried
  <2> QED
    BY <2>2, <2>3
<1> QED
  BY <1>1, <1>2 DEF Answering

(* Each action of the host in a GET_REPORT.                                *)
LEMMA BeginAnswered ==
  ASSUME Answered, NEW request, NEW wLength \in Nat, Begin(request, wLength)
  PROVE  Uncollected' /\ Staged' /\ Answering'
<1>0. Typed /\ host \in HostState /\ Ended /\ Uncollected
  BY DEF Answered, Executed, Typed, TypeOK
<1>1. /\ host'.answered = host.answered /\ host'.wLength = wLength
      /\ host'.stage = (IF wLength > 0 THEN "data" ELSE "status")
      /\ host'.got = << >> /\ host'.lost = FALSE
      /\ host'.owed <=>
           \/ host.request = "SET_REPORT" /\ host.stage = "done"
           \/ host.request \notin {"SET_REPORT", "GET_REPORT"} /\ host.owed
      /\ rx.token = "none" /\ rx'.token = "SETUP"
      /\ response' = response /\ response_pending' = response_pending
  BY <1>0, BeginIs
  DEF Begin, device_vars, protocol_vars, transport_vars
<1>2. host.request = "SET_REPORT" /\ host.stage = "done" => Waits
  BY <1>0, <1>1 DEF Ended, Waits
<1>3. host'.owed => Waits
  BY <1>1, <1>2 DEF Waits
<1>4. Waits' => host'.owed
  BY <1>1 DEF Waits
<1>5. Uncollected'
  BY <1>0, <1>1, <1>3, <1>4 DEF Uncollected
<1>6. Staged' /\ Answering'
  BY <1>1 DEF Staged, Answering, Reading
<1> QED
  BY <1>5, <1>6

(* The host takes a packet; the last one completes the response.           *)
LEMMA ReceiveDataAnswered ==
  ASSUME Answered, ReceiveData
  PROVE  Staged' /\ Answering'
<1>0. Typed /\ host \in HostState /\ Staged /\ Answering
  BY DEF Answered, Executed, Typed, TypeOK
<1> DEFINE got == host.got \o tx.data
           ends == Len(tx.data) < PacketSize \/ Len(got) >= host.wLength
<1>1. /\ host'.request = host.request /\ host'.wLength = host.wLength
      /\ host'.owed = host.owed /\ rx' = rx /\ rx.token = "none"
      /\ host'.lost = host.lost /\ host'.answered = host.answered
      /\ host'.got = got /\ host'.stage = IF ends THEN "status" ELSE "data"
  <2> HIDE DEF got
  <2>1. host' = [host EXCEPT !.got = got,
                             !.stage = IF ends THEN "status" ELSE "data"]
    BY DEF ReceiveData, got
  <2>2. rx = Empty /\ rx' = rx
    BY DEF ReceiveData, TakePacket
  <2> HIDE DEF ends
  <2> QED
    BY <1>0, <2>1, <2>2 DEF HostState, Empty
<1>2. /\ host.stage = "data" /\ ~ host.lost /\ tx.sending
      /\ tx' = NAK /\ ~ tx'.sending
      /\ UNCHANGED <<response, response_pending, report_buffer, usbMsgLen, usbMsgPtr>>
  BY DEF ReceiveData, TakePacket, NAK, device_vars, protocol_vars, transport_vars,
         message_vars
<1> SUFFICES ASSUME host.request = "GET_REPORT"
             PROVE  Staged' /\ Answering'
  <2> HIDE DEF got, ends
  <2> QED
    BY <1>1 DEF Staged, Answering, Reading
<1>3. host.wLength > 0
  BY <1>0, <1>2, NumbersAre DEF Staged
<1>4. Staged'
  <2> HIDE DEF got, ends
  <2> QED
    BY <1>1, <1>2, <1>3 DEF Staged
<1>5. ~ response_pending /\ (ReturnsNothing \/ Collecting)
  BY <1>0, <1>1 DEF Answering, Reading
<1>6. CASE ReturnsNothing
  <2>1. got = << >>
    BY <1>2, <1>6 DEF ReturnsNothing
  <2> HIDE DEF got, ends
  <2> QED
    BY <1>1, <1>2, <1>4, <1>5, <1>6, <2>1 DEF ReturnsNothing, Answering, Reading
<1>7. CASE Collecting
  <2>1. ReturnsResponse
    BY <1>2, <1>3, <1>7 DEF Collecting
  <2>2. got = SubSeq(PaddedResponse, 1, usbMsgPtr.at)
    BY <1>2, <2>1 DEF ReturnsResponse, Carried
  <2>3. /\ usbMsgPtr.at \in Nat /\ Remaining \in Nat
        /\ usbMsgPtr.at + Remaining = Wanted
    BY <2>1, <1>0, MessageIs DEF ReturnsResponse, Remaining
  <2>4. Len(got) = usbMsgPtr.at
    <3>1. PICK whole \in Seq(Byte) : whole = PaddedResponse
      BY <1>0, ResponseIs
    <3>2. PICK to \in Nat : to = usbMsgPtr.at
      BY <2>3
    <3>3. to <= Len(whole)
      BY <1>0, <2>3, <3>1, <3>2, ResponseIs
    <3>4. Len(SubSeq(whole, 1, to)) = to
      BY <3>3, PartsJoin
    <3> HIDE DEF got
    <3> QED
      BY <2>2, <3>1, <3>2, <3>4
  <2>5. ends => usbMsgPtr.at = Wanted
    <3>1. CASE Len(tx.data) < PacketSize
      BY <1>2, <2>1, <2>3, <3>1 DEF ReturnsResponse, Remaining
    <3>2. CASE Len(got) >= host.wLength
      <4> HIDE DEF got
      <4> QED
        BY <1>0, <2>3, <2>4, <3>2, ResponseIs
    <3> QED
      BY <3>1, <3>2
  <2> HIDE DEF got, ends
  <2>6. PaddedResponse' = PaddedResponse /\ Wanted' = Wanted /\ Remaining' = Remaining
    BY <1>1, <1>2, ResponseKept DEF Wanted, Remaining
  <2>7. ReturnsResponse'
    BY <1>1, <1>2, <2>1, <2>2, <2>5, <2>6 DEF ReturnsResponse, Carried
  <2> QED
    <3>1. host.answered < response.number
      BY <1>2, <1>7 DEF Collecting
    <3>2. Collecting'
      BY <1>1, <1>2, <2>7, <3>1 DEF Collecting
    <3> QED
      BY <1>2, <1>4, <1>5, <3>2 DEF Answering
<1> QED
  BY <1>4, <1>5, <1>6, <1>7

(* A lost packet excuses the transfer.                                     *)
LEMMA LosePacketAnswered ==
  ASSUME Answered, LosePacket
  PROVE  Staged' /\ Answering'
<1>0. Typed /\ host \in HostState /\ Staged /\ Answering
  BY DEF Answered, Executed, Typed, TypeOK
<1>1. /\ host' = [host EXCEPT !.lost = TRUE] /\ rx' = rx /\ rx.token = "none"
      /\ ~ tx'.sending
      /\ host.request = "GET_REPORT" => host.stage = "data"
      /\ UNCHANGED <<response, response_pending, usbMsgLen>>
  BY DEF LosePacket, TakePacket, Empty, NAK, Asking, device_vars, protocol_vars,
         transport_vars, message_vars
<1>2. /\ host'.request = host.request /\ host'.wLength = host.wLength
      /\ host'.owed = host.owed /\ host'.answered = host.answered
      /\ host'.got = host.got /\ host'.stage = host.stage /\ host'.lost = TRUE
  BY <1>0, <1>1 DEF HostState
<1>3. Staged'
  BY <1>0, <1>1, <1>2 DEF Staged
<1>4. Answering'
  <2>1. ReturnsNothing => ReturnsNothing'
    BY <1>1, <1>2 DEF ReturnsNothing
  <2>2. Collecting => Collecting'
    BY <1>1, <1>2 DEF Collecting
  <2> QED
    BY <1>0, <1>1, <1>2, <2>1, <2>2 DEF Answering, Reading
<1> QED
  BY <1>3, <1>4

(* The end of the transfer: its response has not been collected before.    *)
LEMMA SendStatusAnswered ==
  ASSUME Answered, SendStatus
  PROVE  /\ Uncollected' /\ Staged' /\ Answering'
         /\ host.request = "GET_REPORT" /\ host.got # << >> =>
              host.answered < response.number
<1>0. /\ Typed /\ host \in HostState /\ Staged /\ Answering /\ Uncollected
  BY DEF Answered, Executed, Typed, TypeOK
<1> DEFINE answered == IF host.request = "GET_REPORT" /\ host.got # << >>
                       THEN response.number ELSE host.answered
<1>1. /\ host' = [host EXCEPT !.stage = "done", !.answered = answered]
      /\ rx' = rx /\ tx' = tx /\ rx.token = "none" /\ host.stage = "status"
      /\ host.request \in Asking
      /\ UNCHANGED <<last, response, response_pending, usbMsgLen, report_buffer, usbMsgPtr>>
  BY DEF SendStatus, Empty, device_vars, protocol_vars, transport_vars, message_vars
<1> HIDE DEF answered
<1>2. /\ host'.request = host.request /\ host'.wLength = host.wLength
      /\ host'.owed = host.owed /\ host'.answered = answered
      /\ host'.got = host.got /\ host'.stage = "done" /\ host'.lost = host.lost
  BY <1>0, <1>1 DEF HostState
<1>3. Waits' <=> Waits
  BY <1>1, <1>2 DEF Waits
<1>4. CASE host.request # "GET_REPORT"
  <2>1. answered = host.answered
    BY <1>4 DEF answered
  <2> QED
    BY <1>0, <1>1, <1>2, <1>3, <1>4, <2>1
    DEF Uncollected, Staged, Answering, Reading
<1>5. CASE host.request = "GET_REPORT"
  <2>1. ~ response_pending /\ (ReturnsNothing \/ Collecting) /\ ~ host.lost
    BY <1>0, <1>1, <1>5 DEF Answering, Reading, Staged
  <2>2. Uncollected'
    BY <1>0, <1>1, <1>3, <2>1 DEF Uncollected
  <2>3. Staged'
    BY <1>0, <1>1, <1>2, <2>1 DEF Staged
  <2>4. ReturnsNothing => ReturnsNothing'
    BY <1>1, <1>2 DEF ReturnsNothing
  <2>5. ReturnsResponse => ReturnsResponse'
    <3>1. PaddedResponse' = PaddedResponse /\ Wanted' = Wanted
          /\ Remaining' = Remaining
      BY <1>1, <1>2, ResponseKept DEF Wanted, Remaining
    <3> QED
      BY <1>1, <1>2, <3>1 DEF ReturnsResponse
  <2>6. Collecting => Collecting'
    BY <1>1, <1>2, <2>5 DEF Collecting
  <2>7. Answering'
    BY <1>1, <1>2, <2>1, <2>4, <2>6 DEF Answering
  <2>8. host.got # << >> => host.answered < response.number
    BY <1>1, <2>1 DEF ReturnsNothing, Collecting
  <2> QED
    BY <2>2, <2>3, <2>7, <2>8
<1> QED
  BY <1>4, <1>5

(* Every action of the host.                                               *)
LEMMA HostAnswered ==
  ASSUME Answered, Host
  PROVE  Uncollected' /\ Staged' /\ Answering'
<1>0. /\ host \in HostState /\ Uncollected /\ Staged /\ Answering
  BY DEF Answered, Executed, Typed, TypeOK
<1>1. ASSUME NEW request, NEW wLength \in Nat, Begin(request, wLength)
      PROVE  Uncollected' /\ Staged' /\ Answering'
  BY <1>1, BeginAnswered
<1>2. UNCHANGED <<response, response_pending, last>>
  BY HostLeaves DEF device_vars, protocol_vars, transport_vars
<1>3. ASSUME SendData \/ LosePacket \/ ReceiveData \/ ReceiveStatus
      PROVE  Uncollected'
  <2>1. host'.answered = host.answered
    BY <1>0, <1>3
    DEF SendData, LosePacket, ReceiveData, ReceiveStatus, HostState
  <2>2. /\ host'.number = host.number /\ host'.request = host.request
        /\ host'.owed = host.owed /\ rx.token # "SETUP" /\ rx'.token # "SETUP"
    BY <1>0, <1>3, HostContinues
  <2> QED
    BY <1>0, <1>2, <2>1, <2>2 DEF Uncollected, Waits
<1>4. CASE SendData \/ ReceiveStatus
  <2>1. host'.request = host.request /\ host.request # "GET_REPORT"
    BY <1>0, <1>4, HostContinues DEF SendData, ReceiveStatus, Sending
  <2> QED
    BY <1>3, <1>4, <2>1 DEF Staged, Answering, Reading
<1>5. CASE ReceiveData
  BY <1>3, <1>5, ReceiveDataAnswered
<1>6. CASE LosePacket
  BY <1>3, <1>6, LosePacketAnswered
<1>7. CASE SendStatus
  BY <1>7, SendStatusAnswered
<1> QED
  BY <1>1, <1>4, <1>5, <1>6, <1>7, RawHidAssumption DEF Host, RawHidAssumption

(* The two answers to a GET_REPORT.                                        *)
LEMMA ReturnResponseAnswered ==
  ASSUME Answered, ReturnResponse
  PROVE  Answering'
<1>0. Typed /\ Staged /\ Uncollected
  BY DEF Answered, Executed
<1> DEFINE ptr == [of |-> "report_buffer", at |-> 0]
           len == Limited(PROTOCOL_REPORT_SIZE, host.wLength)
<1>1. /\ response_pending /\ response_pending' = FALSE
      /\ report_buffer' = PaddedResponse /\ host' = host /\ response' = response
      /\ rx.token = "SETUP" /\ host.request = "GET_REPORT"
      /\ BuildTxBlock(NAK, len, ptr)
  BY Sizes DEF ReturnResponse, ProcessSetup, ReceiveSetup, Answer, protocol_vars
<1>2. host.answered < response.number
  BY <1>0, <1>1 DEF Uncollected
<1>3. /\ host.got = << >>
      /\ host.wLength > 0 => host.stage = "data"
  BY <1>0, <1>1 DEF Staged
<1>4. len = Wanted /\ len \in 0 .. USB_NO_MSG /\ len # USB_NO_MSG
  BY <1>0, ResponseIs, Sizes
<1>5. /\ ptr \in [of : {"report_buffer", "idle_rate"}, at : Nat]
      /\ ptr.of = "report_buffer" /\ ptr.at = 0 /\ ptr.at + len = Wanted
  BY <1>4, <1>0, ResponseIs
<1>6. ~ NAK.sending
  BY DEF NAK
<1> HIDE DEF ptr, len
<1>7. /\ tx'.sending
      /\ usbMsgPtr'.of = "report_buffer" /\ usbMsgPtr'.at + Remaining' = Wanted
      /\ Len(tx'.data) < PacketSize => usbMsgLen' = USB_NO_MSG
      /\ tx'.data = SubSeq(PaddedResponse, 1, usbMsgPtr'.at)
  BY <1>0, <1>1, <1>4, <1>5, <1>6, PacketOfResponse
<1>8. << >> \o tx'.data = tx'.data
  <2>1. tx'.data \in Seq(Byte)
    <3>1. Typed'
      BY <1>0, SetupTyped
    <3> QED
      BY <3>1 DEF Typed, TypeOK
  <2> QED
    BY <2>1, ConcatEmptySeq
<1>9. PaddedResponse' = PaddedResponse /\ Wanted' = Wanted
  BY <1>1, ResponseKept DEF Wanted
<1>10. host.wLength > 0 => ReturnsResponse'
  BY <1>1, <1>3, <1>7, <1>8, <1>9 DEF ReturnsResponse, Carried
<1> QED
  BY <1>1, <1>2, <1>10 DEF Answering, Collecting

(* Nothing is pending, so that nothing is owed.                            *)
LEMMA ReturnNothingAnswered ==
  ASSUME Answered, ReturnNothing
  PROVE  Answering'
<1>0. Typed /\ Staged /\ Uncollected
  BY DEF Answered, Executed
<1>1. /\ ~ response_pending /\ response_pending' = response_pending
      /\ host' = host /\ response' = response
      /\ rx.token = "SETUP" /\ host.request = "GET_REPORT"
      /\ BuildTxBlock(NAK, Limited(0, host.wLength), usbMsgPtr)
  BY Sizes
  DEF ReturnNothing, ProcessSetup, ReceiveSetup, Answer, protocol_vars,
      transport_vars
<1>2. Limited(0, host.wLength) = 0
  BY <1>0, NumbersAre DEF Limited, Least
<1>3. ~ (host.owed /\ response.length > 0) /\ host.got = << >>
  BY <1>0, <1>1 DEF Staged, Uncollected, Waits
<1>4. usbMsgLen' = USB_NO_MSG /\ tx' = Packet(Pointed(usbMsgPtr, 0))
  BY <1>1, <1>2, Sizes DEF BuildTxBlock, NAK, Least
<1>5. tx'.data = << >>
  <2>1. usbMsgPtr.at \in Nat
    BY <1>0, MessageIs
  <2> DEFINE memory == IF usbMsgPtr.of = "idle_rate" THEN <<idle_rate'>>
                       ELSE report_buffer'
  <2>2. tx'.data = SubSeq(memory, usbMsgPtr.at + 1, usbMsgPtr.at + 0)
    BY <1>4 DEF Packet, Pointed
  <2> HIDE DEF memory
  <2>3. SubSeq(memory, usbMsgPtr.at + 1, usbMsgPtr.at + 0) = << >>
    BY <2>1, SubSeqEmpty
  <2> QED
    BY <2>2, <2>3
<1> QED
  BY <1>1, <1>3, <1>4, <1>5 DEF Answering, ReturnsNothing

(* Every call of a handler.                                                *)
LEMMA SetupAnsweredToo ==
  ASSUME Answered,
         \/ ReturnResponse \/ ReturnNothing \/ SetReport
         \/ SetIdle \/ GetIdle \/ OtherRequest
  PROVE  Uncollected' /\ Staged' /\ Answering'
<1>0. Typed /\ Staged /\ Uncollected /\ Numbered
  BY DEF Answered, Executed
<1>1. /\ host' = host /\ last' = last /\ response' = response
      /\ rx.token = "SETUP" /\ rx' = Empty /\ rx'.token = "none"
      /\ response_pending' = response_pending \/ ~ response_pending'
      /\ response_pending' # response_pending => host.request = "GET_REPORT"
  BY DEF ReturnResponse, ReturnNothing, SetReport, SetIdle, GetIdle, OtherRequest,
         ProcessSetup, ReceiveSetup, protocol_vars, transport_vars, Empty
<1>2. Staged'
  BY <1>0, <1>1 DEF Staged
<1>3. Uncollected'
  <2>1. host.request # "OTHER" => last.number < host.number
    BY <1>0, <1>1, CountersAre DEF Numbered
  <2>2. Waits' => Waits /\ host.request # "GET_REPORT"
    BY <1>0, <1>1, <2>1, CountersAre DEF Waits
  <2> QED
    BY <1>0, <1>1, <2>2 DEF Uncollected
<1>4. CASE SetReport \/ SetIdle \/ GetIdle \/ OtherRequest
  <2>1. host.request # "GET_REPORT"
    BY <1>4
    DEF SetReport, SetIdle, GetIdle, OtherRequest, ProcessSetup, ReceiveSetup
  <2> QED
    BY <1>1, <1>2, <1>3, <2>1 DEF Answering, Reading
<1> QED
  BY <1>2, <1>3, <1>4, ReturnResponseAnswered, ReturnNothingAnswered

(* Data, the protocol, and the next packet of an answer.                   *)
LEMMA DataAnswered ==
  ASSUME Answered, MoreData \/ CompleteReport \/ IgnoreData \/ SendNext
  PROVE  Uncollected' /\ Staged' /\ Answering'
<1>0. Typed /\ Routed /\ Staged /\ Uncollected /\ Numbered /\ Answering
  BY DEF Answered, Executed
<1>1. /\ host' = host /\ rx.token # "SETUP" /\ rx' = Empty /\ rx'.token = "none"
  BY DEF MoreData, CompleteReport, IgnoreData, SendNext, TakeData, Empty
<1>2. Staged'
  BY <1>0, <1>1 DEF Staged
<1>3. CASE MoreData \/ CompleteReport
  <2>1. host.request = "SET_REPORT"
    BY <1>0, <1>3 DEF MoreData, CompleteReport, TakeData, Routed
  <2>2. Answering'
    BY <1>1, <2>1 DEF Answering, Reading
  <2>3. CASE MoreData
    <3>1. UNCHANGED <<response, response_pending, last>>
      BY <2>3 DEF MoreData, protocol_vars
    <3>2. Waits' <=> Waits
      BY <1>1, <3>1 DEF Waits
    <3> QED
      BY <1>0, <1>1, <1>2, <2>2, <3>1, <3>2 DEF Uncollected
  <2>4. CASE CompleteReport
    <3>1. response'.number = host.number
          /\ response_pending' = (response'.length > 0)
      BY <2>4 DEF CompleteReport, protocol_process_report
    <3>2. host.answered < host.number
      BY <1>0, <2>1, CountersAre DEF Numbered
    <3> QED
      BY <1>1, <1>2, <2>2, <3>1, <3>2 DEF Uncollected
  <2> QED
    BY <1>3, <2>3, <2>4
<1>4. CASE IgnoreData \/ SendNext
  <2>1. /\ UNCHANGED <<response, response_pending, last, report_buffer>>
        /\ BuildTxBlock(tx, usbMsgLen, usbMsgPtr)
    BY <1>4 DEF IgnoreData, SendNext, protocol_vars, transport_vars
  <2>2. Waits' <=> Waits
    BY <1>1, <2>1 DEF Waits
  <2>3. Uncollected'
    BY <1>0, <1>1, <2>1, <2>2 DEF Uncollected
  <2>4. Answering'
    <3>1. Reading' <=> Reading
      BY <1>1 DEF Reading
    <3> QED
      BY <1>0, <1>1, <2>1, <3>1, AnswerGoesOn DEF Answering
  <2> QED
    BY <1>2, <2>3, <2>4
<1> QED
  BY <1>3, <1>4

(* Answered is inductive.                                                  *)
LEMMA StepAnswered == Answered /\ [Next]_vars => Answered'
<1> SUFFICES ASSUME Answered, [Next]_vars
             PROVE  Answered'
  OBVIOUS
<1>1. Executed'
  BY StepExecuted DEF Answered
<1>2. CASE Host
  BY <1>1, <1>2, HostNumbered, HostAnswered DEF Answered
<1>3. CASE usbPoll
  <2>1. Numbered'
    BY <1>3, PollNumbered DEF Answered
  <2>2. Uncollected' /\ Staged' /\ Answering'
    BY <1>3, SetupAnsweredToo, DataAnswered DEF usbPoll
  <2> QED
    BY <1>1, <2>1, <2>2 DEF Answered
<1>4. CASE UNCHANGED vars
  <2>1. UNCHANGED <<host, rx, tx, response, response_pending, last, report_buffer,
                    usbMsgLen, usbMsgPtr>>
    BY <1>4 DEF vars, device_vars, transport_vars, protocol_vars, message_vars
  <2>2. PaddedResponse' = PaddedResponse
    BY <2>1, ResponseKept
  <2>3. Numbered' /\ Uncollected' /\ Staged'
    BY <2>1 DEF Answered, Numbered, Uncollected, Waits, Staged
  <2>4. ReturnsNothing => ReturnsNothing'
    BY <2>1 DEF ReturnsNothing
  <2>5. Collecting => Collecting'
    BY <2>1, <2>2 DEF Collecting, ReturnsResponse, Carried, Remaining, Wanted
  <2> QED
    BY <1>1, <2>1, <2>3, <2>4, <2>5 DEF Answered, Answering, Reading
<1> QED
  BY <1>2, <1>3, <1>4 DEF Next

(* It holds after a reset.                                                 *)
LEMMA InitAnswered == Init => Answered
<1> SUFFICES ASSUME Init
             PROVE  Answered
  OBVIOUS
<1>1. Numbered /\ Uncollected /\ Staged /\ Answering
  BY DEF Init, Numbered, Uncollected, Waits, Staged, Answering, Reading
<1> QED
  BY <1>1, InitExecuted DEF Answered

(* The end of a GET_REPORT: what it asked for, whole, or nothing.          *)
LEMMA AnsweredAnswers == Answered => GetReportAnswers
<1> SUFFICES ASSUME Answered, host.request = "GET_REPORT", host.stage = "done",
                    host.wLength > 0
             PROVE  /\ host.got # << >> =>
                         /\ Len(host.got) = Least(host.wLength, PROTOCOL_REPORT_SIZE)
                         /\ \A i \in 1 .. Len(host.got) :
                              host.got[i] = IF i <= response.length
                                            THEN ResponseByte(response.number, i)
                                            ELSE Zero
                    /\ host.owed /\ response.length > 0 => host.got # << >>
  BY DEF GetReportAnswers
<1>0. Typed /\ Staged /\ Answering
  BY DEF Answered, Executed
<1>1. ~ host.lost /\ Reading /\ (ReturnsNothing \/ Collecting)
  BY <1>0 DEF Staged, Answering, Reading
<1>2. CASE ReturnsNothing
  BY <1>2 DEF ReturnsNothing
<1>3. CASE Collecting
  <2>1. host.got = SubSeq(PaddedResponse, 1, Wanted)
    BY <1>1, <1>3 DEF Collecting, ReturnsResponse
  <2>2. PICK whole \in Seq(Byte) : whole = PaddedResponse
    BY <1>0, ResponseIs
  <2>3. PICK size \in Nat : size = Wanted
    BY <1>0, ResponseIs
  <2>4. size <= Len(whole) /\ size > 0 /\ size <= PROTOCOL_REPORT_SIZE
    BY <1>0, <2>2, <2>3, ResponseIs
  <2>5. /\ Len(SubSeq(whole, 1, size)) = size
        /\ \A k \in 1 .. size : SubSeq(whole, 1, size)[k] = whole[k]
    BY <2>4, PartsJoin
  <2>6. /\ Len(host.got) = size
        /\ \A k \in 1 .. size : host.got[k] = PaddedResponse[k]
    BY <2>1, <2>2, <2>3, <2>5
  <2>7. host.got # << >>
    BY <2>4, <2>6
  <2>8. \A k \in 1 .. size :
          PaddedResponse[k] = IF k <= response.length
                              THEN ResponseByte(response.number, k) ELSE Zero
    BY <2>4, Sizes DEF PaddedResponse
  <2> QED
    BY <2>3, <2>6, <2>7, <2>8 DEF Wanted
<1> QED
  BY <1>1, <1>2, <1>3

(* A GET_REPORT that lost no packet has returned nothing, or the response  *)
(* to the last report padded and cut as asked; nothing only when none was  *)
(* waiting.  Whatever the sizes of packets, reports and requests.          *)
THEOREM GetReportAlwaysAnswers == Spec => []GetReportAnswers
BY InitAnswered, StepAnswered, AnsweredAnswers, PTL DEF Spec

(* A response is returned to one GET_REPORT: of two commands with the same *)
(* response, the host cannot take that to the first for that to the second. *)
THEOREM AlwaysAnsweredOnce == Spec => AnsweredOnce
<1>1. ASSUME Answered, [Next]_vars
      PROVE  [host.request = "GET_REPORT" /\ host.stage = "status"
               /\ host'.stage = "done" /\ host.got # << >>
                => response.number # host.answered]_vars
  <2> SUFFICES ASSUME host.request = "GET_REPORT", host.stage = "status",
                      host'.stage = "done", host.got # << >>
               PROVE  response.number # host.answered
    OBVIOUS
  <2>0. Typed /\ host \in HostState
    BY <1>1 DEF Answered, Executed, Typed, TypeOK
  <2>1. CASE SendStatus
    BY <1>1, <2>0, <2>1, SendStatusAnswered, CountersAre
  <2>2. ASSUME NEW request, NEW wLength, Begin(request, wLength)
        PROVE  FALSE
    BY <2>0, <2>2, BeginIs
  <2>3. ~ (SendData \/ LosePacket \/ ReceiveData \/ ReceiveStatus)
    BY DEF SendData, LosePacket, ReceiveData, ReceiveStatus, Sending, Asking
  <2>4. CASE usbPoll
    <3>1. host' = host
      BY <2>4
      DEF usbPoll, ReturnResponse, ReturnNothing, SetReport, SetIdle, GetIdle,
          OtherRequest, ProcessSetup, ReceiveSetup, MoreData, CompleteReport,
          IgnoreData, SendNext, TakeData
    <3> QED
      BY <3>1
  <2>5. CASE UNCHANGED vars
    BY <2>5 DEF vars
  <2> QED
    BY <1>1, <2>1, <2>2, <2>3, <2>4, <2>5 DEF Next, Host
<1> QED
  BY <1>1, InitAnswered, StepAnswered, PTL DEF Spec, AnsweredOnce
=============================================================================
