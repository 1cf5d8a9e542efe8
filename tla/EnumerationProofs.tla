-------------------------- MODULE EnumerationProofs --------------------------
(***************************************************************************)
(* The device is heard at the address at which the host speaks to it, and  *)
(* what the host reads of it is what it has to say, for any packet size    *)
(* and any number of faults, restarts and requests.                        *)
(*                                                                         *)
(* Between the answer to SET_ADDRESS and its arrival the driver has two    *)
(* addresses, and EnumerationInv says when they may differ: while the      *)
(* status packet of a SET_ADDRESS waits to be sent, and at no other time.  *)
(*                                                                         *)
(* EnumeratingInv is about what is sent.  It says what the host has learnt *)
(* at each step (so that it asks for what there is), that what is left of  *)
(* a message lies within the array it is sent from, and that what the host *)
(* has got, if it is as long as what the driver has put into packets, is   *)
(* the beginning of the answer.  A lost packet leaves the host with less,  *)
(* for ever; so that an answer of the right length is the right answer.    *)
(*                                                                         *)
(* A string is read without knowing its length: the host takes it if it is *)
(* as long as its first byte says.  FirstByteInv says that the first byte  *)
(* the host has is a byte of the answer and not its second one, a type     *)
(* that the host, had it missed a packet of one byte, would take for the   *)
(* length; and no character is as small as the length of a string.         *)
(* TruthInv says that what each read has told is what the device has to    *)
(* say in the mode that it is in.  From there it is arithmetic: the arrays *)
(* are known byte by byte, and ParseTrace names the host's parser after    *)
(* each of them.                                                           *)
(***************************************************************************)
EXTENDS HidHost, Loops, TLAPS, SequenceTheorems

Sane == clean /\ ~ se0
SettingAddress == host.stage = "status" /\ host.request.name = "SET_ADDRESS"

HostShape ==
  DOMAIN host = {"address", "step", "stage", "request", "toggle", "got", "read", "answer"}

StageInv ==
  /\ host.step \in 1 .. Done
  /\ se0 = (host.stage = "reset")
  /\ host.stage = "attached" => ~ clean
  /\ se0 => host.address = 0
  /\ se0 \in BOOLEAN /\ clean \in BOOLEAN /\ wasReset \in BOOLEAN /\ calibrated \in BOOLEAN

(* A poll that has seen a reset has taken both addresses back.             *)
ResetInv == wasReset => usbDeviceAddr = 0 /\ usbNewDeviceAddr = 0

RequestInv ==
  Sane /\ rx # NoRequest =>
    /\ rx = host.request /\ Waiting
    /\ rx.name = "SET_ADDRESS" =>
         rx.wLength = 0 /\ host.stage = "status" /\ host.toggle = 1

AddressInv ==
  Sane =>
    /\ usbDeviceAddr = host.address
    /\ IF SettingAddress /\ rx = NoRequest
       THEN /\ usbNewDeviceAddr = host.request.wValue[2]
            /\ tx.sending /\ usbTxToken = host.toggle
       ELSE usbNewDeviceAddr = usbDeviceAddr

CalibrationInv ==
  Sane => /\ calibrated \/ wasReset
          /\ Waiting /\ rx = NoRequest => calibrated

EnumerationInv ==
  HostShape /\ StageInv /\ ResetInv /\ RequestInv /\ AddressInv /\ CalibrationInv
-----------------------------------------------------------------------------
(* What a poll does to the addresses and to a packet that waits.           *)
LEMMA EmptyAnswer ==
  /\ Limited(0, 0) = 0
  /\ 0 # USB_NO_MSG
  /\ Least(0, PacketSize) = 0
BY EnumerationAssumption DEF Limited, Least, USB_NO_MSG, EnumerationAssumption

Processed ==
  /\ rx' = NoRequest
  /\ wasReset' = se0
  /\ calibrated' = (calibrated \/ (wasReset /\ ~ se0))
  /\ UNCHANGED <<se0, host, clean>>
  /\ usbDeviceAddr' = IF se0 THEN 0 ELSE usbDeviceAddr

LEMMA Checked ==
  ASSUME NEW new, CheckReset(new), Polled, rx' = NoRequest
  PROVE  Processed /\ usbNewDeviceAddr' = IF se0 THEN 0 ELSE new
BY DEF CheckReset, Polled, Processed

LEMMA PollWithoutRequest ==
  ASSUME NothingReceived
  PROVE  /\ Processed /\ rx = NoRequest
         /\ usbNewDeviceAddr' = IF se0 THEN 0 ELSE usbNewDeviceAddr
         /\ tx.sending => tx'.sending /\ usbTxToken' = usbTxToken
<1>1. rx = NoRequest /\ rx' = NoRequest
  BY DEF NothingReceived
<1>2. tx.sending => tx' = tx /\ usbTxToken' = usbTxToken
  BY DEF NothingReceived, BuildTxBlock
<1> QED
  BY <1>1, <1>2, Checked DEF NothingReceived

LEMMA PollOfAddress ==
  ASSUME SetAddress
  PROVE  /\ Processed /\ rx # NoRequest /\ rx.name = "SET_ADDRESS"
         /\ usbNewDeviceAddr' = IF se0 THEN 0 ELSE rx.wValue[2]
         /\ rx.wLength = 0 => tx'.sending /\ usbTxToken' = 1
<1>1. rx # NoRequest /\ rx.name = "SET_ADDRESS" /\ rx' = NoRequest
  BY DEF SetAddress, Received
<1>2. ASSUME rx.wLength = 0
      PROVE  tx'.sending /\ usbTxToken' = 1
  BY <1>2, EmptyAnswer
  DEF SetAddress, AnswerFromRam, Answer, BuildTxBlock, NAK, Packet
<1> QED
  BY <1>1, <1>2, Checked DEF SetAddress

OtherPoll ==
  \/ GetStatus \/ GetDescriptor \/ GetConfiguration \/ SetConfiguration
  \/ GetInterface \/ SetInterfaceOrOther \/ SetIdle

LEMMA PollOfAnother ==
  ASSUME OtherPoll
  PROVE  /\ Processed /\ rx # NoRequest /\ rx.name # "SET_ADDRESS"
         /\ usbNewDeviceAddr' = IF se0 THEN 0 ELSE usbNewDeviceAddr
<1>1. rx # NoRequest /\ rx.name # "SET_ADDRESS" /\ rx' = NoRequest
  BY DEF OtherPoll, GetStatus, GetDescriptor, GetConfiguration, SetConfiguration,
     GetInterface, SetInterfaceOrOther, SetIdle, Received
<1>2. CheckReset(usbNewDeviceAddr) /\ Polled
  BY DEF OtherPoll, GetStatus, GetDescriptor, GetConfiguration, SetConfiguration,
     GetInterface, SetInterfaceOrOther, SetIdle
<1> QED
  BY <1>1, <1>2, Checked
-----------------------------------------------------------------------------
(* The host's requests are none of them NoRequest, and a SET_ADDRESS has   *)
(* no data.                                                                *)
WellFormed(request) ==
  /\ request # NoRequest
  /\ request.name = "SET_ADDRESS" => request.wLength = 0

LEMMA NamedRequests ==
  ASSUME NEW name, name # "none", NEW high, NEW low, NEW wLength,
         name = "SET_ADDRESS" => wLength = 0
  PROVE  WellFormed(Request(name, high, low, wLength))
BY DEF WellFormed, Request, NoRequest

LEMMA NextRequests ==
  ASSUME NEW n \in 1 .. Len(Enumerating), NEW read
  PROVE  WellFormed(RequestOf(Enumerating[n], read))
<1>1. Len(Enumerating) = 11
  BY DEF Enumerating
<1>2. Enumerating[n] \in
        {"first", "address", "device", "header", "configuration", "language", "vendor",
         "product", "configure", "idle", "report"}
  BY <1>1 DEF Enumerating
<1>3. \A step \in {"first", "device", "header", "configuration", "language", "vendor",
                   "product", "report"} :
        \E index, type, wLength :
          RequestOf(step, read) = GetDescriptorOf(type, index, wLength)
  BY DEF RequestOf
<1>4. /\ RequestOf("address", read) = Request("SET_ADDRESS", 0, Address, 0)
      /\ RequestOf("configure", read)
           = Request("SET_CONFIGURATION", 0, read["configuration"][6], 0)
      /\ RequestOf("idle", read) = Request("SET_IDLE", 0, 0, 0)
  BY DEF RequestOf
<1> QED
  BY <1>2, <1>3, <1>4, NamedRequests DEF GetDescriptorOf

LEMMA OtherRequests == \A request \in Queries : WellFormed(request)
BY NamedRequests DEF Queries, GetDescriptorOf
-----------------------------------------------------------------------------
THEOREM EnumerationInitIsOK == Init => EnumerationInv
<1> SUFFICES ASSUME Init PROVE EnumerationInv
  OBVIOUS
<1>1. HostShape /\ host.step = 1 /\ host.stage = "attached"
  BY DEF Init, Attached, HostShape
<1>2. 1 \in 1 .. Done
  BY DEF Done, Enumerating
<1> QED
  BY <1>1, <1>2
  DEF Init, EnumerationInv, StageInv, ResetInv, RequestInv, AddressInv, CalibrationInv,
      Sane

(* A poll.                                                                 *)
LEMMA PollStep ==
  ASSUME EnumerationInv, usbPoll
  PROVE  EnumerationInv'
<1> USE DEF EnumerationInv
<1>1. Processed
  BY PollWithoutRequest, PollOfAddress, PollOfAnother DEF usbPoll, OtherPoll
<1>2. HostShape' /\ StageInv'
  BY <1>1 DEF Processed, HostShape, StageInv
<1>3. RequestInv' /\ Sane' = Sane
  BY <1>1 DEF Processed, RequestInv, Sane
<1>4. CalibrationInv'
  BY <1>1, <1>3 DEF Processed, CalibrationInv, Sane, Waiting
<1>5. ResetInv'
  BY <1>1, PollWithoutRequest, PollOfAddress, PollOfAnother
  DEF usbPoll, OtherPoll, Processed, ResetInv
<1>6. AddressInv'
  <2> SUFFICES ASSUME Sane PROVE AddressInv'
    BY <1>3 DEF AddressInv
  <2>1. /\ usbDeviceAddr' = usbDeviceAddr /\ host' = host /\ rx' = NoRequest
        /\ SettingAddress' = SettingAddress
    BY <1>1 DEF Processed, Sane, SettingAddress
  <2>2. CASE NothingReceived
    BY <2>1, <2>2, PollWithoutRequest DEF AddressInv, Sane
  <2>3. CASE SetAddress
    <3>1. /\ rx = host.request /\ SettingAddress /\ host.toggle = 1
          /\ rx.wLength = 0
      BY <2>3, PollOfAddress DEF RequestInv, SettingAddress
    <3>2. /\ usbNewDeviceAddr' = host'.request.wValue[2]
          /\ tx'.sending /\ usbTxToken' = host'.toggle
      BY <2>1, <2>3, <3>1, PollOfAddress DEF Sane
    <3> QED
      BY <2>1, <3>1, <3>2 DEF AddressInv
  <2>4. CASE OtherPoll
    <3>1. rx = host.request /\ rx # NoRequest /\ ~ SettingAddress
      BY <2>4, PollOfAnother DEF RequestInv, SettingAddress
    <3> QED
      BY <2>1, <2>4, <3>1, PollOfAnother DEF AddressInv, Sane
  <2> QED
    BY <2>2, <2>3, <2>4 DEF usbPoll, OtherPoll
<1> QED
  BY <1>2, <1>3, <1>4, <1>5, <1>6

(* A request.                                                              *)
LEMMA RequestStep ==
  ASSUME EnumerationInv, NextRequest \/ Query
  PROVE  EnumerationInv'
<1> USE DEF EnumerationInv
<1>1. PICK request : WellFormed(request) /\ SendSetup(request)
  <2>1. CASE NextRequest
    <3>1. host.step \in 1 .. Len(Enumerating)
      BY <2>1 DEF NextRequest, StageInv, Done, Enumerating
    <3> QED
      BY <2>1, <3>1, NextRequests DEF NextRequest
  <2>2. CASE Query
    BY <2>2, OtherRequests DEF Query
  <2> QED
    BY <2>1, <2>2
<1>2. /\ UNCHANGED <<usbDeviceAddr, usbNewDeviceAddr, wasReset, calibrated, se0, clean>>
      /\ ~ se0 /\ host.stage = "ready" /\ rx = NoRequest /\ rx' = request
  BY <1>1
  DEF SendSetup, Heard, device_vars, address_vars, reset_vars
<1>3. /\ host'.request = request /\ host'.toggle = 1
      /\ host'.stage = IF request.wLength > 0 THEN "data" ELSE "status"
      /\ host'.address = host.address /\ host'.step = host.step
      /\ HostShape'
  BY <1>1 DEF SendSetup, HostShape
<1>4. StageInv' /\ ResetInv'
  BY <1>2, <1>3 DEF StageInv, ResetInv
<1>5. RequestInv'
  BY <1>1, <1>2, <1>3 DEF RequestInv, Waiting, WellFormed
<1>6. AddressInv' /\ CalibrationInv'
  BY <1>1, <1>2, <1>3
  DEF AddressInv, CalibrationInv, Sane, SettingAddress, Waiting, WellFormed
<1> QED
  BY <1>3, <1>4, <1>5, <1>6

(* A packet sent to the host.                                              *)
LEMMA Sent ==
  ASSUME EnumerationInv, SendPacket
  PROVE  /\ usbDeviceAddr' = usbNewDeviceAddr /\ ~ se0 /\ rx = NoRequest /\ rx' = NoRequest
         /\ UNCHANGED <<usbNewDeviceAddr, wasReset, calibrated, se0>>
         /\ ResetInv'
BY DEF SendPacket, Heard, reset_vars, EnumerationInv, ResetInv

LEMMA AcceptedStep ==
  ASSUME EnumerationInv, ReceiveData \/ DiscardData \/ ReceiveStatus
  PROVE  EnumerationInv'
<1> USE DEF EnumerationInv
<1>1. SendPacket /\ UNCHANGED clean
  BY DEF ReceiveData, DiscardData, ReceiveStatus, NoFault
<1>2. CASE ReceiveData
  <2>1. /\ host.stage = "data" /\ host'.stage \in {"data", "ready"}
        /\ host'.address = host.address /\ HostShape'
        /\ host'.step \in 1 .. Done
    <3>1. host.stage = "data"
      BY <1>2 DEF ReceiveData
    <3>2. CASE host' = [host EXCEPT !.got = host.got \o tx.data, !.toggle = 1 - @]
      BY <3>1, <3>2 DEF HostShape, StageInv
    <3>3. CASE EndOfRead(host.got \o tx.data)
      BY <3>1, <3>3 DEF EndOfRead, HostShape, StageInv, Done, Enumerating
    <3> QED
      BY <1>2, <3>1, <3>2, <3>3 DEF ReceiveData
  <2>2. StageInv' /\ RequestInv'
    BY <1>1, <2>1, Sent DEF StageInv, RequestInv
  <2>3. AddressInv' /\ CalibrationInv'
    BY <1>1, <2>1, Sent
    DEF AddressInv, CalibrationInv, Sane, SettingAddress, Waiting
  <2> QED
    BY <1>1, <2>1, <2>2, <2>3, Sent
<1>3. CASE DiscardData
  <2>1. host' = host /\ usbTxToken # host.toggle
    BY <1>3 DEF DiscardData
  <2>2. Sane => ~ SettingAddress
    BY <1>1, <2>1, Sent DEF AddressInv
  <2>3. HostShape' /\ StageInv' /\ RequestInv' /\ CalibrationInv'
    BY <1>1, <2>1, Sent
    DEF HostShape, StageInv, RequestInv, CalibrationInv, Sane, Waiting
  <2>4. AddressInv'
    BY <1>1, <2>1, <2>2, Sent DEF AddressInv, Sane, SettingAddress
  <2> QED
    BY <1>1, <2>3, <2>4, Sent
<1>4. CASE ReceiveStatus
  <2>1. /\ host.stage = "status" /\ host'.stage = "ready" /\ HostShape'
        /\ host'.address = IF host.request.name = "SET_ADDRESS"
                           THEN host.request.wValue[2] ELSE host.address
        /\ host'.step \in 1 .. Done
    BY <1>4 DEF ReceiveStatus, HostShape, StageInv, Done, Enumerating
  <2>2. StageInv' /\ RequestInv' /\ CalibrationInv'
    BY <1>1, <2>1, Sent DEF StageInv, RequestInv, CalibrationInv, Sane, Waiting
  <2>3. AddressInv'
    BY <1>1, <2>1, Sent DEF AddressInv, Sane, SettingAddress
  <2> QED
    BY <1>1, <2>1, <2>2, <2>3, Sent
<1> QED
  BY <1>2, <1>3, <1>4

LEMMA LosePacketStep ==
  ASSUME EnumerationInv, LosePacket
  PROVE  EnumerationInv'
<1>1. SendPacket /\ host' = host /\ clean' = FALSE
  BY DEF LosePacket, Fault
<1>2. HostShape' /\ StageInv'
  BY <1>1, Sent DEF EnumerationInv, HostShape, StageInv
<1>3. RequestInv' /\ AddressInv' /\ CalibrationInv'
  BY <1>1 DEF RequestInv, AddressInv, CalibrationInv, Sane
<1> QED
  BY <1>1, <1>2, <1>3, Sent DEF EnumerationInv
-----------------------------------------------------------------------------
(* Resets of the bus, and requests given up.                               *)
LEMMA ResetBusStep ==
  ASSUME EnumerationInv, ResetBus, clean' \in BOOLEAN
  PROVE  EnumerationInv'
<1>1. /\ se0' /\ host'.stage = "reset" /\ host'.address = 0 /\ host'.step = 1
      /\ HostShape' /\ calibrated' = FALSE
      /\ UNCHANGED <<usbDeviceAddr, usbNewDeviceAddr, wasReset>>
  BY DEF ResetBus, Attached, HostShape, address_vars
<1>2. 1 \in 1 .. Done
  BY DEF Done, Enumerating
<1> QED
  BY <1>1, <1>2
  DEF EnumerationInv, StageInv, ResetInv, RequestInv, AddressInv, CalibrationInv, Sane,
      ResetBus

LEMMA RepeatStep ==
  ASSUME EnumerationInv, Repeat,
         ~ clean' \/ (Exhausted /\ UNCHANGED clean), clean' \in BOOLEAN
  PROVE  EnumerationInv'
<1> USE DEF EnumerationInv
<1>1. /\ Waiting /\ host'.stage = "ready" /\ HostShape'
      /\ host'.address = host.address /\ host'.step = host.step
      /\ UNCHANGED <<usbDeviceAddr, usbNewDeviceAddr, wasReset, calibrated, tx, usbTxToken,
                     rx, se0>>
  BY DEF Repeat, HostShape, device_vars, address_vars, message_vars, reset_vars
<1>2. StageInv' /\ ResetInv'
  BY <1>1 DEF StageInv, ResetInv, Waiting
<1>3. CASE ~ clean'
  BY <1>1, <1>2, <1>3 DEF RequestInv, AddressInv, CalibrationInv, Sane
<1>4. CASE Exhausted /\ UNCHANGED clean
  <2>1. rx = NoRequest /\ ~ tx.sending
    BY <1>4 DEF Exhausted
  <2> QED
    BY <1>1, <1>2, <1>4, <2>1
    DEF RequestInv, AddressInv, CalibrationInv, Sane, SettingAddress, Waiting
<1> QED
  BY <1>3, <1>4

LEMMA EndResetStep ==
  ASSUME EnumerationInv, EndReset
  PROVE  EnumerationInv'
<1> USE DEF EnumerationInv
<1>1. /\ se0 /\ ~ se0' /\ host.stage = "reset" /\ host'.stage = "ready" /\ HostShape'
      /\ host'.address = 0 /\ host'.step = host.step
      /\ UNCHANGED <<usbDeviceAddr, usbNewDeviceAddr, wasReset, calibrated, rx>>
      /\ (Seen /\ clean' = TRUE) \/ ~ clean'
  BY DEF EndReset, HostShape, StageInv, device_vars, address_vars, reset_vars, Fault
<1>2. se0' \in BOOLEAN /\ clean' \in BOOLEAN
  BY DEF EndReset, Fault
<1>3. StageInv' /\ ResetInv'
  BY <1>1, <1>2 DEF StageInv, ResetInv
<1>4. RequestInv' /\ AddressInv' /\ CalibrationInv'
  BY <1>1
  DEF Seen, ResetInv, RequestInv, AddressInv, CalibrationInv, Sane, SettingAddress, Waiting
<1> QED
  BY <1>1, <1>3, <1>4

LEMMA RestartStep ==
  ASSUME EnumerationInv, Restart
  PROVE  EnumerationInv'
<1>1. /\ host'.stage = "attached" /\ host'.step = 1 /\ HostShape'
      /\ se0' = FALSE /\ clean' = FALSE /\ wasReset' = FALSE /\ calibrated' = FALSE
  BY DEF Restart, PoweredUp, Attached, HostShape
<1>2. 1 \in 1 .. Done
  BY DEF Done, Enumerating
<1> QED
  BY <1>1, <1>2
  DEF EnumerationInv, StageInv, ResetInv, RequestInv, AddressInv, CalibrationInv, Sane
-----------------------------------------------------------------------------
LEMMA EnumerationInductive == EnumerationInv /\ [Next]_vars => EnumerationInv'
<1> SUFFICES ASSUME EnumerationInv, [Next]_vars PROVE EnumerationInv'
  OBVIOUS
<1>1. clean \in BOOLEAN
  BY DEF EnumerationInv, StageInv
<1>2. CASE usbPoll
  BY <1>2, PollStep
<1>3. CASE NextRequest \/ Query
  BY <1>3, RequestStep
<1>4. CASE ReceiveData \/ DiscardData \/ ReceiveStatus
  BY <1>4, AcceptedStep
<1>5. CASE LosePacket
  BY <1>5, LosePacketStep
<1>6. CASE FirstReset
  BY <1>1, <1>6, ResetBusStep DEF FirstReset, NoFault
<1>7. CASE EndReset
  BY <1>7, EndResetStep
<1>8. CASE TimesOut
  BY <1>1, <1>8, ResetBusStep, RepeatStep DEF TimesOut, NoFault
<1>9. CASE Disturbance
  BY <1>9, ResetBusStep, RepeatStep DEF Disturbance, Fault
<1>10. CASE Restart
  BY <1>10, RestartStep
<1>11. CASE UNCHANGED vars
  BY <1>11
  DEF vars, device_vars, address_vars, message_vars, reset_vars, EnumerationInv, HostShape,
      StageInv, ResetInv, RequestInv, AddressInv, CalibrationInv, Sane, SettingAddress,
      Waiting
<1> QED
  BY <1>2, <1>3, <1>4, <1>5, <1>6, <1>7, <1>8, <1>9, <1>10, <1>11 DEF Next, Host

(* The device answers at the address at which the host speaks to it, and   *)
(* only once its oscillator has been calibrated, as long as nothing went   *)
(* wrong since the last reset of the bus.  (usbDriverSetup, usbPoll, the   *)
(* assignment of usbDeviceAddr in usbdrvasm165.inc, USB_RESET_HOOK.)       *)
THEOREM AddressesAlwaysAgree == Spec => []AddressesAgree
<1>1. EnumerationInv => AddressesAgree
  BY DEF EnumerationInv, AddressInv, CalibrationInv, Sane, AddressesAgree
<1> QED
  BY <1>1, EnumerationInitIsOK, EnumerationInductive, PTL DEF Spec
-----------------------------------------------------------------------------
(* The rest of the module is about what the host reads.  The descriptors:  *)
(* where they stand, and how long they are.                                *)
(* The sizes, as the provers need them.                                    *)
LEMMA SizesAre ==
  /\ PacketSize \in Nat /\ PacketSize > 0
  /\ LengthBase \in Nat /\ USB_NO_MSG \in Nat /\ USB_NO_MSG = LengthBase - 1
  /\ USB_NO_MSG > 2
BY EnumerationAssumption DEF EnumerationAssumption, USB_NO_MSG

(* What stands in the first of two sequences stands in both.               *)
LEMMA JoinIs ==
  ASSUME NEW s \in Seq(Nat), NEW t \in Seq(Nat), Len(s) >= 6
  PROVE  /\ s \o t \in Seq(Nat) /\ Len(s \o t) = Len(s) + Len(t)
         /\ (s \o t)[3] = s[3] /\ (s \o t)[6] = s[6]
<1> DEFINE m == Len(s)
           n == Len(t)
           j == s \o t
<1>1. m \in Nat /\ n \in Nat /\ m >= 6
  OBVIOUS
<1>2. /\ j \in Seq(Nat) /\ Len(j) = m + n
      /\ \A i \in 1 .. m + n : j[i] = IF i <= m THEN s[i] ELSE t[i - m]
  BY ConcatProperties
<1> HIDE DEF j, m, n
<1>3. 3 \in 1 .. m + n /\ 6 \in 1 .. m + n /\ 3 <= m /\ 6 <= m
  BY <1>1
<1>4. j[3] = s[3] /\ j[6] = s[6]
  BY <1>2, <1>3
<1> QED
  BY <1>2, <1>4 DEF j, m, n

(* A configuration is as long as it says, and is configuration number 1.   *)
LEMMA ConfigurationIs ==
  ASSUME NEW subclass \in Nat, NEW protocol \in Nat, NEW report_length \in Nat
  PROVE  LET config == config_descriptor(subclass, protocol, report_length)
         IN  /\ config \in Seq(Nat) /\ Len(config) = CONFIG_TOTAL_LENGTH
             /\ config[3] = CONFIG_TOTAL_LENGTH /\ config[6] = 1
<1> DEFINE a == <<9, DESCRIPTOR_TYPE_CONFIGURATION, CONFIG_TOTAL_LENGTH, 0, 1, 1, 0, \h80, 50>>
           b == <<9, DESCRIPTOR_TYPE_INTERFACE, 0, 0, 1, \h03, subclass, protocol, 0>>
           c == <<9, DESCRIPTOR_TYPE_HID, \h11, \h01, 0, 1,
                  DESCRIPTOR_TYPE_HID_REPORT, report_length, 0>>
           d == <<7, DESCRIPTOR_TYPE_ENDPOINT, \h81, \h03, 8, 0, 10>>
<1> USE DEF CONFIG_TOTAL_LENGTH
<1>1. a \in Seq(Nat) /\ Len(a) = 9 /\ Len(a) >= 6
      /\ a[3] = CONFIG_TOTAL_LENGTH /\ a[6] = 1
  BY DEF DESCRIPTOR_TYPE_CONFIGURATION
<1>2. b \in Seq(Nat) /\ Len(b) = 9
  BY DEF DESCRIPTOR_TYPE_INTERFACE
<1>3. c \in Seq(Nat) /\ Len(c) = 9
  BY DEF DESCRIPTOR_TYPE_HID, DESCRIPTOR_TYPE_HID_REPORT
<1>4. d \in Seq(Nat) /\ Len(d) = 7
  BY DEF DESCRIPTOR_TYPE_ENDPOINT
<1>5. config_descriptor(subclass, protocol, report_length) = ((a \o b) \o c) \o d
  BY DEF config_descriptor
<1> HIDE DEF a, b, c, d
<1> DEFINE ab == a \o b
           abc == ab \o c
           abcd == abc \o d
<1>6. ab \in Seq(Nat) /\ Len(ab) = Len(a) + Len(b) /\ ab[3] = a[3] /\ ab[6] = a[6]
  BY <1>1, <1>2, JoinIs
<1> HIDE DEF ab
<1>7. ab \in Seq(Nat) /\ Len(ab) = 18 /\ Len(ab) >= 6
  BY <1>1, <1>2, <1>6
<1>8. abc \in Seq(Nat) /\ Len(abc) = Len(ab) + Len(c) /\ abc[3] = ab[3] /\ abc[6] = ab[6]
  BY <1>3, <1>7, JoinIs
<1> HIDE DEF abc
<1>9. abc \in Seq(Nat) /\ Len(abc) = 27 /\ Len(abc) >= 6
  BY <1>3, <1>7, <1>8
<1>10. abcd \in Seq(Nat) /\ Len(abcd) = Len(abc) + Len(d) /\ abcd[3] = abc[3]
       /\ abcd[6] = abc[6]
  BY <1>4, <1>9, JoinIs
<1>11. abcd = config_descriptor(subclass, protocol, report_length)
  BY <1>5 DEF abc, ab
<1> HIDE DEF abcd
<1>12. Len(abcd) = CONFIG_TOTAL_LENGTH
  BY <1>4, <1>9, <1>10
<1> QED
  BY <1>1, <1>6, <1>8, <1>10, <1>11, <1>12

LEMMA NameIs == VENDOR_NAME \in Seq(Nat) /\ Len(VENDOR_NAME) = 6
BY DEF VENDOR_NAME

(* A string descriptor is a sequence of bytes.                             *)
LEMMA StringIs ==
  ASSUME NEW name \in Seq(Nat)
  PROVE  StringDescriptor(name) \in Seq(Nat)
<1> DEFINE head == <<2 * Len(name) + 2, DESCRIPTOR_TYPE_STRING>>
           tail == [i \in 1 .. 2 * Len(name) |->
                      IF i % 2 = 1 THEN name[(i + 1) \div 2] ELSE 0]
<1>1. head \in Seq(Nat)
  BY DEF DESCRIPTOR_TYPE_STRING
<1>2. ASSUME NEW i \in 1 .. 2 * Len(name), i % 2 = 1
      PROVE  name[(i + 1) \div 2] \in Nat
  <2>1. (i + 1) \div 2 \in 1 .. Len(name)
    BY <1>2
  <2> QED
    BY <2>1
<1>3. tail \in Seq(Nat)
  BY <1>2
<1> HIDE DEF head, tail
<1>4. head \o tail \in Seq(Nat)
  BY <1>1, <1>3, ConcatProperties
<1> QED
  BY <1>4 DEF StringDescriptor, head, tail

(* Every array in flash is a sequence of bytes, shorter than usbMsgLen can *)
(* say.                                                                    *)
LEMMA FlashIs ==
  /\ DOMAIN Flash = {"usbDescriptorDevice", "usbDescriptorString0",
       "usbDescriptorStringVendor", "usbDescriptorStringDevice",
       "config_descriptor_keyboard", "config_descriptor_rawhid",
       "hid_report_keyboard", "hid_report_rawhid"}
  /\ \A of \in DOMAIN Flash :
       Flash[of] \in Seq(Nat) /\ Len(Flash[of]) \in Nat /\ Len(Flash[of]) < USB_NO_MSG
  /\ \A of \in {"config_descriptor_keyboard", "config_descriptor_rawhid"} :
       /\ Len(Flash[of]) = CONFIG_TOTAL_LENGTH
       /\ Flash[of][3] = CONFIG_TOTAL_LENGTH /\ Flash[of][6] = 1
<1>1. /\ config_descriptor_keyboard \in Seq(Nat)
      /\ Len(config_descriptor_keyboard) = CONFIG_TOTAL_LENGTH
      /\ config_descriptor_keyboard[3] = CONFIG_TOTAL_LENGTH
      /\ config_descriptor_keyboard[6] = 1
  BY ConfigurationIs DEF config_descriptor_keyboard, HID_REPORT_LENGTH_KEYBOARD
<1>2. /\ config_descriptor_rawhid \in Seq(Nat)
      /\ Len(config_descriptor_rawhid) = CONFIG_TOTAL_LENGTH
      /\ config_descriptor_rawhid[3] = CONFIG_TOTAL_LENGTH
      /\ config_descriptor_rawhid[6] = 1
  BY ConfigurationIs DEF config_descriptor_rawhid, HID_REPORT_LENGTH_RAWHID
<1>3. /\ StringDescriptor(VENDOR_NAME) \in Seq(Nat)
      /\ StringDescriptor(DEVICE_NAME) \in Seq(Nat)
  BY NameIs, StringIs DEF DEVICE_NAME
<1>4. usbDescriptorDevice \in Seq(Nat)
  BY DEF usbDescriptorDevice, DESCRIPTOR_TYPE_DEVICE
<1>5. usbDescriptorString0 \in Seq(Nat)
  BY DEF usbDescriptorString0, DESCRIPTOR_TYPE_STRING
<1>6. hid_report_keyboard \in Seq(Nat)
  BY DEF hid_report_keyboard
<1>7. hid_report_rawhid \in Seq(Nat)
  BY DEF hid_report_rawhid, PROTOCOL_REPORT_SIZE
<1>8. DOMAIN Flash = {"usbDescriptorDevice", "usbDescriptorString0",
       "usbDescriptorStringVendor", "usbDescriptorStringDevice",
       "config_descriptor_keyboard", "config_descriptor_rawhid",
       "hid_report_keyboard", "hid_report_rawhid"}
  BY DEF Flash
<1>9. \A of \in DOMAIN Flash : Flash[of] \in Seq(Nat)
  BY <1>1, <1>2, <1>3, <1>4, <1>5, <1>6, <1>7, <1>8 DEF Flash
<1>10. \A of \in DOMAIN Flash :
         Len(Flash[of]) \in Nat /\ Len(Flash[of]) < USB_NO_MSG
  BY <1>9, EnumerationAssumption DEF EnumerationAssumption
<1>11. /\ Flash["config_descriptor_keyboard"] = config_descriptor_keyboard
       /\ Flash["config_descriptor_rawhid"] = config_descriptor_rawhid
  BY DEF Flash
<1> QED
  BY <1>1, <1>2, <1>8, <1>9, <1>10, <1>11
-----------------------------------------------------------------------------
Modes == {"PROGRAMMING", "KEYBOARD"}

(* A descriptor lies within the array that it is read from.                *)
LEMMA DescriptorIs ==
  ASSUME NEW m \in Modes, NEW type \in Nat, NEW index \in Nat
  PROVE  LET d == usbDriverDescriptor(m, type, index)
         IN  \/ d = Nothing
             \/ /\ d # Nothing /\ d.of \in DOMAIN Flash
                /\ d.at \in Nat /\ d.len \in Nat
                /\ d.at + d.len <= Len(Flash[d.of])
<1> DEFINE Sound(d) == /\ d # Nothing /\ d.of \in DOMAIN Flash
                       /\ d.at \in Nat /\ d.len \in Nat
                       /\ d.at + d.len <= Len(Flash[d.of])
<1>1. ASSUME NEW name \in DOMAIN Flash
      PROVE  Sound(Whole(name))
  BY <1>1, FlashIs, SMTT(30) DEF Whole, Nothing
<1>2. Sound(descriptors_get_configuration(m))
  BY <1>1, FlashIs DEF descriptors_get_configuration
<1>3. Sound(descriptors_get_hid(m))
  <2>1. \E name \in {"config_descriptor_keyboard", "config_descriptor_rawhid"} :
          descriptors_get_hid(m) = Part(name, 18, 9)
    <3>1. \/ descriptors_get_configuration(m) = Whole("config_descriptor_keyboard")
          \/ descriptors_get_configuration(m) = Whole("config_descriptor_rawhid")
      BY DEF descriptors_get_configuration
    <3> QED
      BY <3>1 DEF descriptors_get_hid, Whole
  <2>2. PICK name \in {"config_descriptor_keyboard", "config_descriptor_rawhid"} :
          descriptors_get_hid(m) = Part(name, 18, 9)
    BY <2>1
  <2>3. Len(Flash[name]) = 34 /\ name \in DOMAIN Flash
    BY FlashIs DEF CONFIG_TOTAL_LENGTH
  <2>4. Sound(Part(name, 18, 9))
    <3>1. name # "nothing"
      OBVIOUS
    <3> DEFINE part == Part(name, 18, 9)
    <3>2. part.of = name /\ part.at = 18 /\ part.len = 9
      BY DEF Part
    <3>3. part # Nothing
      BY <3>1, <3>2 DEF Nothing
    <3> HIDE DEF part
    <3>4. part.at + part.len <= Len(Flash[part.of])
      <4>1. part.at + part.len = 27 /\ Len(Flash[part.of]) = 34
        BY <2>3, <3>2
      <4> QED
        BY <4>1
    <3>5. Sound(part)
      BY <2>3, <3>2, <3>3, <3>4
    <3> QED
      BY <3>5 DEF part
  <2> QED
    BY <2>2, <2>4
<1>4. Sound(descriptors_get_hid_report(m))
  BY <1>1, FlashIs DEF descriptors_get_hid_report
<1>5. index < Len(Strings) => Sound(Whole(Strings[index + 1]))
  <2>1. Len(Strings) = 3
    BY DEF Strings
  <2>2. ASSUME index < 3
        PROVE  Strings[index + 1] \in DOMAIN Flash
    <3>1. index = 0 \/ index = 1 \/ index = 2
      BY <2>2
    <3>2. /\ Strings[1] \in DOMAIN Flash
          /\ Strings[2] \in DOMAIN Flash
          /\ Strings[3] \in DOMAIN Flash
      BY FlashIs DEF Strings
    <3>3. index + 1 = 1 \/ index + 1 = 2 \/ index + 1 = 3
      BY <3>1
    <3> QED
      BY <3>2, <3>3
  <2> QED
    BY <1>1, <2>1, <2>2
<1>6. Sound(Whole("usbDescriptorDevice"))
  BY <1>1, FlashIs
<1> HIDE DEF Sound
<1>7. \/ Sound(usbDriverDescriptor(m, type, index))
      \/ usbDriverDescriptor(m, type, index) = Nothing
  BY <1>2, <1>3, <1>4, <1>5, <1>6
  DEF usbDriverDescriptor, usbFunctionDescriptor, DESCRIPTOR_TYPE_DEVICE,
      DESCRIPTOR_TYPE_STRING, DESCRIPTOR_TYPE_CONFIGURATION, DESCRIPTOR_TYPE_HID,
      DESCRIPTOR_TYPE_HID_REPORT
<1> QED
  BY <1>7 DEF Sound

(* The requests that a host makes.                                         *)
Requests ==
  {request \in [name : Names, wValue : Nat \X Nat, wLength : Nat] :
     /\ request.name = "SET_ADDRESS" => request.wValue[2] = Address
     /\ request.name = "SET_CONFIGURATION" => request.wValue[2] = 1}

(* What the device should answer; a configuration is number 1.             *)
Promised(request) ==
  CASE request.name = "GET_DESCRIPTOR" ->
         LET d == usbDriverDescriptor(mode, request.wValue[1], request.wValue[2])
         IN  IF d = Nothing THEN << >> ELSE SubSeq(Flash[d.of], d.at + 1, d.at + d.len)
    [] request.name = "GET_CONFIGURATION" -> <<1>>
    [] request.name = "GET_STATUS" -> <<0, 0>>
    [] request.name = "GET_INTERFACE" -> <<0>>
    [] OTHER -> << >>

LengthOf(request) == Least(request.wLength, Len(Promised(request)))

(* What a request is made of.                                              *)
LEMMA RequestIs ==
  ASSUME NEW r \in Requests
  PROVE  /\ r.name \in Names /\ r.wValue[1] \in Nat /\ r.wValue[2] \in Nat
         /\ r.wLength \in Nat /\ r # NoRequest
BY DEF Requests, NoRequest, Names

LEMMA NamedIs ==
  ASSUME NEW name \in Names, NEW high \in Nat, NEW low \in Nat, NEW wLength \in Nat,
         name = "SET_ADDRESS" => low = Address,
         name = "SET_CONFIGURATION" => low = 1
  PROVE  Request(name, high, low, wLength) \in Requests
BY DEF Requests, Request

(* A part of a sequence, element by element.                               *)
LEMMA PartIs ==
  ASSUME NEW s \in Seq(Nat), NEW at \in Nat, NEW len \in Nat, at + len <= Len(s)
  PROVE  /\ SubSeq(s, at + 1, at + len) \in Seq(Nat)
         /\ Len(SubSeq(s, at + 1, at + len)) = len
         /\ \A i \in 1 .. len : SubSeq(s, at + 1, at + len)[i] = s[at + i]
<1> DEFINE first == at + 1
           final == at + len
           part == SubSeq(s, first, final)
<1>1. first \in Int /\ final \in Int /\ \A i \in first .. final : s[i] \in Nat
  BY ElementOfSeq
<1>2. final - first + 1 = len /\ (first <= final <=> len > 0)
  OBVIOUS
<1> HIDE DEF first, final
<1>3. /\ part \in Seq(Nat)
      /\ Len(part) = IF first <= final THEN final - first + 1 ELSE 0
      /\ \A i \in 1 .. final - first + 1 : part[i] = s[first + i - 1]
  BY <1>1, SubSeqProperties
<1> HIDE DEF part
<1>4. Len(part) = len
  BY <1>2, <1>3
<1>5. ASSUME NEW i \in 1 .. len
      PROVE  part[i] = s[at + i]
  <2>1. first + i - 1 = at + i
    BY DEF first
  <2> QED
    BY <1>2, <1>3, <2>1
<1> QED
  BY <1>3, <1>4, <1>5 DEF part, first, final

(* What is promised is shorter than USB_NO_MSG, and so is what is sent of  *)
(* it.                                                                     *)
LEMMA PromisedIs ==
  ASSUME mode \in Modes, NEW r \in Requests
  PROVE  /\ Promised(r) \in Seq(Nat) /\ Len(Promised(r)) \in Nat
         /\ Len(Promised(r)) < USB_NO_MSG
         /\ LengthOf(r) \in Nat /\ LengthOf(r) <= Len(Promised(r))
         /\ LengthOf(r) <= r.wLength /\ LengthOf(r) < USB_NO_MSG
<1>1. Promised(r) \in Seq(Nat) /\ Len(Promised(r)) \in Nat /\ Len(Promised(r)) < USB_NO_MSG
  <2>1. CASE r.name = "GET_DESCRIPTOR"
    <3> DEFINE d == usbDriverDescriptor(mode, r.wValue[1], r.wValue[2])
    <3>1. Promised(r) = IF d = Nothing THEN << >>
                        ELSE SubSeq(Flash[d.of], d.at + 1, d.at + d.len)
      BY <2>1 DEF Promised
    <3>2. \/ d = Nothing
          \/ /\ d # Nothing /\ d.of \in DOMAIN Flash /\ d.at \in Nat /\ d.len \in Nat
             /\ d.at + d.len <= Len(Flash[d.of])
      BY RequestIs, DescriptorIs
    <3> HIDE DEF d
    <3>3. CASE d = Nothing
      <4>1. Promised(r) = << >> /\ << >> \in Seq(Nat)
        BY <3>1, <3>3
      <4> HIDE DEF Promised
      <4> QED
        BY <4>1, SizesAre
    <3>4. CASE d # Nothing
      <4>1. /\ Flash[d.of] \in Seq(Nat) /\ Len(Flash[d.of]) \in Nat
            /\ Len(Flash[d.of]) < USB_NO_MSG
        BY <3>2, <3>4, FlashIs
      <4>2. /\ SubSeq(Flash[d.of], d.at + 1, d.at + d.len) \in Seq(Nat)
            /\ Len(SubSeq(Flash[d.of], d.at + 1, d.at + d.len)) = d.len
        BY <3>2, <3>4, <4>1, PartIs
      <4>3. Promised(r) = SubSeq(Flash[d.of], d.at + 1, d.at + d.len)
        BY <3>1, <3>4
      <4>4. Promised(r) \in Seq(Nat) /\ Len(Promised(r)) = d.len
        BY <4>2, <4>3
      <4>5. d.len < USB_NO_MSG /\ d.len \in Nat
        <5> DEFINE n == Len(Flash[d.of])
        <5>1. n \in Nat /\ n < USB_NO_MSG /\ d.at + d.len <= n /\ d.at \in Nat /\ d.len \in Nat
          BY <3>2, <3>4, <4>1
        <5> HIDE DEF n
        <5> QED
          BY <5>1, SizesAre
      <4> QED
        BY <4>4, <4>5
    <3> QED
      BY <3>3, <3>4
  <2>2. CASE r.name # "GET_DESCRIPTOR"
    <3>1. \/ Promised(r) = <<1>> \/ Promised(r) = <<0, 0>>
          \/ Promised(r) = <<0>> \/ Promised(r) = << >>
      BY <2>2 DEF Promised
    <3>2. /\ <<1>> \in Seq(Nat) /\ Len(<<1>>) = 1
          /\ <<0, 0>> \in Seq(Nat) /\ Len(<<0, 0>>) = 2
          /\ <<0>> \in Seq(Nat) /\ Len(<<0>>) = 1
          /\ << >> \in Seq(Nat) /\ Len(<< >>) = 0
      OBVIOUS
    <3>3. Promised(r) \in Seq(Nat) /\ Len(Promised(r)) \in {0, 1, 2}
      BY <3>1, <3>2
    <3> DEFINE n == Len(Promised(r))
    <3>4. n \in {0, 1, 2}
      BY <3>3
    <3> HIDE DEF n
    <3>5. n \in Nat /\ n < USB_NO_MSG
      BY <3>4, SizesAre
    <3> QED
      BY <3>3, <3>5 DEF n
  <2> QED
    BY <2>1, <2>2
<1>2. r.wLength \in Nat
  BY RequestIs
<1> HIDE DEF Promised
<1> QED
  BY <1>1, <1>2, SizesAre DEF LengthOf, Least
-----------------------------------------------------------------------------
LEMMA FirstEleven == Len(Enumerating) = 11 /\ Done = 12
BY DEF Enumerating, Done

LEMMA StepNames ==
  /\ Enumerating[1] = "first" /\ Enumerating[2] = "address" /\ Enumerating[3] = "device"
  /\ Enumerating[4] = "header" /\ Enumerating[5] = "configuration"
  /\ Enumerating[6] = "language" /\ Enumerating[7] = "vendor" /\ Enumerating[8] = "product"
  /\ Enumerating[9] = "configure" /\ Enumerating[10] = "idle" /\ Enumerating[11] = "report"
BY DEF Enumerating

(* What the host has read of the device before a step of the enumeration.  *)
Learnt(step, read) ==
  /\ step > 3 => Len(read["device"]) = 18
  /\ step > 4 => Len(read["header"]) = 9 /\ read["header"][3] = CONFIG_TOTAL_LENGTH
  /\ step > 5 => /\ Len(read["configuration"]) = CONFIG_TOTAL_LENGTH
                 /\ read["configuration"][6] = 1

LEMMA DescriptorRequestIs ==
  ASSUME NEW type \in Nat, NEW index \in Nat, NEW wLength \in Nat
  PROVE  /\ GetDescriptorOf(type, index, wLength) \in Requests
         /\ GetDescriptorOf(type, index, wLength).name = "GET_DESCRIPTOR"
         /\ GetDescriptorOf(type, index, wLength).wLength = wLength
         /\ GetDescriptorOf(type, index, wLength).wValue[1] = type
         /\ GetDescriptorOf(type, index, wLength).wValue[2] = index
<1>1. GetDescriptorOf(type, index, wLength) \in Requests
  BY NamedIs DEF GetDescriptorOf, Names
<1> QED
  BY <1>1 DEF GetDescriptorOf, Request

LEMMA CommandIs ==
  ASSUME NEW name \in Names, NEW low \in Nat, NEW wLength \in Nat,
         name = "SET_ADDRESS" => low = Address,
         name = "SET_CONFIGURATION" => low = 1
  PROVE  /\ Request(name, 0, low, wLength) \in Requests
         /\ Request(name, 0, low, wLength).name = name
         /\ Request(name, 0, low, wLength).wLength = wLength
<1>1. Request(name, 0, low, wLength) \in Requests
  BY NamedIs
<1> QED
  BY <1>1 DEF Request

(* The request of a step, as far as the proof needs to know it.            *)
Due(step, request) ==
  /\ request \in Requests /\ request.name # "GET_CONFIGURATION"
  /\ step = 3 => request.wLength = 18
  /\ step = 4 => request = GetDescriptorOf(DESCRIPTOR_TYPE_CONFIGURATION, 0, 9)
  /\ step = 5 => request = GetDescriptorOf(DESCRIPTOR_TYPE_CONFIGURATION, 0,
                                           CONFIG_TOTAL_LENGTH)
  /\ step = 9 => request.name = "SET_CONFIGURATION" /\ request.wLength = 0

(* A host asks for what it should at every step, given what it has learnt; *)
(* in particular for as many bytes of the configuration as its header says.*)
LEMMA StepRequests ==
  ASSUME NEW step \in 1 .. 11, NEW read \in [Reads -> Seq(Nat)], Learnt(step, read)
  PROVE  Due(step, RequestOf(Enumerating[step], read))
<1>1. /\ DESCRIPTOR_TYPE_DEVICE \in Nat /\ DESCRIPTOR_TYPE_CONFIGURATION \in Nat
      /\ DESCRIPTOR_TYPE_STRING \in Nat /\ DESCRIPTOR_TYPE_HID_REPORT \in Nat
      /\ CONFIG_TOTAL_LENGTH \in Nat /\ Address = 1
  BY DEF DESCRIPTOR_TYPE_DEVICE, DESCRIPTOR_TYPE_CONFIGURATION, DESCRIPTOR_TYPE_STRING,
     DESCRIPTOR_TYPE_HID_REPORT, CONFIG_TOTAL_LENGTH, Address
<1>2. step > 3 => read["device"][15] \in Nat /\ read["device"][16] \in Nat
  BY DEF Learnt, Reads
<1>3. step > 5 => read["configuration"][26] \in Nat
  <2>1. step > 5 => Len(read["configuration"]) = 34 /\ 26 \in 1 .. 34
    BY DEF Learnt, CONFIG_TOTAL_LENGTH
  <2>2. read["configuration"] \in Seq(Nat)
    BY DEF Reads
  <2> QED
    BY <2>1, <2>2
<1>4. ASSUME NEW t \in Nat, NEW n \in Nat, NEW bytes \in Nat,
              NEW r, r = GetDescriptorOf(t, n, bytes)
       PROVE  /\ step \notin {3, 4, 5, 9} => Due(step, r)
              /\ step = 3 /\ bytes = 18 => Due(step, r)
  <2>1. r \in Requests
    BY <1>4, DescriptorRequestIs
  <2>2. r.name = "GET_DESCRIPTOR" /\ r.wLength = bytes
    BY <1>4 DEF GetDescriptorOf, Request
  <2> QED
    BY <2>1, <2>2 DEF Due
<1>5. CASE step = 1
  <2>1. RequestOf(Enumerating[step], read)
          = GetDescriptorOf(DESCRIPTOR_TYPE_DEVICE, 0, 64)
    BY <1>5, StepNames DEF RequestOf
  <2> QED
    BY <1>1, <1>5, <2>1, <1>4
<1>6. CASE step = 2
  <2>1. RequestOf(Enumerating[step], read) = Request("SET_ADDRESS", 0, Address, 0)
    BY <1>6, StepNames DEF RequestOf
  <2> QED
    BY <1>1, <1>6, <2>1, CommandIs DEF Names, Due
<1>7. CASE step = 3
  <2>1. RequestOf(Enumerating[step], read)
          = GetDescriptorOf(DESCRIPTOR_TYPE_DEVICE, 0, 18)
    BY <1>7, StepNames DEF RequestOf
  <2> QED
    BY <1>1, <1>7, <2>1, <1>4
<1>8. CASE step = 4
  <2>1. RequestOf(Enumerating[step], read)
          = GetDescriptorOf(DESCRIPTOR_TYPE_CONFIGURATION, 0, 9)
    BY <1>8, StepNames DEF RequestOf
  <2> QED
    BY <1>1, <1>8, <2>1, DescriptorRequestIs DEF Due
<1>9. CASE step = 5
  <2>1. RequestOf(Enumerating[step], read)
          = GetDescriptorOf(DESCRIPTOR_TYPE_CONFIGURATION, 0, CONFIG_TOTAL_LENGTH)
    BY <1>9, StepNames DEF RequestOf, Learnt
  <2> QED
    BY <1>1, <1>9, <2>1, DescriptorRequestIs DEF Due
<1>10. CASE step = 6
  <2>1. RequestOf(Enumerating[step], read)
          = GetDescriptorOf(DESCRIPTOR_TYPE_STRING, 0, 255)
    BY <1>10, StepNames DEF RequestOf
  <2> QED
    BY <1>1, <1>2, <1>3, <1>10, <2>1, <1>4
<1>11. CASE step = 7
  <2>1. RequestOf(Enumerating[step], read)
          = GetDescriptorOf(DESCRIPTOR_TYPE_STRING, read["device"][15], 255)
    BY <1>11, StepNames DEF RequestOf
  <2> QED
    BY <1>1, <1>2, <1>3, <1>11, <2>1, <1>4
<1>12. CASE step = 8
  <2>1. RequestOf(Enumerating[step], read)
          = GetDescriptorOf(DESCRIPTOR_TYPE_STRING, read["device"][16], 255)
    BY <1>12, StepNames DEF RequestOf
  <2> QED
    BY <1>1, <1>2, <1>3, <1>12, <2>1, <1>4
<1>13. CASE step = 9
  <2>1. RequestOf(Enumerating[step], read) = Request("SET_CONFIGURATION", 0, 1, 0)
    BY <1>13, StepNames DEF RequestOf, Learnt
  <2> QED
    BY <1>1, <1>13, <2>1, CommandIs DEF Names, Due
<1>14. CASE step = 10
  <2>1. RequestOf(Enumerating[step], read) = Request("SET_IDLE", 0, 0, 0)
    BY <1>14, StepNames DEF RequestOf
  <2> QED
    BY <1>1, <1>14, <2>1, CommandIs DEF Names, Due
<1>15. CASE step = 11
  <2>1. RequestOf(Enumerating[step], read)
          = GetDescriptorOf(DESCRIPTOR_TYPE_HID_REPORT, 0, read["configuration"][26])
    BY <1>15, StepNames DEF RequestOf
  <2> QED
    BY <1>1, <1>2, <1>3, <1>15, <2>1, <1>4
<1> QED
  BY <1>5, <1>6, <1>7, <1>8, <1>9, <1>10, <1>11, <1>12, <1>13, <1>14, <1>15

LEMMA QueriesAre == Queries \subseteq Requests
<1>1. /\ DESCRIPTOR_TYPE_HID \in Nat /\ DESCRIPTOR_TYPE_CONFIGURATION \in Nat
      /\ DESCRIPTOR_TYPE_STRING \in Nat /\ 2 * LengthBase \in Nat
  BY SizesAre
  DEF DESCRIPTOR_TYPE_HID, DESCRIPTOR_TYPE_CONFIGURATION, DESCRIPTOR_TYPE_STRING
<1>2. /\ GetDescriptorOf(DESCRIPTOR_TYPE_HID, 0, 9) \in Requests
      /\ GetDescriptorOf(DESCRIPTOR_TYPE_STRING, 3, 255) \in Requests
      /\ GetDescriptorOf(DESCRIPTOR_TYPE_CONFIGURATION, 0, 2 * LengthBase) \in Requests
  BY <1>1, DescriptorRequestIs
<1>3. /\ Request("GET_STATUS", 0, 0, 2) \in Requests
      /\ Request("GET_CONFIGURATION", 0, 0, 1) \in Requests
      /\ Request("GET_INTERFACE", 0, 0, 1) \in Requests
      /\ Request("SET_INTERFACE", 0, 0, 0) \in Requests
      /\ Request("SET_FEATURE", 0, 0, 0) \in Requests
  BY NamedIs DEF Names
<1> QED
  BY <1>2, <1>3 DEF Queries

(* What the host reads of a configuration.                                 *)
LEMMA PromisedConfiguration ==
  ASSUME mode \in Modes, NEW wLength \in Nat
  PROVE  LET request == GetDescriptorOf(DESCRIPTOR_TYPE_CONFIGURATION, 0, wLength)
         IN  /\ Len(Promised(request)) = CONFIG_TOTAL_LENGTH
             /\ Promised(request)[3] = CONFIG_TOTAL_LENGTH
             /\ Promised(request)[6] = 1
<1> DEFINE request == GetDescriptorOf(DESCRIPTOR_TYPE_CONFIGURATION, 0, wLength)
<1>1. /\ request.name = "GET_DESCRIPTOR" /\ request.wValue[1] = DESCRIPTOR_TYPE_CONFIGURATION
  BY DescriptorRequestIs DEF DESCRIPTOR_TYPE_CONFIGURATION
<1> HIDE DEF request
<1>2. \/ usbDriverDescriptor(mode, request.wValue[1], request.wValue[2])
           = Whole("config_descriptor_keyboard")
      \/ usbDriverDescriptor(mode, request.wValue[1], request.wValue[2])
           = Whole("config_descriptor_rawhid")
  BY <1>1
  DEF usbDriverDescriptor, usbFunctionDescriptor, descriptors_get_configuration,
      DESCRIPTOR_TYPE_DEVICE, DESCRIPTOR_TYPE_STRING, DESCRIPTOR_TYPE_CONFIGURATION,
      DESCRIPTOR_TYPE_HID, DESCRIPTOR_TYPE_HID_REPORT
<1>3. PICK of \in {"config_descriptor_keyboard", "config_descriptor_rawhid"} :
        usbDriverDescriptor(mode, request.wValue[1], request.wValue[2]) = Whole(of)
  BY <1>2
<1>4. /\ Whole(of).of = of /\ Whole(of).at = 0 /\ Whole(of).len = Len(Flash[of])
      /\ Whole(of) # Nothing /\ of \in DOMAIN Flash
  BY FlashIs DEF Whole, Nothing
<1>5. Promised(request) = SubSeq(Flash[of], 0 + 1, 0 + Len(Flash[of]))
  BY <1>1, <1>3, <1>4 DEF Promised
<1>6. /\ Flash[of] \in Seq(Nat) /\ Len(Flash[of]) = CONFIG_TOTAL_LENGTH
      /\ Flash[of][3] = CONFIG_TOTAL_LENGTH /\ Flash[of][6] = 1
  BY <1>4, FlashIs
<1> DEFINE whole == Flash[of]
           n == Len(whole)
<1>7. whole \in Seq(Nat) /\ n \in Nat /\ 0 + n <= Len(whole) /\ n = 34
  BY <1>6 DEF CONFIG_TOTAL_LENGTH
<1> HIDE DEF whole
<1>8. /\ Len(SubSeq(whole, 0 + 1, 0 + n)) = n
      /\ \A i \in 1 .. n : SubSeq(whole, 0 + 1, 0 + n)[i] = whole[0 + i]
  BY <1>7, PartIs
<1> HIDE DEF n
<1>9. /\ SubSeq(whole, 0 + 1, 0 + n)[3] = whole[3]
      /\ SubSeq(whole, 0 + 1, 0 + n)[6] = whole[6]
  BY <1>7, <1>8
<1> QED
  BY <1>5, <1>6, <1>8, <1>9 DEF whole, n, request

(* What a host has got of the b bytes that were sent of an answer E: if    *)
(* none is missing, they are the first bytes of E.                         *)
Begins(got, E, b) == Len(got) <= b /\ (Len(got) = b => got = SubSeq(E, 1, b))
Copied(data, E, b, w) == Len(data) = w /\ \A i \in 1 .. w : data[i] = E[b + i]

(* If b bytes were sent and w more are, they begin the answer still.       *)
LEMMA Continued ==
  ASSUME NEW E \in Seq(Nat), NEW got \in Seq(Nat), NEW data \in Seq(Nat),
         NEW b \in Nat, NEW w \in Nat, b + w <= Len(E),
         Copied(data, E, b, w), Begins(got, E, b)
  PROVE  /\ Begins(got \o data, E, b + w)
         /\ Len(got) = b => Len(got \o data) = b + w
<1> USE DEF Copied, Begins
<1> DEFINE j == got \o data
           n == Len(got)
           m == b + w
<1>1. n \in Nat /\ m \in Nat /\ n <= b
  OBVIOUS
<1>2. /\ j \in Seq(Nat) /\ Len(j) = n + w
      /\ \A i \in 1 .. n + w : j[i] = IF i <= n THEN got[i] ELSE data[i - n]
  BY ConcatProperties
<1>3. 0 \in Nat /\ 0 + m <= Len(E) /\ 0 + b <= Len(E) /\ 0 + 1 = 1 /\ 0 + m = m /\ 0 + b = b
  BY <1>1
<1>4. /\ SubSeq(E, 0 + 1, 0 + m) \in Seq(Nat) /\ Len(SubSeq(E, 0 + 1, 0 + m)) = m
      /\ \A i \in 1 .. m : SubSeq(E, 0 + 1, 0 + m)[i] = E[0 + i]
  BY <1>1, <1>3, PartIs
<1>5. /\ SubSeq(E, 0 + 1, 0 + b) \in Seq(Nat) /\ Len(SubSeq(E, 0 + 1, 0 + b)) = b
      /\ \A i \in 1 .. b : SubSeq(E, 0 + 1, 0 + b)[i] = E[0 + i]
  BY <1>1, <1>3, PartIs
<1> DEFINE upTo == SubSeq(E, 1, m)
           before == SubSeq(E, 1, b)
<1>6. /\ upTo \in Seq(Nat) /\ Len(upTo) = m /\ \A i \in 1 .. m : upTo[i] = E[i]
  BY <1>3, <1>4
<1>7. /\ before \in Seq(Nat) /\ Len(before) = b /\ \A i \in 1 .. b : before[i] = E[i]
  BY <1>3, <1>5
<1>8. n = b => got = before
  OBVIOUS
<1> HIDE DEF j, n, upTo, before
<1>9. Len(j) <= m /\ (Len(j) = m => n = b) /\ (n = b => Len(j) = m)
  BY <1>1, <1>2 DEF m
<1>10. ASSUME Len(j) = m
       PROVE  j = upTo
  <2>1. n = b /\ got = before
    BY <1>8, <1>9, <1>10
  <2>2. ASSUME NEW i \in 1 .. m
        PROVE  j[i] = upTo[i]
    <3>1. CASE i <= b
      <4>1. i \in 1 .. n + w /\ i \in 1 .. b /\ i <= n
        BY <1>1, <2>1, <3>1
      <4>2. j[i] = got[i] /\ before[i] = E[i]
        BY <1>2, <1>7, <4>1
      <4> QED
        BY <1>6, <2>1, <4>2
    <3>2. CASE i > b
      <4>1. i - b \in 1 .. w /\ b + (i - b) = i
        BY <3>2 DEF m
      <4>2. j[i] = data[i - b]
        <5>1. i \in 1 .. n + w /\ ~ (i <= n) /\ n = b
          BY <1>1, <2>1, <3>2 DEF m
        <5> QED
          BY <1>2, <5>1
      <4>3. data[i - b] = E[b + (i - b)]
        BY <4>1
      <4>4. data[i - b] = E[i]
        BY <4>1, <4>3
      <4> QED
        BY <1>6, <4>2, <4>4
    <3> QED
      BY <3>1, <3>2
  <2>3. Len(j) = Len(upTo)
    BY <1>6, <1>10
  <2> QED
    BY <1>2, <1>6, <1>10, <2>2, <2>3, SeqEqual
<1> QED
  BY <1>2, <1>9, <1>10 DEF j, n, upTo

(* Bytes that begin an answer do so without the last packet.               *)
LEMMA NothingMore ==
  ASSUME NEW got \in Seq(Nat), NEW data \in Seq(Nat)
  PROVE  /\ got \o data \in Seq(Nat) /\ Len(got) <= Len(got \o data)
         /\ Len(got) = Len(got \o data) => got \o data = got
<1> DEFINE j == got \o data
           n == Len(got)
           m == Len(data)
<1>1. n \in Nat /\ m \in Nat
  OBVIOUS
<1>2. /\ j \in Seq(Nat) /\ Len(j) = n + m
      /\ \A i \in 1 .. n + m : j[i] = IF i <= n THEN got[i] ELSE data[i - n]
  BY ConcatProperties
<1> HIDE DEF j, m
<1>3. ASSUME Len(j) = n
      PROVE  j = got
  <2>1. m = 0
    BY <1>1, <1>2, <1>3
  <2>2. \A i \in 1 .. n : j[i] = got[i]
    BY <1>1, <1>2, <2>1
  <2> QED
    BY <1>2, <1>3, <2>2, SeqEqual DEF n
<1> HIDE DEF n
<1>4. n <= Len(j)
  BY <1>1, <1>2
<1> QED
  BY <1>2, <1>3, <1>4 DEF j, n
-----------------------------------------------------------------------------
Slots == [sending : BOOLEAN, data : Seq(Nat)]
Pointers == [of : FlashOrRam, at : Nat]

(* The array that usbMsgPtr points into, and how long it is.               *)
Memory(of) == IF of \in DOMAIN Flash THEN Flash[of] ELSE Ram(of)
Room(of) == IF of \in DOMAIN Flash THEN Len(Flash[of])
            ELSE IF of = "usbTxBuf+9" THEN 2
            ELSE IF of = "usbConfiguration" THEN 1 ELSE 0

(* What is left of a message lies in the array, and the flag is right.     *)
Within(len, ptr, flags) ==
  len \in 1 .. USB_NO_MSG - 1 =>
    /\ ptr.at + len <= Room(ptr.of)
    /\ (ptr.of \in DOMAIN Flash) <=> (USB_FLG_MSGPTR_IS_ROM \in flags)

(* What usbMsgPtr points to, in flash or in RAM, has room for so many      *)
(* bytes.                                                                  *)
LEMMA MemoryIs ==
  ASSUME usbConfiguration \in Nat, NEW of \in FlashOrRam
  PROVE  Memory(of) \in Seq(Nat) /\ Len(Memory(of)) = Room(of) /\ Room(of) \in Nat
<1>1. CASE of \in DOMAIN Flash
  BY <1>1, FlashIs DEF Memory, Room
<1>2. CASE of \notin DOMAIN Flash
  <2>1. Memory(of) = Ram(of)
    BY <1>2 DEF Memory
  <2>2. CASE of = "usbTxBuf+9"
    <3>1. Memory(of) = <<0, 0>> /\ Room(of) = 2
      BY <1>2, <2>1, <2>2 DEF Ram, Room
    <3> QED
      BY <3>1
  <2>3. CASE of = "usbConfiguration"
    <3>1. Memory(of) = <<usbConfiguration>> /\ Room(of) = 1
      BY <1>2, <2>1, <2>3 DEF Ram, Room
    <3> QED
      BY <3>1
  <2>4. CASE of = "nothing"
    <3>1. Memory(of) = << >> /\ Room(of) = 0
      BY <1>2, <2>1, <2>4 DEF Ram, Room
    <3> QED
      BY <3>1
  <2> QED
    BY <1>2, <2>2, <2>3, <2>4 DEF FlashOrRam
<1> QED
  BY <1>1, <1>2
-----------------------------------------------------------------------------
(* The packet that usbBuildTxBlock makes of a message, and what it leaves. *)
Builds(token, len, ptr) ==
  /\ tx'.sending /\ Len(tx'.data) = Least(len, PacketSize)
  /\ usbTxToken' = 1 - token
  /\ \A i \in 1 .. Least(len, PacketSize) :
       tx'.data[i] = Memory(ptr.of)[ptr.at + i]
  /\ usbMsgPtr'.of = ptr.of /\ usbMsgPtr'.at = ptr.at + Least(len, PacketSize)
  /\ usbMsgLen' = IF len < PacketSize THEN USB_NO_MSG ELSE len - PacketSize

(* usbBuildTxBlock keeps what is left of the message within its array, and *)
(* builds the next packet from the bytes that the pointer stands at.       *)
LEMMA BlockIs ==
  ASSUME usbConfiguration \in Nat,
         NEW slot \in Slots, Len(slot.data) <= PacketSize, NEW token \in {0, 1},
         NEW len \in 0 .. USB_NO_MSG, NEW ptr \in Pointers,
         NEW flags \in {{}, {USB_FLG_MSGPTR_IS_ROM}}, Within(len, ptr, flags),
         BuildTxBlock(slot, token, len, ptr, flags)
  PROVE  /\ usbMsgFlags' = flags /\ usbTxToken' \in {0, 1}
         /\ usbMsgLen' \in 0 .. USB_NO_MSG /\ usbMsgPtr' \in Pointers
         /\ Within(usbMsgLen', usbMsgPtr', flags)
         /\ tx' \in Slots /\ Len(tx'.data) <= PacketSize
         /\ ~ slot.sending /\ len # USB_NO_MSG => Builds(token, len, ptr)
<1>1. CASE slot.sending \/ len = USB_NO_MSG
  BY <1>1 DEF BuildTxBlock
<1>2. CASE ~ slot.sending /\ len # USB_NO_MSG
  <2> DEFINE w == Least(len, PacketSize)
  <2>1. /\ usbMsgFlags' = flags
        /\ tx' = Packet(Pointed(ptr, w, flags)) /\ usbTxToken' = 1 - token
        /\ usbMsgPtr' = [ptr EXCEPT !.at = @ + w]
        /\ usbMsgLen' = IF w < PacketSize THEN USB_NO_MSG ELSE len - w
    BY <1>2 DEF BuildTxBlock
  <2>2. /\ w \in Nat /\ w <= PacketSize /\ w <= len /\ len \in Nat /\ len < USB_NO_MSG
        /\ (w < PacketSize <=> len < PacketSize)
        /\ (~ (len < PacketSize) => w = PacketSize)
    BY <1>2, SizesAre DEF Least
  <2>3. ptr.of \in FlashOrRam /\ ptr.at \in Nat
    BY DEF Pointers
  <2> DEFINE at == ptr.at
             memory == Memory(ptr.of)
             room == Room(ptr.of)
  <2>4. memory \in Seq(Nat) /\ Len(memory) = room /\ room \in Nat /\ at \in Nat
    BY <2>3, MemoryIs
  <2>5. len # 0 => /\ at + len <= room
                   /\ (ptr.of \in DOMAIN Flash) <=> (USB_FLG_MSGPTR_IS_ROM \in flags)
    BY <2>2, SizesAre DEF Within
  <2> DEFINE data == Pointed(ptr, w, flags)
  <2>6. ASSUME NEW i \in 1 .. w
        PROVE  memory[at + i] \in Nat
    <3>1. at + i \in 1 .. Len(memory)
      <4> HIDE DEF memory, at, room, w
      <4> QED
        BY <2>2, <2>4, <2>5
    <3> HIDE DEF memory
    <3> QED
      BY <2>4, <3>1
  <2>7. data = [i \in 1 .. w |-> memory[at + i]]
    <3>1. CASE w = 0
      BY <3>1 DEF Pointed
    <3>2. CASE w # 0
      <4>1. (ptr.of \in DOMAIN Flash) <=> (USB_FLG_MSGPTR_IS_ROM \in flags)
        <5> HIDE DEF w
        <5> QED
          BY <2>2, <2>5, <3>2
      <4> HIDE DEF w
      <4> QED
        BY <4>1 DEF Pointed, Memory
    <3> QED
      BY <3>1, <3>2
  <2> HIDE DEF memory, at, room, w, data
  <2>8. data \in Seq(Nat) /\ Len(data) = w /\ \A i \in 1 .. w : data[i] = memory[at + i]
    BY <2>2, <2>6, <2>7
  <2>9. tx' \in Slots /\ tx'.sending /\ tx'.data = data
    BY <2>1, <2>8 DEF Packet, Slots, data
  <2>10. usbMsgPtr' \in Pointers /\ usbMsgPtr'.of = ptr.of /\ usbMsgPtr'.at = at + w
    BY <2>1, <2>2, <2>4, SMTT(30) DEF Pointers, at
  <2>11. usbTxToken' \in {0, 1} /\ usbTxToken' = 1 - token
    BY <2>1
  <2>12. usbMsgLen' = IF len < PacketSize THEN USB_NO_MSG ELSE len - w
    BY <2>1, <2>2
  <2>13. usbMsgLen' \in 0 .. USB_NO_MSG
    BY <2>2, <2>12, SizesAre
  <2>14. ASSUME usbMsgLen' \in 1 .. USB_NO_MSG - 1
         PROVE  /\ usbMsgPtr'.at + usbMsgLen' <= room
                /\ (ptr.of \in DOMAIN Flash) <=> (USB_FLG_MSGPTR_IS_ROM \in flags)
    <3>1. usbMsgLen' = len - w /\ len # 0
      BY <2>2, <2>12, <2>14, SizesAre
    <3>2. (at + w) + (len - w) = at + len
      BY <2>2, <2>4
    <3> QED
      BY <2>5, <2>10, <3>1, <3>2
  <2>15. Within(usbMsgLen', usbMsgPtr', flags)
    BY <2>10, <2>14 DEF Within, room
  <2>16. /\ Len(tx'.data) = w /\ Len(tx'.data) <= PacketSize
         /\ \A i \in 1 .. w : tx'.data[i] = memory[at + i]
         /\ usbMsgLen' = IF len < PacketSize THEN USB_NO_MSG ELSE len - PacketSize
    BY <2>2, <2>8, <2>9, <2>12
  <2> QED
    BY <2>1, <2>9, <2>10, <2>11, <2>13, <2>15, <2>16 DEF Builds, w, at, memory
<1> QED
  BY <1>1, <1>2
-----------------------------------------------------------------------------
Stages == {"attached", "reset", "ready", "data", "status"}
HostState ==
  [address : {0, Address}, step : 1 .. Done, stage : Stages,
   request : Requests \union {NoRequest}, toggle : {0, 1}, got : Seq(Nat),
   read : [Reads -> Seq(Nat)],
   answer : [request : Requests \union {NoRequest}, bytes : Seq(Nat)]]

MessageInv ==
  /\ usbMsgLen \in 0 .. USB_NO_MSG
  /\ usbMsgFlags \in {{}, {USB_FLG_MSGPTR_IS_ROM}}
  /\ usbMsgPtr \in Pointers
  /\ Within(usbMsgLen, usbMsgPtr, usbMsgFlags)
  /\ usbTxToken \in {0, 1}
  /\ tx \in Slots /\ Len(tx.data) <= PacketSize

DriverInv ==
  /\ mode \in Modes
  /\ usbDeviceAddr \in {0, Address} /\ usbNewDeviceAddr \in {0, Address}
  /\ usbConfiguration \in {0, 1} /\ has_communicated \in BOOLEAN
  /\ MessageInv
  /\ rx \in Requests \union {NoRequest}
  /\ wasReset \in BOOLEAN /\ calibrated \in BOOLEAN /\ se0 \in BOOLEAN

LEMMA ConfigurationNumber ==
  ASSUME DriverInv
  PROVE  usbConfiguration \in Nat /\ (rx # NoRequest => rx \in Requests)
BY DEF DriverInv

(* What a poll leaves of the driver.                                       *)
LEMMA CheckedDriver ==
  ASSUME DriverInv, NEW new \in {0, Address}, CheckReset(new), Polled, MessageInv',
         rx' = NoRequest, usbConfiguration' \in {0, 1}, has_communicated' \in BOOLEAN
  PROVE  DriverInv' /\ UNCHANGED <<mode, host, clean, bounds, se0>>
BY DEF DriverInv, CheckReset, Polled

(* usbProcessRx cuts an answer at wLength, and builds its first packet.    *)
LEMMA AnswerIs ==
  ASSUME DriverInv, rx \in Requests,
         NEW len \in Nat, len < USB_NO_MSG, NEW ptr \in Pointers,
         NEW flags \in {{}, {USB_FLG_MSGPTR_IS_ROM}},
         len > 0 => /\ ptr.at + len <= Room(ptr.of)
                    /\ (ptr.of \in DOMAIN Flash) <=> (USB_FLG_MSGPTR_IS_ROM \in flags),
         Answer(len, ptr, flags)
  PROVE  MessageInv' /\ Builds(0, Least(rx.wLength, len), ptr)
<1> DEFINE limited == Limited(len, rx.wLength)
           wLength == rx.wLength
<1>1. wLength \in Nat
  BY RequestIs
<1> HIDE DEF wLength
<1>2. /\ limited = Least(wLength, len) /\ limited \in 0 .. USB_NO_MSG
      /\ limited # USB_NO_MSG /\ limited <= len
  BY <1>1, SizesAre DEF Limited, Least, wLength
<1>3. BuildTxBlock(NAK, 0, limited, ptr, flags)
  BY DEF Answer
<1> HIDE DEF limited
<1>4. Within(limited, ptr, flags)
  <2>1. SUFFICES ASSUME limited \in 1 .. USB_NO_MSG - 1
                 PROVE  /\ ptr.at + limited <= Room(ptr.of)
                        /\ (ptr.of \in DOMAIN Flash) <=> (USB_FLG_MSGPTR_IS_ROM \in flags)
    BY DEF Within
  <2> DEFINE at == ptr.at
             room == Room(ptr.of)
  <2>2. ptr.of \in FlashOrRam /\ at \in Nat
    BY DEF Pointers
  <2>3. room \in Nat
    BY <2>2, ConfigurationNumber, MemoryIs
  <2>4. len > 0
    BY <1>2, <2>1, SizesAre
  <2> HIDE DEF at, room
  <2>5. at + len <= room
    BY <2>4 DEF at, room
  <2>6. at + limited <= room
    BY <1>2, <2>1, <2>2, <2>3, <2>5
  <2> QED
    BY <2>4, <2>6 DEF at, room
<1>5. /\ NAK \in Slots /\ Len(NAK.data) <= PacketSize /\ ~ NAK.sending
      /\ 0 \in {0, 1}
  BY SizesAre DEF NAK, Slots
<1>6. /\ usbMsgFlags' = flags /\ usbTxToken' \in {0, 1}
      /\ usbMsgLen' \in 0 .. USB_NO_MSG /\ usbMsgPtr' \in Pointers
      /\ Within(usbMsgLen', usbMsgPtr', flags)
      /\ tx' \in Slots /\ Len(tx'.data) <= PacketSize
      /\ ~ NAK.sending /\ limited # USB_NO_MSG => Builds(0, limited, ptr)
  BY <1>2, <1>3, <1>4, <1>5, ConfigurationNumber, BlockIs
<1>7. MessageInv'
  <2>1. Within(usbMsgLen, usbMsgPtr, usbMsgFlags)'
    BY <1>6 DEF Within, Room
  <2> QED
    BY <1>6, <2>1 DEF MessageInv
<1> QED
  BY <1>2, <1>5, <1>6, <1>7 DEF wLength

(* What a request sets usbMsgPtr to is what the device should answer.      *)
Answers(ptr) ==
  /\ Builds(0, LengthOf(rx), ptr)
  /\ (rx.name = "GET_CONFIGURATION" => usbConfiguration = 1) =>
       \A i \in 1 .. LengthOf(rx) : Memory(ptr.of)[ptr.at + i] = Promised(rx)[i]

Polls ==
  /\ DriverInv' /\ UNCHANGED <<mode, host, clean, bounds, se0>>
  /\ rx \in Requests /\ rx' = NoRequest
  /\ usbConfiguration' = IF rx.name = "SET_CONFIGURATION" THEN 1 ELSE usbConfiguration
  /\ \E ptr \in Pointers : Answers(ptr)

(* A request whose length and bytes are those promised is answered as      *)
(* promised.                                                               *)
LEMMA AnswersAre ==
  ASSUME DriverInv, rx \in Requests,
         NEW len \in Nat, len = Len(Promised(rx)), NEW ptr \in Pointers,
         NEW flags \in {{}, {USB_FLG_MSGPTR_IS_ROM}},
         len > 0 => /\ ptr.at + len <= Room(ptr.of)
                    /\ (ptr.of \in DOMAIN Flash) <=> (USB_FLG_MSGPTR_IS_ROM \in flags),
         (rx.name = "GET_CONFIGURATION" => usbConfiguration = 1) =>
           \A i \in 1 .. len : Memory(ptr.of)[ptr.at + i] = Promised(rx)[i],
         Answer(len, ptr, flags)
  PROVE  MessageInv' /\ Answers(ptr)
<1>1. len < USB_NO_MSG /\ LengthOf(rx) = Least(rx.wLength, len)
      /\ LengthOf(rx) \in Nat /\ LengthOf(rx) <= len
  BY PromisedIs DEF DriverInv, LengthOf
<1>2. MessageInv' /\ Builds(0, LengthOf(rx), ptr)
  BY <1>1, AnswerIs
<1>3. ASSUME rx.name = "GET_CONFIGURATION" => usbConfiguration = 1,
             NEW i \in 1 .. LengthOf(rx)
      PROVE  Memory(ptr.of)[ptr.at + i] = Promised(rx)[i]
  <2>1. i \in 1 .. len
    BY <1>1
  <2> QED
    BY <1>3, <2>1
<1> QED
  BY <1>2, <1>3 DEF Answers

LEMMA InRam ==
  ASSUME NEW name \in {"usbTxBuf+9", "usbConfiguration"}
  PROVE  /\ [of |-> name, at |-> 0] \in Pointers /\ name \notin DOMAIN Flash
         /\ name \in FlashOrRam /\ {} \in {{}, {USB_FLG_MSGPTR_IS_ROM}}
         /\ USB_FLG_MSGPTR_IS_ROM \notin {}
         /\ Memory(name) = Ram(name)
BY FlashIs DEF Pointers, FlashOrRam, Memory

(* The requests that are answered from RAM, or not at all.                 *)
LEMMA AnswersFromRam ==
  ASSUME DriverInv, rx \in Requests, NEW name \in {"usbTxBuf+9", "usbConfiguration"},
         NEW len \in 0 .. Room(name), Room(name) \in Nat, len = Len(Promised(rx)),
         (rx.name = "GET_CONFIGURATION" => usbConfiguration = 1) =>
           \A i \in 1 .. len : Ram(name)[i] = Promised(rx)[i],
         AnswerFromRam(name, len)
  PROVE  MessageInv' /\ \E ptr \in Pointers : Answers(ptr)
<1> DEFINE ptr == [of |-> name, at |-> 0]
<1>1. ptr \in Pointers /\ ptr.of = name /\ ptr.at = 0
  BY InRam
<1>2. Answer(len, ptr, {})
  BY DEF AnswerFromRam
<1> HIDE DEF ptr
<1>3. len > 0 => /\ ptr.at + len <= Room(ptr.of)
                 /\ (ptr.of \in DOMAIN Flash) <=> (USB_FLG_MSGPTR_IS_ROM \in {})
  <2>1. 0 + len <= Room(name)
    OBVIOUS
  <2> QED
    BY <1>1, <2>1, InRam
<1>4. ASSUME rx.name = "GET_CONFIGURATION" => usbConfiguration = 1, NEW i \in 1 .. len
      PROVE  Memory(ptr.of)[ptr.at + i] = Promised(rx)[i]
  <2>1. ptr.at + i = i /\ Memory(ptr.of) = Ram(name)
    BY <1>1, InRam
  <2> QED
    BY <1>4, <2>1
<1>5. len \in Nat /\ {} \in {{}, {USB_FLG_MSGPTR_IS_ROM}}
  OBVIOUS
<1>6. MessageInv' /\ Answers(ptr)
  BY <1>1, <1>2, <1>3, <1>4, <1>5, AnswersAre
<1> QED
  BY <1>1, <1>6

LEMMA PollOfStatus ==
  ASSUME DriverInv, GetStatus
  PROVE  Polls
<1>1. rx \in Requests /\ rx.name = "GET_STATUS" /\ rx' = NoRequest
  BY ConfigurationNumber DEF GetStatus, Received
<1>2. Promised(rx) = <<0, 0>> /\ Len(Promised(rx)) = 2
  BY <1>1 DEF Promised
<1>3. Ram("usbTxBuf+9") = <<0, 0>> /\ Room("usbTxBuf+9") = 2
  BY InRam DEF Ram, Room
<1>4. MessageInv' /\ \E ptr \in Pointers : Answers(ptr)
  BY <1>1, <1>2, <1>3, AnswersFromRam DEF GetStatus
<1>5. UNCHANGED application_vars
  BY DEF GetStatus
<1>6. DriverInv' /\ UNCHANGED <<mode, host, clean, bounds, se0>>
  BY <1>1, <1>4, <1>5, CheckedDriver DEF GetStatus, DriverInv, application_vars
<1> QED
  BY <1>1, <1>4, <1>5, <1>6 DEF Polls, application_vars

LEMMA PollOfInterface ==
  ASSUME DriverInv, GetInterface
  PROVE  Polls
<1>1. rx \in Requests /\ rx.name = "GET_INTERFACE" /\ rx' = NoRequest
  BY ConfigurationNumber DEF GetInterface, Received
<1>2. Promised(rx) = <<0>> /\ Len(Promised(rx)) = 1
  BY <1>1 DEF Promised
<1>3. Ram("usbTxBuf+9") = <<0, 0>> /\ Room("usbTxBuf+9") = 2
  BY InRam DEF Ram, Room
<1>4. MessageInv' /\ \E ptr \in Pointers : Answers(ptr)
  BY <1>1, <1>2, <1>3, AnswersFromRam DEF GetInterface
<1>5. UNCHANGED application_vars
  BY DEF GetInterface
<1>6. DriverInv' /\ UNCHANGED <<mode, host, clean, bounds, se0>>
  BY <1>1, <1>4, <1>5, CheckedDriver DEF GetInterface, DriverInv, application_vars
<1> QED
  BY <1>1, <1>4, <1>5, <1>6 DEF Polls, application_vars

LEMMA PollOfConfiguration ==
  ASSUME DriverInv, GetConfiguration
  PROVE  Polls
<1>1. rx \in Requests /\ rx.name = "GET_CONFIGURATION" /\ rx' = NoRequest
  BY ConfigurationNumber DEF GetConfiguration, Received
<1>2. Promised(rx) = <<1>> /\ Len(Promised(rx)) = 1
  BY <1>1 DEF Promised
<1>3. Ram("usbConfiguration") = <<usbConfiguration>> /\ Room("usbConfiguration") = 1
  BY InRam DEF Ram, Room
<1>4. (rx.name = "GET_CONFIGURATION" => usbConfiguration = 1) =>
        \A i \in 1 .. 1 : Ram("usbConfiguration")[i] = Promised(rx)[i]
  BY <1>1, <1>2, <1>3
<1>5. MessageInv' /\ \E ptr \in Pointers : Answers(ptr)
  BY <1>1, <1>2, <1>3, <1>4, AnswersFromRam DEF GetConfiguration
<1>6. UNCHANGED application_vars
  BY DEF GetConfiguration
<1>7. DriverInv' /\ UNCHANGED <<mode, host, clean, bounds, se0>>
  BY <1>1, <1>5, <1>6, CheckedDriver DEF GetConfiguration, DriverInv, application_vars
<1> QED
  BY <1>1, <1>5, <1>6, <1>7 DEF Polls, application_vars

(* The requests that have no data to answer.                               *)
Commanded == rx.name \in {"SET_ADDRESS", "SET_CONFIGURATION", "SET_INTERFACE",
                          "SET_FEATURE", "SET_IDLE"}

LEMMA NoData ==
  ASSUME Commanded
  PROVE  /\ Promised(rx) = << >> /\ Len(Promised(rx)) = 0
         /\ rx.name # "GET_CONFIGURATION"
BY DEF Commanded, Promised

LEMMA PollOfCommand ==
  ASSUME DriverInv, Commanded, rx \in Requests, AnswerFromRam("usbTxBuf+9", 0)
  PROVE  MessageInv' /\ \E ptr \in Pointers : Answers(ptr)
<1>1. Room("usbTxBuf+9") = 2
  BY InRam DEF Room
<1> QED
  BY <1>1, NoData, AnswersFromRam

LEMMA PollOfAddressAnswers ==
  ASSUME DriverInv, SetAddress
  PROVE  Polls
<1>1. rx \in Requests /\ rx.name = "SET_ADDRESS" /\ rx' = NoRequest
  BY ConfigurationNumber DEF SetAddress, Received
<1>2. rx.wValue[2] = Address
  BY <1>1 DEF Requests
<1>3. MessageInv' /\ \E ptr \in Pointers : Answers(ptr)
  BY <1>1, PollOfCommand DEF Commanded, SetAddress
<1>4. UNCHANGED application_vars
  BY DEF SetAddress
<1>5. DriverInv' /\ UNCHANGED <<mode, host, clean, bounds, se0>>
  BY <1>1, <1>2, <1>3, <1>4, CheckedDriver DEF SetAddress, DriverInv, application_vars
<1> QED
  BY <1>1, <1>3, <1>4, <1>5 DEF Polls, application_vars

LEMMA PollOfSetConfiguration ==
  ASSUME DriverInv, SetConfiguration
  PROVE  Polls
<1>1. rx \in Requests /\ rx.name = "SET_CONFIGURATION" /\ rx' = NoRequest
  BY ConfigurationNumber DEF SetConfiguration, Received
<1>2. usbConfiguration' = 1
  BY <1>1 DEF Requests, SetConfiguration
<1>3. MessageInv' /\ \E ptr \in Pointers : Answers(ptr)
  BY <1>1, PollOfCommand DEF Commanded, SetConfiguration
<1>4. DriverInv' /\ UNCHANGED <<mode, host, clean, bounds, se0>>
  BY <1>1, <1>2, <1>3, CheckedDriver DEF SetConfiguration, DriverInv
<1> QED
  BY <1>1, <1>2, <1>3, <1>4 DEF Polls

LEMMA PollOfOther ==
  ASSUME DriverInv, SetInterfaceOrOther
  PROVE  Polls
<1>1. /\ rx \in Requests /\ rx.name \in {"SET_INTERFACE", "SET_FEATURE"}
      /\ rx' = NoRequest
  BY ConfigurationNumber DEF SetInterfaceOrOther, Received
<1>2. MessageInv' /\ \E ptr \in Pointers : Answers(ptr)
  BY <1>1, PollOfCommand DEF Commanded, SetInterfaceOrOther
<1>3. UNCHANGED application_vars
  BY DEF SetInterfaceOrOther
<1>4. DriverInv' /\ UNCHANGED <<mode, host, clean, bounds, se0>>
  BY <1>1, <1>2, <1>3, CheckedDriver DEF SetInterfaceOrOther, DriverInv, application_vars
<1> QED
  BY <1>1, <1>2, <1>3, <1>4 DEF Polls, application_vars

LEMMA PollOfIdle ==
  ASSUME DriverInv, SetIdle
  PROVE  Polls
<1>1. rx \in Requests /\ rx.name = "SET_IDLE" /\ rx' = NoRequest
  BY ConfigurationNumber DEF SetIdle, Received
<1>2. Promised(rx) = << >> /\ Len(Promised(rx)) = 0
  BY <1>1, NoData DEF Commanded
<1>3. usbMsgPtr \in Pointers /\ {} \in {{}, {USB_FLG_MSGPTR_IS_ROM}} /\ 0 \in Nat
  BY DEF DriverInv, MessageInv
<1>4. MessageInv' /\ Answers(usbMsgPtr)
  BY <1>1, <1>2, <1>3, AnswersAre DEF SetIdle
<1>5. usbConfiguration' = usbConfiguration /\ has_communicated' \in BOOLEAN
  BY DEF SetIdle, DriverInv
<1>6. DriverInv' /\ UNCHANGED <<mode, host, clean, bounds, se0>>
  BY <1>1, <1>4, <1>5, CheckedDriver DEF SetIdle, DriverInv
<1> QED
  BY <1>1, <1>3, <1>4, <1>5, <1>6 DEF Polls

LEMMA PollOfDescriptor ==
  ASSUME DriverInv, GetDescriptor
  PROVE  Polls
<1> DEFINE d == usbDriverDescriptor(mode, rx.wValue[1], rx.wValue[2])
           ptr == IF d = Nothing THEN usbMsgPtr ELSE [of |-> d.of, at |-> d.at]
<1>1. /\ rx \in Requests /\ rx.name = "GET_DESCRIPTOR" /\ rx' = NoRequest
      /\ Answer(d.len, ptr, {USB_FLG_MSGPTR_IS_ROM})
  BY ConfigurationNumber DEF GetDescriptor, Received
<1>2. Promised(rx) = IF d = Nothing THEN << >>
                     ELSE SubSeq(Flash[d.of], d.at + 1, d.at + d.len)
  BY <1>1 DEF Promised
<1>3. \/ d = Nothing
      \/ /\ d # Nothing /\ d.of \in DOMAIN Flash /\ d.at \in Nat /\ d.len \in Nat
         /\ d.at + d.len <= Len(Flash[d.of])
  BY <1>1, RequestIs, DescriptorIs DEF DriverInv
<1> HIDE DEF d
<1>4. {USB_FLG_MSGPTR_IS_ROM} \in {{}, {USB_FLG_MSGPTR_IS_ROM}}
      /\ USB_FLG_MSGPTR_IS_ROM \in {USB_FLG_MSGPTR_IS_ROM}
  OBVIOUS
<1>5. MessageInv' /\ \E p \in Pointers : Answers(p)
  <2>1. CASE d = Nothing
    <3>1. ptr = usbMsgPtr /\ ptr \in Pointers /\ d.len = 0 /\ 0 \in Nat
      BY <2>1 DEF Nothing, DriverInv, MessageInv
    <3>2. Len(Promised(rx)) = 0
      BY <1>2, <2>1
    <3> HIDE DEF ptr
    <3> DEFINE len == d.len
    <3>3. /\ len = 0 /\ len \in Nat /\ len = Len(Promised(rx)) /\ ~ (len > 0)
          /\ Answer(len, ptr, {USB_FLG_MSGPTR_IS_ROM})
          /\ \A i \in 1 .. len : Memory(ptr.of)[ptr.at + i] = Promised(rx)[i]
      BY <1>1, <3>1, <3>2
    <3> HIDE DEF len
    <3>4. MessageInv' /\ Answers(ptr)
      BY <1>1, <1>4, <3>1, <3>3, AnswersAre
    <3> QED
      BY <3>1, <3>4
  <2>2. CASE d # Nothing
    <3>1. ptr.of = d.of /\ ptr.at = d.at /\ ptr \in Pointers /\ ptr.of \in DOMAIN Flash
      BY <1>3, <2>2 DEF Pointers, FlashOrRam
    <3> DEFINE array == Flash[d.of]
               at == d.at
               len == d.len
    <3>2. array \in Seq(Nat) /\ at \in Nat /\ len \in Nat /\ at + len <= Len(array)
      BY <1>3, <2>2, FlashIs
    <3>3. Memory(ptr.of) = array /\ Room(ptr.of) = Len(array)
      BY <3>1 DEF Memory, Room
    <3>4. Promised(rx) = SubSeq(array, at + 1, at + len)
      BY <1>2, <2>2
    <3> HIDE DEF ptr, array
    <3>5. /\ Len(Promised(rx)) = len
          /\ \A i \in 1 .. len : Promised(rx)[i] = array[at + i]
      <4> HIDE DEF at, len
      <4> QED
        BY <3>2, <3>4, PartIs
    <3>6. /\ ptr.at + len <= Room(ptr.of)
          /\ (ptr.of \in DOMAIN Flash)
               <=> (USB_FLG_MSGPTR_IS_ROM \in {USB_FLG_MSGPTR_IS_ROM})
      <4>1. ptr.at + len = at + len
        BY <3>1
      <4> QED
        BY <3>1, <3>2, <3>3, <4>1
    <3>7. \A i \in 1 .. len : Memory(ptr.of)[ptr.at + i] = Promised(rx)[i]
      <4>1. ptr.at = at
        BY <3>1
      <4> HIDE DEF at, len
      <4> QED
        BY <3>3, <3>5, <4>1
    <3>8. Answer(len, ptr, {USB_FLG_MSGPTR_IS_ROM})
      BY <1>1 DEF ptr
    <3> HIDE DEF len, at
    <3>9. MessageInv' /\ Answers(ptr)
      BY <1>1, <1>4, <3>1, <3>2, <3>5, <3>6, <3>7, <3>8, AnswersAre
    <3> QED
      BY <3>1, <3>9
  <2> QED
    BY <2>1, <2>2
<1>6. UNCHANGED application_vars
  BY DEF GetDescriptor
<1>7. DriverInv' /\ UNCHANGED <<mode, host, clean, bounds, se0>>
  BY <1>1, <1>5, <1>6, CheckedDriver DEF GetDescriptor, DriverInv, application_vars
<1> QED
  BY <1>1, <1>5, <1>6, <1>7 DEF Polls, application_vars

(* Every request is answered as promised, or would be if the device were   *)
(* configured.                                                             *)
LEMMA PollOfRequest ==
  ASSUME DriverInv, SetAddress \/ OtherPoll
  PROVE  Polls
BY PollOfAddressAnswers, PollOfDescriptor, PollOfStatus, PollOfInterface,
   PollOfConfiguration, PollOfSetConfiguration, PollOfOther, PollOfIdle DEF OtherPoll

(* A poll without a request builds the next packet, if there is one to     *)
(* build.                                                                  *)
LEMMA PollOfNothing ==
  ASSUME DriverInv, NothingReceived
  PROVE  /\ DriverInv' /\ UNCHANGED <<mode, host, clean, bounds, se0, usbConfiguration>>
         /\ rx = NoRequest /\ rx' = NoRequest
         /\ IF tx.sending \/ usbMsgLen = USB_NO_MSG
            THEN UNCHANGED <<tx, usbTxToken, usbMsgLen, usbMsgPtr>>
            ELSE Builds(usbTxToken, usbMsgLen, usbMsgPtr)
<1>1. /\ rx = NoRequest /\ rx' = NoRequest
      /\ UNCHANGED <<usbConfiguration, has_communicated>>
      /\ BuildTxBlock(tx, usbTxToken, usbMsgLen, usbMsgPtr, usbMsgFlags)
  BY DEF NothingReceived, application_vars
<1>2. /\ usbMsgFlags' = usbMsgFlags /\ usbTxToken' \in {0, 1}
      /\ usbMsgLen' \in 0 .. USB_NO_MSG /\ usbMsgPtr' \in Pointers
      /\ Within(usbMsgLen', usbMsgPtr', usbMsgFlags)
      /\ tx' \in Slots /\ Len(tx'.data) <= PacketSize
      /\ ~ tx.sending /\ usbMsgLen # USB_NO_MSG => Builds(usbTxToken, usbMsgLen, usbMsgPtr)
  BY <1>1, ConfigurationNumber, BlockIs DEF DriverInv, MessageInv
<1>3. Within(usbMsgLen, usbMsgPtr, usbMsgFlags)'
  BY <1>2 DEF Within, Room
<1>4. MessageInv'
  BY <1>2, <1>3 DEF MessageInv, DriverInv
<1>5. DriverInv' /\ UNCHANGED <<mode, host, clean, bounds, se0>>
  BY <1>1, <1>4, CheckedDriver DEF NothingReceived, DriverInv
<1>6. tx.sending \/ usbMsgLen = USB_NO_MSG
        => UNCHANGED <<tx, usbTxToken, usbMsgLen, usbMsgPtr>>
  BY <1>1 DEF BuildTxBlock
<1> QED
  BY <1>1, <1>2, <1>5, <1>6
-----------------------------------------------------------------------------
(* What the host has of an answer, with the packet on its way to it, and   *)
(* what the driver has put into packets.                                   *)
Carried == IF tx.sending THEN host.got \o tx.data ELSE host.got
Built ==
  LengthOf(host.request) - (IF usbMsgLen = USB_NO_MSG THEN 0 ELSE usbMsgLen)

(* A request is the one that is due, and the driver has it or answers it.  *)
RequestsInv ==
  /\ host \in HostState
  /\ Waiting => /\ host.request \in Requests
                /\ rx # NoRequest => rx = host.request
                /\ host.stage = "data" <=> host.request.wLength > 0
                /\ host.step < Done => host.request = RequestOf(StepName, host.read)
  /\ host.stage # "data" => host.got = << >>

KnowledgeInv ==
  /\ Learnt(host.step, host.read)
  /\ host.step > 9 => usbConfiguration = 1
  /\ Waiting /\ rx = NoRequest /\ host.request.name = "SET_CONFIGURATION"
       => usbConfiguration = 1

(* What is left of the answer is what the host still has to get; and what  *)
(* it has got, if that is as much as was sent, is the answer so far.       *)
AnswerInv ==
  host.stage = "data" =>
    IF rx # NoRequest THEN host.got = << >> /\ host.toggle = 1
    ELSE
      /\ usbMsgLen # USB_NO_MSG =>
           /\ usbMsgLen <= LengthOf(host.request)
           /\ \A i \in 1 .. usbMsgLen :
                Memory(usbMsgPtr.of)[usbMsgPtr.at + i] = Promised(host.request)[Built + i]
      /\ tx.sending /\ Len(tx.data) < PacketSize => usbMsgLen = USB_NO_MSG
      /\ Begins(Carried, Promised(host.request), Built)
      /\ clean => Len(Carried) = Built /\ (tx.sending <=> usbTxToken = host.toggle)

ReadInv ==
  /\ host.stage \in {"attached", "reset"} => host.answer.request = NoRequest
  /\ host.answer.request.name = "GET_CONFIGURATION" => host.step = Done
  /\ /\ host.answer.request # NoRequest
     /\ clean \/ Len(host.answer.bytes) = LengthOf(host.answer.request)
     => host.answer.bytes
          = SubSeq(Promised(host.answer.request), 1, LengthOf(host.answer.request))

(* Nothing but a restart into the other mode changes what is promised.     *)
LEMMA SamePromise ==
  ASSUME NEW r, mode' = mode
  PROVE  Promised(r)' = Promised(r) /\ LengthOf(r)' = LengthOf(r)
BY DEF Promised, LengthOf

(* Nothing but SET_CONFIGURATION and a restart changes what can be read.   *)
LEMMA SameMemory ==
  ASSUME NEW of, usbConfiguration' = usbConfiguration
  PROVE  Memory(of)' = Memory(of)
BY DEF Memory, Ram

(* A packet is built of an answer that the host waits for.                 *)
LEMMA PacketBuilt ==
  ASSUME DriverInv, DriverInv', host \in HostState, host.request \in Requests,
         UNCHANGED <<mode, host, clean>>, rx' = NoRequest,
         NEW L \in Nat, L = LengthOf(host.request),
         NEW token \in {0, 1}, NEW len \in 0 .. L, NEW ptr \in Pointers,
         Builds(token, len, ptr),
         usbConfiguration' = usbConfiguration \/ len = 0,
         \A i \in 1 .. len :
           Memory(ptr.of)[ptr.at + i] = Promised(host.request)[(L - len) + i],
         Begins(host.got, Promised(host.request), L - len),
         clean => Len(host.got) = L - len /\ token # host.toggle
  PROVE  AnswerInv'
<1> DEFINE w == Least(len, PacketSize)
           b == L - len
<1>1. PICK E \in Seq(Nat) : E = Promised(host.request)
  BY PromisedIs DEF DriverInv
<1>2. PICK got \in Seq(Nat) : got = host.got
  BY DEF HostState
<1>3. PICK data \in Seq(Nat) : data = tx'.data
  BY DEF DriverInv, MessageInv, Slots
<1>4. PICK at \in Nat : at = ptr.at
  BY DEF Pointers
<1>5. L <= Len(E) /\ L < USB_NO_MSG
  BY <1>1, PromisedIs DEF DriverInv
<1>6. /\ w \in Nat /\ w <= len /\ b \in Nat /\ b + w <= L /\ w <= PacketSize
      /\ (len < PacketSize <=> w < PacketSize) /\ (len < PacketSize => w = len)
      /\ (~ (len < PacketSize) => w = PacketSize)
  BY SizesAre DEF Least
<1>7. b + w <= Len(E)
  <2> HIDE DEF b, w
  <2> QED
    BY <1>5, <1>6
<1>8. /\ tx'.sending /\ Len(data) = w /\ usbTxToken' = 1 - token
      /\ usbMsgPtr'.of = ptr.of /\ usbMsgPtr'.at = at + w
      /\ usbMsgLen' = IF len < PacketSize THEN USB_NO_MSG ELSE len - PacketSize
      /\ \A i \in 1 .. w : data[i] = Memory(ptr.of)[ptr.at + i]
  BY <1>3, <1>4 DEF Builds
<1>9. \A i \in 1 .. len : Memory(ptr.of)[at + i] = E[b + i]
  BY <1>1, <1>4
<1> HIDE DEF w, b
<1>10. ASSUME NEW i \in 1 .. w
       PROVE  data[i] = E[b + i]
  <2>1. i \in 1 .. len
    BY <1>6
  <2> QED
    BY <1>4, <1>8, <1>9, <2>1
<1>11. Begins(got, E, b)
  BY <1>1, <1>2 DEF b
<1>12. /\ Begins(got \o data, E, b + w)
       /\ Len(got) = b => Len(got \o data) = b + w
  <2>1. Copied(data, E, b, w) /\ Begins(got, E, b)
    BY <1>8, <1>10, <1>11 DEF Copied
  <2> QED
    BY <1>6, <1>7, <2>1, Continued
<1>13. Carried' = got \o data
  BY <1>2, <1>3, <1>8, ZenonT(30) DEF Carried
<1>14. LengthOf(host.request)' = L /\ Promised(host.request)' = E
  <2>1. PICK r : r = host.request
    OBVIOUS
  <2>2. Promised(r)' = Promised(r) /\ LengthOf(r)' = LengthOf(r)
    BY SamePromise
  <2> QED
    BY <1>1, <2>1, <2>2 DEF Promised, LengthOf
<1>15. Built' = b + w
  <2>1. Built' = L - (IF usbMsgLen' = USB_NO_MSG THEN 0 ELSE usbMsgLen')
    BY <1>14 DEF Built
  <2>2. CASE len < PacketSize
    BY <1>6, <1>8, <2>1, <2>2 DEF b
  <2>3. CASE ~ (len < PacketSize)
    <3>1. usbMsgLen' = len - w /\ usbMsgLen' # USB_NO_MSG
      BY <1>5, <1>6, <1>8, <2>3, SizesAre
    <3> QED
      BY <1>6, <2>1, <3>1 DEF b
  <2> QED
    BY <2>2, <2>3
<1>16. ASSUME usbMsgLen' # USB_NO_MSG
       PROVE  /\ usbMsgLen' <= L
              /\ \A i \in 1 .. usbMsgLen' :
                   Memory(usbMsgPtr.of)'[usbMsgPtr'.at + i] = E[(b + w) + i]
  <2>1. ~ (len < PacketSize) /\ usbMsgLen' = len - w /\ len # 0
    BY <1>6, <1>8, <1>16, SizesAre
  <2>2. usbConfiguration' = usbConfiguration
    BY <2>1
  <2>3. PICK of : of = ptr.of
    OBVIOUS
  <2>4. Memory(usbMsgPtr.of)' = Memory(of)
    <3>1. Memory(of)' = Memory(of)
      BY <2>2, SameMemory
    <3>2. usbMsgPtr'.of = of
      BY <1>8, <2>3
    <3> QED
      BY <3>1, <3>2 DEF Memory, Ram
  <2>5. ASSUME NEW i \in 1 .. len - w
        PROVE  Memory(of)[(at + w) + i] = E[(b + w) + i]
    <3>1. w + i \in 1 .. len /\ at + (w + i) = (at + w) + i /\ b + (w + i) = (b + w) + i
      BY <1>6
    <3>2. Memory(of)[at + (w + i)] = E[b + (w + i)]
      BY <1>9, <2>3, <3>1
    <3> QED
      BY <3>1, <3>2
  <2>6. len - w <= L
    BY <1>6
  <2> QED
    BY <1>8, <2>1, <2>4, <2>5, <2>6
<1>17. tx'.sending /\ Len(tx'.data) < PacketSize => usbMsgLen' = USB_NO_MSG
  BY <1>3, <1>6, <1>8
<1>18. clean' => Len(Carried') = Built' /\ (tx'.sending <=> usbTxToken' = host'.toggle)
  <2> SUFFICES ASSUME clean'
               PROVE  Len(Carried') = Built' /\ (tx'.sending <=> usbTxToken' = host'.toggle)
    OBVIOUS
  <2>1. Len(got) = b /\ token # host.toggle
    BY <1>2 DEF b
  <2>2. host.toggle \in {0, 1}
    BY DEF HostState
  <2>3. usbTxToken' = host'.toggle
    BY <1>8, <2>1, <2>2
  <2> QED
    BY <1>8, <1>12, <1>13, <1>15, <2>1, <2>3
<1>19. Begins(Carried', E, Built')
  BY <1>12, <1>13, <1>15
<1> QED
  BY <1>14, <1>15, <1>16, <1>17, <1>18, <1>19 DEF AnswerInv

(* A request that the driver has and the host waits for.                   *)
LEMMA WaitingRequest ==
  ASSUME RequestsInv, KnowledgeInv, Waiting
  PROVE  /\ host.request \in Requests
         /\ host.step < Done => Due(host.step, host.request)
         /\ host.request.name = "GET_CONFIGURATION" => usbConfiguration = 1
<1>1. host \in HostState /\ host.request \in Requests
  BY DEF RequestsInv
<1>2. host.step \in 1 .. 12 /\ host.read \in [Reads -> Seq(Nat)]
  BY <1>1, FirstEleven DEF HostState
<1>3. ASSUME host.step < Done
      PROVE  Due(host.step, host.request)
  <2>1. host.step \in 1 .. 11
    BY <1>2, <1>3, FirstEleven
  <2>2. Due(host.step, RequestOf(Enumerating[host.step], host.read))
    BY <1>2, <2>1, StepRequests DEF KnowledgeInv
  <2> QED
    BY <1>3, <2>2 DEF RequestsInv, StepName
<1>4. host.request.name = "GET_CONFIGURATION" => host.step = 12
  BY <1>2, <1>3, FirstEleven DEF Due
<1>5. host.step = 12 => usbConfiguration = 1
  BY DEF KnowledgeInv
<1> QED
  BY <1>1, <1>3, <1>4, <1>5

LEMMA NothingYet ==
  ASSUME NEW E \in Seq(Nat)
  PROVE  Begins(<< >>, E, 0)
BY DEF Begins

EnumeratingInv == DriverInv /\ RequestsInv /\ KnowledgeInv /\ AnswerInv /\ ReadInv

LEMMA PollKeepsReads ==
  ASSUME EnumeratingInv, UNCHANGED <<mode, host, clean>>, rx' = NoRequest,
         usbConfiguration' \in {usbConfiguration, 1},
         host.request.name = "SET_CONFIGURATION" /\ rx # NoRequest /\ Waiting
           => usbConfiguration' = 1
  PROVE  RequestsInv' /\ KnowledgeInv' /\ ReadInv'
<1> USE DEF EnumeratingInv
<1>1. RequestsInv'
  BY DEF RequestsInv, Waiting, StepName
<1>2. KnowledgeInv'
  BY DEF KnowledgeInv, Learnt, Waiting
<1>3. ReadInv'
  <2>1. PICK answer : answer = host.answer
    OBVIOUS
  <2>2. /\ Promised(answer.request)' = Promised(answer.request)
        /\ LengthOf(answer.request)' = LengthOf(answer.request)
    BY SamePromise
  <2> QED
    BY <2>1, <2>2 DEF ReadInv, Promised, LengthOf
<1> QED
  BY <1>1, <1>2, <1>3

(* A poll that builds the next packet.                                     *)
LEMMA PollOfNothingStep ==
  ASSUME EnumeratingInv, NothingReceived
  PROVE  EnumeratingInv'
<1> USE DEF EnumeratingInv
<1>1. /\ DriverInv' /\ UNCHANGED <<mode, host, clean, usbConfiguration>>
      /\ rx = NoRequest /\ rx' = NoRequest
      /\ IF tx.sending \/ usbMsgLen = USB_NO_MSG
         THEN UNCHANGED <<tx, usbTxToken, usbMsgLen, usbMsgPtr>>
         ELSE Builds(usbTxToken, usbMsgLen, usbMsgPtr)
  BY PollOfNothing
<1>2. RequestsInv' /\ KnowledgeInv' /\ ReadInv'
  BY <1>1, PollKeepsReads
<1>3. AnswerInv'
  <2>1. CASE host.stage # "data"
    BY <1>1, <2>1 DEF AnswerInv
  <2>2. CASE host.stage = "data" /\ (tx.sending \/ usbMsgLen = USB_NO_MSG)
    <3>1. UNCHANGED <<mode, host, clean, usbConfiguration, rx, tx, usbTxToken, usbMsgLen,
                      usbMsgPtr>>
      BY <1>1, <2>2
    <3>2. PICK request : request = host.request
      OBVIOUS
    <3>3. PICK of : of = usbMsgPtr.of
      OBVIOUS
    <3>4. /\ Promised(request)' = Promised(request) /\ LengthOf(request)' = LengthOf(request)
          /\ Memory(of)' = Memory(of)
      BY <3>1, SamePromise, SameMemory
    <3>5. /\ Promised(host.request)' = Promised(host.request)
          /\ LengthOf(host.request)' = LengthOf(host.request)
          /\ Memory(usbMsgPtr.of)' = Memory(usbMsgPtr.of)
      BY <3>1, <3>2, <3>3, <3>4
    <3>6. Carried' = Carried /\ Built' = Built
      BY <3>1, <3>5 DEF Carried, Built
    <3> QED
      BY <3>1, <3>5, <3>6 DEF AnswerInv
  <2>3. CASE host.stage = "data" /\ ~ (tx.sending \/ usbMsgLen = USB_NO_MSG)
    <3>1. host.request \in Requests /\ host \in HostState
      BY <2>3 DEF RequestsInv, Waiting
    <3>2. PICK L \in Nat : L = LengthOf(host.request)
      BY <3>1, PromisedIs DEF DriverInv
    <3>3. PICK len \in 0 .. L : len = usbMsgLen
      BY <1>1, <2>3, <3>2 DEF AnswerInv, DriverInv, MessageInv
    <3>4. PICK ptr \in Pointers : ptr = usbMsgPtr
      BY DEF DriverInv, MessageInv
    <3>5. PICK token \in {0, 1} : token = usbTxToken
      BY DEF DriverInv, MessageInv
    <3>6. Built = L - len /\ Carried = host.got
      BY <2>3, <3>2, <3>3 DEF Built, Carried
    <3>7. /\ \A i \in 1 .. len :
               Memory(ptr.of)[ptr.at + i] = Promised(host.request)[(L - len) + i]
          /\ Begins(host.got, Promised(host.request), L - len)
          /\ clean => Len(host.got) = L - len /\ token # host.toggle
      BY <1>1, <2>3, <3>3, <3>4, <3>5, <3>6 DEF AnswerInv
    <3>8. Builds(token, len, ptr)
      BY <1>1, <2>3, <3>3, <3>4, <3>5
    <3> QED
      BY <1>1, <3>1, <3>2, <3>7, <3>8, PacketBuilt
  <2> QED
    BY <2>1, <2>2, <2>3
<1> QED
  BY <1>1, <1>2, <1>3

(* A poll that answers a request.                                          *)
LEMMA PollOfRequestStep ==
  ASSUME EnumeratingInv, SetAddress \/ OtherPoll
  PROVE  EnumeratingInv'
<1> USE DEF EnumeratingInv
<1>1. Polls
  BY PollOfRequest
<1>2. /\ DriverInv' /\ UNCHANGED <<mode, host, clean>>
      /\ rx \in Requests /\ rx # NoRequest /\ rx' = NoRequest
      /\ usbConfiguration' = IF rx.name = "SET_CONFIGURATION" THEN 1 ELSE usbConfiguration
  BY <1>1, RequestIs DEF Polls
<1>3. Waiting => rx = host.request /\ host.request \in Requests
  BY <1>2 DEF RequestsInv
<1>4. RequestsInv' /\ KnowledgeInv' /\ ReadInv'
  BY <1>2, <1>3, PollKeepsReads
<1>5. AnswerInv'
  <2>1. CASE host.stage # "data"
    BY <1>2, <2>1 DEF AnswerInv
  <2>2. CASE host.stage = "data"
    <3>1. /\ rx = host.request /\ host.request \in Requests /\ host \in HostState
          /\ host.got = << >> /\ host.toggle = 1 /\ Waiting
      BY <1>2, <1>3, <2>2 DEF RequestsInv, AnswerInv, Waiting
    <3>2. PICK ptr \in Pointers : Answers(ptr)
      BY <1>1 DEF Polls
    <3>3. PICK L \in Nat : L = LengthOf(host.request)
      BY <3>1, PromisedIs DEF DriverInv
    <3>4. rx.name = "GET_CONFIGURATION" => usbConfiguration = 1
      BY <3>1, WaitingRequest
    <3>5. /\ Builds(0, L, ptr)
          /\ \A i \in 1 .. L : Memory(ptr.of)[ptr.at + i] = Promised(host.request)[i]
      BY <3>1, <3>2, <3>3, <3>4 DEF Answers
    <3>6. L - L = 0 /\ L \in 0 .. L
      OBVIOUS
    <3>7. \A i \in 1 .. L :
            Memory(ptr.of)[ptr.at + i] = Promised(host.request)[(L - L) + i]
      BY <3>5
    <3>8. Begins(host.got, Promised(host.request), L - L)
      BY <3>1, <3>6, NothingYet, PromisedIs DEF DriverInv
    <3>9. usbConfiguration' = usbConfiguration \/ L = 0
      <4>1. CASE rx.name = "SET_CONFIGURATION"
        <5>1. Promised(host.request) = << >>
          BY <3>1, <4>1 DEF Promised
        <5> QED
          BY <3>1, <3>3, <5>1, PromisedIs DEF DriverInv
      <4> QED
        BY <1>2, <4>1
    <3>10. clean => Len(host.got) = L - L /\ 0 # host.toggle
      BY <3>1, <3>6
    <3> QED
      BY <1>2, <3>1, <3>3, <3>5, <3>6, <3>7, <3>8, <3>9, <3>10, PacketBuilt
  <2> QED
    BY <2>1, <2>2
<1> QED
  BY <1>2, <1>4, <1>5

(* The last answer is kept.                                                *)
LEMMA ReadKept ==
  ASSUME ReadInv, mode' = mode, host'.answer = host.answer, clean' => clean,
         host.step = Done => host'.step = Done, host'.stage \notin {"attached", "reset"}
  PROVE  ReadInv'
<1>1. PICK answer : answer = host.answer
  OBVIOUS
<1>2. /\ Promised(answer.request)' = Promised(answer.request)
      /\ LengthOf(answer.request)' = LengthOf(answer.request)
  BY SamePromise
<1>3. /\ Promised(host.answer.request)' = Promised(answer.request)
      /\ LengthOf(host.answer.request)' = LengthOf(answer.request)
  BY <1>1, <1>2 DEF Promised, LengthOf
<1> QED
  BY <1>1, <1>3 DEF ReadInv

(* A request of the host.                                                  *)
LEMMA RequestStepKeeps ==
  ASSUME EnumeratingInv, NextRequest \/ Query
  PROVE  EnumeratingInv'
<1> USE DEF EnumeratingInv
<1>1. host \in HostState /\ Learnt(host.step, host.read)
  BY DEF RequestsInv, KnowledgeInv
<1>2. host.step \in 1 .. 12 /\ host.read \in [Reads -> Seq(Nat)]
  BY <1>1, FirstEleven DEF HostState
<1>3. PICK request \in Requests :
        /\ SendSetup(request)
        /\ host.step < Done => request = RequestOf(StepName, host.read)
  <2>1. CASE NextRequest
    <3>1. host.step \in 1 .. 11
      BY <1>2, <2>1, FirstEleven DEF NextRequest
    <3>2. RequestOf(StepName, host.read) \in Requests
      BY <1>1, <1>2, <3>1, StepRequests DEF Due, StepName
    <3> QED
      BY <2>1, <3>2 DEF NextRequest, StepName
  <2>2. CASE Query
    <3>1. PICK request \in Queries : SendSetup(request)
      BY <2>2 DEF Query
    <3>2. ~ (host.step < Done)
      BY <2>2, FirstEleven DEF Query
    <3> QED
      BY <3>1, <3>2, QueriesAre
  <2> QED
    BY <2>1, <2>2
<1>4. /\ UNCHANGED <<device_vars, tx, se0, clean>> /\ rx' = request
      /\ host' = [host EXCEPT
           !.request = request,
           !.stage = IF request.wLength > 0 THEN "data" ELSE "status",
           !.toggle = 1, !.got = << >>]
  BY <1>3 DEF SendSetup
<1>5. DriverInv'
  BY <1>4
  DEF DriverInv, MessageInv, Within, Room, device_vars, address_vars, message_vars,
      application_vars, reset_vars
<1>6. request # NoRequest
  BY RequestIs
<1>7. host' \in HostState
  <2>1. << >> \in Seq(Nat)
    OBVIOUS
  <2> QED
    BY <1>1, <1>4, <2>1 DEF HostState, Stages
<1>8. /\ host'.request = request /\ host'.toggle = 1 /\ host'.got = << >>
      /\ host'.stage = (IF request.wLength > 0 THEN "data" ELSE "status")
      /\ UNCHANGED <<host.step, host.read, host.answer, usbConfiguration, mode>>
  BY <1>1, <1>4 DEF HostState, device_vars, application_vars
<1>9. RequestsInv'
  BY <1>3, <1>4, <1>7, <1>8 DEF RequestsInv, StepName
<1>10. KnowledgeInv'
  BY <1>4, <1>6, <1>8 DEF KnowledgeInv
<1>11. AnswerInv'
  BY <1>4, <1>6, <1>8 DEF AnswerInv
<1>12. ReadInv'
  BY <1>4, <1>8, ReadKept
<1> QED
  BY <1>5, <1>9, <1>10, <1>11, <1>12
-----------------------------------------------------------------------------
(* The packet to the host is gone.                                         *)
LEMMA SentDriver ==
  ASSUME EnumeratingInv, SendPacket
  PROVE  /\ DriverInv' /\ rx = NoRequest /\ rx' = NoRequest
         /\ tx.sending /\ tx' = NAK /\ ~ tx'.sending
         /\ UNCHANGED <<mode, usbMsgLen, usbMsgPtr, usbTxToken, usbConfiguration>>
<1> USE DEF EnumeratingInv
<1>1. /\ rx = NoRequest /\ rx' = NoRequest /\ tx.sending /\ tx' = NAK
      /\ usbDeviceAddr' = usbNewDeviceAddr
      /\ UNCHANGED <<mode, usbNewDeviceAddr, usbMsgLen, usbMsgPtr, usbMsgFlags, usbTxToken,
                     usbConfiguration, has_communicated, wasReset, calibrated, se0>>
  BY DEF SendPacket, message_vars, application_vars, reset_vars
<1>2. NAK \in Slots /\ Len(NAK.data) <= PacketSize /\ ~ NAK.sending
  BY SizesAre DEF NAK, Slots
<1>3. MessageInv'
  BY <1>1, <1>2 DEF DriverInv, MessageInv, Within, Room
<1>4. DriverInv'
  BY <1>1, <1>3 DEF DriverInv
<1> QED
  BY <1>1, <1>2, <1>4

(* No more than the answer has been built.                                 *)
LEMMA BuiltIs ==
  ASSUME EnumeratingInv, host.stage = "data", rx = NoRequest
  PROVE  /\ host.request \in Requests /\ LengthOf(host.request) \in Nat
         /\ Built \in Nat /\ Built <= LengthOf(host.request)
         /\ usbMsgLen = USB_NO_MSG => Built = LengthOf(host.request)
<1>1. host.request \in Requests
  BY DEF EnumeratingInv, RequestsInv, Waiting
<1>2. LengthOf(host.request) \in Nat
  BY <1>1, PromisedIs DEF EnumeratingInv, DriverInv
<1>3. /\ usbMsgLen \in Nat
      /\ usbMsgLen # USB_NO_MSG => usbMsgLen <= LengthOf(host.request)
  BY SizesAre DEF EnumeratingInv, DriverInv, MessageInv, AnswerInv
<1> QED
  BY <1>1, <1>2, <1>3 DEF Built

(* A packet that the host does not take.                                   *)
LEMMA LostStep ==
  ASSUME EnumeratingInv, SendPacket, host' = host, clean' => clean,
         clean' => usbTxToken # host.toggle
  PROVE  EnumeratingInv'
<1> USE DEF EnumeratingInv
<1>1. /\ DriverInv' /\ rx = NoRequest /\ rx' = NoRequest
      /\ tx.sending /\ tx' = NAK /\ ~ tx'.sending
      /\ UNCHANGED <<mode, usbMsgLen, usbMsgPtr, usbTxToken, usbConfiguration>>
  BY SentDriver
<1>2. RequestsInv' /\ KnowledgeInv'
  BY <1>1 DEF RequestsInv, KnowledgeInv, Learnt, Waiting, StepName
<1>3. ReadInv'
  <2>1. host.stage \in {"attached", "reset"} => host.answer.request = NoRequest
    BY DEF ReadInv
  <2>2. CASE host.stage \notin {"attached", "reset"}
    BY <1>1, <2>2, ReadKept
  <2>3. CASE host.stage \in {"attached", "reset"}
    BY <2>1, <2>3 DEF ReadInv, NoRequest
  <2> QED
    BY <2>2, <2>3
<1>4. AnswerInv'
  <2> SUFFICES ASSUME host.stage = "data" PROVE AnswerInv'
    BY DEF AnswerInv
  <2>1. PICK request : request = host.request
    OBVIOUS
  <2>2. PICK of : of = usbMsgPtr.of
    OBVIOUS
  <2>3. /\ Promised(request)' = Promised(request) /\ LengthOf(request)' = LengthOf(request)
        /\ Memory(of)' = Memory(of)
    BY <1>1, SamePromise, SameMemory
  <2>4. /\ Promised(host.request)' = Promised(host.request)
        /\ LengthOf(host.request)' = LengthOf(host.request)
        /\ Memory(usbMsgPtr.of)' = Memory(usbMsgPtr.of)
    BY <1>1, <2>1, <2>2, <2>3
  <2>5. Built' = Built
    BY <1>1, <2>4 DEF Built
  <2>6. host.got \in Seq(Nat) /\ tx.data \in Seq(Nat)
    BY DEF RequestsInv, HostState, DriverInv, MessageInv, Slots
  <2>7. Carried' = host.got /\ Carried = host.got \o tx.data
    BY <1>1 DEF Carried
  <2>8. PICK E : E = Promised(host.request)
    OBVIOUS
  <2>9. Begins(host.got \o tx.data, E, Built)
    BY <1>1, <2>7, <2>8 DEF AnswerInv
  <2>10. Begins(host.got, E, Built)
    <3>1. PICK got \in Seq(Nat) : got = host.got
      BY <2>6
    <3>2. PICK data \in Seq(Nat) : data = tx.data
      BY <2>6
    <3>3. PICK b \in Nat : b = Built
      BY <1>1, BuiltIs
    <3> DEFINE j == got \o data
    <3>4. j \in Seq(Nat) /\ Len(got) <= Len(j) /\ (Len(got) = Len(j) => j = got)
      BY NothingMore
    <3>5. Len(j) <= b /\ (Len(j) = b => j = SubSeq(E, 1, b))
      BY <2>9, <3>1, <3>2, <3>3 DEF Begins
    <3> HIDE DEF j
    <3>6. Len(j) \in Nat /\ Len(got) \in Nat
      BY <3>4
    <3>7. Len(got) <= b /\ (Len(got) = b => Len(j) = b /\ Len(got) = Len(j))
      BY <3>4, <3>5, <3>6
    <3> QED
      BY <3>1, <3>3, <3>4, <3>5, <3>7 DEF Begins
  <2>11. ~ clean'
    BY <1>1 DEF AnswerInv
  <2> QED
    BY <1>1, <2>4, <2>5, <2>7, <2>8, <2>10, <2>11 DEF AnswerInv
<1> QED
  BY <1>1, <1>2, <1>3, <1>4

(* A read that is complete teaches the host what comes next.               *)
LEMMA LearntNext ==
  ASSUME EnumeratingInv, host.stage = "data", host.step < Done, NEW got \in Seq(Nat),
         Begins(got, Promised(host.request), LengthOf(host.request)),
         Complete(StepName, host.request.wLength, got)
  PROVE  /\ Learnt(host.step + 1, [host.read EXCEPT ![StepName] = got])
         /\ host.step # 9
<1> USE DEF EnumeratingInv
<1>1. /\ host.request \in Requests /\ Due(host.step, host.request)
      /\ host.request.wLength > 0 /\ host.request.wLength \in Nat
  BY WaitingRequest, RequestIs DEF Waiting, RequestsInv
<1>2. host.step \in 1 .. 11 /\ host.read \in [Reads -> Seq(Nat)]
  BY FirstEleven DEF RequestsInv, HostState
<1>3. Learnt(host.step, host.read)
  BY DEF KnowledgeInv
<1>4. PICK step \in 1 .. 11 : step = host.step
  BY <1>2
<1>5. PICK read \in [Reads -> Seq(Nat)] : read = host.read
  BY <1>2
<1> DEFINE next == [read EXCEPT ![Enumerating[step]] = got]
<1>6. {"device", "header", "configuration"} \subseteq DOMAIN read
  BY DEF Reads
<1>7. /\ step # 3 => next["device"] = read["device"]
      /\ step # 4 => next["header"] = read["header"]
      /\ step # 5 => next["configuration"] = read["configuration"]
  <2>1. \/ step = 1 \/ step = 2 \/ step = 3 \/ step = 4 \/ step = 5 \/ step = 6
        \/ step = 7 \/ step = 8 \/ step = 9 \/ step = 10 \/ step = 11
    OBVIOUS
  <2>2. /\ step # 3 => Enumerating[step] # "device"
        /\ step # 4 => Enumerating[step] # "header"
        /\ step # 5 => Enumerating[step] # "configuration"
    BY <2>1, StepNames
  <2> QED
    BY <1>6, <2>2
<1>8. /\ step = 3 => next["device"] = got
      /\ step = 4 => next["header"] = got
      /\ step = 5 => next["configuration"] = got
  BY <1>6, StepNames
<1>9. step \in {3, 4, 5} => Len(got) = host.request.wLength
  BY <1>4, StepNames DEF Complete, StepName
<1>10. step = 3 => Len(got) = 18
  BY <1>1, <1>4, <1>9 DEF Due
<1>11. ASSUME NEW wLength \in {9, CONFIG_TOTAL_LENGTH},
              host.request = GetDescriptorOf(DESCRIPTOR_TYPE_CONFIGURATION, 0, wLength),
              Len(got) = host.request.wLength
       PROVE  /\ Len(got) = wLength /\ got[3] = CONFIG_TOTAL_LENGTH
              /\ got[6] = 1
  <2>1. wLength \in {9, 34} /\ wLength \in Nat
    BY DEF CONFIG_TOTAL_LENGTH
  <2>2. PICK E \in Seq(Nat) : E = Promised(host.request)
    BY <1>1, PromisedIs DEF DriverInv
  <2>3. Len(E) = 34 /\ E[3] = CONFIG_TOTAL_LENGTH /\ E[6] = 1
    BY <1>11, <2>1, <2>2, PromisedConfiguration DEF DriverInv, CONFIG_TOTAL_LENGTH
  <2>4. Len(got) = wLength /\ host.request.wLength = wLength
    BY <1>11, <2>1, DescriptorRequestIs DEF DESCRIPTOR_TYPE_CONFIGURATION
  <2>5. LengthOf(host.request) = wLength
    BY <2>1, <2>2, <2>3, <2>4 DEF LengthOf, Least
  <2>6. got = SubSeq(E, 1, wLength)
    BY <2>2, <2>4, <2>5 DEF Begins
  <2>7. 0 + wLength <= Len(E) /\ 0 + wLength = wLength /\ 0 + 1 = 1 /\ 0 \in Nat
    BY <2>1, <2>3
  <2>8. \A i \in 1 .. wLength : SubSeq(E, 0 + 1, 0 + wLength)[i] = E[0 + i]
    BY <2>1, <2>7, PartIs
  <2>9. 3 \in 1 .. wLength /\ 6 \in 1 .. wLength /\ 0 + 3 = 3 /\ 0 + 6 = 6
    BY <2>1
  <2>10. got[3] = E[3] /\ got[6] = E[6]
    BY <2>6, <2>7, <2>8, <2>9
  <2> QED
    BY <2>3, <2>4, <2>10
<1>12. step = 4 => Len(got) = 9 /\ got[3] = CONFIG_TOTAL_LENGTH
  BY <1>1, <1>4, <1>9, <1>11 DEF Due
<1>13. step = 5 => Len(got) = CONFIG_TOTAL_LENGTH /\ got[6] = 1
  BY <1>1, <1>4, <1>9, <1>11 DEF Due
<1>14. step # 9
  BY <1>1, <1>4 DEF Due
<1>15. next = [host.read EXCEPT ![StepName] = got]
  BY <1>4, <1>5 DEF StepName
<1> HIDE DEF next
<1>16. Learnt(step + 1, next)
  <2>1. /\ step + 1 > 3 <=> step = 3 \/ step > 3
        /\ step + 1 > 4 <=> step = 4 \/ step > 4
        /\ step + 1 > 5 <=> step = 5 \/ step > 5
    OBVIOUS
  <2>2. step + 1 > 3 => Len(next["device"]) = 18
    BY <1>3, <1>4, <1>5, <1>7, <1>8, <1>10, <2>1 DEF Learnt
  <2>3. step + 1 > 4 => Len(next["header"]) = 9 /\ next["header"][3] = CONFIG_TOTAL_LENGTH
    BY <1>3, <1>4, <1>5, <1>7, <1>8, <1>12, <2>1 DEF Learnt
  <2>4. step + 1 > 5 => /\ Len(next["configuration"]) = CONFIG_TOTAL_LENGTH
                        /\ next["configuration"][6] = 1
    BY <1>3, <1>4, <1>5, <1>7, <1>8, <1>13, <2>1 DEF Learnt
  <2> QED
    BY <2>2, <2>3, <2>4 DEF Learnt
<1> QED
  BY <1>4, <1>14, <1>15, <1>16

(* A packet that the host takes.                                           *)
LEMMA ReceiveDataKeeps ==
  ASSUME EnumeratingInv, ReceiveData
  PROVE  EnumeratingInv'
<1> USE DEF EnumeratingInv
<1>1. host.stage = "data" /\ usbTxToken = host.toggle /\ SendPacket /\ clean' = clean
  BY DEF ReceiveData, NoFault
<1>2. /\ DriverInv' /\ rx = NoRequest /\ rx' = NoRequest
      /\ tx.sending /\ ~ tx'.sending
      /\ UNCHANGED <<mode, usbMsgLen, usbMsgPtr, usbTxToken, usbConfiguration>>
  BY <1>1, SentDriver
<1>3. host \in HostState /\ host.request \in Requests /\ Waiting
  BY <1>1 DEF RequestsInv, Waiting
<1>4. PICK E \in Seq(Nat) : E = Promised(host.request)
  BY <1>3, PromisedIs DEF DriverInv
<1>5. PICK L \in Nat : L = LengthOf(host.request)
  BY <1>3, PromisedIs DEF DriverInv
<1>6. PICK b \in Nat : b = Built /\ b <= L /\ (usbMsgLen = USB_NO_MSG => b = L)
  BY <1>1, <1>2, <1>5, BuiltIs
<1>7. PICK data \in Seq(Nat) : data = tx.data
  BY DEF DriverInv, MessageInv, Slots
<1>8. PICK before \in Seq(Nat) : before = host.got
  BY <1>3 DEF HostState
<1>9. PICK got \in Seq(Nat) : got = before \o data
  BY ConcatProperties
<1>10. Carried = got
  BY <1>2, <1>7, <1>8, <1>9 DEF Carried
<1>11. /\ Begins(got, E, b)
       /\ clean => Len(got) = b
       /\ Len(data) < PacketSize => usbMsgLen = USB_NO_MSG
       /\ usbMsgLen # USB_NO_MSG =>
            /\ usbMsgLen <= L
            /\ \A i \in 1 .. usbMsgLen :
                 Memory(usbMsgPtr.of)[usbMsgPtr.at + i] = E[b + i]
  BY <1>1, <1>2, <1>4, <1>5, <1>6, <1>7, <1>10 DEF AnswerInv
<1>12. Begins(got, E, L)
  <2>1. Len(got) \in Nat /\ Len(got) <= b
    BY <1>11 DEF Begins
  <2>2. Len(got) <= L /\ (Len(got) = L => b = L)
    BY <1>6, <2>1
  <2> QED
    BY <1>11, <2>2 DEF Begins
<1>13. /\ Promised(host.request)' = Promised(host'.request)
       /\ \A r : Promised(r)' = Promised(r) /\ LengthOf(r)' = LengthOf(r)
  BY <1>2, SamePromise DEF Promised
<1>14. CASE host' = [host EXCEPT !.got = got, !.toggle = 1 - @]
  <2>1. /\ host' \in HostState /\ host'.got = got /\ host'.toggle = 1 - host.toggle
        /\ host'.stage = "data" /\ host'.step = host.step /\ host'.request = host.request
        /\ host'.read = host.read /\ host'.answer = host.answer
        /\ host.toggle \in {0, 1}
    <3>1. host.toggle \in {0, 1} /\ 1 - host.toggle \in {0, 1}
      BY <1>3 DEF HostState
    <3>2. PICK toggle \in {0, 1} : toggle = 1 - host.toggle
      BY <3>1
    <3>3. host' = [host EXCEPT !.got = got, !.toggle = toggle]
      BY <1>14, <3>2
    <3> QED
      BY <1>1, <1>3, <3>1, <3>2, <3>3 DEF HostState, Stages
  <2>2. RequestsInv'
    BY <1>1, <1>2, <1>3, <2>1 DEF RequestsInv, Waiting, StepName
  <2>3. KnowledgeInv'
    BY <1>1, <1>2, <2>1 DEF KnowledgeInv, Waiting
  <2>4. ReadInv'
    BY <1>1, <1>2, <2>1, ReadKept
  <2>5. AnswerInv'
    <3>1. PICK request : request = host.request
      OBVIOUS
    <3>2. PICK of : of = usbMsgPtr.of
      OBVIOUS
    <3>3. /\ Promised(request)' = Promised(request)
          /\ LengthOf(request)' = LengthOf(request)
          /\ Memory(of)' = Memory(of)
      BY <1>2, SamePromise, SameMemory
    <3>4. /\ Promised(host.request)' = E /\ LengthOf(host.request)' = L
          /\ Memory(usbMsgPtr.of)' = Memory(usbMsgPtr.of)
      BY <1>2, <1>4, <1>5, <2>1, <3>1, <3>2, <3>3 DEF Promised, LengthOf, Memory, Ram
    <3>5. Built' = b
      BY <1>2, <1>5, <1>6, <3>4 DEF Built
    <3>6. Carried' = got
      BY <1>2, <2>1 DEF Carried
    <3>7. usbTxToken' # host'.toggle
      BY <1>1, <1>2, <2>1
    <3> QED
      BY <1>1, <1>2, <1>11, <2>1, <3>4, <3>5, <3>6, <3>7 DEF AnswerInv
  <2> QED
    BY <1>2, <2>2, <2>3, <2>4, <2>5
<1>15. CASE /\ Len(data) < PacketSize \/ Len(got) >= host.request.wLength
            /\ EndOfRead(got)
  <2>1. clean => Len(got) = L
    <3>1. CASE Len(data) < PacketSize
      BY <1>6, <1>11, <3>1
    <3>2. CASE Len(got) >= host.request.wLength
      <4>1. L <= host.request.wLength /\ host.request.wLength \in Nat
        BY <1>3, <1>5, PromisedIs, RequestIs DEF DriverInv
      <4>2. Len(got) <= L /\ Len(got) \in Nat
        BY <1>12 DEF Begins
      <4> QED
        BY <3>2, <4>1, <4>2
    <3> QED
      BY <1>15, <3>1, <3>2
  <2> DEFINE advancing == host.step < Done /\ Complete(StepName, host.request.wLength, got)
             ended == [host EXCEPT
               !.stage = "ready", !.got = << >>,
               !.answer = [request |-> host.request, bytes |-> got]]
  <2>2. host' = IF advancing THEN [ended EXCEPT !.step = @ + 1, !.read[StepName] = got]
                ELSE ended
    BY <1>15 DEF EndOfRead
  <2>3. /\ ended \in HostState /\ ended.stage = "ready" /\ ended.got = << >>
        /\ ended.answer = [request |-> host.request, bytes |-> got]
        /\ ended.step = host.step /\ ended.read = host.read
        /\ host.step \in 1 .. Done
    <3>1. << >> \in Seq(Nat) /\ [request |-> host.request, bytes |-> got]
             \in [request : Requests \union {NoRequest}, bytes : Seq(Nat)]
      BY <1>3
    <3> QED
      BY <1>3, <3>1 DEF HostState, Stages
  <2> HIDE DEF advancing, ended
  <2>4. /\ host' \in HostState /\ host'.stage = "ready" /\ host'.got = << >>
        /\ host'.answer = [request |-> host.request, bytes |-> got]
    <3>1. CASE advancing
      <4>1. host.step + 1 \in 1 .. Done
        <5>1. host.step \in 1 .. 12 /\ host.step < 12
          BY <2>3, <3>1, FirstEleven DEF advancing
        <5> QED
          BY <5>1, FirstEleven
      <4>2. [ended.read EXCEPT ![StepName] = got] \in [Reads -> Seq(Nat)]
        BY <2>3 DEF HostState
      <4> QED
        BY <2>2, <2>3, <3>1, <4>1, <4>2 DEF HostState
    <3>2. CASE ~ advancing
      BY <2>2, <2>3, <3>2
    <3> QED
      BY <3>1, <3>2
  <2>5. /\ advancing => /\ host'.step = host.step + 1
                        /\ host'.read = [host.read EXCEPT ![StepName] = got]
        /\ ~ advancing => host'.step = host.step /\ host'.read = host.read
    BY <2>2, <2>3 DEF HostState
  <2>6. RequestsInv'
    BY <2>4 DEF RequestsInv, Waiting
  <2>7. KnowledgeInv'
    <3>1. CASE advancing
      <4>1. /\ Learnt(host.step + 1, [host.read EXCEPT ![StepName] = got])
            /\ host.step # 9 /\ host.step \in Nat
        <5>1. host.step \in Nat
          BY <2>3
        <5>2. Begins(got, Promised(host.request), LengthOf(host.request))
          BY <1>4, <1>5, <1>12
        <5>3. host.step < Done /\ Complete(StepName, host.request.wLength, got)
          BY <3>1 DEF advancing
        <5> QED
          BY <1>1, <5>1, <5>2, <5>3, LearntNext
      <4>2. host'.step > 9 => host.step > 9
        BY <2>5, <3>1, <4>1
      <4> QED
        BY <1>2, <2>4, <2>5, <3>1, <4>1, <4>2 DEF KnowledgeInv, Waiting
    <3>2. CASE ~ advancing
      BY <1>2, <2>4, <2>5, <3>2 DEF KnowledgeInv, Waiting
    <3> QED
      BY <3>1, <3>2
  <2>8. ReadInv'
    <3>1. host.request.name = "GET_CONFIGURATION" => ~ (host.step < Done) /\ host.step = Done
      <4>1. host.step \in 1 .. 12
        BY <2>3, FirstEleven
      <4> QED
        BY <1>3, <4>1, WaitingRequest, FirstEleven DEF Due
    <3>2. host'.answer.request = host.request /\ host'.answer.bytes = got
      BY <2>4
    <3>3. host'.answer.request.name = "GET_CONFIGURATION" => host'.step = Done
      BY <2>5, <3>1, <3>2 DEF advancing
    <3>4. PICK request : request = host.request
      OBVIOUS
    <3>5. Promised(request)' = Promised(request) /\ LengthOf(request)' = LengthOf(request)
      BY <1>2, SamePromise
    <3>6. Promised(host.answer.request)' = E /\ LengthOf(host.answer.request)' = L
      BY <1>4, <1>5, <3>2, <3>4, <3>5 DEF Promised, LengthOf
    <3>7. Len(got) = L => got = SubSeq(E, 1, L)
      BY <1>12 DEF Begins
    <3> QED
      BY <1>1, <2>1, <2>4, <3>2, <3>3, <3>6, <3>7 DEF ReadInv
  <2>9. AnswerInv'
    BY <2>4 DEF AnswerInv
  <2> QED
    BY <1>2, <2>6, <2>7, <2>8, <2>9
<1>16. \/ host' = [host EXCEPT !.got = got, !.toggle = 1 - @]
       \/ /\ Len(data) < PacketSize \/ Len(got) >= host.request.wLength
          /\ EndOfRead(got)
  BY <1>7, <1>8, <1>9 DEF ReceiveData
<1> QED
  BY <1>14, <1>15, <1>16

(* The status of a command, or of an address.                              *)
LEMMA ReceiveStatusKeeps ==
  ASSUME EnumeratingInv, ReceiveStatus
  PROVE  EnumeratingInv'
<1> USE DEF EnumeratingInv
<1>1. host.stage = "status" /\ SendPacket /\ clean' = clean
  BY DEF ReceiveStatus, NoFault
<1>2. /\ DriverInv' /\ rx = NoRequest /\ rx' = NoRequest
      /\ mode' = mode /\ usbConfiguration' = usbConfiguration
  BY <1>1, SentDriver
<1>3. host \in HostState /\ host.request \in Requests /\ Waiting /\ host.got = << >>
  BY <1>1 DEF RequestsInv, Waiting
<1>4. PICK step \in 1 .. 12 : step = host.step
  BY <1>3, FirstEleven DEF HostState
<1>5. PICK next \in 1 .. 12 : next = IF step < Done THEN step + 1 ELSE step
  BY FirstEleven
<1>6. PICK address \in {0, Address} :
        address = IF host.request.name = "SET_ADDRESS" THEN host.request.wValue[2]
                  ELSE host.address
  BY <1>3 DEF HostState, Requests
<1>7. host' = [host EXCEPT !.stage = "ready", !.address = address, !.step = next]
  BY <1>4, <1>5, <1>6 DEF ReceiveStatus
<1>8. /\ host' \in HostState /\ host'.stage = "ready" /\ host'.step = next
      /\ host'.read = host.read /\ host'.answer = host.answer /\ host'.got = << >>
  BY <1>3, <1>7, FirstEleven DEF HostState, Stages
<1>9. RequestsInv' /\ AnswerInv'
  BY <1>8 DEF RequestsInv, AnswerInv, Waiting
<1>10. ReadInv'
  <2>1. host.step = Done => host'.step = Done
    BY <1>4, <1>5, <1>8, FirstEleven
  <2> QED
    BY <1>1, <1>2, <1>8, <2>1, ReadKept
<1>11. KnowledgeInv'
  <2>1. CASE step < 12
    <3>1. Due(step, host.request)
      BY <1>3, <1>4, <2>1, WaitingRequest, FirstEleven
    <3>2. ~ (host.request.wLength > 0)
      BY <1>1, <1>3 DEF RequestsInv
    <3>3. step # 3 /\ step # 4 /\ step # 5
      <4>1. step = 3 => host.request.wLength = 18
        BY <3>1 DEF Due
      <4>2. step = 4 => host.request.wLength = 9
        <5>1. /\ DESCRIPTOR_TYPE_CONFIGURATION \in Nat /\ 9 \in Nat /\ 0 \in Nat
              /\ GetDescriptorOf(DESCRIPTOR_TYPE_CONFIGURATION, 0, 9).wLength = 9
          BY DescriptorRequestIs DEF DESCRIPTOR_TYPE_CONFIGURATION
        <5> QED
          BY <3>1, <5>1 DEF Due
      <4>3. step = 5 => host.request.wLength = 34
        BY <3>1, DescriptorRequestIs
        DEF Due, DESCRIPTOR_TYPE_CONFIGURATION, CONFIG_TOTAL_LENGTH
      <4> QED
        BY <3>2, <4>1, <4>2, <4>3
    <3>4. next = step + 1
      BY <1>5, <2>1, FirstEleven
    <3>5. /\ next > 3 => step > 3
          /\ next > 4 => step > 4
          /\ next > 5 => step > 5
          /\ next > 9 => step > 9 \/ step = 9
      BY <3>3, <3>4
    <3>6. Learnt(step, host.read) /\ (step > 9 => usbConfiguration = 1)
      BY <1>4 DEF KnowledgeInv
    <3>7. Learnt(next, host.read)
      BY <3>5, <3>6 DEF Learnt
    <3>8. step = 9 => usbConfiguration = 1
      BY <1>2, <1>3, <3>1 DEF KnowledgeInv, Due
    <3>9. next > 9 => usbConfiguration = 1
      BY <3>5, <3>6, <3>8
    <3> QED
      BY <1>2, <1>8, <3>7, <3>9 DEF KnowledgeInv, Waiting
  <2>2. CASE ~ (step < 12)
    <3>1. next = step
      BY <1>5, <2>2, FirstEleven
    <3> QED
      BY <1>2, <1>4, <1>8, <3>1 DEF KnowledgeInv, Waiting
  <2> QED
    BY <2>1, <2>2
<1> QED
  BY <1>2, <1>9, <1>10, <1>11

LEMMA UnacceptedKeeps ==
  ASSUME EnumeratingInv, DiscardData \/ LosePacket
  PROVE  EnumeratingInv'
<1>1. CASE DiscardData
  BY <1>1, LostStep DEF DiscardData, NoFault
<1>2. CASE LosePacket
  BY <1>2, LostStep DEF LosePacket, Fault
<1> QED
  BY <1>1, <1>2
-----------------------------------------------------------------------------
(* A host that starts again.                                               *)
LEMMA AttachedIs ==
  /\ Attached \in HostState /\ Attached.stage = "attached" /\ Attached.step = 1
  /\ Attached.got = << >> /\ Attached.answer.request = NoRequest
  /\ [Attached EXCEPT !.stage = "reset"] \in HostState
  /\ [Attached EXCEPT !.stage = "reset"].stage = "reset"
  /\ [Attached EXCEPT !.stage = "reset"].step = 1
  /\ [Attached EXCEPT !.stage = "reset"].got = << >>
  /\ [Attached EXCEPT !.stage = "reset"].answer.request = NoRequest
<1>1. << >> \in Seq(Nat) /\ 1 \in 1 .. Done
  BY FirstEleven
<1> QED
  BY <1>1 DEF Attached, HostState, Stages

LEMMA StartingHost ==
  ASSUME host' \in HostState, host'.stage \in {"attached", "reset"}, host'.step = 1,
         host'.got = << >>, host'.answer.request = NoRequest
  PROVE  RequestsInv' /\ KnowledgeInv' /\ AnswerInv' /\ ReadInv'
BY DEF RequestsInv, KnowledgeInv, Learnt, AnswerInv, ReadInv, Waiting, NoRequest

LEMMA ResetBusKeeps ==
  ASSUME EnumeratingInv, ResetBus
  PROVE  EnumeratingInv'
<1>1. DriverInv'
  BY DEF EnumeratingInv, DriverInv, MessageInv, Within, Room, ResetBus, address_vars,
     message_vars, application_vars
<1>2. host' = [Attached EXCEPT !.stage = "reset"]
  BY DEF ResetBus
<1> QED
  BY <1>1, <1>2, AttachedIs, StartingHost DEF EnumeratingInv

LEMMA DriverKept ==
  ASSUME DriverInv, UNCHANGED <<device_vars, tx, rx>>, se0' \in BOOLEAN
  PROVE  DriverInv'
BY DEF DriverInv, MessageInv, Within, Room, device_vars, address_vars, message_vars,
   application_vars, reset_vars

(* The reset ends.                                                         *)
LEMMA EndResetKeeps ==
  ASSUME EnumeratingInv, EndReset
  PROVE  EnumeratingInv'
<1> USE DEF EnumeratingInv
<1>1. DriverInv'
  BY DriverKept DEF EndReset
<1>2. /\ host \in HostState /\ host.stage = "reset" /\ host.answer.request = NoRequest
      /\ host.got = << >>
      /\ host' = [host EXCEPT !.stage = "ready"]
      /\ usbConfiguration' = usbConfiguration
  BY DEF EndReset, RequestsInv, ReadInv, device_vars, application_vars
<1>3. /\ host' \in HostState /\ host'.stage = "ready"
      /\ host'.answer.request = NoRequest /\ host'.got = << >>
      /\ host'.step = host.step /\ host'.read = host.read
  BY <1>2 DEF HostState, Stages
<1>4. RequestsInv' /\ AnswerInv' /\ KnowledgeInv'
  BY <1>2, <1>3 DEF RequestsInv, AnswerInv, KnowledgeInv, Waiting
<1>5. ReadInv'
  BY <1>3 DEF ReadInv, NoRequest
<1> QED
  BY <1>1, <1>4, <1>5

(* A request is given up.                                                  *)
LEMMA RepeatKeeps ==
  ASSUME EnumeratingInv, Repeat, clean' => clean
  PROVE  EnumeratingInv'
<1> USE DEF EnumeratingInv
<1>1. DriverInv'
  BY DriverKept DEF Repeat, DriverInv
<1>2. /\ host \in HostState
      /\ host' = [host EXCEPT !.stage = "ready", !.got = << >>]
      /\ usbConfiguration' = usbConfiguration /\ mode' = mode
  BY DEF Repeat, RequestsInv, device_vars, application_vars
<1>3. /\ host' \in HostState /\ host'.stage = "ready" /\ host'.got = << >>
      /\ host'.answer = host.answer /\ host'.step = host.step /\ host'.read = host.read
  <2>1. << >> \in Seq(Nat)
    OBVIOUS
  <2> QED
    BY <1>2, <2>1 DEF HostState, Stages
<1>4. RequestsInv' /\ AnswerInv' /\ KnowledgeInv'
  BY <1>2, <1>3 DEF RequestsInv, AnswerInv, KnowledgeInv, Waiting
<1>5. ReadInv'
  BY <1>2, <1>3, ReadKept
<1> QED
  BY <1>1, <1>4, <1>5

LEMMA PoweredUpIs ==
  [of |-> "nothing", at |-> 0] \in Pointers /\ NAK \in Slots /\ Len(NAK.data) <= PacketSize
  /\ USB_NO_MSG \in 0 .. USB_NO_MSG /\ USB_NO_MSG \notin 1 .. USB_NO_MSG - 1
BY SizesAre DEF Pointers, FlashOrRam, NAK, Slots

(* The device starts again in the other mode.                              *)
LEMMA RestartKeeps ==
  ASSUME EnumeratingInv, Restart
  PROVE  EnumeratingInv'
<1>1. MessageInv'
  BY PoweredUpIs DEF Restart, PoweredUp, MessageInv, Within
<1>2. DriverInv'
  BY <1>1 DEF Restart, PoweredUp, DriverInv, Modes
<1>3. host' = Attached
  BY DEF Restart
<1> QED
  BY <1>2, <1>3, AttachedIs, StartingHost DEF EnumeratingInv

LEMMA EnumeratingInit == Init => EnumeratingInv
<1> SUFFICES ASSUME Init PROVE EnumeratingInv
  OBVIOUS
<1>1. MessageInv
  BY PoweredUpIs DEF Init, MessageInv, Within
<1>2. DriverInv
  BY <1>1 DEF Init, DriverInv, Modes
<1>3. host = Attached
  BY DEF Init
<1>4. RequestsInv /\ KnowledgeInv /\ AnswerInv /\ ReadInv
  BY <1>3, AttachedIs
  DEF RequestsInv, KnowledgeInv, Learnt, AnswerInv, ReadInv, Waiting, NoRequest
<1> QED
  BY <1>2, <1>4 DEF EnumeratingInv

LEMMA EnumeratingStutter ==
  ASSUME EnumeratingInv, UNCHANGED vars
  PROVE  EnumeratingInv'
<1> USE DEF EnumeratingInv
<1>1. /\ UNCHANGED <<device_vars, tx, rx, se0, host, clean>>
      /\ UNCHANGED <<mode, usbConfiguration, usbMsgLen, usbMsgPtr, usbTxToken>>
  BY DEF vars, device_vars, application_vars, message_vars
<1>2. DriverInv'
  BY <1>1, DriverKept DEF DriverInv
<1>3. RequestsInv' /\ KnowledgeInv'
  BY <1>1 DEF RequestsInv, KnowledgeInv, Waiting, StepName
<1>4. PICK request : request = host.request
  OBVIOUS
<1>5. PICK answered : answered = host.answer.request
  OBVIOUS
<1>6. PICK of : of = usbMsgPtr.of
  OBVIOUS
<1>7. /\ Promised(request)' = Promised(request) /\ LengthOf(request)' = LengthOf(request)
      /\ Promised(answered)' = Promised(answered) /\ LengthOf(answered)' = LengthOf(answered)
      /\ Memory(of)' = Memory(of)
  BY <1>1, SamePromise, SameMemory
<1>8. /\ Promised(host.request)' = Promised(host.request)
      /\ LengthOf(host.request)' = LengthOf(host.request)
      /\ Promised(host.answer.request)' = Promised(host.answer.request)
      /\ LengthOf(host.answer.request)' = LengthOf(host.answer.request)
      /\ Memory(usbMsgPtr.of)' = Memory(usbMsgPtr.of)
  BY <1>1, <1>4, <1>5, <1>6, <1>7
<1>9. Carried' = Carried /\ Built' = Built
  BY <1>1, <1>8 DEF Carried, Built
<1>10. AnswerInv'
  BY <1>1, <1>8, <1>9 DEF AnswerInv
<1>11. ReadInv'
  BY <1>1, <1>8 DEF ReadInv
<1> QED
  BY <1>2, <1>3, <1>10, <1>11

LEMMA EnumeratingStep == EnumeratingInv /\ [Next]_vars => EnumeratingInv'
<1> SUFFICES ASSUME EnumeratingInv, [Next]_vars PROVE EnumeratingInv'
  OBVIOUS
<1>1. CASE usbPoll
  BY <1>1, PollOfNothingStep, PollOfRequestStep DEF usbPoll, OtherPoll
<1>2. CASE NextRequest \/ Query
  BY <1>2, RequestStepKeeps
<1>3. CASE ReceiveData
  BY <1>3, ReceiveDataKeeps
<1>4. CASE DiscardData \/ LosePacket
  BY <1>4, UnacceptedKeeps
<1>5. CASE ReceiveStatus
  BY <1>5, ReceiveStatusKeeps
<1>6. CASE FirstReset
  BY <1>6, ResetBusKeeps DEF FirstReset
<1>7. CASE EndReset
  BY <1>7, EndResetKeeps
<1>8. CASE TimesOut
  BY <1>8, ResetBusKeeps, RepeatKeeps DEF TimesOut, NoFault
<1>9. CASE Disturbance
  BY <1>9, ResetBusKeeps, RepeatKeeps DEF Disturbance, Fault
<1>10. CASE Restart
  BY <1>10, RestartKeeps
<1>11. CASE UNCHANGED vars
  BY <1>11, EnumeratingStutter
<1> QED
  BY <1>1, <1>2, <1>3, <1>4, <1>5, <1>6, <1>7, <1>8, <1>9, <1>10, <1>11 DEF Next, Host
-----------------------------------------------------------------------------
BoundsInv ==
  /\ faults \in 0 .. MaxFaults /\ restarts \in 0 .. MaxRestarts /\ queries \in 0 .. MaxQueries

LEMMA BoundsAre == MaxFaults \in Nat /\ MaxRestarts \in Nat /\ MaxQueries \in Nat
BY EnumerationAssumption DEF EnumerationAssumption

LEMMA BoundsInit == Init => BoundsInv
BY BoundsAre DEF Init, BoundsInv

(* The counters of faults, restarts and queries stay within their bounds.  *)
LEMMA BoundsStep == BoundsInv /\ [Next]_vars => BoundsInv'
<1> SUFFICES ASSUME BoundsInv, [Next]_vars PROVE BoundsInv'
  OBVIOUS
<1> USE DEF BoundsInv
<1>1. ASSUME NoFault \/ Fault PROVE faults' \in 0 .. MaxFaults
  BY <1>1, BoundsAre DEF NoFault, Fault
<1>2. CASE usbPoll
  <2>1. UNCHANGED bounds
    BY <1>2
    DEF usbPoll, NothingReceived, GetStatus, SetAddress, GetDescriptor, GetConfiguration,
        SetConfiguration, GetInterface, SetInterfaceOrOther, SetIdle, Polled
  <2> QED
    BY <2>1 DEF bounds
<1>3. CASE NextRequest \/ Query
  <2>1. UNCHANGED <<faults, restarts>>
    BY <1>3 DEF NextRequest, Query, SendSetup
  <2>2. queries' \in 0 .. MaxQueries
    BY <1>3, BoundsAre DEF NextRequest, Query
  <2> QED
    BY <2>1, <2>2
<1>4. CASE ReceiveData \/ DiscardData \/ ReceiveStatus \/ LosePacket
  BY <1>1, <1>4 DEF ReceiveData, DiscardData, ReceiveStatus, LosePacket, SendPacket
<1>5. CASE FirstReset \/ TimesOut \/ Disturbance
  BY <1>1, <1>5 DEF FirstReset, TimesOut, Disturbance, ResetBus, Repeat
<1>6. CASE EndReset
  BY <1>1, <1>6 DEF EndReset
<1>7. CASE Restart
  BY <1>7, BoundsAre DEF Restart
<1>8. CASE UNCHANGED vars
  BY <1>8 DEF vars, bounds
<1> QED
  BY <1>2, <1>3, <1>4, <1>5, <1>6, <1>7, <1>8 DEF Next, Host

(* TypeOK gives every array in RAM two bytes; none has more.               *)
LEMMA WithinIsSized ==
  ASSUME NEW of \in FlashOrRam
  PROVE  Room(of) \in Nat /\ Sized(of) \in Nat /\ Room(of) <= Sized(of)
<1>1. CASE of \in DOMAIN Flash
  <2>1. Len(Flash[of]) \in Nat /\ Room(of) = Len(Flash[of]) /\ Sized(of) = Len(Flash[of])
    BY <1>1, FlashIs DEF Room, Sized
  <2> QED
    BY <2>1
<1>2. CASE of \notin DOMAIN Flash
  BY <1>2 DEF Room, Sized
<1> QED
  BY <1>1, <1>2

(* The driver sends from the array that its pointer stands in and never    *)
(* beyond its end, with the flag that belongs to it, whatever the host asks*)
(* for and whatever is lost: TypeOK, for any size of packet and number of  *)
(* faults, restarts and queries. (usbDriverSetup, usbFunctionDescriptor,   *)
(* usbBuildTxBlock, usbDeviceRead.)                                        *)
THEOREM EnumerationTypeCorrect == Spec => []TypeOK
<1>1. EnumerationInv /\ EnumeratingInv /\ BoundsInv => TypeOK
  <2> SUFFICES ASSUME EnumerationInv, EnumeratingInv, BoundsInv PROVE TypeOK
    OBVIOUS
  <2> USE DEF EnumeratingInv
  <2>1. /\ mode \in {"PROGRAMMING", "KEYBOARD"}
        /\ usbDeviceAddr \in {0, Address} /\ usbNewDeviceAddr \in {0, Address}
        /\ usbConfiguration \in Nat /\ has_communicated \in BOOLEAN
        /\ wasReset \in BOOLEAN /\ calibrated \in BOOLEAN /\ se0 \in BOOLEAN
    BY DEF DriverInv, Modes
  <2>2. /\ usbMsgLen \in 0 .. USB_NO_MSG
        /\ usbMsgFlags \in {{}, {USB_FLG_MSGPTR_IS_ROM}}
        /\ usbMsgPtr \in [of : FlashOrRam, at : Nat]
        /\ usbTxToken \in {0, 1}
        /\ tx.sending \in BOOLEAN /\ Len(tx.data) <= PacketSize
    BY DEF DriverInv, MessageInv, Pointers, Slots
  <2>3. ASSUME usbMsgLen \in 1 .. USB_NO_MSG - 1
        PROVE  /\ usbMsgPtr.at + usbMsgLen <= Sized(usbMsgPtr.of)
               /\ (usbMsgPtr.of \in DOMAIN Flash) = (USB_FLG_MSGPTR_IS_ROM \in usbMsgFlags)
    <3>1. PICK of \in FlashOrRam : of = usbMsgPtr.of
      BY <2>2
    <3>2. PICK at \in Nat : at = usbMsgPtr.at
      BY <2>2
    <3>3. at + usbMsgLen <= Room(of)
      BY <2>3, <3>1, <3>2 DEF DriverInv, MessageInv, Within
    <3>4. Room(of) \in Nat /\ Sized(of) \in Nat /\ Room(of) <= Sized(of)
      BY WithinIsSized
    <3>5. at + usbMsgLen <= Sized(of)
      BY <2>2, <3>3, <3>4, SizesAre
    <3>6. (of \in DOMAIN Flash) <=> (USB_FLG_MSGPTR_IS_ROM \in usbMsgFlags)
      BY <2>3, <3>1 DEF DriverInv, MessageInv, Within
    <3> QED
      BY <3>1, <3>2, <3>5, <3>6
  <2>4. rx # NoRequest => rx \in [name : Names, wValue : Nat \X Nat, wLength : Nat]
    BY DEF DriverInv, Requests
  <2>5. /\ host.address \in {0, Address} /\ host.step \in 1 .. Done
        /\ host.stage \in {"attached", "reset", "ready", "data", "status"}
    BY DEF RequestsInv, HostState, Stages
  <2>6. clean \in BOOLEAN
    BY DEF EnumerationInv, StageInv
  <2> QED
    BY <2>6, <2>1, <2>2, <2>3, <2>4, <2>5 DEF TypeOK, BoundsInv
<1> QED
  BY <1>1, EnumerationInitIsOK, EnumerationInductive, EnumeratingInit, EnumeratingStep,
     BoundsInit, BoundsStep, PTL DEF Spec

(* What is promised is what USB has a device answer.                       *)
LEMMA PromisedIsExpected ==
  ASSUME EnumeratingInv, NEW request, request.name = "GET_CONFIGURATION" => host.step = Done
  PROVE  Expected(request) = Promised(request)
<1>1. CASE request.name = "GET_CONFIGURATION"
  <2>1. host.step = 12
    BY <1>1, FirstEleven
  <2>2. host.read["configuration"][6] = 1
    BY <2>1 DEF EnumeratingInv, KnowledgeInv, Learnt
  <2> QED
    BY <1>1, <2>2 DEF Expected, Promised
<1>2. CASE request.name # "GET_CONFIGURATION"
  BY <1>2 DEF Expected, Promised
<1> QED
  BY <1>1, <1>2

(* A read that has the length it should have is what the device promised,  *)
(* for any packet size and however many packets are lost, requests repeated*)
(* and modes changed: no byte of another answer, or of an earlier attempt, *)
(* is ever taken into it; and it has that length if nothing went wrong.    *)
(* (usbProcessRx, usbDriverSetup, usbBuildTxBlock, usbDeviceRead.)         *)
THEOREM ReadsAlwaysIntact == Spec => []ReadsAreIntact
<1>1. EnumeratingInv => ReadsAreIntact
  <2> SUFFICES ASSUME EnumeratingInv, host.answer.request # NoRequest PROVE ReadsAreIntact
    BY DEF ReadsAreIntact
  <2>1. Expected(host.answer.request) = Promised(host.answer.request)
    BY PromisedIsExpected DEF EnumeratingInv, ReadInv
  <2> QED
    BY <2>1 DEF EnumeratingInv, ReadInv, ReadsAreIntact, LengthOf
<1> QED
  BY <1>1, EnumeratingInit, EnumeratingStep, PTL DEF Spec
-----------------------------------------------------------------------------
(* What the reads tell: the array of a read, and what it says.             *)
Telling == {3, 5, 7, 8, 11}

ArrayOf(n) ==
  CASE n = 3 -> "usbDescriptorDevice"
    [] n = 5 -> descriptors_get_configuration(mode).of
    [] n = 7 -> "usbDescriptorStringVendor"
    [] n = 8 -> "usbDescriptorStringDevice"
    [] n = 11 -> descriptors_get_hid_report(mode).of

Truth(n) == Flash[ArrayOf(n)]

TruthInv == \A n \in Telling : host.step > n => host.read[Enumerating[n]] = Truth(n)

Stands(byte, n, E) == \E i \in 1 .. Len(E) : (i = 2 => n = 0) /\ byte = E[i]

FirstByteInv ==
  host.stage = "data" =>
    /\ host.got = << >> => host.toggle = 1
    /\ rx = NoRequest =>
         /\ usbMsgLen # USB_NO_MSG /\ Built < 2 => usbTxToken = Built
         /\ host.got # << >> => Stands(host.got[1], 1, Promised(host.request))
         /\ tx.sending /\ tx.data # << >> =>
              Stands(tx.data[1], usbTxToken, Promised(host.request))
-----------------------------------------------------------------------------
(* An entry of a sequence put after another.                               *)
LEMMA JoinedAt ==
  ASSUME NEW s \in Seq(Nat), NEW t \in Seq(Nat)
  PROVE  /\ s \o t \in Seq(Nat) /\ Len(s \o t) = Len(s) + Len(t)
         /\ \A i \in 1 .. Len(s) : (s \o t)[i] = s[i]
         /\ \A i \in 1 .. Len(t) : (s \o t)[Len(s) + i] = t[i]
<1> DEFINE m == Len(s)
           k == Len(t)
           j == s \o t
<1>1. m \in Nat /\ k \in Nat
  OBVIOUS
<1>2. /\ j \in Seq(Nat) /\ Len(j) = m + k
      /\ \A i \in 1 .. m + k : j[i] = IF i <= m THEN s[i] ELSE t[i - m]
  BY ConcatProperties
<1> HIDE DEF j, m, k
<1>3. \A i \in 1 .. m : j[i] = s[i]
  BY <1>1, <1>2
<1>4. ASSUME NEW i \in 1 .. k
      PROVE  j[m + i] = t[i]
  <2>1. m + i \in 1 .. m + k /\ ~ (m + i <= m) /\ (m + i) - m = i
    BY <1>1
  <2> QED
    BY <1>2, <2>1
<1> QED
  BY <1>2, <1>3, <1>4 DEF j, m, k

(* The bytes of a configuration that the host looks at.                    *)
LEMMA ConfigurationBytes ==
  ASSUME NEW subclass \in Nat, NEW protocol \in Nat, NEW report_length \in Nat
  PROVE  LET config == config_descriptor(subclass, protocol, report_length)
         IN  /\ config \in Seq(Nat) /\ Len(config) = 34
             /\ config[15] = 3 /\ config[16] = subclass /\ config[17] = protocol
             /\ config[26] = report_length /\ config[32] = 8
<1> DEFINE a == <<9, DESCRIPTOR_TYPE_CONFIGURATION, CONFIG_TOTAL_LENGTH, 0, 1, 1, 0, \h80, 50>>
           b == <<9, DESCRIPTOR_TYPE_INTERFACE, 0, 0, 1, \h03, subclass, protocol, 0>>
           c == <<9, DESCRIPTOR_TYPE_HID, \h11, \h01, 0, 1,
                  DESCRIPTOR_TYPE_HID_REPORT, report_length, 0>>
           d == <<7, DESCRIPTOR_TYPE_ENDPOINT, \h81, \h03, 8, 0, 10>>
<1>1. a \in Seq(Nat) /\ Len(a) = 9
  BY DEF DESCRIPTOR_TYPE_CONFIGURATION, CONFIG_TOTAL_LENGTH
<1>2. b \in Seq(Nat) /\ Len(b) = 9 /\ b[6] = 3 /\ b[7] = subclass /\ b[8] = protocol
  BY DEF DESCRIPTOR_TYPE_INTERFACE
<1>3. c \in Seq(Nat) /\ Len(c) = 9 /\ c[8] = report_length
  BY DEF DESCRIPTOR_TYPE_HID, DESCRIPTOR_TYPE_HID_REPORT
<1>4. d \in Seq(Nat) /\ Len(d) = 7 /\ d[5] = 8
  BY DEF DESCRIPTOR_TYPE_ENDPOINT
<1>5. config_descriptor(subclass, protocol, report_length) = ((a \o b) \o c) \o d
  BY DEF config_descriptor
<1> HIDE DEF a, b, c, d
<1> DEFINE ab == a \o b
           abc == ab \o c
           abcd == abc \o d
<1>6. /\ ab \in Seq(Nat) /\ Len(ab) = Len(a) + Len(b)
      /\ \A i \in 1 .. Len(b) : ab[Len(a) + i] = b[i]
  BY <1>1, <1>2, JoinedAt
<1> HIDE DEF ab
<1>7. ab \in Seq(Nat) /\ Len(ab) = 18 /\ ab[15] = 3 /\ ab[16] = subclass /\ ab[17] = protocol
  BY <1>1, <1>2, <1>6
<1>8. /\ abc \in Seq(Nat) /\ Len(abc) = Len(ab) + Len(c)
      /\ \A i \in 1 .. Len(ab) : abc[i] = ab[i]
      /\ \A i \in 1 .. Len(c) : abc[Len(ab) + i] = c[i]
  BY <1>3, <1>7, JoinedAt
<1> HIDE DEF abc
<1>9. /\ abc \in Seq(Nat) /\ Len(abc) = 27 /\ abc[15] = 3 /\ abc[16] = subclass
      /\ abc[17] = protocol /\ abc[26] = report_length
  BY <1>3, <1>7, <1>8
<1>10. /\ abcd \in Seq(Nat) /\ Len(abcd) = Len(abc) + Len(d)
       /\ \A i \in 1 .. Len(abc) : abcd[i] = abc[i]
       /\ \A i \in 1 .. Len(d) : abcd[Len(abc) + i] = d[i]
  BY <1>4, <1>9, JoinedAt
<1>11. abcd = config_descriptor(subclass, protocol, report_length)
  BY <1>5 DEF abc, ab
<1> HIDE DEF abcd
<1>12. /\ abcd \in Seq(Nat) /\ Len(abcd) = 34 /\ abcd[15] = 3 /\ abcd[16] = subclass
       /\ abcd[17] = protocol /\ abcd[26] = report_length /\ abcd[32] = 8
  BY <1>4, <1>9, <1>10
<1> QED
  BY <1>11, <1>12

(* A string descriptor has its length, a type, and the characters, which   *)
(* the host finds again.                                                   *)
LEMMA StringBytes ==
  ASSUME NEW name \in Seq(Nat)
  PROVE  LET string == StringDescriptor(name)
         IN  /\ string \in Seq(Nat) /\ Len(string) = 2 * Len(name) + 2
             /\ string[1] = 2 * Len(name) + 2 /\ string[2] = 3
             /\ \A i \in 1 .. Len(name) : string[2 * i + 1] = name[i] /\ string[2 * i + 2] = 0
             /\ Name(string) = name
<1> DEFINE l == Len(name)
           head == <<2 * l + 2, DESCRIPTOR_TYPE_STRING>>
           tail == [i \in 1 .. 2 * l |-> IF i % 2 = 1 THEN name[(i + 1) \div 2] ELSE 0]
<1>0. l \in Nat
  OBVIOUS
<1>1. head \in Seq(Nat) /\ Len(head) = 2 /\ head[1] = 2 * l + 2 /\ head[2] = 3
  BY DEF DESCRIPTOR_TYPE_STRING
<1>2. ASSUME NEW i \in 1 .. 2 * l, i % 2 = 1
      PROVE  name[(i + 1) \div 2] \in Nat
  <2>1. (i + 1) \div 2 \in 1 .. l
    BY <1>0, <1>2
  <2> QED
    BY <2>1
<1>3. tail \in Seq(Nat) /\ Len(tail) = 2 * l
  BY <1>0, <1>2
<1>4. ASSUME NEW i \in 1 .. l
      PROVE  tail[2 * i - 1] = name[i] /\ tail[2 * i] = 0
  <2>1. /\ 2 * i - 1 \in 1 .. 2 * l /\ (2 * i - 1) % 2 = 1 /\ ((2 * i - 1) + 1) \div 2 = i
        /\ 2 * i \in 1 .. 2 * l /\ (2 * i) % 2 # 1
    BY <1>0
  <2> QED
    BY <2>1
<1>5. StringDescriptor(name) = head \o tail
  BY DEF StringDescriptor
<1> HIDE DEF head, tail
<1> DEFINE string == head \o tail
<1>6. /\ string \in Seq(Nat) /\ Len(string) = Len(head) + Len(tail)
      /\ \A i \in 1 .. Len(head) : string[i] = head[i]
      /\ \A i \in 1 .. Len(tail) : string[Len(head) + i] = tail[i]
  BY <1>1, <1>3, JoinedAt
<1> HIDE DEF string
<1>7. /\ Len(string) = 2 * l + 2 /\ string[1] = 2 * l + 2 /\ string[2] = 3
  BY <1>0, <1>1, <1>3, <1>6
<1>8. ASSUME NEW i \in 1 .. l
      PROVE  string[2 * i + 1] = name[i] /\ string[2 * i + 2] = 0
  <2>1. /\ 2 * i - 1 \in 1 .. Len(tail) /\ 2 + (2 * i - 1) = 2 * i + 1
        /\ 2 * i \in 1 .. Len(tail) /\ 2 + (2 * i) = 2 * i + 2
    BY <1>0, <1>3
  <2>2. string[2 + (2 * i - 1)] = tail[2 * i - 1] /\ string[2 + (2 * i)] = tail[2 * i]
    BY <1>1, <1>6, <2>1
  <2> QED
    BY <1>4, <2>1, <2>2
<1>9. Name(string) = name
  <2>1. (Len(string) - 2) \div 2 = l
    BY <1>0, <1>7
  <2>2. Name(string) = [i \in 1 .. l |-> string[2 * i + 1]]
    BY <2>1 DEF Name
  <2>3. name = [i \in 1 .. l |-> name[i]]
    OBVIOUS
  <2> HIDE DEF l
  <2> QED
    BY <1>8, <2>2, <2>3
<1>10. string = StringDescriptor(name)
  BY <1>5 DEF string
<1> QED
  BY <1>6, <1>7, <1>8, <1>9, <1>10
-----------------------------------------------------------------------------
(* The arrays that the reads are of.                                       *)
Configures(config, subclass, protocol, report) ==
  /\ config \in Seq(Nat) /\ Len(config) = 34
  /\ config[15] = 3 /\ config[16] = subclass /\ config[17] = protocol
  /\ config[26] = Len(report) /\ config[32] = 8

LEMMA ConfigurationArrays ==
  /\ Configures(Flash["config_descriptor_keyboard"], 1, 1, Flash["hid_report_keyboard"])
  /\ Configures(Flash["config_descriptor_rawhid"], 0, 0, Flash["hid_report_rawhid"])
  /\ Len(Flash["hid_report_keyboard"]) = 63 /\ Len(Flash["hid_report_rawhid"]) = 29
<1>1. Len(Flash["hid_report_keyboard"]) = 63
  <2>1. Flash["hid_report_keyboard"] = hid_report_keyboard
    BY DEF Flash
  <2>2. Len(hid_report_keyboard) = 63
    BY DEF hid_report_keyboard
  <2> QED
    BY <2>1, <2>2
<1>2. Len(Flash["hid_report_rawhid"]) = 29
  <2>1. Flash["hid_report_rawhid"] = hid_report_rawhid
    BY DEF Flash
  <2>2. Len(hid_report_rawhid) = 29
    BY DEF hid_report_rawhid
  <2> QED
    BY <2>1, <2>2
<1>3. Configures(Flash["config_descriptor_keyboard"], 1, 1, Flash["hid_report_keyboard"])
  <2>1. Flash["config_descriptor_keyboard"] = config_descriptor(1, 1, 63)
    BY DEF Flash, config_descriptor_keyboard, HID_REPORT_LENGTH_KEYBOARD
  <2> DEFINE config == config_descriptor(1, 1, 63)
  <2>2. /\ config \in Seq(Nat) /\ Len(config) = 34
        /\ config[15] = 3 /\ config[16] = 1 /\ config[17] = 1
        /\ config[26] = 63 /\ config[32] = 8
    BY ConfigurationBytes
  <2> HIDE DEF config
  <2>3. Configures(config, 1, 1, Flash["hid_report_keyboard"])
    BY <1>1, <2>2 DEF Configures
  <2> QED
    BY <2>1, <2>3 DEF config
<1>4. Configures(Flash["config_descriptor_rawhid"], 0, 0, Flash["hid_report_rawhid"])
  <2>1. Flash["config_descriptor_rawhid"] = config_descriptor(0, 0, 29)
    BY DEF Flash, config_descriptor_rawhid, HID_REPORT_LENGTH_RAWHID
  <2> DEFINE config == config_descriptor(0, 0, 29)
  <2>2. /\ config \in Seq(Nat) /\ Len(config) = 34
        /\ config[15] = 3 /\ config[16] = 0 /\ config[17] = 0
        /\ config[26] = 29 /\ config[32] = 8
    BY ConfigurationBytes
  <2> HIDE DEF config
  <2>3. Configures(config, 0, 0, Flash["hid_report_rawhid"])
    BY <1>2, <2>2 DEF Configures
  <2> QED
    BY <2>1, <2>3 DEF config
<1> QED
  BY <1>1, <1>2, <1>3, <1>4

(* No character is taken for the length of a string.                       *)
IsNameString(string) ==
  /\ string \in Seq(Nat) /\ Len(string) = 14
  /\ Name(string) = VENDOR_NAME
  /\ string[1] = 14 /\ string[2] = 3
  /\ \A i \in 3 .. 14 : string[i] > 14 \/ string[i] = 0

LEMMA StringArrays ==
  /\ IsNameString(Flash["usbDescriptorStringVendor"])
  /\ IsNameString(Flash["usbDescriptorStringDevice"])
<1> DEFINE s == StringDescriptor(VENDOR_NAME)
<1>1. /\ Flash["usbDescriptorStringVendor"] = s /\ Flash["usbDescriptorStringDevice"] = s
  BY DEF Flash, DEVICE_NAME
<1>2. /\ s \in Seq(Nat) /\ Len(s) = 2 * 6 + 2 /\ s[1] = 2 * 6 + 2 /\ s[2] = 3
      /\ \A i \in 1 .. 6 : s[2 * i + 1] = VENDOR_NAME[i] /\ s[2 * i + 2] = 0
      /\ Name(s) = VENDOR_NAME
  <2>1. PICK name \in Seq(Nat) : name = VENDOR_NAME /\ Len(name) = 6
    BY NameIs
  <2>2. PICK string : string = StringDescriptor(name)
    OBVIOUS
  <2>3. /\ string \in Seq(Nat) /\ Len(string) = 2 * Len(name) + 2
        /\ string[1] = 2 * Len(name) + 2 /\ string[2] = 3
        /\ \A i \in 1 .. Len(name) : string[2 * i + 1] = name[i] /\ string[2 * i + 2] = 0
        /\ Name(string) = name
    BY <2>2, StringBytes
  <2> QED
    BY <2>1, <2>2, <2>3, SMTT(30)
<1> HIDE DEF s
<1>3. \A i \in 1 .. 6 : VENDOR_NAME[i] > 14
  BY DEF VENDOR_NAME
<1>4. ASSUME NEW i \in 3 .. 14
      PROVE  s[i] > 14 \/ s[i] = 0
  <2>1. \E k \in 1 .. 6 : i = 2 * k + 1 \/ i = 2 * k + 2
    <3>1. /\ (i - 1) \div 2 \in 1 .. 6
          /\ \/ i = 2 * ((i - 1) \div 2) + 1
             \/ i = 2 * ((i - 1) \div 2) + 2
      OBVIOUS
    <3> QED
      BY <3>1
  <2>2. PICK k \in 1 .. 6 : i = 2 * k + 1 \/ i = 2 * k + 2
    BY <2>1
  <2> QED
    BY <1>2, <1>3, <2>2
<1>5. IsNameString(s)
  BY <1>2, <1>4 DEF IsNameString
<1> QED
  BY <1>1, <1>5

LEMMA DeviceArray ==
  /\ "usbDescriptorDevice" \in DOMAIN Flash
  /\ Flash["usbDescriptorDevice"] \in Seq(Nat) /\ Len(Flash["usbDescriptorDevice"]) = 18
  /\ Flash["usbDescriptorDevice"][15] = 1 /\ Flash["usbDescriptorDevice"][16] = 2
<1>1. Flash["usbDescriptorDevice"] = usbDescriptorDevice
  BY DEF Flash
<1>2. /\ Len(usbDescriptorDevice) = 18
      /\ usbDescriptorDevice[15] = 1 /\ usbDescriptorDevice[16] = 2
  BY DEF usbDescriptorDevice
<1> QED
  BY <1>1, <1>2, FlashIs

LEMMA WholeIs ==
  ASSUME NEW s \in Seq(Nat)
  PROVE  SubSeq(s, 1, Len(s)) = s
<1> DEFINE n == Len(s)
           p == SubSeq(s, 0 + 1, 0 + n)
<1>1. n \in Nat /\ 0 + n <= Len(s) /\ n = Len(s)
  OBVIOUS
<1>2. p \in Seq(Nat) /\ Len(p) = n /\ \A i \in 1 .. n : p[i] = s[0 + i]
  BY <1>1, PartIs
<1>3. Len(p) = Len(s) /\ \A i \in 1 .. Len(s) : p[i] = s[i]
  BY <1>1, <1>2
<1>4. p = SubSeq(s, 1, Len(s))
  BY <1>1
<1> HIDE DEF p
<1> QED
  BY <1>2, <1>3, <1>4, SeqEqual

(* An array that is promised whole.                                        *)
LEMMA PromisedWhole ==
  ASSUME NEW of \in DOMAIN Flash, NEW type \in Nat, NEW index \in Nat, NEW wLength \in Nat,
         usbDriverDescriptor(mode, type, index) = Whole(of)
  PROVE  Promised(GetDescriptorOf(type, index, wLength)) = Flash[of]
<1> DEFINE r == GetDescriptorOf(type, index, wLength)
<1>1. r.name = "GET_DESCRIPTOR" /\ r.wValue[1] = type /\ r.wValue[2] = index
  BY DescriptorRequestIs
<1> HIDE DEF r
<1>2. /\ Whole(of).of = of /\ Whole(of).at = 0 /\ Whole(of).len = Len(Flash[of])
      /\ Whole(of) # Nothing
  BY FlashIs DEF Whole, Nothing
<1>3. usbDriverDescriptor(mode, r.wValue[1], r.wValue[2]) = Whole(of)
  BY <1>1
<1>4. Promised(r) = SubSeq(Flash[of], 0 + 1, 0 + Len(Flash[of]))
  BY <1>1, <1>2, <1>3 DEF Promised
<1>5. Flash[of] \in Seq(Nat) /\ Len(Flash[of]) \in Nat
  BY FlashIs
<1>6. Promised(r) = SubSeq(Flash[of], 1, Len(Flash[of]))
  BY <1>4, <1>5
<1> QED
  BY <1>5, <1>6, WholeIs DEF r

Asked(n, request) ==
  /\ Promised(request) = Truth(n) /\ Truth(n) \in Seq(Nat) /\ Len(Truth(n)) > 0
  /\ Len(Truth(n)) <= request.wLength

LEMMA AskedIs ==
  ASSUME NEW n, NEW type \in Nat, NEW index \in Nat, NEW wLength \in Nat,
         ArrayOf(n) \in DOMAIN Flash,
         usbDriverDescriptor(mode, type, index) = Whole(ArrayOf(n)),
         Len(Truth(n)) > 0, Len(Truth(n)) <= wLength
  PROVE  Asked(n, GetDescriptorOf(type, index, wLength))
<1>1. GetDescriptorOf(type, index, wLength).wLength = wLength
  BY DescriptorRequestIs
<1>2. Promised(GetDescriptorOf(type, index, wLength)) = Truth(n)
  BY PromisedWhole DEF Truth
<1> QED
  BY <1>1, <1>2, FlashIs DEF Asked, Truth

(* The request of each of these steps is for the array that the step tells *)
(* of, and all of it.                                                      *)
LEMMA StepAsks ==
  ASSUME EnumeratingInv, TruthInv, Waiting, NEW n \in Telling, host.step = n
  PROVE  Asked(n, host.request)
<1> USE DEF EnumeratingInv
<1>1. host.request = RequestOf(Enumerating[n], host.read)
  BY FirstEleven DEF RequestsInv, StepName, Telling
<1>2. Learnt(n, host.read)
  BY DEF KnowledgeInv
<1>3. mode \in Modes
  BY DEF DriverInv
<1> USE DEF DESCRIPTOR_TYPE_DEVICE, DESCRIPTOR_TYPE_CONFIGURATION, DESCRIPTOR_TYPE_STRING,
            DESCRIPTOR_TYPE_HID, DESCRIPTOR_TYPE_HID_REPORT
<1>4. CASE n = 3
  <2>1. host.request = GetDescriptorOf(DESCRIPTOR_TYPE_DEVICE, 0, 18)
    BY <1>1, <1>4, StepNames DEF RequestOf
  <2>2. ArrayOf(n) = "usbDescriptorDevice"
    BY <1>4 DEF ArrayOf
  <2>3. usbDriverDescriptor(mode, DESCRIPTOR_TYPE_DEVICE, 0) = Whole(ArrayOf(n))
    BY <2>2 DEF usbDriverDescriptor
  <2>4. Len(Truth(n)) = 18 /\ ArrayOf(n) \in DOMAIN Flash
    BY <2>2, DeviceArray DEF Truth
  <2>5. Len(Truth(n)) > 0 /\ Len(Truth(n)) <= 18
    BY <2>4
  <2> QED
    BY <2>1, <2>3, <2>4, <2>5, AskedIs
<1>5. CASE n = 5
  <2>1. host.request = GetDescriptorOf(DESCRIPTOR_TYPE_CONFIGURATION, 0, 34)
    BY <1>1, <1>2, <1>5, StepNames DEF RequestOf, Learnt, CONFIG_TOTAL_LENGTH
  <2>2. ArrayOf(n) = descriptors_get_configuration(mode).of
    BY <1>5 DEF ArrayOf
  <2>3. usbDriverDescriptor(mode, DESCRIPTOR_TYPE_CONFIGURATION, 0) = Whole(ArrayOf(n))
    BY <2>2 DEF usbDriverDescriptor, usbFunctionDescriptor, descriptors_get_configuration,
       Whole
  <2>4. Len(Truth(n)) = 34 /\ ArrayOf(n) \in DOMAIN Flash
    BY <2>2, ConfigurationArrays, FlashIs
    DEF Truth, Configures, descriptors_get_configuration, Whole
  <2>5. Len(Truth(n)) > 0 /\ Len(Truth(n)) <= 34
    BY <2>4
  <2> QED
    BY <2>1, <2>3, <2>4, <2>5, AskedIs
<1>6. n > 3 => host.read["device"][15] = 1 /\ host.read["device"][16] = 2
  BY DeviceArray, StepNames DEF TruthInv, Truth, ArrayOf, Telling
<1>7. CASE n = 7
  <2>1. host.request = GetDescriptorOf(DESCRIPTOR_TYPE_STRING, 1, 255)
    BY <1>1, <1>6, <1>7, StepNames DEF RequestOf
  <2>2. ArrayOf(n) = "usbDescriptorStringVendor"
    BY <1>7 DEF ArrayOf
  <2>3. usbDriverDescriptor(mode, DESCRIPTOR_TYPE_STRING, 1) = Whole(ArrayOf(n))
    BY <2>2 DEF usbDriverDescriptor, Strings
  <2>4. Len(Truth(n)) = 14 /\ ArrayOf(n) \in DOMAIN Flash
    BY <2>2, StringArrays, FlashIs DEF Truth, IsNameString
  <2>5. Len(Truth(n)) > 0 /\ Len(Truth(n)) <= 255
    BY <2>4
  <2>6. ArrayOf(n) \in DOMAIN Flash /\ DESCRIPTOR_TYPE_STRING \in Nat
    BY <2>4
  <2> HIDE DEF DESCRIPTOR_TYPE_STRING
  <2>7. Asked(n, GetDescriptorOf(DESCRIPTOR_TYPE_STRING, 1, 255))
    BY <2>3, <2>5, <2>6, AskedIs
  <2> QED
    BY <2>1, <2>7
<1>8. CASE n = 8
  <2>1. host.request = GetDescriptorOf(DESCRIPTOR_TYPE_STRING, 2, 255)
    BY <1>1, <1>6, <1>8, StepNames DEF RequestOf
  <2>2. ArrayOf(n) = "usbDescriptorStringDevice"
    BY <1>8 DEF ArrayOf
  <2>3. usbDriverDescriptor(mode, DESCRIPTOR_TYPE_STRING, 2) = Whole(ArrayOf(n))
    BY <2>2 DEF usbDriverDescriptor, Strings
  <2>4. Len(Truth(n)) = 14 /\ ArrayOf(n) \in DOMAIN Flash
    BY <2>2, StringArrays, FlashIs DEF Truth, IsNameString
  <2>5. Len(Truth(n)) > 0 /\ Len(Truth(n)) <= 255
    BY <2>4
  <2>6. ArrayOf(n) \in DOMAIN Flash /\ DESCRIPTOR_TYPE_STRING \in Nat
    BY <2>4
  <2> HIDE DEF DESCRIPTOR_TYPE_STRING
  <2>7. Asked(n, GetDescriptorOf(DESCRIPTOR_TYPE_STRING, 2, 255))
    BY <2>3, <2>5, <2>6, AskedIs
  <2> QED
    BY <2>1, <2>7
<1>9. CASE n = 11
  <2>1. host.request
          = GetDescriptorOf(DESCRIPTOR_TYPE_HID_REPORT, 0, host.read["configuration"][26])
    BY <1>1, <1>9, StepNames DEF RequestOf
  <2>2. ArrayOf(n) = descriptors_get_hid_report(mode).of
    BY <1>9 DEF ArrayOf
  <2>3. usbDriverDescriptor(mode, DESCRIPTOR_TYPE_HID_REPORT, 0) = Whole(ArrayOf(n))
    BY <2>2 DEF usbDriverDescriptor, usbFunctionDescriptor, descriptors_get_hid_report, Whole
  <2>4. host.read["configuration"] = Flash[descriptors_get_configuration(mode).of]
    BY <1>9, StepNames DEF TruthInv, Truth, ArrayOf, Telling
  <2>5. /\ Len(Truth(n)) = host.read["configuration"][26] /\ Len(Truth(n)) \in {29, 63}
        /\ ArrayOf(n) \in DOMAIN Flash
    <3>1. CASE mode = "KEYBOARD"
      BY <2>2, <2>4, <3>1, ConfigurationArrays, FlashIs
      DEF Truth, Configures, descriptors_get_configuration, descriptors_get_hid_report, Whole
    <3>2. CASE mode # "KEYBOARD"
      BY <2>2, <2>4, <3>2, ConfigurationArrays, FlashIs
      DEF Truth, Configures, descriptors_get_configuration, descriptors_get_hid_report, Whole
    <3> QED
      BY <3>1, <3>2
  <2>6. Len(Truth(n)) \in Nat /\ Len(Truth(n)) > 0
    BY <2>5
  <2> QED
    BY <2>1, <2>3, <2>5, <2>6, AskedIs
<1> QED
  BY <1>4, <1>5, <1>7, <1>8, <1>9 DEF Telling
-----------------------------------------------------------------------------
(* A packet that is built begins with a byte of the answer.                *)
LEMMA FirstByteBuilt ==
  ASSUME DriverInv, DriverInv', host \in HostState, host.request \in Requests,
         UNCHANGED <<mode, host>>,
         NEW L \in Nat, L = LengthOf(host.request),
         NEW token \in {0, 1}, NEW len \in 0 .. L, NEW ptr \in Pointers,
         Builds(token, len, ptr),
         \A i \in 1 .. len :
           Memory(ptr.of)[ptr.at + i] = Promised(host.request)[(L - len) + i],
         L - len < 2 => token = L - len,
         host.got = << >> => host.toggle = 1,
         host.got # << >> => Stands(host.got[1], 1, Promised(host.request))
  PROVE  FirstByteInv'
<1> DEFINE w == Least(len, PacketSize)
           b == L - len
<1>1. PICK E \in Seq(Nat) : E = Promised(host.request)
  BY PromisedIs DEF DriverInv
<1>2. PICK data \in Seq(Nat) : data = tx'.data
  BY DEF DriverInv, MessageInv, Slots
<1>3. L <= Len(E) /\ Len(E) \in Nat /\ L < USB_NO_MSG
  BY <1>1, PromisedIs DEF DriverInv
<1>4. /\ w \in Nat /\ w <= len /\ b \in Nat /\ b + w <= L
      /\ (~ (len < PacketSize) => w = PacketSize)
  BY SizesAre DEF Least
<1>5. /\ Len(data) = w /\ usbTxToken' = 1 - token
      /\ usbMsgLen' = IF len < PacketSize THEN USB_NO_MSG ELSE len - PacketSize
      /\ \A i \in 1 .. w : data[i] = Memory(ptr.of)[ptr.at + i]
  BY <1>2, ZenonT(30) DEF Builds
<1>6. LengthOf(host.request)' = L /\ Promised(host.request)' = E
  <2>1. PICK r : r = host.request
    OBVIOUS
  <2>2. Promised(r)' = Promised(r) /\ LengthOf(r)' = LengthOf(r)
    BY SamePromise
  <2> QED
    BY <1>1, <2>1, <2>2 DEF Promised, LengthOf
<1>7. ASSUME data # << >>
      PROVE  Stands(data[1], 1 - token, E)
  <2>1. w > 0 /\ 1 \in 1 .. w /\ 1 \in 1 .. len
    <3>1. Len(data) > 0
      BY <1>7
    <3> HIDE DEF w
    <3> QED
      BY <1>4, <1>5, <3>1
  <2>2. data[1] = E[b + 1]
    BY <1>1, <1>5, <2>1
  <2>3. b + 1 \in 1 .. Len(E) /\ (b + 1 = 2 => 1 - token = 0)
    <3>1. PICK n \in Nat : n = Len(E) /\ L <= n
      BY <1>3
    <3>2. PICK k \in Nat : k = w /\ k > 0
      BY <1>4, <2>1
    <3>3. PICK c \in Nat : c = b /\ c + k <= L
      BY <1>4, <3>2
    <3>4. c < 2 => token = c
      BY <3>3
    <3>5. c + 1 \in 1 .. n
      <4>1. PICK l \in Nat : l <= n /\ c + k <= l
        BY <3>1, <3>3
      <4>2. c \in Nat /\ k \in Nat /\ k > 0 /\ n \in Nat
        BY <3>1, <3>2, <3>3
      <4> HIDE DEF w, b
      <4> QED
        BY <4>1, <4>2
    <3>6. c + 1 = 2 => 1 - token = 0
      <4>1. ASSUME c + 1 = 2
            PROVE  token = 1
        BY <3>4, <4>1
      <4> QED
        BY <4>1
    <3> QED
      BY <3>1, <3>3, <3>5, <3>6
  <2> QED
    BY <2>2, <2>3 DEF Stands
<1>8. ASSUME usbMsgLen' # USB_NO_MSG, Built' < 2
      PROVE  usbTxToken' = Built'
  <2>1. ~ (len < PacketSize) /\ usbMsgLen' = len - PacketSize
    BY <1>5, <1>8
  <2>2. Built' = L - usbMsgLen'
    BY <1>6, <1>8 DEF Built
  <2>3. Built' = b + PacketSize
    BY <2>1, <2>2, SizesAre
  <2>4. b = 0 /\ PacketSize = 1
    BY <1>4, <1>8, <2>3, SizesAre
  <2> QED
    BY <1>5, <2>3, <2>4
<1> HIDE DEF w, b
<1> QED
  BY <1>1, <1>2, <1>5, <1>6, <1>7, <1>8 DEF FirstByteInv

LEMMA FirstByteOfNothing ==
  ASSUME EnumeratingInv, FirstByteInv, NothingReceived
  PROVE  FirstByteInv'
<1> USE DEF EnumeratingInv
<1>1. /\ DriverInv' /\ UNCHANGED <<mode, host, clean, usbConfiguration>>
      /\ rx = NoRequest /\ rx' = NoRequest
      /\ IF tx.sending \/ usbMsgLen = USB_NO_MSG
         THEN UNCHANGED <<tx, usbTxToken, usbMsgLen, usbMsgPtr>>
         ELSE Builds(usbTxToken, usbMsgLen, usbMsgPtr)
  BY PollOfNothing
<1>2. CASE host.stage # "data"
  BY <1>1, <1>2 DEF FirstByteInv
<1>3. CASE host.stage = "data" /\ (tx.sending \/ usbMsgLen = USB_NO_MSG)
  <2>1. UNCHANGED <<mode, host, rx, tx, usbTxToken, usbMsgLen>>
    BY <1>1, <1>3
  <2>2. PICK request : request = host.request
    OBVIOUS
  <2>3. Promised(request)' = Promised(request) /\ LengthOf(request)' = LengthOf(request)
    BY <2>1, SamePromise
  <2>4. /\ Promised(host.request)' = Promised(host.request)
        /\ LengthOf(host.request)' = LengthOf(host.request)
    BY <2>1, <2>2, <2>3
  <2>5. Built' = Built
    BY <2>1, <2>4 DEF Built
  <2> QED
    BY <2>1, <2>4, <2>5 DEF FirstByteInv
<1>4. CASE host.stage = "data" /\ ~ (tx.sending \/ usbMsgLen = USB_NO_MSG)
  <2>1. host.request \in Requests /\ host \in HostState
    BY <1>4 DEF RequestsInv, Waiting
  <2>2. PICK L \in Nat : L = LengthOf(host.request)
    BY <2>1, PromisedIs DEF DriverInv
  <2>3. PICK len \in 0 .. L : len = usbMsgLen
    BY <1>1, <1>4, <2>2 DEF AnswerInv, DriverInv, MessageInv
  <2>4. PICK ptr \in Pointers : ptr = usbMsgPtr
    BY DEF DriverInv, MessageInv
  <2>5. PICK token \in {0, 1} : token = usbTxToken
    BY DEF DriverInv, MessageInv
  <2>6. Built = L - len
    BY <1>4, <2>2, <2>3 DEF Built
  <2>7. \A i \in 1 .. len :
          Memory(ptr.of)[ptr.at + i] = Promised(host.request)[(L - len) + i]
    BY <1>1, <1>4, <2>3, <2>4, <2>6 DEF AnswerInv
  <2>8. Builds(token, len, ptr)
    BY <1>1, <1>4, <2>3, <2>4, <2>5
  <2>9. /\ L - len < 2 => token = L - len
        /\ host.got = << >> => host.toggle = 1
        /\ host.got # << >> => Stands(host.got[1], 1, Promised(host.request))
    BY <1>1, <1>4, <2>5, <2>6 DEF FirstByteInv
  <2> QED
    BY <1>1, <2>1, <2>2, <2>7, <2>8, <2>9, FirstByteBuilt
<1> QED
  BY <1>2, <1>3, <1>4

LEMMA FirstByteOfRequest ==
  ASSUME EnumeratingInv, FirstByteInv, SetAddress \/ OtherPoll
  PROVE  FirstByteInv'
<1> USE DEF EnumeratingInv
<1>1. Polls
  BY PollOfRequest
<1>2. /\ DriverInv' /\ UNCHANGED <<mode, host, clean>>
      /\ rx \in Requests /\ rx # NoRequest /\ rx' = NoRequest
  BY <1>1, RequestIs DEF Polls
<1>3. CASE host.stage # "data"
  BY <1>2, <1>3 DEF FirstByteInv
<1>4. CASE host.stage = "data"
  <2>1. /\ rx = host.request /\ host.request \in Requests /\ host \in HostState
        /\ host.got = << >> /\ host.toggle = 1 /\ Waiting
    BY <1>2, <1>4 DEF RequestsInv, AnswerInv, Waiting
  <2>2. PICK ptr \in Pointers : Answers(ptr)
    BY <1>1 DEF Polls
  <2>3. PICK L \in Nat : L = LengthOf(host.request)
    BY <2>1, PromisedIs DEF DriverInv
  <2>4. rx.name = "GET_CONFIGURATION" => usbConfiguration = 1
    BY <2>1, WaitingRequest
  <2>5. /\ Builds(0, L, ptr)
        /\ \A i \in 1 .. L : Memory(ptr.of)[ptr.at + i] = Promised(host.request)[i]
    BY <2>1, <2>2, <2>3, <2>4 DEF Answers
  <2>6. L - L = 0 /\ L \in 0 .. L
    OBVIOUS
  <2>7. \A i \in 1 .. L :
          Memory(ptr.of)[ptr.at + i] = Promised(host.request)[(L - L) + i]
    BY <2>5
  <2>8. /\ L - L < 2 => 0 = L - L
        /\ host.got = << >> => host.toggle = 1
        /\ host.got # << >> => Stands(host.got[1], 1, Promised(host.request))
    BY <2>1, <2>6
  <2> QED
    BY <1>2, <2>1, <2>3, <2>5, <2>6, <2>7, <2>8, FirstByteBuilt
<1> QED
  BY <1>3, <1>4

(* What the host has got begins with a byte of the answer, if a packet     *)
(* that it took does.                                                      *)
LEMMA FirstByteKept ==
  ASSUME FirstByteInv, UNCHANGED <<mode, rx, usbTxToken, usbMsgLen>>,
         tx' = tx \/ ~ tx'.sending,
         host'.stage = "data" =>
           /\ host.stage = "data" /\ host'.request = host.request
           /\ host'.got = << >> => host'.toggle = 1
           /\ rx = NoRequest /\ host'.got # << >>
                => Stands(host'.got[1], 1, Promised(host.request))
  PROVE  FirstByteInv'
<1> SUFFICES ASSUME host'.stage = "data" PROVE FirstByteInv'
  BY DEF FirstByteInv
<1>1. PICK request : request = host.request
  OBVIOUS
<1>2. Promised(request)' = Promised(request) /\ LengthOf(request)' = LengthOf(request)
  BY SamePromise
<1>3. /\ Promised(host.request)' = Promised(host.request)
      /\ LengthOf(host.request)' = LengthOf(host.request)
  BY <1>1, <1>2 DEF Promised, LengthOf
<1>4. Built' = Built
  BY <1>3 DEF Built
<1> QED
  BY <1>3, <1>4 DEF FirstByteInv

(* What the host has with the packet that it takes.                        *)
LEMMA GotIs ==
  ASSUME EnumeratingInv, FirstByteInv, host.stage = "data", rx = NoRequest, tx.sending,
         usbTxToken = host.toggle, NEW got, got = host.got \o tx.data
  PROVE  /\ got \in Seq(Nat)
         /\ Begins(got, Promised(host.request), LengthOf(host.request))
         /\ got # << >> => Stands(got[1], 1, Promised(host.request))
<1> USE DEF EnumeratingInv
<1>1. PICK before \in Seq(Nat) : before = host.got
  BY DEF RequestsInv, HostState
<1>2. PICK data \in Seq(Nat) : data = tx.data
  BY DEF DriverInv, MessageInv, Slots
<1>3. /\ got = before \o data /\ got \in Seq(Nat) /\ Len(got) = Len(before) + Len(data)
      /\ before # << >> => got[1] = before[1]
      /\ before = << >> => got = data
  <2>1. got = before \o data
    BY <1>1, <1>2
  <2>2. before # << >> => 1 \in 1 .. Len(before)
    OBVIOUS
  <2>3. before = << >> => got = data
    BY <2>1
  <2> QED
    BY <2>1, <2>2, <2>3, JoinedAt
<1>4. Begins(got, Promised(host.request), LengthOf(host.request))
  <2>1. PICK L \in Nat, b \in Nat : L = LengthOf(host.request) /\ b = Built /\ b <= L
    BY BuiltIs
  <2>2. Begins(got, Promised(host.request), b)
    BY <1>1, <1>2, <1>3, <2>1 DEF AnswerInv, Carried
  <2>3. PICK l \in Nat : l = Len(got)
    BY <1>3
  <2>4. l <= b
    BY <2>2, <2>3 DEF Begins
  <2>5. l <= L /\ (l = L => b = L)
    BY <2>1, <2>4
  <2>6. Begins(got, Promised(host.request), L)
    BY <2>2, <2>3, <2>5 DEF Begins
  <2> QED
    BY <2>1, <2>6
<1>5. ASSUME got # << >>
      PROVE  Stands(got[1], 1, Promised(host.request))
  <2>1. CASE before # << >>
    BY <1>1, <1>3, <2>1 DEF FirstByteInv
  <2>2. CASE before = << >>
    <3>1. host.toggle = 1 /\ data # << >>
      BY <1>1, <1>3, <1>5, <2>2 DEF FirstByteInv
    <3>2. Stands(data[1], usbTxToken, Promised(host.request))
      BY <1>2, <3>1 DEF FirstByteInv
    <3> QED
      BY <1>3, <2>2, <3>1, <3>2
  <2> QED
    BY <2>1, <2>2
<1> QED
  BY <1>3, <1>4, <1>5

LEMMA FirstByteTaken ==
  ASSUME EnumeratingInv, FirstByteInv, ReceiveData
  PROVE  FirstByteInv'
<1> USE DEF EnumeratingInv
<1>1. host.stage = "data" /\ usbTxToken = host.toggle /\ SendPacket
  BY DEF ReceiveData
<1>2. /\ rx = NoRequest /\ rx' = NoRequest /\ tx.sending /\ ~ tx'.sending
      /\ UNCHANGED <<mode, usbMsgLen, usbTxToken>>
  BY <1>1, SentDriver
<1>3. host \in HostState /\ PacketSize \in Nat /\ PacketSize > 0
  BY SizesAre DEF RequestsInv
<1>4. PICK got : got = host.got \o tx.data
  OBVIOUS
<1>5. got # << >> => Stands(got[1], 1, Promised(host.request))
  BY <1>1, <1>2, <1>4, GotIs
<1>6. CASE host' = [host EXCEPT !.got = got, !.toggle = 1 - @] /\ ~ (Len(tx.data) < PacketSize)
  <2>1. host'.got = got /\ host'.request = host.request
    BY <1>3, <1>6 DEF HostState
  <2>2. got # << >>
    <3>1. host.got \in Seq(Nat) /\ tx.data \in Seq(Nat)
      BY <1>3 DEF HostState, DriverInv, MessageInv, Slots
    <3>2. PICK m \in Nat, k \in Nat : m = Len(host.got) /\ k = Len(tx.data)
      BY <3>1
    <3>3. ~ (k < PacketSize)
      BY <1>6, <3>2
    <3>4. Len(got) = m + k
      BY <1>4, <3>1, <3>2, JoinedAt
    <3>5. m + k > 0
      <4>1. PacketSize \in Nat /\ PacketSize > 0
        BY SizesAre
      <4> QED
        BY <3>3, <4>1
    <3> QED
      BY <3>4, <3>5
  <2> QED
    BY <1>1, <1>2, <1>5, <2>1, <2>2, FirstByteKept
<1>7. CASE EndOfRead(got)
  <2>1. host'.stage # "data"
    BY <1>3, <1>7 DEF EndOfRead, HostState
  <2> QED
    BY <2>1 DEF FirstByteInv
<1> QED
  BY <1>4, <1>6, <1>7 DEF ReceiveData

LEMMA FirstByteStep == EnumeratingInv /\ FirstByteInv /\ [Next]_vars => FirstByteInv'
<1> SUFFICES ASSUME EnumeratingInv, FirstByteInv, [Next]_vars PROVE FirstByteInv'
  OBVIOUS
<1>0. host \in HostState
  BY DEF EnumeratingInv, RequestsInv
<1>1. ASSUME host'.stage # "data" PROVE FirstByteInv'
  BY <1>1 DEF FirstByteInv
<1>2. CASE usbPoll
  BY <1>2, FirstByteOfNothing, FirstByteOfRequest DEF usbPoll, OtherPoll
<1>3. CASE NextRequest \/ Query
  <2>1. EnumeratingInv'
    BY <1>3, RequestStepKeeps
  <2>2. \E request : SendSetup(request)
    BY <1>3 DEF NextRequest, Query
  <2>3. PICK request : SendSetup(request)
    BY <2>2
  <2>4. rx' = request /\ host'.request = request /\ host'.got = << >> /\ host'.toggle = 1
    BY <1>0, <2>3 DEF SendSetup, HostState
  <2>5. host'.stage = "data" => rx' # NoRequest
    <3>1. host'.stage = "data" => host'.request \in Requests
      BY <2>1 DEF EnumeratingInv, RequestsInv, Waiting
    <3> QED
      BY <2>4, <3>1, RequestIs
  <2> QED
    BY <2>4, <2>5 DEF FirstByteInv
<1>4. CASE ReceiveData
  BY <1>4, FirstByteTaken
<1>5. CASE DiscardData \/ LosePacket
  <2>1. SendPacket /\ host' = host
    BY <1>5 DEF DiscardData, LosePacket
  <2>2. /\ rx' = rx /\ ~ tx'.sending /\ UNCHANGED <<mode, usbMsgLen, usbTxToken>>
    BY <2>1, SentDriver
  <2> QED
    BY <2>1, <2>2, FirstByteKept DEF FirstByteInv
<1>6. CASE ReceiveStatus
  BY <1>0, <1>1, <1>6 DEF ReceiveStatus, HostState
<1>7. ASSUME ResetBus PROVE FirstByteInv'
  BY <1>1, <1>7, AttachedIs DEF ResetBus
<1>8. ASSUME Repeat PROVE FirstByteInv'
  BY <1>0, <1>1, <1>8 DEF Repeat, HostState
<1>9. CASE EndReset
  BY <1>0, <1>1, <1>9 DEF EndReset, HostState
<1>10. CASE FirstReset \/ TimesOut \/ Disturbance
  BY <1>7, <1>8, <1>10 DEF FirstReset, TimesOut, Disturbance
<1>11. CASE Restart
  BY <1>1, <1>11, AttachedIs DEF Restart
<1>12. CASE UNCHANGED vars
  <2>1. UNCHANGED <<mode, host, rx, tx, usbTxToken, usbMsgLen>>
    BY <1>12 DEF vars, device_vars, message_vars
  <2> QED
    BY <2>1, FirstByteKept DEF FirstByteInv
<1> QED
  BY <1>2, <1>3, <1>4, <1>5, <1>6, <1>9, <1>10, <1>11, <1>12 DEF Next, Host
-----------------------------------------------------------------------------
(* A string that is as long as its first byte says has all its bytes.      *)
LEMMA WholeString ==
  ASSUME NEW E, IsNameString(E), NEW got \in Seq(Nat), Len(got) <= Len(E),
         Len(got) >= 2, Len(got) = got[1], Stands(got[1], 1, E)
  PROVE  Len(got) = Len(E)
<1>1. PICK i \in 1 .. Len(E) : i # 2 /\ got[1] = E[i]
  BY DEF Stands
<1>2. Len(E) = 14 /\ E[1] = 14
  BY DEF IsNameString
<1>3. CASE i = 1
  BY <1>1, <1>2, <1>3
<1>4. CASE i # 1
  <2>1. i \in 3 .. 14
    BY <1>1, <1>2, <1>4
  <2>2. E[i] > 14 \/ E[i] = 0
    BY <2>1 DEF IsNameString
  <2>3. Len(got) \in Nat /\ Len(got) <= 14 /\ Len(got) = E[i]
    BY <1>1, <1>2
  <2> QED
    BY <2>2, <2>3
<1> QED
  BY <1>3, <1>4

(* A read that is complete is the array that the step tells of.            *)
LEMMA ReadTells ==
  ASSUME EnumeratingInv, TruthInv, Waiting, NEW n \in Telling, host.step = n,
         NEW got \in Seq(Nat),
         Begins(got, Promised(host.request), LengthOf(host.request)),
         got # << >> => Stands(got[1], 1, Promised(host.request)),
         Complete(Enumerating[n], host.request.wLength, got)
  PROVE  got = Truth(n)
<1>1. Asked(n, host.request)
  BY StepAsks
<1>2. PICK E \in Seq(Nat) : E = Truth(n)
  BY <1>1 DEF Asked
<1>3. PICK wLength \in Nat : wLength = host.request.wLength
  BY RequestIs DEF EnumeratingInv, RequestsInv
<1>4. E = Promised(host.request) /\ Len(E) <= wLength /\ Len(E) \in Nat
  BY <1>1, <1>2, <1>3 DEF Asked
<1>5. LengthOf(host.request) = Len(E)
  BY <1>3, <1>4 DEF LengthOf, Least
<1>6. Len(got) <= Len(E) /\ (Len(got) = Len(E) => got = SubSeq(E, 1, Len(E)))
  BY <1>4, <1>5 DEF Begins
<1>7. Len(got) = Len(E)
  <2>1. CASE n \in {3, 5, 11}
    <3>1. Len(got) = wLength
      BY <1>3, <2>1, StepNames DEF Complete
    <3> QED
      BY <1>4, <1>6, <3>1
  <2>2. CASE n \in {7, 8}
    <3>1. Len(got) >= 2 /\ Len(got) = got[1]
      BY <2>2, StepNames DEF Complete
    <3>2. IsNameString(E)
      BY <1>2, <2>2, StringArrays DEF Truth, ArrayOf
    <3>3. got # << >>
      BY <3>1
    <3>4. Stands(got[1], 1, E)
      BY <1>4, <3>3
    <3> QED
      BY <1>6, <3>1, <3>2, <3>4, WholeString
  <2> QED
    BY <2>1, <2>2 DEF Telling
<1> QED
  BY <1>2, <1>6, <1>7, WholeIs

LEMMA TruthKept ==
  ASSUME TruthInv, mode' = mode, host'.step = host.step, host'.read = host.read
  PROVE  TruthInv'
BY DEF TruthInv, Truth, ArrayOf

LEMMA TruthForgotten ==
  ASSUME host'.step = 1
  PROVE  TruthInv'
BY DEF TruthInv, Telling

LEMMA TruthTaken ==
  ASSUME EnumeratingInv, FirstByteInv, TruthInv, ReceiveData
  PROVE  TruthInv'
<1> USE DEF EnumeratingInv
<1>1. host.stage = "data" /\ usbTxToken = host.toggle /\ SendPacket /\ Waiting
  BY DEF ReceiveData, Waiting
<1>2. rx = NoRequest /\ tx.sending /\ mode' = mode
  BY <1>1, SentDriver
<1>3. host \in HostState
  BY DEF RequestsInv
<1>4. PICK got : got = host.got \o tx.data
  OBVIOUS
<1>5. /\ got \in Seq(Nat)
      /\ Begins(got, Promised(host.request), LengthOf(host.request))
      /\ got # << >> => Stands(got[1], 1, Promised(host.request))
  BY <1>1, <1>2, <1>4, GotIs
<1>6. PICK step \in 1 .. 12 : step = host.step
  BY <1>3, FirstEleven DEF HostState
<1>7. PICK read \in [Reads -> Seq(Nat)] : read = host.read
  BY <1>3 DEF HostState
<1>8. CASE host'.step = host.step /\ host'.read = host.read
  BY <1>2, <1>8, TruthKept
<1>9. CASE /\ step < 12 /\ Complete(Enumerating[step], host.request.wLength, got)
           /\ host'.step = step + 1 /\ host'.read = [read EXCEPT ![Enumerating[step]] = got]
  <2>1. SUFFICES ASSUME NEW n \in Telling, step + 1 > n
                 PROVE  host'.read[Enumerating[n]] = Truth(n)
    BY <1>2, <1>9 DEF TruthInv, Truth, ArrayOf
  <2>2. Enumerating[n] \in Reads
    BY StepNames DEF Telling, Reads
  <2>3. CASE n = step
    <3>1. got = Truth(n)
      BY <1>1, <1>5, <1>6, <1>9, <2>3, ReadTells
    <3> QED
      BY <1>9, <2>2, <2>3, <3>1
  <2>4. CASE n # step
    <3>1. step > n
      BY <2>1, <2>4 DEF Telling
    <3>2. Enumerating[n] # Enumerating[step]
      <4>1. \/ step = 1 \/ step = 2 \/ step = 3 \/ step = 4 \/ step = 5 \/ step = 6
            \/ step = 7 \/ step = 8 \/ step = 9 \/ step = 10 \/ step = 11
        BY <1>9
      <4> QED
        BY <2>4, <4>1, StepNames DEF Telling
    <3>3. host'.read[Enumerating[n]] = read[Enumerating[n]]
      BY <1>9, <2>2, <3>2
    <3> QED
      BY <1>6, <1>7, <3>1, <3>3 DEF TruthInv
  <2> QED
    BY <2>3, <2>4
<1>10. \/ host' = [host EXCEPT !.got = got, !.toggle = 1 - @]
       \/ EndOfRead(got)
  BY <1>4 DEF ReceiveData
<1>11. CASE host' = [host EXCEPT !.got = got, !.toggle = 1 - @]
  BY <1>3, <1>8, <1>11 DEF HostState
<1>12. CASE EndOfRead(got)
  <2> DEFINE ended == [host EXCEPT
               !.stage = "ready", !.got = << >>,
               !.answer = [request |-> host.request, bytes |-> got]]
  <2>1. host' = IF host.step < Done /\ Complete(StepName, host.request.wLength, got)
                THEN [ended EXCEPT !.step = @ + 1, !.read[StepName] = got]
                ELSE ended
    BY <1>12 DEF EndOfRead
  <2>2. /\ ended.step = host.step /\ ended.read = host.read
        /\ DOMAIN ended = DOMAIN host /\ {"step", "read"} \subseteq DOMAIN host
    BY <1>3 DEF HostState
  <2> HIDE DEF ended
  <2> QED
    BY <1>6, <1>7, <1>8, <1>9, <2>1, <2>2, FirstEleven DEF StepName
<1> QED
  BY <1>10, <1>11, <1>12

LEMMA TruthAfterStatus ==
  ASSUME EnumeratingInv, TruthInv, ReceiveStatus
  PROVE  TruthInv'
<1> USE DEF EnumeratingInv
<1>1. host.stage = "status" /\ SendPacket /\ Waiting
  BY DEF ReceiveStatus, Waiting
<1>2. mode' = mode
  BY <1>1, SentDriver
<1>3. host \in HostState /\ ~ (host.request.wLength > 0)
  BY <1>1 DEF RequestsInv
<1>4. PICK step \in 1 .. 12 : step = host.step
  BY <1>3, FirstEleven DEF HostState
<1>5. /\ host'.step = (IF step < 12 THEN step + 1 ELSE step)
      /\ host'.read = host.read
  BY <1>3, <1>4, FirstEleven DEF ReceiveStatus, HostState
<1>6. step \notin Telling
  <2> SUFFICES ASSUME step \in Telling PROVE FALSE
    OBVIOUS
  <2>1. Asked(step, host.request)
    BY <1>1, <1>4, StepAsks
  <2>2. host.request.wLength \in Nat
    BY <1>1, RequestIs DEF RequestsInv
  <2> QED
    BY <1>3, <2>1, <2>2 DEF Asked
<1>7. \A n \in Telling : host'.step > n => host.step > n
  BY <1>4, <1>5, <1>6 DEF Telling
<1> QED
  BY <1>2, <1>5, <1>7 DEF TruthInv, Truth, ArrayOf

LEMMA TruthStep == EnumeratingInv /\ FirstByteInv /\ TruthInv /\ [Next]_vars => TruthInv'
<1> SUFFICES ASSUME EnumeratingInv, FirstByteInv, TruthInv, [Next]_vars PROVE TruthInv'
  OBVIOUS
<1>0. host \in HostState
  BY DEF EnumeratingInv, RequestsInv
<1>1. CASE usbPoll
  <2>1. mode' = mode /\ host' = host
    BY <1>1
    DEF usbPoll, NothingReceived, GetStatus, SetAddress, GetDescriptor, GetConfiguration,
        SetConfiguration, GetInterface, SetInterfaceOrOther, SetIdle, Polled
  <2> QED
    BY <2>1, TruthKept
<1>2. CASE NextRequest \/ Query
  <2>1. \E request : SendSetup(request)
    BY <1>2 DEF NextRequest, Query
  <2>2. mode' = mode /\ host'.step = host.step /\ host'.read = host.read
    BY <1>0, <2>1 DEF SendSetup, device_vars, HostState
  <2> QED
    BY <2>2, TruthKept
<1>3. CASE ReceiveData
  BY <1>3, TruthTaken
<1>4. CASE ReceiveStatus
  BY <1>4, TruthAfterStatus
<1>5. CASE DiscardData \/ LosePacket
  BY <1>5, TruthKept DEF DiscardData, LosePacket, SendPacket
<1>6. ASSUME ResetBus PROVE TruthInv'
  BY <1>6, AttachedIs, TruthForgotten DEF ResetBus
<1>7. ASSUME Repeat PROVE TruthInv'
  <2>1. mode' = mode /\ host'.step = host.step /\ host'.read = host.read
    BY <1>0, <1>7 DEF Repeat, device_vars, HostState
  <2> QED
    BY <2>1, TruthKept
<1>8. CASE EndReset
  <2>1. mode' = mode /\ host'.step = host.step /\ host'.read = host.read
    BY <1>0, <1>8 DEF EndReset, device_vars, HostState
  <2> QED
    BY <2>1, TruthKept
<1>9. CASE FirstReset \/ TimesOut \/ Disturbance
  BY <1>6, <1>7, <1>9 DEF FirstReset, TimesOut, Disturbance
<1>10. CASE Restart
  BY <1>10, AttachedIs, TruthForgotten DEF Restart
<1>11. CASE UNCHANGED vars
  BY <1>11, TruthKept DEF vars, device_vars
<1> QED
  BY <1>1, <1>2, <1>3, <1>4, <1>5, <1>8, <1>9, <1>10, <1>11 DEF Next, Host
-----------------------------------------------------------------------------
(* What a report descriptor has said so far, and the fields of one kind.   *)
Says == {USAGE_PAGE, REPORT_SIZE, REPORT_COUNT, LOGICAL_MAXIMUM, USAGE_MINIMUM, USAGE_MAXIMUM}
Kinds == {INPUT, OUTPUT, FEATURE}
FieldsOfReport ==
  [size : Nat, count : Nat, constant : BOOLEAN, page : Nat, upto : Nat, usages : Seq(Nat)]
Parsers ==
  [tag : Nat, missing : 0 .. 3, unit : Nat, value : Nat, said : [Says -> Nat],
   fields : [Kinds -> Seq(FieldsOfReport)]]

FieldOf(said, value) ==
  [size |-> said[REPORT_SIZE], count |-> said[REPORT_COUNT], constant |-> value % 2 = 1,
   page |-> said[USAGE_PAGE], upto |-> said[LOGICAL_MAXIMUM],
   usages |-> <<said[USAGE_MINIMUM], said[USAGE_MAXIMUM]>>]

LEMMA FieldIs ==
  ASSUME NEW said \in [Says -> Nat], NEW value \in Nat
  PROVE  FieldOf(said, value) \in FieldsOfReport
<1>1. \A t \in Says : said[t] \in Nat
  OBVIOUS
<1>2. (value % 2 = 1) \in BOOLEAN
  OBVIOUS
<1>3. <<said[USAGE_MINIMUM], said[USAGE_MAXIMUM]>> \in Seq(Nat)
  BY <1>1 DEF Says
<1> QED
  BY <1>1, <1>2, <1>3 DEF FieldOf, FieldsOfReport, Says

(* An item changes what was said, or adds a field, or is left aside.       *)
LEMMA ItemIs ==
  ASSUME NEW p \in Parsers
  PROVE  LET q == Item(p)
         IN  /\ q \in Parsers /\ q.missing = p.missing
             /\ p.tag \in Says =>
                  q.said = [p.said EXCEPT ![p.tag] = p.value] /\ q.fields = p.fields
             /\ p.tag \in Kinds =>
                  /\ q.said = p.said
                  /\ q.fields = [p.fields EXCEPT
                                   ![p.tag] = Append(@, FieldOf(p.said, p.value))]
             /\ p.tag \notin Says /\ p.tag \notin Kinds => q = p
<1>1. /\ DOMAIN p.said = Says /\ DOMAIN p.fields = Kinds
      /\ p.said \in [Says -> Nat] /\ p.fields \in [Kinds -> Seq(FieldsOfReport)]
      /\ p.value \in Nat
  BY DEF Parsers
<1>2. Says \cap Kinds = {}
  BY DEF Says, Kinds, USAGE_PAGE, REPORT_SIZE, REPORT_COUNT, LOGICAL_MAXIMUM,
     USAGE_MINIMUM, USAGE_MAXIMUM, INPUT, OUTPUT, FEATURE
<1>3. CASE p.tag \in Says
  <2> DEFINE said == [p.said EXCEPT ![p.tag] = p.value]
  <2>1. said \in [Says -> Nat]
    BY <1>1, <1>3
  <2>2. Item(p) = [p EXCEPT !.said = said]
    BY <1>1, <1>3 DEF Item
  <2> HIDE DEF said
  <2>3. /\ [p EXCEPT !.said = said] \in Parsers
        /\ [p EXCEPT !.said = said].said = said
        /\ [p EXCEPT !.said = said].fields = p.fields
        /\ [p EXCEPT !.said = said].missing = p.missing
    BY <2>1 DEF Parsers
  <2> QED
    BY <1>2, <1>3, <2>2, <2>3 DEF said
<1>4. CASE p.tag \in Kinds
  <2> DEFINE fields == [p.fields EXCEPT ![p.tag] = Append(@, FieldOf(p.said, p.value))]
  <2>1. FieldOf(p.said, p.value) \in FieldsOfReport
    BY <1>1, FieldIs
  <2>2. fields \in [Kinds -> Seq(FieldsOfReport)]
    BY <1>1, <1>4, <2>1
  <2>3. Item(p) = [p EXCEPT !.fields = fields]
    <3>1. p.tag \notin DOMAIN p.said /\ p.tag \in DOMAIN p.fields
      BY <1>1, <1>2, <1>4
    <3> QED
      BY <3>1 DEF Item, FieldOf
  <2> HIDE DEF fields
  <2>4. /\ [p EXCEPT !.fields = fields] \in Parsers
        /\ [p EXCEPT !.fields = fields].said = p.said
        /\ [p EXCEPT !.fields = fields].fields = fields
        /\ [p EXCEPT !.fields = fields].missing = p.missing
    BY <2>2 DEF Parsers
  <2> QED
    BY <1>2, <1>4, <2>3, <2>4 DEF fields
<1>5. CASE p.tag \notin Says /\ p.tag \notin Kinds
  BY <1>1, <1>5 DEF Item
<1> QED
  BY <1>3, <1>4, <1>5

LEMMA UnparsedIs ==
  /\ Unparsed \in Parsers /\ Unparsed.missing = 0
  /\ Unparsed.said = [t \in Says |-> 0] /\ Unparsed.fields = [kind \in Kinds |-> << >>]
<1> DEFINE said == [t \in Says |-> 0]
           fields == [kind \in Kinds |-> << >>]
<1>1. said \in [Says -> Nat] /\ fields \in [Kinds -> Seq(FieldsOfReport)]
  <2>1. << >> \in Seq(FieldsOfReport)
    OBVIOUS
  <2> QED
    BY <2>1
<1>2. Unparsed = [tag |-> 0, missing |-> 0, unit |-> 1, value |-> 0, said |-> said,
                  fields |-> fields]
  BY DEF Unparsed, Says, Kinds
<1> HIDE DEF said, fields
<1>3. /\ Unparsed \in Parsers /\ Unparsed.missing = 0
      /\ Unparsed.said = said /\ Unparsed.fields = fields
  BY <1>1, <1>2 DEF Parsers
<1> QED
  BY <1>3 DEF said, fields

(* A parser that has changed in everything but what was said.              *)
Changed(p, tag, missing, unit, value) ==
  [p EXCEPT !.tag = tag, !.missing = missing, !.unit = unit, !.value = value]

ChangedIn(q, p, tag, missing, unit, value) ==
  /\ q \in Parsers /\ q.tag = tag /\ q.missing = missing
  /\ q.unit = unit /\ q.value = value /\ q.said = p.said /\ q.fields = p.fields

LEMMA ParserIs ==
  ASSUME NEW p \in Parsers, NEW tag \in Nat, NEW missing \in 0 .. 3, NEW unit \in Nat,
         NEW value \in Nat,
         NEW q, q = Changed(p, tag, missing, unit, value)
  PROVE  ChangedIn(q, p, tag, missing, unit, value)
<1> DEFINE Memories == [Says -> Nat]
           Found == [Kinds -> Seq(FieldsOfReport)]
<1>1. Parsers = [tag : Nat, missing : 0 .. 3, unit : Nat, value : Nat, said : Memories,
                 fields : Found]
  BY DEF Parsers
<1> HIDE DEF Memories, Found
<1>2. p \in [tag : Nat, missing : 0 .. 3, unit : Nat, value : Nat, said : Memories,
              fields : Found]
  BY <1>1
<1>3. /\ q.tag = tag /\ q.missing = missing
      /\ q.unit = unit /\ q.value = value /\ q.said = p.said /\ q.fields = p.fields
  BY <1>2 DEF Changed
<1>4. q \in [tag : Nat, missing : 0 .. 3, unit : Nat, value : Nat, said : Memories,
              fields : Found]
  BY <1>2 DEF Changed
<1> QED
  BY <1>1, <1>3, <1>4 DEF ChangedIn

(* The byte that begins an item, and those of its value.                   *)
LEMMA ItemBegins ==
  ASSUME NEW p \in Parsers, p.missing = 0, NEW byte \in Nat
  PROVE  LET q == ParseByte(p, byte)
         IN  /\ q \in Parsers /\ q.tag = byte - (byte % 4) /\ q.missing = byte % 4
             /\ q.unit = 1 /\ q.value = 0 /\ q.said = p.said /\ q.fields = p.fields
<1>1. byte - (byte % 4) \in Nat /\ byte % 4 \in 0 .. 3
  OBVIOUS
<1>2. PICK tag \in Nat, missing \in 0 .. 3 : tag = byte - (byte % 4) /\ missing = byte % 4
  BY <1>1
<1>3. PICK q : q = Changed(p, tag, missing, 1, 0)
  OBVIOUS
<1>4. ParseByte(p, byte) = q
  BY <1>2, <1>3 DEF ParseByte, Changed
<1>5. PICK unit \in Nat, value \in Nat : unit = 1 /\ value = 0
  OBVIOUS
<1>6. ChangedIn(q, p, tag, missing, unit, value)
  BY <1>3, <1>5, ParserIs
<1> QED
  BY <1>2, <1>4, <1>5, <1>6 DEF ChangedIn

Taken(p, byte) ==
  [p EXCEPT !.missing = @ - 1, !.unit = 256 * @, !.value = @ + p.unit * byte]

GoesOn(q, p, byte) ==
  /\ q \in Parsers /\ q.tag = p.tag /\ q.missing = p.missing - 1
  /\ q.unit = 256 * p.unit /\ q.value = p.value + p.unit * byte
  /\ q.said = p.said /\ q.fields = p.fields
  /\ ParseByte(p, byte) = IF p.missing = 1 THEN Item(q) ELSE q

LEMMA ItemGoesOn ==
  ASSUME NEW p \in Parsers, p.missing # 0, NEW byte \in Nat
  PROVE  GoesOn(Taken(p, byte), p, byte)
<1>1. p.missing \in 0 .. 3 /\ p.unit \in Nat /\ p.value \in Nat
  BY DEF Parsers
<1>2. PICK missing \in 0 .. 2 : missing = p.missing - 1
  BY <1>1
<1>3. PICK unit \in Nat, value \in Nat : unit = 256 * p.unit /\ value = p.value + p.unit * byte
  BY <1>1
<1> DEFINE q == [p EXCEPT !.missing = missing, !.unit = unit, !.value = value]
<1>4. q = Taken(p, byte)
  BY <1>2, <1>3 DEF Taken
<1>5. /\ q \in Parsers /\ q.tag = p.tag /\ q.missing = missing
      /\ q.unit = unit /\ q.value = value /\ q.said = p.said /\ q.fields = p.fields
  <2>1. PICK tag \in Nat : tag = p.tag
    BY DEF Parsers
  <2>2. PICK r : r = Changed(p, tag, missing, unit, value)
    OBVIOUS
  <2>3. missing \in 0 .. 3
    OBVIOUS
  <2>4. ChangedIn(r, p, tag, missing, unit, value)
    BY <2>2, <2>3, ParserIs
  <2>5. r = q
    BY <2>1, <2>2 DEF Parsers, Changed
  <2> HIDE DEF q
  <2> QED
    BY <2>1, <2>4, <2>5 DEF ChangedIn
<1>6. ParseByte(p, byte) = IF q.missing = 0 THEN Item(q) ELSE q
  BY <1>4 DEF ParseByte, Taken
<1>7. q.missing = 0 <=> p.missing = 1
  BY <1>1, <1>2, <1>5
<1> HIDE DEF q
<1> QED
  BY <1>2, <1>3, <1>4, <1>5, <1>6, <1>7 DEF GoesOn

LEMMA ParseByteType ==
  ASSUME NEW p \in Parsers, NEW byte \in Nat
  PROVE  ParseByte(p, byte) \in Parsers
<1>1. CASE p.missing = 0
  BY <1>1, ItemBegins
<1>2. CASE p.missing # 0
  <2>1. PICK q : q = Taken(p, byte)
    OBVIOUS
  <2>2. q \in Parsers /\ ParseByte(p, byte) = IF p.missing = 1 THEN Item(q) ELSE q
    BY <1>2, <2>1, ItemGoesOn DEF GoesOn
  <2>3. Item(q) \in Parsers
    BY <2>2, ItemIs
  <2> QED
    BY <2>2, <2>3
<1> QED
  BY <1>1, <1>2
-----------------------------------------------------------------------------
(* The parser after each byte of a report descriptor.                      *)
ParseTrace(f, bytes) ==
  /\ bytes \in Seq(Nat)
  /\ f[0] = Unparsed
  /\ \A i \in 0 .. Len(bytes) : f[i] \in Parsers
  /\ \A i \in 1 .. Len(bytes) : f[i] = ParseByte(f[i - 1], bytes[i])
  /\ FoldLeft(ParseByte, Unparsed, bytes) = f[Len(bytes)]

LEMMA ParseFold ==
  ASSUME NEW bytes \in Seq(Nat)
  PROVE  \E f : ParseTrace(f, bytes)
<1> DEFINE n == Len(bytes)
           g == [i \in 1 .. n |-> [v \in Parsers |-> ParseByte(v, bytes[i])]]
<1>1. n \in Nat /\ DOMAIN bytes = 1 .. n /\ \A i \in 1 .. n : bytes[i] \in Nat
  OBVIOUS
<1>2. g \in [1 .. n -> [Parsers -> Parsers]]
  BY <1>1, ParseByteType
<1>0. Unparsed \in Parsers
  BY UnparsedIs
<1>3. PICK h : IsFold(h, Parsers, Unparsed, n, g)
  <2> HIDE DEF n, g
  <2> QED
    BY <1>0, <1>1, <1>2, FoldExists
<1>4. h = [s \in SUBSET (DOMAIN bytes) |->
             IF s = {} THEN Unparsed ELSE ParseByte(h[s \ {Max(s)}], bytes[Max(s)])]
  <2> DEFINE e(s) == IF s = {} THEN Unparsed ELSE ParseByte(h[s \ {Max(s)}], bytes[Max(s)])
  <2>1. ASSUME NEW s \in SUBSET (1 .. n) PROVE h[s] = e(s)
    <3>1. CASE s = {}
      BY <1>3, <3>1 DEF IsFold
    <3>2. CASE s # {}
      <4>1. Max(s) \in 1 .. n
        BY <1>1, <3>2, MaxIn
      <4>2. h[s \ {Max(s)}] \in Parsers /\ h[s] = g[Max(s)][h[s \ {Max(s)}]]
        BY <1>3, <3>2 DEF IsFold
      <4> QED
        BY <3>2, <4>1, <4>2
    <3> QED
      BY <3>1, <3>2
  <2>2. h = [s \in SUBSET (1 .. n) |-> e(s)]
    <3>1. h \in [SUBSET (1 .. n) -> Parsers]
      BY <1>3 DEF IsFold
    <3> HIDE DEF e, n, g
    <3> QED
      BY <2>1, <3>1
  <2> QED
    BY <2>2, <1>1
<1>5. \E r : /\ r = [s \in SUBSET (DOMAIN bytes) |->
                       IF s = {} THEN Unparsed ELSE ParseByte(r[s \ {Max(s)}], bytes[Max(s)])]
             /\ FoldLeft(ParseByte, Unparsed, bytes) = r[DOMAIN bytes]
  BY <1>4, Zenon DEF FoldLeft, MapThenFoldSet
<1>6. PICK r : /\ r = [s \in SUBSET (1 .. n) |->
                         IF s = {} THEN Unparsed
                         ELSE ParseByte(r[s \ {Max(s)}], bytes[Max(s)])]
               /\ FoldLeft(ParseByte, Unparsed, bytes) = r[1 .. n]
  BY <1>1, <1>5
<1>7. ASSUME NEW s \in SUBSET (1 .. n), s # {}, r[s \ {Max(s)}] \in Parsers
      PROVE  r[s] = g[Max(s)][r[s \ {Max(s)}]]
  <2>1. Max(s) \in 1 .. n
    BY <1>1, <1>7, MaxIn
  <2>2. r[s] = ParseByte(r[s \ {Max(s)}], bytes[Max(s)])
    BY <1>6, <1>7
  <2> QED
    BY <1>7, <2>1, <2>2
<1>8. r[{}] = Unparsed
  BY <1>6
<1>9. \E f : IsLoop(f, Parsers, Unparsed, n, g) /\ f[n] = r[1 .. n]
  <2> HIDE DEF n, g
  <2>1. IsFolding(r, Parsers, Unparsed, n, g)
    BY <1>7, <1>8 DEF IsFolding
  <2> QED
    BY <1>0, <1>1, <1>2, <2>1, FoldIsLoop
<1>10. PICK f : IsLoop(f, Parsers, Unparsed, n, g) /\ f[n] = r[1 .. n]
  BY <1>9
<1>11. /\ f[0] = Unparsed /\ \A i \in 0 .. n : f[i] \in Parsers
       /\ \A i \in 1 .. n : f[i] = g[i][f[i - 1]]
  BY <1>10 DEF IsLoop
<1>12. \A i \in 1 .. n : f[i] = ParseByte(f[i - 1], bytes[i])
  <2>1. \A i \in 1 .. n : i - 1 \in 0 .. n
    BY <1>1
  <2> QED
    BY <1>11, <2>1
<1>13. ParseTrace(f, bytes)
  BY <1>6, <1>10, <1>11, <1>12 DEF ParseTrace
<1> QED
  BY <1>13
(* What has been parsed between two items, of one kind of field.            *)
Parsed(p, kind, page, size, count, upto, from, until, fields) ==
  /\ p \in Parsers /\ p.missing = 0 /\ kind \in Kinds /\ p.fields[kind] = fields
  /\ p.said[USAGE_PAGE] = page /\ p.said[REPORT_SIZE] = size /\ p.said[REPORT_COUNT] = count
  /\ p.said[LOGICAL_MAXIMUM] = upto
  /\ p.said[USAGE_MINIMUM] = from /\ p.said[USAGE_MAXIMUM] = until

Field(page, size, count, upto, from, until, value) ==
  [size |-> size, count |-> count, constant |-> value % 2 = 1, page |-> page, upto |-> upto,
   usages |-> <<from, until>>]

Item1(p, tag, value) == ParseByte(ParseByte(p, tag + 1), value)
Item2(p, tag, low, high) == ParseByte(ParseByte(ParseByte(p, tag + 2), low), high)

Tags == {t \in Nat : t % 4 = 0}

(* What is there when the last byte of an item has come.                   *)
Begun(q, p, tag, value) ==
  /\ q \in Parsers /\ q.tag = tag /\ q.missing = 0 /\ q.value = value
  /\ q.said = p.said /\ q.fields = p.fields

LEMMA Item1Is ==
  ASSUME NEW p \in Parsers, p.missing = 0, NEW tag \in Tags, NEW value \in Nat
  PROVE  \E q : Begun(q, p, tag, value) /\ Item1(p, tag, value) = Item(q)
<1>1. tag + 1 \in Nat /\ (tag + 1) - ((tag + 1) % 4) = tag /\ (tag + 1) % 4 = 1 /\ tag \in Nat
  BY DEF Tags
<1>2. PICK byte \in Nat : byte = tag + 1
  BY <1>1
<1>3. PICK b : b = ParseByte(p, byte)
  OBVIOUS
<1>4. /\ b \in Parsers /\ b.tag = tag /\ b.missing = 1
      /\ b.unit = 1 /\ b.value = 0 /\ b.said = p.said /\ b.fields = p.fields
  BY <1>1, <1>2, <1>3, ItemBegins
<1>5. PICK q : q = Taken(b, value)
  OBVIOUS
<1>6. GoesOn(q, b, value)
  BY <1>4, <1>5, ItemGoesOn
<1>7. q.missing = 0 /\ q.value = value
  BY <1>4, <1>6 DEF GoesOn
<1>8. Item1(p, tag, value) = Item(q)
  BY <1>2, <1>3, <1>4, <1>6 DEF Item1, GoesOn
<1> QED
  BY <1>4, <1>6, <1>7, <1>8 DEF Begun, GoesOn

LEMMA Item2Is ==
  ASSUME NEW p \in Parsers, p.missing = 0, NEW tag \in Tags, NEW low \in Nat, NEW high \in Nat
  PROVE  \E q : Begun(q, p, tag, low + 256 * high) /\ Item2(p, tag, low, high) = Item(q)
<1>1. tag + 2 \in Nat /\ (tag + 2) - ((tag + 2) % 4) = tag /\ (tag + 2) % 4 = 2 /\ tag \in Nat
  BY DEF Tags
<1>2. PICK byte \in Nat : byte = tag + 2
  BY <1>1
<1>3. PICK b : b = ParseByte(p, byte)
  OBVIOUS
<1>4. /\ b \in Parsers /\ b.tag = tag /\ b.missing = 2
      /\ b.unit = 1 /\ b.value = 0 /\ b.said = p.said /\ b.fields = p.fields
  BY <1>1, <1>2, <1>3, ItemBegins
<1>5. PICK c : c = Taken(b, low)
  OBVIOUS
<1>6. GoesOn(c, b, low)
  BY <1>4, <1>5, ItemGoesOn
<1>7. /\ c \in Parsers /\ c.missing # 0
      /\ c.missing = 1 /\ c.unit = 256 /\ c.value = low /\ ParseByte(b, low) = c
  BY <1>4, <1>6 DEF GoesOn
<1>8. PICK q : q = Taken(c, high)
  OBVIOUS
<1>9. GoesOn(q, c, high)
  <2>1. c \in Parsers /\ c.missing # 0
    BY <1>7
  <2> QED
    BY <1>8, <2>1, ItemGoesOn
<1>10. q.missing = 0 /\ q.value = low + 256 * high
  BY <1>7, <1>9 DEF GoesOn
<1>11. Item2(p, tag, low, high) = Item(q)
  BY <1>2, <1>3, <1>7, <1>9 DEF Item2, GoesOn
<1> QED
  BY <1>4, <1>6, <1>9, <1>10, <1>11 DEF Begun, GoesOn
-----------------------------------------------------------------------------
(* The tags are all different.                                             *)
LEMMA TagsDiffer ==
  /\ USAGE_PAGE \notin {REPORT_SIZE, REPORT_COUNT, LOGICAL_MAXIMUM, USAGE_MINIMUM,
                        USAGE_MAXIMUM}
  /\ REPORT_SIZE \notin {REPORT_COUNT, LOGICAL_MAXIMUM, USAGE_MINIMUM, USAGE_MAXIMUM}
  /\ REPORT_COUNT \notin {LOGICAL_MAXIMUM, USAGE_MINIMUM, USAGE_MAXIMUM}
  /\ LOGICAL_MAXIMUM \notin {USAGE_MINIMUM, USAGE_MAXIMUM}
  /\ USAGE_MINIMUM # USAGE_MAXIMUM
  /\ Says \cap Kinds = {}
BY DEF Says, Kinds, USAGE_PAGE, REPORT_SIZE, REPORT_COUNT, LOGICAL_MAXIMUM, USAGE_MINIMUM,
       USAGE_MAXIMUM, INPUT, OUTPUT, FEATURE

(* The items of a descriptor, each where it stands.                        *)
IsItem(bytes, i, j, tag, value) ==
  /\ tag \in Tags /\ value \in Nat
  /\ i \in Nat /\ j = i + 2 /\ j <= Len(bytes) 
  /\ bytes[i + 1] = tag + 1 /\ bytes[i + 2] = value

IsLongItem(bytes, i, j, tag, low, high, value) ==
  /\ tag \in Tags /\ low \in Nat /\ high \in Nat /\ value = low + 256 * high
  /\ i \in Nat /\ j = i + 3 /\ j <= Len(bytes)
  /\ bytes[i + 1] = tag + 2 /\ bytes[i + 2] = low /\ bytes[i + 3] = high

IsEnd(bytes, i, j) ==
  i \in Nat /\ j = i + 1 /\ j <= Len(bytes) /\ bytes[i + 1] = \hC0

IsOther(tag, kind) == tag \notin Says /\ tag # kind

LEMMA ParsedFirst ==
  ASSUME NEW kind \in Kinds
  PROVE  Parsed(Unparsed, kind, 0, 0, 0, 0, 0, 0, << >>)
BY UnparsedIs DEF Parsed, Says

(* What is parsed after an item, by its tag.                               *)
ParsedBy(p, kind, page, size, count, upto, from, until, fields, tag, value) ==
  /\ tag = USAGE_PAGE => Parsed(p, kind, value, size, count, upto, from, until, fields)
  /\ tag = REPORT_SIZE =>
       Parsed(p, kind, page, value, count, upto, from, until, fields)
  /\ tag = REPORT_COUNT =>
       Parsed(p, kind, page, size, value, upto, from, until, fields)
  /\ tag = LOGICAL_MAXIMUM =>
       Parsed(p, kind, page, size, count, value, from, until, fields)
  /\ tag = USAGE_MINIMUM =>
       Parsed(p, kind, page, size, count, upto, value, until, fields)
  /\ tag = USAGE_MAXIMUM =>
       Parsed(p, kind, page, size, count, upto, from, value, fields)
  /\ tag = kind =>
       Parsed(p, kind, page, size, count, upto, from, until,
              Append(fields, Field(page, size, count, upto, from, until, value)))
  /\ IsOther(tag, kind) => Parsed(p, kind, page, size, count, upto, from, until, fields)

LEMMA ParsedItemBy ==
  ASSUME NEW p, NEW kind, NEW page, NEW size, NEW count, NEW upto, NEW from, NEW until,
         NEW fields, Parsed(p, kind, page, size, count, upto, from, until, fields),
         NEW tag \in Tags, NEW value \in Nat, NEW q, Begun(q, p, tag, value)
  PROVE  ParsedBy(Item(q), kind, page, size, count, upto, from, until, fields, tag, value)
<1>1. PICK r : r = Item(q)
  OBVIOUS
<1>2. /\ q \in Parsers /\ q.tag = tag /\ q.missing = 0 /\ q.value = value
      /\ q.said = p.said /\ q.fields = p.fields
  BY DEF Begun
<1>3. /\ r \in Parsers /\ r.missing = q.missing
      /\ q.tag \in Says => r.said = [q.said EXCEPT ![q.tag] = q.value] /\ r.fields = q.fields
      /\ q.tag \in Kinds =>
           /\ r.said = q.said
           /\ r.fields = [q.fields EXCEPT ![q.tag] = Append(@, FieldOf(q.said, q.value))]
      /\ q.tag \notin Says /\ q.tag \notin Kinds => r = q
  BY <1>1, <1>2, ItemIs
<1>4. r \in Parsers /\ r.missing = 0 /\ kind \in Kinds
  BY <1>2, <1>3 DEF Parsed
<1>5. PICK said \in [Says -> Nat] : said = p.said
  BY DEF Parsed, Parsers
<1>6. /\ said[USAGE_PAGE] = page /\ said[REPORT_SIZE] = size /\ said[REPORT_COUNT] = count
      /\ said[LOGICAL_MAXIMUM] = upto /\ said[USAGE_MINIMUM] = from
      /\ said[USAGE_MAXIMUM] = until
  BY <1>5 DEF Parsed
<1>7. {USAGE_PAGE, REPORT_SIZE, REPORT_COUNT, LOGICAL_MAXIMUM, USAGE_MINIMUM,
       USAGE_MAXIMUM} \subseteq Says
  BY DEF Says
<1>8. DOMAIN p.fields = Kinds /\ p.fields[kind] = fields
  BY DEF Parsed, Parsers
<1>9. ASSUME tag \in Says
      PROVE  /\ \A t \in Says : r.said[t] = IF t = tag THEN value ELSE said[t]
             /\ r.fields[kind] = fields
  <2>1. r.said = [said EXCEPT ![tag] = value] /\ r.fields = p.fields
    BY <1>2, <1>3, <1>5, <1>9
  <2> QED
    BY <1>8, <2>1
<1>10. ASSUME tag \in Kinds
       PROVE  /\ r.said = said
              /\ r.fields[kind] = IF tag = kind THEN Append(fields, FieldOf(said, value))
                                  ELSE fields
  <2>1. r.said = said /\ r.fields = [p.fields EXCEPT ![tag] = Append(@, FieldOf(said, value))]
    BY <1>2, <1>3, <1>5, <1>10
  <2> QED
    BY <1>4, <1>8, <2>1
<1>11. ASSUME tag = kind
       PROVE  Parsed(r, kind, page, size, count, upto, from, until,
                Append(fields, Field(page, size, count, upto, from, until, value)))
  <2>1. FieldOf(said, value) = Field(page, size, count, upto, from, until, value)
    BY <1>6 DEF FieldOf, Field
  <2>2. r.said = said /\ r.fields[kind] = Append(fields, FieldOf(said, value))
    BY <1>4, <1>10, <1>11
  <2> QED
    BY <1>4, <1>6, <2>1, <2>2 DEF Parsed
<1>12. ASSUME IsOther(tag, kind)
       PROVE  Parsed(r, kind, page, size, count, upto, from, until, fields)
  <2>1. r.said = said /\ r.fields[kind] = fields
    <3>1. CASE tag \in Kinds
      BY <1>10, <1>12, <3>1 DEF IsOther
    <3>2. CASE tag \notin Kinds
      <4>1. r = q
        BY <1>2, <1>3, <1>12, <3>2 DEF IsOther
      <4> QED
        BY <1>2, <1>5, <1>8, <4>1
    <3> QED
      BY <3>1, <3>2
  <2> QED
    BY <1>4, <1>6, <2>1 DEF Parsed
<1>13. ASSUME tag = USAGE_PAGE
       PROVE  Parsed(r, kind, value, size, count, upto, from, until, fields)
  <2>1. tag \in Says
    BY <1>7, <1>13
  <2>2. r.said[USAGE_PAGE] = value
    BY <1>6, <1>7, <1>9, <1>13, <2>1, TagsDiffer
  <2>3. r.said[REPORT_SIZE] = size
    BY <1>6, <1>7, <1>9, <1>13, <2>1, TagsDiffer
  <2>4. r.said[REPORT_COUNT] = count
    BY <1>6, <1>7, <1>9, <1>13, <2>1, TagsDiffer
  <2>5. r.said[LOGICAL_MAXIMUM] = upto
    BY <1>6, <1>7, <1>9, <1>13, <2>1, TagsDiffer
  <2>6. r.said[USAGE_MINIMUM] = from
    BY <1>6, <1>7, <1>9, <1>13, <2>1, TagsDiffer
  <2>7. r.said[USAGE_MAXIMUM] = until
    BY <1>6, <1>7, <1>9, <1>13, <2>1, TagsDiffer
  <2> QED
    BY <1>4, <1>9, <2>1, <2>2, <2>3, <2>4, <2>5, <2>6, <2>7 DEF Parsed
<1>14. ASSUME tag = REPORT_SIZE
       PROVE  Parsed(r, kind, page, value, count, upto, from, until, fields)
  <2>1. tag \in Says
    BY <1>7, <1>14
  <2>2. r.said[USAGE_PAGE] = page
    BY <1>6, <1>7, <1>9, <1>14, <2>1, TagsDiffer
  <2>3. r.said[REPORT_SIZE] = value
    BY <1>6, <1>7, <1>9, <1>14, <2>1, TagsDiffer
  <2>4. r.said[REPORT_COUNT] = count
    BY <1>6, <1>7, <1>9, <1>14, <2>1, TagsDiffer
  <2>5. r.said[LOGICAL_MAXIMUM] = upto
    BY <1>6, <1>7, <1>9, <1>14, <2>1, TagsDiffer
  <2>6. r.said[USAGE_MINIMUM] = from
    BY <1>6, <1>7, <1>9, <1>14, <2>1, TagsDiffer
  <2>7. r.said[USAGE_MAXIMUM] = until
    BY <1>6, <1>7, <1>9, <1>14, <2>1, TagsDiffer
  <2> QED
    BY <1>4, <1>9, <2>1, <2>2, <2>3, <2>4, <2>5, <2>6, <2>7 DEF Parsed
<1>15. ASSUME tag = REPORT_COUNT
       PROVE  Parsed(r, kind, page, size, value, upto, from, until, fields)
  <2>1. tag \in Says
    BY <1>7, <1>15
  <2>2. r.said[USAGE_PAGE] = page
    BY <1>6, <1>7, <1>9, <1>15, <2>1, TagsDiffer
  <2>3. r.said[REPORT_SIZE] = size
    BY <1>6, <1>7, <1>9, <1>15, <2>1, TagsDiffer
  <2>4. r.said[REPORT_COUNT] = value
    BY <1>6, <1>7, <1>9, <1>15, <2>1, TagsDiffer
  <2>5. r.said[LOGICAL_MAXIMUM] = upto
    BY <1>6, <1>7, <1>9, <1>15, <2>1, TagsDiffer
  <2>6. r.said[USAGE_MINIMUM] = from
    BY <1>6, <1>7, <1>9, <1>15, <2>1, TagsDiffer
  <2>7. r.said[USAGE_MAXIMUM] = until
    BY <1>6, <1>7, <1>9, <1>15, <2>1, TagsDiffer
  <2> QED
    BY <1>4, <1>9, <2>1, <2>2, <2>3, <2>4, <2>5, <2>6, <2>7 DEF Parsed
<1>16. ASSUME tag = LOGICAL_MAXIMUM
       PROVE  Parsed(r, kind, page, size, count, value, from, until, fields)
  <2>1. tag \in Says
    BY <1>7, <1>16
  <2>2. r.said[USAGE_PAGE] = page
    BY <1>6, <1>7, <1>9, <1>16, <2>1, TagsDiffer
  <2>3. r.said[REPORT_SIZE] = size
    BY <1>6, <1>7, <1>9, <1>16, <2>1, TagsDiffer
  <2>4. r.said[REPORT_COUNT] = count
    BY <1>6, <1>7, <1>9, <1>16, <2>1, TagsDiffer
  <2>5. r.said[LOGICAL_MAXIMUM] = value
    BY <1>6, <1>7, <1>9, <1>16, <2>1, TagsDiffer
  <2>6. r.said[USAGE_MINIMUM] = from
    BY <1>6, <1>7, <1>9, <1>16, <2>1, TagsDiffer
  <2>7. r.said[USAGE_MAXIMUM] = until
    BY <1>6, <1>7, <1>9, <1>16, <2>1, TagsDiffer
  <2> QED
    BY <1>4, <1>9, <2>1, <2>2, <2>3, <2>4, <2>5, <2>6, <2>7 DEF Parsed
<1>17. ASSUME tag = USAGE_MINIMUM
       PROVE  Parsed(r, kind, page, size, count, upto, value, until, fields)
  <2>1. tag \in Says
    BY <1>7, <1>17
  <2>2. r.said[USAGE_PAGE] = page
    BY <1>6, <1>7, <1>9, <1>17, <2>1, TagsDiffer
  <2>3. r.said[REPORT_SIZE] = size
    BY <1>6, <1>7, <1>9, <1>17, <2>1, TagsDiffer
  <2>4. r.said[REPORT_COUNT] = count
    BY <1>6, <1>7, <1>9, <1>17, <2>1, TagsDiffer
  <2>5. r.said[LOGICAL_MAXIMUM] = upto
    BY <1>6, <1>7, <1>9, <1>17, <2>1, TagsDiffer
  <2>6. r.said[USAGE_MINIMUM] = value
    BY <1>6, <1>7, <1>9, <1>17, <2>1, TagsDiffer
  <2>7. r.said[USAGE_MAXIMUM] = until
    BY <1>6, <1>7, <1>9, <1>17, <2>1, TagsDiffer
  <2> QED
    BY <1>4, <1>9, <2>1, <2>2, <2>3, <2>4, <2>5, <2>6, <2>7 DEF Parsed
<1>18. ASSUME tag = USAGE_MAXIMUM
       PROVE  Parsed(r, kind, page, size, count, upto, from, value, fields)
  <2>1. tag \in Says
    BY <1>7, <1>18
  <2>2. r.said[USAGE_PAGE] = page
    BY <1>6, <1>7, <1>9, <1>18, <2>1, TagsDiffer
  <2>3. r.said[REPORT_SIZE] = size
    BY <1>6, <1>7, <1>9, <1>18, <2>1, TagsDiffer
  <2>4. r.said[REPORT_COUNT] = count
    BY <1>6, <1>7, <1>9, <1>18, <2>1, TagsDiffer
  <2>5. r.said[LOGICAL_MAXIMUM] = upto
    BY <1>6, <1>7, <1>9, <1>18, <2>1, TagsDiffer
  <2>6. r.said[USAGE_MINIMUM] = from
    BY <1>6, <1>7, <1>9, <1>18, <2>1, TagsDiffer
  <2>7. r.said[USAGE_MAXIMUM] = value
    BY <1>6, <1>7, <1>9, <1>18, <2>1, TagsDiffer
  <2> QED
    BY <1>4, <1>9, <2>1, <2>2, <2>3, <2>4, <2>5, <2>6, <2>7 DEF Parsed
<1> QED
  BY <1>1, <1>11, <1>12, <1>13, <1>14, <1>15, <1>16, <1>17, <1>18 DEF ParsedBy

LEMMA ParsedMore ==
  ASSUME NEW bytes, NEW f, ParseTrace(f, bytes), NEW i, NEW j,
         NEW tag, NEW value, IsItem(bytes, i, j, tag, value),
         NEW page, NEW size, NEW count, NEW upto, NEW from, NEW until, NEW kind, NEW fields,
         Parsed(f[i], kind, page, size, count, upto, from, until, fields)
  PROVE  ParsedBy(f[j], kind, page, size, count, upto, from, until, fields, tag, value)
<1>1. PICK n \in Nat : n = Len(bytes) /\ bytes \in Seq(Nat)
  BY DEF ParseTrace
<1>2. /\ i + 1 \in 1 .. n /\ (i + 1) - 1 = i
      /\ j \in 1 .. n /\ j - 1 = i + 1 /\ i + 2 = j
  BY <1>1 DEF IsItem
<1>3. f[i + 1] = ParseByte(f[i], bytes[i + 1])
  BY <1>1, <1>2 DEF ParseTrace
<1>4. f[j] = ParseByte(f[i + 1], bytes[j])
  BY <1>1, <1>2 DEF ParseTrace
<1>5. bytes[i + 1] = tag + 1 /\ bytes[j] = value
  BY <1>2 DEF IsItem
<1>6. f[j] = Item1(f[i], tag, value)
  BY <1>3, <1>4, <1>5 DEF Item1
<1>7. tag \in Tags /\ value \in Nat
  BY DEF IsItem
<1>8. f[i] \in Parsers /\ f[i].missing = 0
  BY DEF Parsed
<1>9. PICK q : Begun(q, f[i], tag, value) /\ Item1(f[i], tag, value) = Item(q)
  BY <1>7, <1>8, Item1Is
<1>10. ParsedBy(Item(q), kind, page, size, count, upto, from, until, fields, tag, value)
  BY <1>7, <1>9, ParsedItemBy
<1> QED
  BY <1>6, <1>9, <1>10

LEMMA ParsedLong ==
  ASSUME NEW bytes, NEW f, ParseTrace(f, bytes), NEW i, NEW j,
         NEW tag, NEW low, NEW high, NEW value,
         IsLongItem(bytes, i, j, tag, low, high, value),
         NEW page, NEW size, NEW count, NEW upto, NEW from, NEW until, NEW kind, NEW fields,
         Parsed(f[i], kind, page, size, count, upto, from, until, fields)
  PROVE  ParsedBy(f[j], kind, page, size, count, upto, from, until, fields, tag, value)
<1>1. PICK n \in Nat : n = Len(bytes) /\ bytes \in Seq(Nat)
  BY DEF ParseTrace
<1>2. /\ i + 1 \in 1 .. n /\ (i + 1) - 1 = i
      /\ i + 2 \in 1 .. n /\ (i + 2) - 1 = i + 1
      /\ j \in 1 .. n /\ j - 1 = i + 2 /\ i + 3 = j
  BY <1>1 DEF IsLongItem
<1>3. f[i + 1] = ParseByte(f[i], bytes[i + 1])
  BY <1>1, <1>2 DEF ParseTrace
<1>4. f[i + 2] = ParseByte(f[i + 1], bytes[i + 2])
  BY <1>1, <1>2 DEF ParseTrace
<1>5. f[j] = ParseByte(f[i + 2], bytes[j])
  BY <1>1, <1>2 DEF ParseTrace
<1>6. bytes[i + 1] = tag + 2 /\ bytes[i + 2] = low /\ bytes[j] = high
  BY <1>2 DEF IsLongItem
<1>7. f[j] = Item2(f[i], tag, low, high)
  BY <1>3, <1>4, <1>5, <1>6 DEF Item2
<1>8. tag \in Tags /\ low \in Nat /\ high \in Nat
  BY DEF IsLongItem
<1>9. f[i] \in Parsers /\ f[i].missing = 0
  BY DEF Parsed
<1>10. value = low + 256 * high /\ value \in Nat
  BY <1>8 DEF IsLongItem
<1>11. PICK q : /\ Begun(q, f[i], tag, low + 256 * high)
                /\ Item2(f[i], tag, low, high) = Item(q)
  BY <1>8, <1>9, Item2Is
<1>12. Begun(q, f[i], tag, value)
  BY <1>10, <1>11
<1>13. ParsedBy(Item(q), kind, page, size, count, upto, from, until, fields, tag, value)
  <2>1. value \in Nat
    BY <1>10
  <2> QED
    BY <1>8, <1>12, <2>1, ParsedItemBy
<1> QED
  BY <1>7, <1>11, <1>13

LEMMA ParsedEnd ==
  ASSUME NEW bytes, NEW f, ParseTrace(f, bytes), NEW i, NEW j, IsEnd(bytes, i, j),
         NEW page, NEW size, NEW count, NEW upto, NEW from, NEW until, NEW kind, NEW fields,
         Parsed(f[i], kind, page, size, count, upto, from, until, fields)
  PROVE  Parsed(f[j], kind, page, size, count, upto, from, until, fields)
<1>1. PICK n \in Nat : n = Len(bytes) /\ bytes \in Seq(Nat)
  BY DEF ParseTrace
<1>2. j \in 1 .. n /\ j - 1 = i
  BY <1>1 DEF IsEnd
<1>3. f[j] = ParseByte(f[i], bytes[j])
  BY <1>1, <1>2 DEF ParseTrace
<1>4. PICK byte \in Nat : byte = bytes[j] /\ byte % 4 = 0
  BY DEF IsEnd
<1>5. PICK p \in Parsers : p = f[i] /\ p.missing = 0
  BY DEF Parsed
<1>6. PICK q : q = ParseByte(p, byte)
  OBVIOUS
<1>7. q \in Parsers /\ q.missing = 0 /\ q.said = p.said /\ q.fields = p.fields
  <2>1. p.missing = 0
    BY <1>5
  <2> QED
    BY <1>4, <1>6, <2>1, ItemBegins
<1> QED
  BY <1>3, <1>4, <1>5, <1>6, <1>7 DEF Parsed

LEMMA ThreeFields ==
  ASSUME NEW a, NEW b, NEW c
  PROVE  LET s == Append(Append(Append(<< >>, a), b), c)
         IN  Len(s) = 3 /\ s[1] = a /\ s[2] = b /\ s[3] = c
<1> DEFINE S == {a, b, c}
           s1 == Append(<< >>, a)
           s2 == Append(s1, b)
           s3 == Append(s2, c)
<1>1. a \in S /\ b \in S /\ c \in S /\ << >> \in Seq(S) /\ Len(<< >>) = 0
  OBVIOUS
<1> HIDE DEF S
<1>2. s1 \in Seq(S) /\ Len(s1) = 1 /\ s1[1] = a
  BY <1>1, AppendProperties
<1> HIDE DEF s1
<1>3. s2 \in Seq(S) /\ Len(s2) = 2 /\ s2[1] = a /\ s2[2] = b
  BY <1>1, <1>2, AppendProperties, SMTT(30)
<1> HIDE DEF s2
<1>4. s3 \in Seq(S) /\ Len(s3) = 3 /\ s3[1] = a /\ s3[2] = b /\ s3[3] = c
  <2>1. /\ s3 \in Seq(S) /\ Len(s3) = Len(s2) + 1
        /\ \A i \in 1 .. Len(s2) : s3[i] = s2[i]
        /\ s3[Len(s2) + 1] = c
    <3>1. s2 \in Seq(S) /\ c \in S
      BY <1>1, <1>3
    <3> QED
      BY <3>1, AppendProperties
  <2> HIDE DEF s3
  <2>2. 1 \in 1 .. Len(s2) /\ 2 \in 1 .. Len(s2) /\ Len(s2) + 1 = 3
    BY <1>3
  <2> QED
    BY <1>3, <2>1, <2>2
<1> QED
  BY <1>4 DEF s3, s2, s1

LEMMA TagsAre ==
  /\ USAGE_PAGE \in Tags /\ REPORT_SIZE \in Tags /\ REPORT_COUNT \in Tags
  /\ LOGICAL_MAXIMUM \in Tags /\ USAGE_MINIMUM \in Tags /\ USAGE_MAXIMUM \in Tags
  /\ INPUT \in Tags /\ OUTPUT \in Tags /\ FEATURE \in Tags
  /\ 8 \in Tags /\ 20 \in Tags /\ 160 \in Tags
BY DEF Tags, USAGE_PAGE, REPORT_SIZE, REPORT_COUNT, LOGICAL_MAXIMUM, USAGE_MINIMUM,
       USAGE_MAXIMUM, INPUT, OUTPUT, FEATURE

LEMMA OtherTags ==
  /\ IsOther(8, INPUT) /\ IsOther(20, INPUT) /\ IsOther(160, INPUT)
  /\ IsOther(8, FEATURE) /\ IsOther(20, FEATURE) /\ IsOther(160, FEATURE)
  /\ IsOther(OUTPUT, INPUT) /\ IsOther(OUTPUT, FEATURE) /\ IsOther(INPUT, FEATURE)
BY DEF IsOther, Says, USAGE_PAGE, REPORT_SIZE, REPORT_COUNT, LOGICAL_MAXIMUM, USAGE_MINIMUM,
       USAGE_MAXIMUM, INPUT, OUTPUT, FEATURE

(* The fields of the two report descriptors, as a host finds them byte by   *)
(* byte.                                                                    *)
LEMMA KeyboardReport ==
  ASSUME NEW f, ParseTrace(f, hid_report_keyboard)
  PROVE  LET fields == f[63].fields[INPUT]
         IN  /\ Len(fields) = 3
             /\ fields[1] = Field(7, 1, 8, 1, 224, 231, 2)
             /\ fields[2] = Field(7, 8, 1, 1, 224, 231, 3)
             /\ fields[3] = Field(7, 8, 6, 101, 0, 101, 0)
<1>0. PICK bytes \in Seq(Nat) : bytes = hid_report_keyboard /\ Len(bytes) = 63
  <2>1. Flash["hid_report_keyboard"] = hid_report_keyboard
    BY DEF Flash
  <2>2. "hid_report_keyboard" \in DOMAIN Flash
    BY DEF Flash
  <2> QED
    BY <2>1, <2>2, FlashIs, ConfigurationArrays
<1>1. /\ bytes[1] = 5 /\ bytes[2] = 1 /\ bytes[3] = 9 /\ bytes[4] = 6
      /\ bytes[5] = 161 /\ bytes[6] = 1 /\ bytes[7] = 5 /\ bytes[8] = 7
  BY <1>0 DEF hid_report_keyboard
<1>2. /\ bytes[9] = 25 /\ bytes[10] = 224 /\ bytes[11] = 41 /\ bytes[12] = 231
      /\ bytes[13] = 21 /\ bytes[14] = 0 /\ bytes[15] = 37 /\ bytes[16] = 1
  BY <1>0 DEF hid_report_keyboard
<1>3. /\ bytes[17] = 117 /\ bytes[18] = 1 /\ bytes[19] = 149 /\ bytes[20] = 8
      /\ bytes[21] = 129 /\ bytes[22] = 2 /\ bytes[23] = 149 /\ bytes[24] = 1
  BY <1>0 DEF hid_report_keyboard
<1>4. /\ bytes[25] = 117 /\ bytes[26] = 8 /\ bytes[27] = 129 /\ bytes[28] = 3
      /\ bytes[29] = 149 /\ bytes[30] = 5 /\ bytes[31] = 117 /\ bytes[32] = 1
  BY <1>0 DEF hid_report_keyboard
<1>5. /\ bytes[33] = 5 /\ bytes[34] = 8 /\ bytes[35] = 25 /\ bytes[36] = 1
      /\ bytes[37] = 41 /\ bytes[38] = 5 /\ bytes[39] = 145 /\ bytes[40] = 2
  BY <1>0 DEF hid_report_keyboard
<1>6. /\ bytes[41] = 149 /\ bytes[42] = 1 /\ bytes[43] = 117 /\ bytes[44] = 3
      /\ bytes[45] = 145 /\ bytes[46] = 3 /\ bytes[47] = 149 /\ bytes[48] = 6
  BY <1>0 DEF hid_report_keyboard
<1>7. /\ bytes[49] = 117 /\ bytes[50] = 8 /\ bytes[51] = 21 /\ bytes[52] = 0
      /\ bytes[53] = 37 /\ bytes[54] = 101 /\ bytes[55] = 5 /\ bytes[56] = 7
  BY <1>0 DEF hid_report_keyboard
<1>8. /\ bytes[57] = 25 /\ bytes[58] = 0 /\ bytes[59] = 41 /\ bytes[60] = 101
      /\ bytes[61] = 129 /\ bytes[62] = 0 /\ bytes[63] = 192
  BY <1>0 DEF hid_report_keyboard
<1>9. IsItem(bytes, 0, 2, USAGE_PAGE, 1)
  BY <1>0, <1>1, TagsAre DEF IsItem, USAGE_PAGE
<1>10. IsItem(bytes, 2, 4, 8, 6)
  BY <1>0, <1>1, TagsAre DEF IsItem
<1>11. IsItem(bytes, 4, 6, 160, 1)
  BY <1>0, <1>1, TagsAre DEF IsItem
<1>12. IsItem(bytes, 6, 8, USAGE_PAGE, 7)
  BY <1>0, <1>1, TagsAre DEF IsItem, USAGE_PAGE
<1>13. IsItem(bytes, 8, 10, USAGE_MINIMUM, 224)
  BY <1>0, <1>2, TagsAre DEF IsItem, USAGE_MINIMUM
<1>14. IsItem(bytes, 10, 12, USAGE_MAXIMUM, 231)
  BY <1>0, <1>2, TagsAre DEF IsItem, USAGE_MAXIMUM
<1>15. IsItem(bytes, 12, 14, 20, 0)
  BY <1>0, <1>2, TagsAre DEF IsItem
<1>16. IsItem(bytes, 14, 16, LOGICAL_MAXIMUM, 1)
  BY <1>0, <1>2, TagsAre DEF IsItem, LOGICAL_MAXIMUM
<1>17. IsItem(bytes, 16, 18, REPORT_SIZE, 1)
  BY <1>0, <1>3, TagsAre DEF IsItem, REPORT_SIZE
<1>18. IsItem(bytes, 18, 20, REPORT_COUNT, 8)
  BY <1>0, <1>3, TagsAre DEF IsItem, REPORT_COUNT
<1>19. IsItem(bytes, 20, 22, INPUT, 2)
  BY <1>0, <1>3, TagsAre DEF IsItem, INPUT
<1>20. IsItem(bytes, 22, 24, REPORT_COUNT, 1)
  BY <1>0, <1>3, TagsAre DEF IsItem, REPORT_COUNT
<1>21. IsItem(bytes, 24, 26, REPORT_SIZE, 8)
  BY <1>0, <1>4, TagsAre DEF IsItem, REPORT_SIZE
<1>22. IsItem(bytes, 26, 28, INPUT, 3)
  BY <1>0, <1>4, TagsAre DEF IsItem, INPUT
<1>23. IsItem(bytes, 28, 30, REPORT_COUNT, 5)
  BY <1>0, <1>4, TagsAre DEF IsItem, REPORT_COUNT
<1>24. IsItem(bytes, 30, 32, REPORT_SIZE, 1)
  BY <1>0, <1>4, TagsAre DEF IsItem, REPORT_SIZE
<1>25. IsItem(bytes, 32, 34, USAGE_PAGE, 8)
  BY <1>0, <1>5, TagsAre DEF IsItem, USAGE_PAGE
<1>26. IsItem(bytes, 34, 36, USAGE_MINIMUM, 1)
  BY <1>0, <1>5, TagsAre DEF IsItem, USAGE_MINIMUM
<1>27. IsItem(bytes, 36, 38, USAGE_MAXIMUM, 5)
  BY <1>0, <1>5, TagsAre DEF IsItem, USAGE_MAXIMUM
<1>28. IsItem(bytes, 38, 40, OUTPUT, 2)
  BY <1>0, <1>5, TagsAre DEF IsItem, OUTPUT
<1>29. IsItem(bytes, 40, 42, REPORT_COUNT, 1)
  BY <1>0, <1>6, TagsAre DEF IsItem, REPORT_COUNT
<1>30. IsItem(bytes, 42, 44, REPORT_SIZE, 3)
  BY <1>0, <1>6, TagsAre DEF IsItem, REPORT_SIZE
<1>31. IsItem(bytes, 44, 46, OUTPUT, 3)
  BY <1>0, <1>6, TagsAre DEF IsItem, OUTPUT
<1>32. IsItem(bytes, 46, 48, REPORT_COUNT, 6)
  BY <1>0, <1>6, TagsAre DEF IsItem, REPORT_COUNT
<1>33. IsItem(bytes, 48, 50, REPORT_SIZE, 8)
  BY <1>0, <1>7, TagsAre DEF IsItem, REPORT_SIZE
<1>34. IsItem(bytes, 50, 52, 20, 0)
  BY <1>0, <1>7, TagsAre DEF IsItem
<1>35. IsItem(bytes, 52, 54, LOGICAL_MAXIMUM, 101)
  BY <1>0, <1>7, TagsAre DEF IsItem, LOGICAL_MAXIMUM
<1>36. IsItem(bytes, 54, 56, USAGE_PAGE, 7)
  BY <1>0, <1>7, TagsAre DEF IsItem, USAGE_PAGE
<1>37. IsItem(bytes, 56, 58, USAGE_MINIMUM, 0)
  BY <1>0, <1>8, TagsAre DEF IsItem, USAGE_MINIMUM
<1>38. IsItem(bytes, 58, 60, USAGE_MAXIMUM, 101)
  BY <1>0, <1>8, TagsAre DEF IsItem, USAGE_MAXIMUM
<1>39. IsItem(bytes, 60, 62, INPUT, 0)
  BY <1>0, <1>8, TagsAre DEF IsItem, INPUT
<1>40. IsEnd(bytes, 62, 63)
  BY <1>0, <1>8, TagsAre DEF IsEnd
<1> DEFINE in1 == Append(<< >>, Field(7, 1, 8, 1, 224, 231, 2))
           in2 == Append(in1, Field(7, 8, 1, 1, 224, 231, 3))
           in3 == Append(in2, Field(7, 8, 6, 101, 0, 101, 0))
<1> HIDE DEF in1, in2, in3
<1>41. ParseTrace(f, bytes)
  BY <1>0
<1>42. Parsed(f[0], INPUT, 0, 0, 0, 0, 0, 0, << >>)
  BY <1>41, ParsedFirst DEF ParseTrace, Kinds
<1>43. Parsed(f[2], INPUT, 1, 0, 0, 0, 0, 0, << >>)
  <2>1. ParsedBy(f[2], INPUT, 0, 0, 0, 0, 0, 0, << >>, USAGE_PAGE, 1)
    BY <1>9, <1>41, <1>42, ParsedMore, SMTT(30)
  <2> QED
    BY <2>1 DEF ParsedBy
<1>44. Parsed(f[4], INPUT, 1, 0, 0, 0, 0, 0, << >>)
  <2>1. ParsedBy(f[4], INPUT, 1, 0, 0, 0, 0, 0, << >>, 8, 6)
    BY <1>10, <1>41, <1>43, ParsedMore, SMTT(30)
  <2> QED
    BY <2>1, OtherTags DEF ParsedBy
<1>45. Parsed(f[6], INPUT, 1, 0, 0, 0, 0, 0, << >>)
  <2>1. ParsedBy(f[6], INPUT, 1, 0, 0, 0, 0, 0, << >>, 160, 1)
    BY <1>11, <1>41, <1>44, ParsedMore, SMTT(30)
  <2> QED
    BY <2>1, OtherTags DEF ParsedBy
<1>46. Parsed(f[8], INPUT, 7, 0, 0, 0, 0, 0, << >>)
  <2>1. ParsedBy(f[8], INPUT, 1, 0, 0, 0, 0, 0, << >>, USAGE_PAGE, 7)
    BY <1>12, <1>41, <1>45, ParsedMore, SMTT(30)
  <2> QED
    BY <2>1 DEF ParsedBy
<1>47. Parsed(f[10], INPUT, 7, 0, 0, 0, 224, 0, << >>)
  <2>1. ParsedBy(f[10], INPUT, 7, 0, 0, 0, 0, 0, << >>, USAGE_MINIMUM, 224)
    BY <1>13, <1>41, <1>46, ParsedMore, SMTT(30)
  <2> QED
    BY <2>1 DEF ParsedBy
<1>48. Parsed(f[12], INPUT, 7, 0, 0, 0, 224, 231, << >>)
  <2>1. ParsedBy(f[12], INPUT, 7, 0, 0, 0, 224, 0, << >>, USAGE_MAXIMUM, 231)
    BY <1>14, <1>41, <1>47, ParsedMore, SMTT(30)
  <2> QED
    BY <2>1 DEF ParsedBy
<1>49. Parsed(f[14], INPUT, 7, 0, 0, 0, 224, 231, << >>)
  <2>1. ParsedBy(f[14], INPUT, 7, 0, 0, 0, 224, 231, << >>, 20, 0)
    BY <1>15, <1>41, <1>48, ParsedMore, SMTT(30)
  <2> QED
    BY <2>1, OtherTags DEF ParsedBy
<1>50. Parsed(f[16], INPUT, 7, 0, 0, 1, 224, 231, << >>)
  <2>1. ParsedBy(f[16], INPUT, 7, 0, 0, 0, 224, 231, << >>, LOGICAL_MAXIMUM, 1)
    BY <1>16, <1>41, <1>49, ParsedMore, SMTT(30)
  <2> QED
    BY <2>1 DEF ParsedBy
<1>51. Parsed(f[18], INPUT, 7, 1, 0, 1, 224, 231, << >>)
  <2>1. ParsedBy(f[18], INPUT, 7, 0, 0, 1, 224, 231, << >>, REPORT_SIZE, 1)
    BY <1>17, <1>41, <1>50, ParsedMore, SMTT(30)
  <2> QED
    BY <2>1 DEF ParsedBy
<1>52. Parsed(f[20], INPUT, 7, 1, 8, 1, 224, 231, << >>)
  <2>1. ParsedBy(f[20], INPUT, 7, 1, 0, 1, 224, 231, << >>, REPORT_COUNT, 8)
    BY <1>18, <1>41, <1>51, ParsedMore, SMTT(30)
  <2> QED
    BY <2>1 DEF ParsedBy
<1>53. Parsed(f[22], INPUT, 7, 1, 8, 1, 224, 231, in1)
  <2>1. ParsedBy(f[22], INPUT, 7, 1, 8, 1, 224, 231, << >>, INPUT, 2)
    BY <1>19, <1>41, <1>52, ParsedMore, SMTT(30)
  <2> QED
    BY <2>1 DEF ParsedBy, in1
<1>54. Parsed(f[24], INPUT, 7, 1, 1, 1, 224, 231, in1)
  <2>1. ParsedBy(f[24], INPUT, 7, 1, 8, 1, 224, 231, in1, REPORT_COUNT, 1)
    BY <1>20, <1>41, <1>53, ParsedMore, SMTT(30)
  <2> QED
    BY <2>1 DEF ParsedBy
<1>55. Parsed(f[26], INPUT, 7, 8, 1, 1, 224, 231, in1)
  <2>1. ParsedBy(f[26], INPUT, 7, 1, 1, 1, 224, 231, in1, REPORT_SIZE, 8)
    BY <1>21, <1>41, <1>54, ParsedMore, SMTT(30)
  <2> QED
    BY <2>1 DEF ParsedBy
<1>56. Parsed(f[28], INPUT, 7, 8, 1, 1, 224, 231, in2)
  <2>1. ParsedBy(f[28], INPUT, 7, 8, 1, 1, 224, 231, in1, INPUT, 3)
    BY <1>22, <1>41, <1>55, ParsedMore, SMTT(30)
  <2> QED
    BY <2>1 DEF ParsedBy, in2
<1>57. Parsed(f[30], INPUT, 7, 8, 5, 1, 224, 231, in2)
  <2>1. ParsedBy(f[30], INPUT, 7, 8, 1, 1, 224, 231, in2, REPORT_COUNT, 5)
    BY <1>23, <1>41, <1>56, ParsedMore, SMTT(30)
  <2> QED
    BY <2>1 DEF ParsedBy
<1>58. Parsed(f[32], INPUT, 7, 1, 5, 1, 224, 231, in2)
  <2>1. ParsedBy(f[32], INPUT, 7, 8, 5, 1, 224, 231, in2, REPORT_SIZE, 1)
    BY <1>24, <1>41, <1>57, ParsedMore, SMTT(30)
  <2> QED
    BY <2>1 DEF ParsedBy
<1>59. Parsed(f[34], INPUT, 8, 1, 5, 1, 224, 231, in2)
  <2>1. ParsedBy(f[34], INPUT, 7, 1, 5, 1, 224, 231, in2, USAGE_PAGE, 8)
    BY <1>25, <1>41, <1>58, ParsedMore, SMTT(30)
  <2> QED
    BY <2>1 DEF ParsedBy
<1>60. Parsed(f[36], INPUT, 8, 1, 5, 1, 1, 231, in2)
  <2>1. ParsedBy(f[36], INPUT, 8, 1, 5, 1, 224, 231, in2, USAGE_MINIMUM, 1)
    BY <1>26, <1>41, <1>59, ParsedMore, SMTT(30)
  <2> QED
    BY <2>1 DEF ParsedBy
<1>61. Parsed(f[38], INPUT, 8, 1, 5, 1, 1, 5, in2)
  <2>1. ParsedBy(f[38], INPUT, 8, 1, 5, 1, 1, 231, in2, USAGE_MAXIMUM, 5)
    BY <1>27, <1>41, <1>60, ParsedMore, SMTT(30)
  <2> QED
    BY <2>1 DEF ParsedBy
<1>62. Parsed(f[40], INPUT, 8, 1, 5, 1, 1, 5, in2)
  <2>1. ParsedBy(f[40], INPUT, 8, 1, 5, 1, 1, 5, in2, OUTPUT, 2)
    BY <1>28, <1>41, <1>61, ParsedMore, SMTT(30)
  <2> QED
    BY <2>1, OtherTags DEF ParsedBy
<1>63. Parsed(f[42], INPUT, 8, 1, 1, 1, 1, 5, in2)
  <2>1. ParsedBy(f[42], INPUT, 8, 1, 5, 1, 1, 5, in2, REPORT_COUNT, 1)
    BY <1>29, <1>41, <1>62, ParsedMore, SMTT(30)
  <2> QED
    BY <2>1 DEF ParsedBy
<1>64. Parsed(f[44], INPUT, 8, 3, 1, 1, 1, 5, in2)
  <2>1. ParsedBy(f[44], INPUT, 8, 1, 1, 1, 1, 5, in2, REPORT_SIZE, 3)
    BY <1>30, <1>41, <1>63, ParsedMore, SMTT(30)
  <2> QED
    BY <2>1 DEF ParsedBy
<1>65. Parsed(f[46], INPUT, 8, 3, 1, 1, 1, 5, in2)
  <2>1. ParsedBy(f[46], INPUT, 8, 3, 1, 1, 1, 5, in2, OUTPUT, 3)
    BY <1>31, <1>41, <1>64, ParsedMore, SMTT(30)
  <2> QED
    BY <2>1, OtherTags DEF ParsedBy
<1>66. Parsed(f[48], INPUT, 8, 3, 6, 1, 1, 5, in2)
  <2>1. ParsedBy(f[48], INPUT, 8, 3, 1, 1, 1, 5, in2, REPORT_COUNT, 6)
    BY <1>32, <1>41, <1>65, ParsedMore, SMTT(30)
  <2> QED
    BY <2>1 DEF ParsedBy
<1>67. Parsed(f[50], INPUT, 8, 8, 6, 1, 1, 5, in2)
  <2>1. ParsedBy(f[50], INPUT, 8, 3, 6, 1, 1, 5, in2, REPORT_SIZE, 8)
    BY <1>33, <1>41, <1>66, ParsedMore, SMTT(30)
  <2> QED
    BY <2>1 DEF ParsedBy
<1>68. Parsed(f[52], INPUT, 8, 8, 6, 1, 1, 5, in2)
  <2>1. ParsedBy(f[52], INPUT, 8, 8, 6, 1, 1, 5, in2, 20, 0)
    BY <1>34, <1>41, <1>67, ParsedMore, SMTT(30)
  <2> QED
    BY <2>1, OtherTags DEF ParsedBy
<1>69. Parsed(f[54], INPUT, 8, 8, 6, 101, 1, 5, in2)
  <2>1. ParsedBy(f[54], INPUT, 8, 8, 6, 1, 1, 5, in2, LOGICAL_MAXIMUM, 101)
    BY <1>35, <1>41, <1>68, ParsedMore, SMTT(30)
  <2> QED
    BY <2>1 DEF ParsedBy
<1>70. Parsed(f[56], INPUT, 7, 8, 6, 101, 1, 5, in2)
  <2>1. ParsedBy(f[56], INPUT, 8, 8, 6, 101, 1, 5, in2, USAGE_PAGE, 7)
    BY <1>36, <1>41, <1>69, ParsedMore, SMTT(30)
  <2> QED
    BY <2>1 DEF ParsedBy
<1>71. Parsed(f[58], INPUT, 7, 8, 6, 101, 0, 5, in2)
  <2>1. ParsedBy(f[58], INPUT, 7, 8, 6, 101, 1, 5, in2, USAGE_MINIMUM, 0)
    BY <1>37, <1>41, <1>70, ParsedMore, SMTT(30)
  <2> QED
    BY <2>1 DEF ParsedBy
<1>72. Parsed(f[60], INPUT, 7, 8, 6, 101, 0, 101, in2)
  <2>1. ParsedBy(f[60], INPUT, 7, 8, 6, 101, 0, 5, in2, USAGE_MAXIMUM, 101)
    BY <1>38, <1>41, <1>71, ParsedMore, SMTT(30)
  <2> QED
    BY <2>1 DEF ParsedBy
<1>73. Parsed(f[62], INPUT, 7, 8, 6, 101, 0, 101, in3)
  <2>1. ParsedBy(f[62], INPUT, 7, 8, 6, 101, 0, 101, in2, INPUT, 0)
    BY <1>39, <1>41, <1>72, ParsedMore, SMTT(30)
  <2> QED
    BY <2>1 DEF ParsedBy, in3
<1>74. Parsed(f[63], INPUT, 7, 8, 6, 101, 0, 101, in3)
  BY <1>40, <1>41, <1>73, ParsedEnd
<1>75. /\ Len(in3) = 3 /\ in3[1] = Field(7, 1, 8, 1, 224, 231, 2)
      /\ in3[2] = Field(7, 8, 1, 1, 224, 231, 3) /\ in3[3] = Field(7, 8, 6, 101, 0, 101, 0)
  BY ThreeFields DEF in3, in2, in1
<1> QED
  BY <1>74, <1>75 DEF Parsed

LEMMA ProtocolReport ==
  ASSUME NEW f, ParseTrace(f, hid_report_rawhid)
  PROVE  LET fields == f[29].fields[FEATURE]
         IN  /\ Len(fields) = 1
             /\ fields[1] = Field(65280, 8, 32, 255, 0, 0, 2)
<1>0. PICK bytes \in Seq(Nat) : bytes = hid_report_rawhid /\ Len(bytes) = 29
  <2>1. Flash["hid_report_rawhid"] = hid_report_rawhid
    BY DEF Flash
  <2>2. "hid_report_rawhid" \in DOMAIN Flash
    BY DEF Flash
  <2> QED
    BY <2>1, <2>2, FlashIs, ConfigurationArrays
<1>1. /\ bytes[1] = 6 /\ bytes[2] = 0 /\ bytes[3] = 255 /\ bytes[4] = 9
      /\ bytes[5] = 1 /\ bytes[6] = 161 /\ bytes[7] = 1 /\ bytes[8] = 21
  BY <1>0 DEF hid_report_rawhid, PROTOCOL_REPORT_SIZE
<1>2. /\ bytes[9] = 0 /\ bytes[10] = 38 /\ bytes[11] = 255 /\ bytes[12] = 0
      /\ bytes[13] = 117 /\ bytes[14] = 8 /\ bytes[15] = 149 /\ bytes[16] = 32
  BY <1>0 DEF hid_report_rawhid, PROTOCOL_REPORT_SIZE
<1>3. /\ bytes[17] = 9 /\ bytes[18] = 1 /\ bytes[19] = 129 /\ bytes[20] = 2
      /\ bytes[21] = 9 /\ bytes[22] = 1 /\ bytes[23] = 145 /\ bytes[24] = 2
  BY <1>0 DEF hid_report_rawhid, PROTOCOL_REPORT_SIZE
<1>4. /\ bytes[25] = 9 /\ bytes[26] = 1 /\ bytes[27] = 177 /\ bytes[28] = 2
      /\ bytes[29] = 192
  BY <1>0 DEF hid_report_rawhid, PROTOCOL_REPORT_SIZE
<1> DEFINE own == 65280
<1>5. IsLongItem(bytes, 0, 3, USAGE_PAGE, 0, 255, own)
  BY <1>0, <1>1, TagsAre DEF IsLongItem, USAGE_PAGE, own
<1>6. IsItem(bytes, 3, 5, 8, 1)
  BY <1>0, <1>1, TagsAre DEF IsItem
<1>7. IsItem(bytes, 5, 7, 160, 1)
  BY <1>0, <1>1, TagsAre DEF IsItem
<1>8. IsItem(bytes, 7, 9, 20, 0)
  BY <1>0, <1>1, <1>2, TagsAre DEF IsItem
<1>9. IsLongItem(bytes, 9, 12, LOGICAL_MAXIMUM, 255, 0, 255)
  BY <1>0, <1>2, TagsAre DEF IsLongItem, LOGICAL_MAXIMUM
<1>10. IsItem(bytes, 12, 14, REPORT_SIZE, 8)
  BY <1>0, <1>2, TagsAre DEF IsItem, REPORT_SIZE
<1>11. IsItem(bytes, 14, 16, REPORT_COUNT, 32)
  BY <1>0, <1>2, TagsAre DEF IsItem, REPORT_COUNT
<1>12. IsItem(bytes, 16, 18, 8, 1)
  BY <1>0, <1>3, TagsAre DEF IsItem
<1>13. IsItem(bytes, 18, 20, INPUT, 2)
  BY <1>0, <1>3, TagsAre DEF IsItem, INPUT
<1>14. IsItem(bytes, 20, 22, 8, 1)
  BY <1>0, <1>3, TagsAre DEF IsItem
<1>15. IsItem(bytes, 22, 24, OUTPUT, 2)
  BY <1>0, <1>3, TagsAre DEF IsItem, OUTPUT
<1>16. IsItem(bytes, 24, 26, 8, 1)
  BY <1>0, <1>4, TagsAre DEF IsItem
<1>17. IsItem(bytes, 26, 28, FEATURE, 2)
  BY <1>0, <1>4, TagsAre DEF IsItem, FEATURE
<1>18. IsEnd(bytes, 28, 29)
  BY <1>0, <1>4, TagsAre DEF IsEnd
<1> HIDE DEF own
<1> DEFINE in1 == Append(<< >>, Field(own, 8, 32, 255, 0, 0, 2))
<1> HIDE DEF in1, own
<1>19. ParseTrace(f, bytes)
  BY <1>0
<1>20. Parsed(f[0], FEATURE, 0, 0, 0, 0, 0, 0, << >>)
  BY <1>19, ParsedFirst DEF ParseTrace, Kinds
<1>21. Parsed(f[3], FEATURE, own, 0, 0, 0, 0, 0, << >>)
  <2>1. ParsedBy(f[3], FEATURE, 0, 0, 0, 0, 0, 0, << >>, USAGE_PAGE, own)
    BY <1>5, <1>19, <1>20, ParsedLong, SMTT(30)
  <2> QED
    BY <2>1 DEF ParsedBy
<1>22. Parsed(f[5], FEATURE, own, 0, 0, 0, 0, 0, << >>)
  <2>1. ParsedBy(f[5], FEATURE, own, 0, 0, 0, 0, 0, << >>, 8, 1)
    BY <1>6, <1>19, <1>21, ParsedMore, SMTT(30)
  <2> QED
    BY <2>1, OtherTags DEF ParsedBy
<1>23. Parsed(f[7], FEATURE, own, 0, 0, 0, 0, 0, << >>)
  <2>1. ParsedBy(f[7], FEATURE, own, 0, 0, 0, 0, 0, << >>, 160, 1)
    BY <1>7, <1>19, <1>22, ParsedMore, SMTT(30)
  <2> QED
    BY <2>1, OtherTags DEF ParsedBy
<1>24. Parsed(f[9], FEATURE, own, 0, 0, 0, 0, 0, << >>)
  <2>1. ParsedBy(f[9], FEATURE, own, 0, 0, 0, 0, 0, << >>, 20, 0)
    BY <1>8, <1>19, <1>23, ParsedMore, SMTT(30)
  <2> QED
    BY <2>1, OtherTags DEF ParsedBy
<1>25. Parsed(f[12], FEATURE, own, 0, 0, 255, 0, 0, << >>)
  <2>1. ParsedBy(f[12], FEATURE, own, 0, 0, 0, 0, 0, << >>, LOGICAL_MAXIMUM, 255)
    BY <1>9, <1>19, <1>24, ParsedLong, SMTT(30)
  <2> QED
    BY <2>1 DEF ParsedBy
<1>26. Parsed(f[14], FEATURE, own, 8, 0, 255, 0, 0, << >>)
  <2>1. ParsedBy(f[14], FEATURE, own, 0, 0, 255, 0, 0, << >>, REPORT_SIZE, 8)
    BY <1>10, <1>19, <1>25, ParsedMore, SMTT(30)
  <2> QED
    BY <2>1 DEF ParsedBy
<1>27. Parsed(f[16], FEATURE, own, 8, 32, 255, 0, 0, << >>)
  <2>1. ParsedBy(f[16], FEATURE, own, 8, 0, 255, 0, 0, << >>, REPORT_COUNT, 32)
    BY <1>11, <1>19, <1>26, ParsedMore, SMTT(30)
  <2> QED
    BY <2>1 DEF ParsedBy
<1>28. Parsed(f[18], FEATURE, own, 8, 32, 255, 0, 0, << >>)
  <2>1. ParsedBy(f[18], FEATURE, own, 8, 32, 255, 0, 0, << >>, 8, 1)
    BY <1>12, <1>19, <1>27, ParsedMore, SMTT(30)
  <2> QED
    BY <2>1, OtherTags DEF ParsedBy
<1>29. Parsed(f[20], FEATURE, own, 8, 32, 255, 0, 0, << >>)
  <2>1. ParsedBy(f[20], FEATURE, own, 8, 32, 255, 0, 0, << >>, INPUT, 2)
    BY <1>13, <1>19, <1>28, ParsedMore, SMTT(30)
  <2> QED
    BY <2>1, OtherTags DEF ParsedBy
<1>30. Parsed(f[22], FEATURE, own, 8, 32, 255, 0, 0, << >>)
  <2>1. ParsedBy(f[22], FEATURE, own, 8, 32, 255, 0, 0, << >>, 8, 1)
    BY <1>14, <1>19, <1>29, ParsedMore, SMTT(30)
  <2> QED
    BY <2>1, OtherTags DEF ParsedBy
<1>31. Parsed(f[24], FEATURE, own, 8, 32, 255, 0, 0, << >>)
  <2>1. ParsedBy(f[24], FEATURE, own, 8, 32, 255, 0, 0, << >>, OUTPUT, 2)
    BY <1>15, <1>19, <1>30, ParsedMore, SMTT(30)
  <2> QED
    BY <2>1, OtherTags DEF ParsedBy
<1>32. Parsed(f[26], FEATURE, own, 8, 32, 255, 0, 0, << >>)
  <2>1. ParsedBy(f[26], FEATURE, own, 8, 32, 255, 0, 0, << >>, 8, 1)
    BY <1>16, <1>19, <1>31, ParsedMore, SMTT(30)
  <2> QED
    BY <2>1, OtherTags DEF ParsedBy
<1>33. Parsed(f[28], FEATURE, own, 8, 32, 255, 0, 0, in1)
  <2>1. ParsedBy(f[28], FEATURE, own, 8, 32, 255, 0, 0, << >>, FEATURE, 2)
    BY <1>17, <1>19, <1>32, ParsedMore, SMTT(30)
  <2> QED
    BY <2>1 DEF ParsedBy, in1
<1>34. Parsed(f[29], FEATURE, own, 8, 32, 255, 0, 0, in1)
  BY <1>18, <1>19, <1>33, ParsedEnd
<1>35. Len(in1) = 1 /\ in1[1] = Field(own, 8, 32, 255, 0, 0, 2)
  BY DEF in1
<1> QED
  BY <1>34, <1>35 DEF Parsed, own
-----------------------------------------------------------------------------
(* The keys that the table of characters has are among those that the      *)
(* report descriptor names: none is above 0x65.                            *)
Plain == 0 .. \h65
Pressable == {e \in 0 .. 255 : e % 128 <= \h65}
IsPressed(s, n) == s \in Seq(Pressable) /\ Len(s) = n

LEMMA PlainIsPressable == Plain \subseteq Pressable
BY DEF Plain, Pressable

LEMMA PressedJoin ==
  ASSUME NEW a, NEW b, NEW n \in Nat, NEW m \in Nat, NEW k, IsPressed(a, n), IsPressed(b, m),
         k = n + m
  PROVE  IsPressed(a \o b, k)
<1>1. a \in Seq(Pressable) /\ b \in Seq(Pressable)
  BY DEF IsPressed
<1>2. a \o b \in Seq(Pressable) /\ Len(a \o b) = Len(a) + Len(b)
  BY <1>1, ConcatProperties
<1> QED
  BY <1>2 DEF IsPressed

LEMMA PressedPlain ==
  ASSUME NEW s \in Seq(Plain), NEW n, Len(s) = n
  PROVE  IsPressed(s, n)
BY PlainIsPressable DEF IsPressed

LEMMA PressedShift ==
  ASSUME NEW keys \in Seq(Plain), NEW n, Len(keys) = n
  PROVE  IsPressed(KeycodeTable!Shift(keys), n)
<1>1. PICK m \in Nat : m = Len(keys)
  OBVIOUS
<1>2. \A i \in 1 .. m : keys[i] \in Plain
  BY <1>1
<1>3. \A i \in 1 .. m : 128 + keys[i] \in Pressable
  <2>1. ASSUME NEW k \in Plain PROVE 128 + k \in Pressable
    BY DEF Plain, Pressable
  <2> QED
    BY <1>2, <2>1
<1>4. KeycodeTable!Shift(keys) = [i \in 1 .. m |-> 128 + keys[i]]
  BY <1>1 DEF KeycodeTable!Shift, KeycodeTable!SHIFT_FLAG
<1>5. [i \in 1 .. m |-> 128 + keys[i]] \in Seq(Pressable)
  BY <1>3
<1>6. Len([i \in 1 .. m |-> 128 + keys[i]]) = m
  OBVIOUS
<1> QED
  BY <1>1, <1>4, <1>5, <1>6 DEF IsPressed

LEMMA PressedNone ==
  ASSUME NEW n \in Nat
  PROVE  IsPressed(KeycodeTable!None(n), n)
<1>1. 0 \in Pressable
  BY DEF Pressable
<1> QED
  BY <1>1 DEF KeycodeTable!None, IsPressed

LEMMA PlainLetters == KeycodeTable!Letters \in Seq(Plain) /\ Len(KeycodeTable!Letters) = 26
BY DEF KeycodeTable!Letters, Plain

LEMMA PressedTable == IsPressed(KeycodeTable!ascii_to_keycode, 119)
<1> DEFINE p1 == <<\h2A, \h2B, \h28>>
           p2 == KeycodeTable!None(16)
           p3 == <<\h29>>
           p4 == KeycodeTable!None(4)
           p5 == <<\h2C>>
           p6 == KeycodeTable!Shift(<<\h1E, \h34, \h20, \h21, \h22, \h24>>)
           p7 == <<\h34>>
           p8 == KeycodeTable!Shift(<<\h26, \h27, \h25, \h2E>>)
           p9 == <<\h36, \h2D, \h37, \h38, \h27>>
           p10 == [i \in 1 .. 9 |-> \h1D + i]
           p11 == <<KeycodeTable!SHIFT_FLAG + \h33, \h33,
                    KeycodeTable!SHIFT_FLAG + \h36, \h2E>>
           p12 == KeycodeTable!Shift(<<\h37, \h38, \h1F>>)
           p13 == KeycodeTable!Shift(KeycodeTable!Letters)
           p14 == <<\h2F, \h31, \h30>>
           p15 == KeycodeTable!Shift(<<\h23, \h2D>>)
           p16 == <<\h35>>
           p17 == KeycodeTable!Letters
           p18 == KeycodeTable!Shift(<<\h2F, \h31, \h30, \h35>>)
           t1 == p1
           t2 == t1 \o p2
           t3 == t2 \o p3
           t4 == t3 \o p4
           t5 == t4 \o p5
           t6 == t5 \o p6
           t7 == t6 \o p7
           t8 == t7 \o p8
           t9 == t8 \o p9
           t10 == t9 \o p10
           t11 == t10 \o p11
           t12 == t11 \o p12
           t13 == t12 \o p13
           t14 == t13 \o p14
           t15 == t14 \o p15
           t16 == t15 \o p16
           t17 == t16 \o p17
           t18 == t17 \o p18
<1>1. KeycodeTable!ascii_to_keycode = t18
  BY DEF KeycodeTable!ascii_to_keycode, KeycodeTable!SHIFT_FLAG
<1>2. IsPressed(p1, 3)
  <2>1. p1 \in Seq(Plain) /\ Len(p1) = 3
    BY DEF Plain
  <2> QED
    BY <2>1, PressedPlain
<1>3. IsPressed(p2, 16)
  BY PressedNone
<1>4. IsPressed(p3, 1)
  <2>1. p3 \in Seq(Plain) /\ Len(p3) = 1
    BY DEF Plain
  <2> QED
    BY <2>1, PressedPlain
<1>5. IsPressed(p4, 4)
  BY PressedNone
<1>6. IsPressed(p5, 1)
  <2>1. p5 \in Seq(Plain) /\ Len(p5) = 1
    BY DEF Plain
  <2> QED
    BY <2>1, PressedPlain
<1>7. IsPressed(p6, 6)
  <2>1. /\ <<\h1E, \h34, \h20, \h21, \h22, \h24>> \in Seq(Plain)
        /\ Len(<<\h1E, \h34, \h20, \h21, \h22, \h24>>) = 6
    BY DEF Plain
  <2> QED
    BY <2>1, PressedShift
<1>8. IsPressed(p7, 1)
  <2>1. p7 \in Seq(Plain) /\ Len(p7) = 1
    BY DEF Plain
  <2> QED
    BY <2>1, PressedPlain
<1>9. IsPressed(p8, 4)
  <2>1. /\ <<\h26, \h27, \h25, \h2E>> \in Seq(Plain)
        /\ Len(<<\h26, \h27, \h25, \h2E>>) = 4
    BY DEF Plain
  <2> QED
    BY <2>1, PressedShift
<1>10. IsPressed(p9, 5)
  <2>1. p9 \in Seq(Plain) /\ Len(p9) = 5
    BY DEF Plain
  <2> QED
    BY <2>1, PressedPlain
<1>11. IsPressed(p10, 9)
  <2>1. p10 \in Seq(Plain) /\ Len(p10) = 9
    BY DEF Plain
  <2> QED
    BY <2>1, PressedPlain
<1>12. IsPressed(p11, 4)
  BY DEF IsPressed, Pressable, KeycodeTable!SHIFT_FLAG
<1>13. IsPressed(p12, 3)
  <2>1. /\ <<\h37, \h38, \h1F>> \in Seq(Plain)
        /\ Len(<<\h37, \h38, \h1F>>) = 3
    BY DEF Plain
  <2> QED
    BY <2>1, PressedShift
<1>14. IsPressed(p13, 26)
  BY PlainLetters, PressedShift
<1>15. IsPressed(p14, 3)
  <2>1. p14 \in Seq(Plain) /\ Len(p14) = 3
    BY DEF Plain
  <2> QED
    BY <2>1, PressedPlain
<1>16. IsPressed(p15, 2)
  <2>1. /\ <<\h23, \h2D>> \in Seq(Plain)
        /\ Len(<<\h23, \h2D>>) = 2
    BY DEF Plain
  <2> QED
    BY <2>1, PressedShift
<1>17. IsPressed(p16, 1)
  <2>1. p16 \in Seq(Plain) /\ Len(p16) = 1
    BY DEF Plain
  <2> QED
    BY <2>1, PressedPlain
<1>18. IsPressed(p17, 26)
  BY PlainLetters, PressedPlain
<1>19. IsPressed(p18, 4)
  <2>1. /\ <<\h2F, \h31, \h30, \h35>> \in Seq(Plain)
        /\ Len(<<\h2F, \h31, \h30, \h35>>) = 4
    BY DEF Plain
  <2> QED
    BY <2>1, PressedShift
<1> HIDE DEF p1, p2, p3, p4, p5, p6, p7, p8, p9,
            p10, p11, p12, p13, p14, p15, p16, p17, p18
<1>20. IsPressed(t1, 3)
  BY <1>2
<1> HIDE DEF t1
<1>21. IsPressed(t2, 19)
  <2>1. 19 = 3 + 16
    OBVIOUS
  <2> QED
    BY <1>20, <1>3, <2>1, PressedJoin
<1> HIDE DEF t2
<1>22. IsPressed(t3, 20)
  <2>1. 20 = 19 + 1
    OBVIOUS
  <2> QED
    BY <1>21, <1>4, <2>1, PressedJoin
<1> HIDE DEF t3
<1>23. IsPressed(t4, 24)
  <2>1. 24 = 20 + 4
    OBVIOUS
  <2> QED
    BY <1>22, <1>5, <2>1, PressedJoin
<1> HIDE DEF t4
<1>24. IsPressed(t5, 25)
  <2>1. 25 = 24 + 1
    OBVIOUS
  <2> QED
    BY <1>23, <1>6, <2>1, PressedJoin
<1> HIDE DEF t5
<1>25. IsPressed(t6, 31)
  <2>1. 31 = 25 + 6
    OBVIOUS
  <2> QED
    BY <1>24, <1>7, <2>1, PressedJoin
<1> HIDE DEF t6
<1>26. IsPressed(t7, 32)
  <2>1. 32 = 31 + 1
    OBVIOUS
  <2> QED
    BY <1>25, <1>8, <2>1, PressedJoin
<1> HIDE DEF t7
<1>27. IsPressed(t8, 36)
  <2>1. 36 = 32 + 4
    OBVIOUS
  <2> QED
    BY <1>26, <1>9, <2>1, PressedJoin
<1> HIDE DEF t8
<1>28. IsPressed(t9, 41)
  <2>1. 41 = 36 + 5
    OBVIOUS
  <2> QED
    BY <1>27, <1>10, <2>1, PressedJoin
<1> HIDE DEF t9
<1>29. IsPressed(t10, 50)
  <2>1. 50 = 41 + 9
    OBVIOUS
  <2> QED
    BY <1>28, <1>11, <2>1, PressedJoin
<1> HIDE DEF t10
<1>30. IsPressed(t11, 54)
  <2>1. 54 = 50 + 4
    OBVIOUS
  <2> QED
    BY <1>29, <1>12, <2>1, PressedJoin
<1> HIDE DEF t11
<1>31. IsPressed(t12, 57)
  <2>1. 57 = 54 + 3
    OBVIOUS
  <2> QED
    BY <1>30, <1>13, <2>1, PressedJoin
<1> HIDE DEF t12
<1>32. IsPressed(t13, 83)
  <2>1. 83 = 57 + 26
    OBVIOUS
  <2> QED
    BY <1>31, <1>14, <2>1, PressedJoin
<1> HIDE DEF t13
<1>33. IsPressed(t14, 86)
  <2>1. 86 = 83 + 3
    OBVIOUS
  <2> QED
    BY <1>32, <1>15, <2>1, PressedJoin
<1> HIDE DEF t14
<1>34. IsPressed(t15, 88)
  <2>1. 88 = 86 + 2
    OBVIOUS
  <2> QED
    BY <1>33, <1>16, <2>1, PressedJoin
<1> HIDE DEF t15
<1>35. IsPressed(t16, 89)
  <2>1. 89 = 88 + 1
    OBVIOUS
  <2> QED
    BY <1>34, <1>17, <2>1, PressedJoin
<1> HIDE DEF t16
<1>36. IsPressed(t17, 115)
  <2>1. 115 = 89 + 26
    OBVIOUS
  <2> QED
    BY <1>35, <1>18, <2>1, PressedJoin
<1> HIDE DEF t17
<1>37. IsPressed(t18, 119)
  <2>1. 119 = 115 + 4
    OBVIOUS
  <2> QED
    BY <1>36, <1>19, <2>1, PressedJoin
<1> QED
  BY <1>1, <1>37

LEMMA KeycodeBound ==
  ASSUME NEW c \in 0 .. 255
  PROVE  KeycodeTable!keycode_from_ascii(c).keycode <= \h65
<1> DEFINE index == (c + 256 - KeycodeTable!TABLE_OFFSET) % 256
           table == KeycodeTable!ascii_to_keycode
           entry == IF index < KeycodeTable!TABLE_SIZE THEN table[index + 1] ELSE 0
<1>1. KeycodeTable!keycode_from_ascii(c).keycode = entry % 128
  BY DEF KeycodeTable!keycode_from_ascii, KeycodeTable!Masked, KeycodeTable!SHIFT_FLAG
<1>2. index \in 0 .. 255 /\ (index < KeycodeTable!TABLE_SIZE => index + 1 \in 1 .. 119)
  BY DEF KeycodeTable!TABLE_OFFSET, KeycodeTable!TABLE_SIZE
<1>3. table \in Seq(Pressable) /\ Len(table) = 119
  BY PressedTable DEF IsPressed
<1> HIDE DEF table, index
<1>4. entry \in Pressable
  <2>1. CASE index < KeycodeTable!TABLE_SIZE
    <3>1. index + 1 \in 1 .. Len(table)
      BY <1>2, <1>3, <2>1
    <3>2. table \in Seq(Pressable)
      BY <1>3
    <3>3. table[index + 1] \in Pressable
      BY <3>1, <3>2, ElementOfSeq
    <3> QED
      BY <2>1, <3>3
  <2>2. CASE ~ (index < KeycodeTable!TABLE_SIZE)
    BY <2>2 DEF Pressable
  <2> QED
    BY <2>1, <2>2
<1> HIDE DEF entry
<1> QED
  BY <1>1, <1>4 DEF Pressable
-----------------------------------------------------------------------------
LEMMA TruthInit == Init => TruthInv /\ FirstByteInv
BY AttachedIs DEF Init, TruthInv, FirstByteInv, Telling

(* What the host reads in the bytes.                                       *)
LEMMA InterfaceIs ==
  ASSUME NEW config, NEW subclass, NEW protocol, NEW report,
         Configures(config, subclass, protocol, report)
  PROVE  SubSeq(config, 15, 17) = <<3, subclass, protocol>>
<1> DEFINE part == SubSeq(config, 14 + 1, 14 + 3)
<1>1. config \in Seq(Nat) /\ 14 + 3 <= Len(config)
  BY DEF Configures
<1>2. part \in Seq(Nat) /\ Len(part) = 3 /\ \A i \in 1 .. 3 : part[i] = config[14 + i]
  BY <1>1, PartIs
<1>3. part = SubSeq(config, 15, 17)
  OBVIOUS
<1> HIDE DEF part
<1>4. part[1] = 3 /\ part[2] = subclass /\ part[3] = protocol
  BY <1>2 DEF Configures
<1>5. part = <<part[1], part[2], part[3]>>
  BY <1>2
<1> QED
  BY <1>3, <1>4, <1>5

LEMMA FieldsAre ==
  ASSUME NEW kind, NEW bytes \in Seq(Nat)
  PROVE  \E f : ParseTrace(f, bytes) /\ Fields(kind, bytes) = f[Len(bytes)].fields[kind]
BY ParseFold DEF ParseTrace, Fields

LEMMA KeyboardFields ==
  LET input == Fields(INPUT, Flash["hid_report_keyboard"])
  IN  /\ Len(input) = 3 /\ input[1] = Field(7, 1, 8, 1, 224, 231, 2)
      /\ input[2] = Field(7, 8, 1, 1, 224, 231, 3)
      /\ input[3] = Field(7, 8, 6, 101, 0, 101, 0)
<1>1. PICK bytes : bytes = Flash["hid_report_keyboard"]
  OBVIOUS
<1>2. bytes = hid_report_keyboard /\ "hid_report_keyboard" \in DOMAIN Flash
  BY <1>1 DEF Flash
<1>3. bytes \in Seq(Nat) /\ Len(bytes) = 63
  BY <1>1, <1>2, FlashIs, ConfigurationArrays
<1>4. PICK f : ParseTrace(f, bytes) /\ Fields(INPUT, bytes) = f[Len(bytes)].fields[INPUT]
  BY <1>3, FieldsAre
<1>5. Fields(INPUT, bytes) = f[63].fields[INPUT] /\ ParseTrace(f, hid_report_keyboard)
  BY <1>2, <1>3, <1>4
<1> QED
  BY <1>1, <1>5, KeyboardReport

LEMMA ProtocolFields ==
  LET feature == Fields(FEATURE, Flash["hid_report_rawhid"])
  IN  Len(feature) = 1 /\ feature[1] = Field(65280, 8, 32, 255, 0, 0, 2)
<1>1. PICK bytes : bytes = Flash["hid_report_rawhid"]
  OBVIOUS
<1>2. bytes = hid_report_rawhid /\ "hid_report_rawhid" \in DOMAIN Flash
  BY <1>1 DEF Flash
<1>3. bytes \in Seq(Nat) /\ Len(bytes) = 29
  BY <1>1, <1>2, FlashIs, ConfigurationArrays
<1>4. PICK f : ParseTrace(f, bytes) /\ Fields(FEATURE, bytes) = f[Len(bytes)].fields[FEATURE]
  BY <1>3, FieldsAre
<1>5. Fields(FEATURE, bytes) = f[29].fields[FEATURE] /\ ParseTrace(f, hid_report_rawhid)
  BY <1>2, <1>3, <1>4
<1> QED
  BY <1>1, <1>5, ProtocolReport

LEMMA FieldParts ==
  ASSUME NEW page, NEW size, NEW count, NEW upto, NEW from, NEW until, NEW value,
         NEW field, field = Field(page, size, count, upto, from, until, value)
  PROVE  /\ field.page = page /\ field.size = size /\ field.count = count
         /\ field.upto = upto /\ field.usages = <<from, until>>
         /\ field.constant <=> value % 2 = 1
BY DEF Field

(* A host at the end of the enumeration knows the keyboard or the protocol.*)
LEMMA KnowsKeyboard ==
  ASSUME Configures(host.read["configuration"], 1, 1, host.read["report"]),
         host.read["report"] = Flash["hid_report_keyboard"]
  PROVE  Interface = <<3, 1, 1>> /\ UnderstandsReports
<1>1. Interface = <<3, 1, 1>>
  BY InterfaceIs DEF Interface
<1>2. EndpointSize = 8
  BY DEF EndpointSize, Configures
<1> DEFINE input == Fields(INPUT, host.read["report"])
           modifiers == input[1]
           reserved == input[2]
           keys == input[3]
<1>3. Len(input) = 3
  BY KeyboardFields DEF input
<1>4. modifiers = Field(7, 1, 8, 1, 224, 231, 2)
  BY KeyboardFields DEF input, modifiers
<1>5. reserved = Field(7, 8, 1, 1, 224, 231, 3)
  BY KeyboardFields DEF input, reserved
<1>6. keys = Field(7, 8, 6, 101, 0, 101, 0)
  BY KeyboardFields DEF input, keys
<1> HIDE DEF input, modifiers, reserved, keys
<1>8. /\ modifiers.page = 7 /\ modifiers.usages = <<224, 231>>
      /\ modifiers.size = 1 /\ modifiers.count = 8 /\ ~ modifiers.constant
  <2>1. ~ (2 % 2 = 1)
    OBVIOUS
  <2> QED
    BY <1>4, <2>1, FieldParts
<1>9. reserved.size = 8 /\ reserved.count = 1 /\ reserved.constant
  <2>1. 3 % 2 = 1
    OBVIOUS
  <2> QED
    BY <1>5, <2>1, FieldParts
<1>10. /\ keys.page = 7 /\ keys.size = 8 /\ keys.count = 6 /\ ~ keys.constant
       /\ keys.usages = <<0, 101>> /\ keys.upto = 101
  <2>1. ~ (0 % 2 = 1)
    OBVIOUS
  <2> QED
    BY <1>6, <2>1, FieldParts
<1>11. keys.usages[1] = 0 /\ Least(keys.usages[2], keys.upto) = 101
  BY <1>10 DEF Least
<1>12. \A c \in 0 .. 255 :
         KeycodeTable!keycode_from_ascii(c).keycode <= Least(keys.usages[2], keys.upto)
  BY <1>11, KeycodeBound, Zenon
<1>13. /\ reserved.size * reserved.count = 8 /\ keys.count = KEYBOARD_MAX_KEYS
       /\ 2 + keys.count = KEYBOARD_REPORT_SIZE /\ EndpointSize >= KEYBOARD_REPORT_SIZE
  BY <1>2, <1>9, <1>10 DEF KEYBOARD_MAX_KEYS, KEYBOARD_REPORT_SIZE
<1>14. UnderstandsReports
  BY <1>3, <1>8, <1>9, <1>10, <1>11, <1>12, <1>13
  DEF UnderstandsReports, input, modifiers, reserved, keys
<1> QED
  BY <1>1, <1>14

LEMMA KnowsProtocol ==
  ASSUME Configures(host.read["configuration"], 0, 0, host.read["report"]),
         host.read["report"] = Flash["hid_report_rawhid"]
  PROVE  Interface = <<3, 0, 0>> /\ UnderstandsProtocol
<1>1. Interface = <<3, 0, 0>>
  BY InterfaceIs DEF Interface
<1>2. PICK feature : feature = Fields(FEATURE, host.read["report"])
  OBVIOUS
<1>3. Len(feature) = 1 /\ feature[1] = Field(65280, 8, 32, 255, 0, 0, 2)
  BY <1>2, ProtocolFields
<1>4. feature[1].size = 8 /\ feature[1].count = PROTOCOL_REPORT_SIZE
  <2>1. feature[1].size = 8 /\ feature[1].count = 32
    BY <1>3 DEF Field
  <2> QED
    BY <2>1 DEF PROTOCOL_REPORT_SIZE
<1>5. UnderstandsProtocol
  BY <1>2, <1>3, <1>4 DEF UnderstandsProtocol
<1> QED
  BY <1>1, <1>5

LEMMA TruthKnows == EnumeratingInv /\ TruthInv => KnowsTheDevice
<1> SUFFICES ASSUME EnumeratingInv, TruthInv, host.step = Done PROVE KnowsTheDevice
  BY DEF KnowsTheDevice
<1>1. mode \in {"KEYBOARD", "PROGRAMMING"}
  BY DEF EnumeratingInv, DriverInv, Modes
<1>2. \A n \in Telling : host.step > n
  BY FirstEleven DEF Telling
<1>3. \A n \in Telling : host.read[Enumerating[n]] = Flash[ArrayOf(n)]
  BY <1>2 DEF TruthInv, Truth
<1>4. /\ host.read["configuration"] = Flash[ArrayOf(5)]
      /\ host.read["vendor"] = Flash[ArrayOf(7)]
      /\ host.read["product"] = Flash[ArrayOf(8)]
      /\ host.read["report"] = Flash[ArrayOf(11)]
  BY <1>3, StepNames DEF Telling
<1>5. Name(host.read["vendor"]) = VENDOR_NAME
  BY <1>4, StringArrays DEF ArrayOf, IsNameString
<1>6. Name(host.read["product"]) = DEVICE_NAME
  BY <1>4, StringArrays DEF ArrayOf, IsNameString, DEVICE_NAME
<1>7. CASE mode = "KEYBOARD"
  <2>1. /\ host.read["configuration"] = Flash["config_descriptor_keyboard"]
        /\ host.read["report"] = Flash["hid_report_keyboard"]
    BY <1>4, <1>7 DEF ArrayOf, descriptors_get_configuration, descriptors_get_hid_report, Whole
  <2>2. Interface = <<3, 1, 1>> /\ UnderstandsReports
    BY <2>1, ConfigurationArrays, KnowsKeyboard
  <2>3. Interface[1] = 3
    BY <2>2
  <2> QED
    BY <1>5, <1>6, <1>7, <2>2, <2>3 DEF KnowsTheDevice
<1>8. CASE mode = "PROGRAMMING"
  <2>1. /\ host.read["configuration"] = Flash["config_descriptor_rawhid"]
        /\ host.read["report"] = Flash["hid_report_rawhid"]
    BY <1>4, <1>8 DEF ArrayOf, descriptors_get_configuration, descriptors_get_hid_report, Whole
  <2>2. Interface = <<3, 0, 0>> /\ UnderstandsProtocol
    BY <2>1, ConfigurationArrays, KnowsProtocol
  <2>3. Interface[1] = 3
    BY <2>2
  <2> QED
    BY <1>5, <1>6, <1>8, <2>2, <2>3 DEF KnowsTheDevice
<1> QED
  BY <1>1, <1>7, <1>8

(* A host that has enumerated the device knows it for what it is in the    *)
(* mode that it is in: by its names, by its interface, and by what the     *)
(* report descriptor, parsed byte by byte, says of its reports, among them *)
(* every key of the table of characters; for any packet size, and however  *)
(* many packets are lost, requests repeated and modes changed.             *)
(* (usb_descriptors.c, usbFunctionDescriptor, usb_init, keycode.c.)        *)
THEOREM DeviceAlwaysKnown == Spec => []KnowsTheDevice
<1>1. Init => FirstByteInv /\ TruthInv
  BY TruthInit
<1>2. EnumeratingInv /\ FirstByteInv /\ TruthInv /\ [Next]_vars => FirstByteInv' /\ TruthInv'
  BY FirstByteStep, TruthStep
<1> QED
  BY <1>1, <1>2, TruthKnows, EnumeratingInit, EnumeratingStep, PTL DEF Spec
=============================================================================
