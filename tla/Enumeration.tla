----------------------------- MODULE Enumeration -----------------------------
(***************************************************************************)
(* How a host comes to know the device: V-USB's control endpoint           *)
(* (usbdrv.c, usbdrvasm165.inc, asmcommon.inc) answering the standard      *)
(* requests, with the descriptors of the device's mode, and a host that    *)
(* resets the bus, gives an address and reads what the device is.          *)
(*                                                                         *)
(* The interrupt routine takes a SETUP packet while the receive buffer is  *)
(* free and sends what is in the transmit buffer; usbPoll answers, when    *)
(* the main loop comes round to it.  The driver forgets a packet once it   *)
(* is sent, whether or not it arrived, and takes a new address with the    *)
(* first data packet it sends after SET_ADDRESS.                           *)
(*                                                                         *)
(* A packet to the host may be lost, the host may repeat a request or      *)
(* reset the bus for reasons of its own, and the device may miss a reset   *)
(* of the bus, because it programs the EEPROM and does not poll: at most   *)
(* MaxFaults times in all.  The device may restart in the other mode, at   *)
(* most MaxRestarts times.  Once it has enumerated the device, the host    *)
(* makes at most MaxQueries other requests.                                *)
(***************************************************************************)
EXTENDS VUsb, Descriptors

CONSTANTS MaxFaults, MaxRestarts, MaxQueries

ASSUME EnumerationAssumption ==
  /\ PacketSize \in Nat \ {0}
  /\ LengthBase \in Nat /\ USB_NO_MSG > 2
  /\ \A of \in DOMAIN Flash : Len(Flash[of]) < USB_NO_MSG
  /\ MaxFaults \in Nat /\ MaxRestarts \in Nat /\ MaxQueries \in Nat

VARIABLES
  mode,                              \* device_mode.c
  usbDeviceAddr, usbNewDeviceAddr,   \* the address, and the one to take
  usbConfiguration,
  has_communicated,                  \* usb_keyboard.c
  usbMsgLen, usbMsgPtr, usbMsgFlags, \* the answer being sent
  usbTxToken, tx,                    \* usbTxBuf: its token, and the packet to send
  rx,                                \* the request received
  wasReset,                          \* the last call of usbPoll saw a reset
  calibrated,                        \* the oscillator was searched since the reset
  se0,                               \* the host resets the bus
  host,
  clean,                             \* history: no fault since the last reset
  faults, restarts, queries

address_vars == <<usbDeviceAddr, usbNewDeviceAddr>>
message_vars == <<usbMsgLen, usbMsgPtr, usbMsgFlags, usbTxToken>>
application_vars == <<usbConfiguration, has_communicated>>
reset_vars == <<wasReset, calibrated>>
device_vars == <<mode, address_vars, message_vars, application_vars, reset_vars>>
bounds == <<faults, restarts, queries>>
vars == <<device_vars, tx, rx, se0, host, clean, bounds>>
-----------------------------------------------------------------------------
(* Packets and requests.                                                   *)
NAK == [sending |-> FALSE, data |-> << >>]
Packet(data) == [sending |-> TRUE, data |-> data]
NoRequest == [name |-> "none"]

Request(name, high, low, wLength) ==
  [name |-> name, wValue |-> <<high, low>>, wLength |-> wLength]
GetDescriptorOf(type, index, wLength) == Request("GET_DESCRIPTOR", type, index, wLength)

(* What the host does, in order.  A step is a read or a command.           *)
Address == 1
Enumerating ==
  <<"first", "address", "device", "header", "configuration", "language", "vendor",
    "product", "configure", "idle", "report">>
Reads == {"first", "device", "header", "configuration", "language", "vendor",
          "product", "report"}
Done == Len(Enumerating) + 1

RequestOf(step, read) ==
  CASE step = "first" -> GetDescriptorOf(DESCRIPTOR_TYPE_DEVICE, 0, 64)
    [] step = "address" -> Request("SET_ADDRESS", 0, Address, 0)
    [] step = "device" -> GetDescriptorOf(DESCRIPTOR_TYPE_DEVICE, 0, 18)
    [] step = "header" -> GetDescriptorOf(DESCRIPTOR_TYPE_CONFIGURATION, 0, 9)
    [] step = "configuration" ->
         GetDescriptorOf(DESCRIPTOR_TYPE_CONFIGURATION, 0, read["header"][3])
    [] step = "language" -> GetDescriptorOf(DESCRIPTOR_TYPE_STRING, 0, 255)
    [] step = "vendor" -> GetDescriptorOf(DESCRIPTOR_TYPE_STRING, read["device"][15], 255)
    [] step = "product" -> GetDescriptorOf(DESCRIPTOR_TYPE_STRING, read["device"][16], 255)
    [] step = "configure" -> Request("SET_CONFIGURATION", 0, read["configuration"][6], 0)
    [] step = "idle" -> Request("SET_IDLE", 0, 0, 0)
    [] step = "report" ->
         GetDescriptorOf(DESCRIPTOR_TYPE_HID_REPORT, 0, read["configuration"][26])

(* What it asks besides: the requests that the driver answers from RAM,    *)
(* those that it does not know, and lengths of more than a byte.           *)
Queries ==
  {Request("GET_STATUS", 0, 0, 2), Request("GET_CONFIGURATION", 0, 0, 1),
   Request("GET_INTERFACE", 0, 0, 1), Request("SET_INTERFACE", 0, 0, 0),
   Request("SET_FEATURE", 0, 0, 0),
   GetDescriptorOf(DESCRIPTOR_TYPE_HID, 0, 9),
   GetDescriptorOf(DESCRIPTOR_TYPE_STRING, 3, 255),
   GetDescriptorOf(DESCRIPTOR_TYPE_CONFIGURATION, 0, 2 * LengthBase)}

(* The host takes a read for complete when it has the length announced.    *)
Complete(step, wLength, bytes) ==
  CASE step = "first" -> Len(bytes) >= PacketSize
    [] step \in {"language", "vendor", "product"} ->
         Len(bytes) >= 2 /\ Len(bytes) = bytes[1]
    [] OTHER -> Len(bytes) = wLength
-----------------------------------------------------------------------------
(* A host that has just seen the device on its bus.                        *)
Attached ==
  [address |-> 0, step |-> 1, stage |-> "attached", request |-> NoRequest,
   toggle |-> 0, got |-> << >>, read |-> [step \in Reads |-> << >>],
   answer |-> [request |-> NoRequest, bytes |-> << >>]]

(* usb_init and usbInit, and the driver's variables as a reset leaves them.*)
PoweredUp(m) ==
  /\ mode' = m
  /\ usbDeviceAddr' = 0 /\ usbNewDeviceAddr' = 0
  /\ usbConfiguration' = 0 /\ has_communicated' = FALSE
  /\ usbMsgLen' = USB_NO_MSG /\ usbMsgFlags' = {}
  /\ usbMsgPtr' = [of |-> "nothing", at |-> 0]
  /\ usbTxToken' = 0 /\ tx' = NAK /\ rx' = NoRequest
  /\ wasReset' = FALSE /\ calibrated' = FALSE

Init ==
  /\ mode \in {"PROGRAMMING", "KEYBOARD"}
  /\ usbDeviceAddr = 0 /\ usbNewDeviceAddr = 0
  /\ usbConfiguration = 0 /\ has_communicated = FALSE
  /\ usbMsgLen = USB_NO_MSG /\ usbMsgFlags = {}
  /\ usbMsgPtr = [of |-> "nothing", at |-> 0]
  /\ usbTxToken = 0 /\ tx = NAK /\ rx = NoRequest
  /\ wasReset = FALSE /\ calibrated = FALSE
  /\ se0 = FALSE
  /\ host = Attached
  /\ clean = FALSE
  /\ faults = 0 /\ restarts = 0 /\ queries = 0

(* Mutant: usb_init does not disconnect, and the host notices nothing.     *)
RestartConnected ==
  /\ restarts < MaxRestarts
  /\ PoweredUp(IF mode = "KEYBOARD" THEN "PROGRAMMING" ELSE "KEYBOARD")
  /\ restarts' = restarts + 1
  /\ UNCHANGED <<se0, host, clean, faults, queries>>

(* A reset into the other mode.  usb_init drops off the bus for 300 ms,    *)
(* and the host forgets the device.                                        *)
Restart ==
  /\ restarts < MaxRestarts
  /\ PoweredUp(IF mode = "KEYBOARD" THEN "PROGRAMMING" ELSE "KEYBOARD")
  /\ se0' = FALSE
  /\ host' = Attached
  /\ clean' = FALSE
  /\ restarts' = restarts + 1
  /\ UNCHANGED <<faults, queries>>
-----------------------------------------------------------------------------
(* What usbMsgPtr points to: flash if the flag says so, RAM if not, and    *)
(* something else if the flag is wrong.                                    *)
USB_FLG_MSGPTR_IS_ROM == "ROM"

Ram(name) ==
  CASE name = "usbTxBuf+9" -> <<0, 0>>
    [] name = "usbConfiguration" -> <<usbConfiguration>>
    [] OTHER -> << >>

Pointed(ptr, len, flags) ==
  [i \in 1 .. len |->
     IF USB_FLG_MSGPTR_IS_ROM \in flags /\ ptr.of \in DOMAIN Flash
     THEN Flash[ptr.of][ptr.at + i]
     ELSE IF USB_FLG_MSGPTR_IS_ROM \notin flags /\ ptr.of \notin DOMAIN Flash
          THEN Ram(ptr.of)[ptr.at + i]
          ELSE LengthBase]

(* Mutant: what has been sent is not taken off the length.                 *)
BuildTxBlockKeepsLength(slot, token, len, ptr, flags) ==
  /\ usbMsgFlags' = flags
  /\ IF slot.sending \/ len = USB_NO_MSG
     THEN tx' = slot /\ usbTxToken' = token /\ usbMsgLen' = len /\ usbMsgPtr' = ptr
     ELSE LET wantLen == Least(len, PacketSize)
          IN  /\ tx' = Packet(Pointed(ptr, wantLen, flags))
              /\ usbTxToken' = 1 - token
              /\ usbMsgPtr' = [ptr EXCEPT !.at = @ + wantLen]
              /\ usbMsgLen' = IF wantLen < PacketSize THEN USB_NO_MSG
                              ELSE len

(* usbBuildTxBlock and usbDeviceRead: the next packet, once the transmit   *)
(* buffer is free.  A short packet is the last one.                        *)
BuildTxBlock(slot, token, len, ptr, flags) ==
  /\ usbMsgFlags' = flags
  /\ IF slot.sending \/ len = USB_NO_MSG
     THEN tx' = slot /\ usbTxToken' = token /\ usbMsgLen' = len /\ usbMsgPtr' = ptr
     ELSE LET wantLen == Least(len, PacketSize)
          IN  /\ tx' = Packet(Pointed(ptr, wantLen, flags))
              /\ usbTxToken' = 1 - token
              /\ usbMsgPtr' = [ptr EXCEPT !.at = @ + wantLen]
              /\ usbMsgLen' = IF wantLen < PacketSize THEN USB_NO_MSG
                              ELSE len - wantLen

(* Mutant: the address to be taken survives a reset.                       *)
CheckResetKeepsNew(new) ==
  /\ usbNewDeviceAddr' = new
  /\ usbDeviceAddr' = IF se0 THEN 0 ELSE usbDeviceAddr
  /\ wasReset' = se0
  /\ calibrated' = (calibrated \/ (wasReset /\ ~ se0))

(* The end of usbPoll: the reset condition, and the hook that searches the *)
(* oscillator when a reset is over.  new is the address to be taken.       *)
CheckReset(new) ==
  /\ usbNewDeviceAddr' = IF se0 THEN 0 ELSE new
  /\ usbDeviceAddr' = IF se0 THEN 0 ELSE usbDeviceAddr
  /\ wasReset' = se0
  /\ calibrated' = (calibrated \/ (wasReset /\ ~ se0))

Polled == UNCHANGED <<mode, se0, host, clean, bounds>>

NothingReceived ==
  /\ rx = NoRequest
  /\ BuildTxBlock(tx, usbTxToken, usbMsgLen, usbMsgPtr, usbMsgFlags)
  /\ CheckReset(usbNewDeviceAddr)
  /\ UNCHANGED <<rx, application_vars>>
  /\ Polled

(* usbProcessRx for a SETUP packet: the token starts again, what was being *)
(* sent is aborted, and the answer cut at the length that was asked for.   *)
Received(names) == rx # NoRequest /\ rx.name \in names /\ rx' = NoRequest

(* Mutant: the token is not initialised.                                   *)
AnswerWithoutToken(len, ptr, flags) ==
  BuildTxBlock(NAK, usbTxToken, Limited(len, rx.wLength), ptr, flags)

Answer(len, ptr, flags) ==
  BuildTxBlock(NAK, 0, Limited(len, rx.wLength), ptr, flags)

AnswerFromRam(name, len) == Answer(len, [of |-> name, at |-> 0], {})
-----------------------------------------------------------------------------
(* usbDriverSetup, one action per request.                                 *)
GetStatus ==
  /\ Received({"GET_STATUS"})
  /\ AnswerFromRam("usbTxBuf+9", 2)
  /\ CheckReset(usbNewDeviceAddr)
  /\ UNCHANGED application_vars
  /\ Polled

(* Mutant: the address is taken before the status packet is sent.          *)
SetAddressAtOnce ==
  /\ Received({"SET_ADDRESS"})
  /\ AnswerFromRam("usbTxBuf+9", 0)
  /\ usbNewDeviceAddr' = (IF se0 THEN 0 ELSE rx.wValue[2])
  /\ usbDeviceAddr' = (IF se0 THEN 0 ELSE rx.wValue[2])
  /\ wasReset' = se0
  /\ calibrated' = (calibrated \/ (wasReset /\ ~ se0))
  /\ UNCHANGED application_vars
  /\ Polled

SetAddress ==
  /\ Received({"SET_ADDRESS"})
  /\ AnswerFromRam("usbTxBuf+9", 0)
  /\ CheckReset(rx.wValue[2])
  /\ UNCHANGED application_vars
  /\ Polled

(* A descriptor without bytes leaves the pointer alone.                    *)
GetDescriptor ==
  /\ Received({"GET_DESCRIPTOR"})
  /\ LET d == usbDriverDescriptor(mode, rx.wValue[1], rx.wValue[2])
     IN  Answer(d.len, IF d = Nothing THEN usbMsgPtr ELSE [of |-> d.of, at |-> d.at],
                {USB_FLG_MSGPTR_IS_ROM})
  /\ CheckReset(usbNewDeviceAddr)
  /\ UNCHANGED application_vars
  /\ Polled

GetConfiguration ==
  /\ Received({"GET_CONFIGURATION"})
  /\ AnswerFromRam("usbConfiguration", 1)
  /\ CheckReset(usbNewDeviceAddr)
  /\ UNCHANGED application_vars
  /\ Polled

SetConfiguration ==
  /\ Received({"SET_CONFIGURATION"})
  /\ AnswerFromRam("usbTxBuf+9", 0)
  /\ usbConfiguration' = rx.wValue[2]
  /\ CheckReset(usbNewDeviceAddr)
  /\ UNCHANGED has_communicated
  /\ Polled

GetInterface ==
  /\ Received({"GET_INTERFACE"})
  /\ AnswerFromRam("usbTxBuf+9", 1)
  /\ CheckReset(usbNewDeviceAddr)
  /\ UNCHANGED application_vars
  /\ Polled

(* SET_INTERFACE resets the token of the interrupt endpoint, which is in   *)
(* module KeyboardEndpoint; features are not implemented.                  *)
SetInterfaceOrOther ==
  /\ Received({"SET_INTERFACE", "SET_FEATURE"})
  /\ AnswerFromRam("usbTxBuf+9", 0)
  /\ CheckReset(usbNewDeviceAddr)
  /\ UNCHANGED application_vars
  /\ Polled

(* usbFunctionSetup, for the class request of an enumeration.              *)
SetIdle ==
  /\ Received({"SET_IDLE"})
  /\ Answer(0, usbMsgPtr, {})
  /\ has_communicated' = (has_communicated \/ mode = "KEYBOARD")
  /\ CheckReset(usbNewDeviceAddr)
  /\ UNCHANGED usbConfiguration
  /\ Polled

usbPoll ==
  \/ NothingReceived
  \/ GetStatus \/ SetAddress \/ GetDescriptor
  \/ GetConfiguration \/ SetConfiguration
  \/ GetInterface \/ SetInterfaceOrOther
  \/ SetIdle
-----------------------------------------------------------------------------
(* The bus.  The driver hears what is for its address, and takes a request *)
(* only while its receive buffer is free; it answers NAK otherwise, and    *)
(* the host tries again.                                                   *)
Heard == ~ se0 /\ usbDeviceAddr = host.address

SendSetup(request) ==
  /\ Heard
  /\ host.stage = "ready"
  /\ rx = NoRequest
  /\ rx' = request
  /\ host' = [host EXCEPT
       !.request = request,
       !.stage = IF request.wLength > 0 THEN "data" ELSE "status",
       !.toggle = 1, !.got = << >>]
  /\ UNCHANGED <<device_vars, tx, se0, clean, faults, restarts>>

NextRequest ==
  /\ host.step < Done
  /\ SendSetup(RequestOf(Enumerating[host.step], host.read))
  /\ UNCHANGED queries

Query ==
  /\ host.step = Done
  /\ queries < MaxQueries
  /\ queries' = queries + 1
  /\ \E request \in Queries : SendSetup(request)

(* handleIn and usbSendAndReti: the packet is forgotten once it is sent,   *)
(* and the new address, the old one as a rule, is taken.                   *)
SendPacket ==
  /\ Heard
  /\ rx = NoRequest
  /\ tx.sending
  /\ tx' = NAK
  /\ usbDeviceAddr' = usbNewDeviceAddr
  /\ UNCHANGED <<mode, usbNewDeviceAddr, message_vars, application_vars, reset_vars,
                 rx, se0, restarts, queries>>

NoFault == UNCHANGED <<clean, faults>>
Fault == faults < MaxFaults /\ faults' = faults + 1 /\ clean' = FALSE
-----------------------------------------------------------------------------
(* The host takes the packets of an answer in turn, and takes one with the *)
(* wrong token for one that it has already.  An answer that has not the    *)
(* length it should have is asked for again.                               *)
Waiting == host.stage \in {"data", "status"}
StepName == Enumerating[host.step]

EndOfRead(got) ==
  LET ended == [host EXCEPT
        !.stage = "ready", !.got = << >>,
        !.answer = [request |-> host.request, bytes |-> got]]
  IN  host' = IF host.step < Done /\ Complete(StepName, host.request.wLength, got)
              THEN [ended EXCEPT !.step = @ + 1, !.read[StepName] = got]
              ELSE ended

ReceiveData ==
  /\ host.stage = "data"
  /\ usbTxToken = host.toggle
  /\ SendPacket
  /\ LET got == host.got \o tx.data
     IN  IF Len(tx.data) < PacketSize \/ Len(got) >= host.request.wLength
         THEN EndOfRead(got)
         ELSE host' = [host EXCEPT !.got = got, !.toggle = 1 - @]
  /\ NoFault

DiscardData ==
  /\ Waiting
  /\ usbTxToken # host.toggle
  /\ SendPacket
  /\ UNCHANGED host
  /\ NoFault

ReceiveStatus ==
  /\ host.stage = "status"
  /\ usbTxToken = host.toggle /\ tx.data = << >>
  /\ SendPacket
  /\ host' = [host EXCEPT
       !.stage = "ready",
       !.address = IF host.request.name = "SET_ADDRESS" THEN host.request.wValue[2] ELSE @,
       !.step = IF @ < Done THEN @ + 1 ELSE @]
  /\ NoFault

LosePacket ==
  /\ Waiting
  /\ SendPacket
  /\ UNCHANGED host
  /\ Fault

(* The host gives up a request, and makes it again.                        *)
Repeat ==
  /\ Waiting
  /\ host' = [host EXCEPT !.stage = "ready", !.got = << >>]
  /\ UNCHANGED <<device_vars, tx, rx, se0, restarts, queries>>

ResetBus ==
  /\ ~ se0
  /\ se0' = TRUE
  /\ host' = [Attached EXCEPT !.stage = "reset"]
  /\ calibrated' = FALSE
  /\ UNCHANGED <<mode, address_vars, message_vars, application_vars, wasReset, tx, rx,
                 restarts, queries>>

FirstReset == host.stage = "attached" /\ ResetBus /\ NoFault

(* A reset lasts until usbPoll has seen it, or the device misses it.       *)
Seen == wasReset /\ rx = NoRequest

EndReset ==
  /\ host.stage = "reset"
  /\ se0' = FALSE
  /\ host' = [host EXCEPT !.stage = "ready"]
  /\ \/ Seen /\ clean' = TRUE /\ UNCHANGED faults
     \/ ~ Seen /\ Fault
  /\ UNCHANGED <<device_vars, tx, rx, restarts, queries>>

(* The device does not answer, because it has another address or because   *)
(* it has sent all it had.                                                 *)
Deaf == ~ se0 /\ host.stage \in {"ready", "data", "status"}
        /\ usbDeviceAddr # host.address
Exhausted ==
  Heard /\ Waiting /\ rx = NoRequest /\ ~ tx.sending /\ usbMsgLen = USB_NO_MSG

TimesOut ==
  /\ Deaf \/ Exhausted
  /\ ResetBus \/ (Exhausted /\ Repeat)
  /\ NoFault

Disturbance ==
  /\ host.stage # "attached"
  /\ ResetBus \/ Repeat
  /\ Fault

Host ==
  \/ NextRequest \/ Query
  \/ ReceiveData \/ DiscardData \/ ReceiveStatus \/ LosePacket
  \/ FirstReset \/ EndReset
  \/ TimesOut \/ Disturbance

Next == usbPoll \/ Host \/ Restart

(* The main loop polls for ever; a host enumerates what it finds on its    *)
(* bus, and resets the bus rather than wait for ever.                      *)
Fairness ==
  /\ WF_vars(usbPoll)
  /\ WF_vars(FirstReset) /\ WF_vars(EndReset)
  /\ WF_vars(NextRequest)
  /\ WF_vars(ReceiveData) /\ WF_vars(DiscardData) /\ WF_vars(ReceiveStatus)
  /\ WF_vars(TimesOut)

Spec == Init /\ [][Next]_vars /\ Fairness
-----------------------------------------------------------------------------
FlashOrRam == DOMAIN Flash \union {"usbTxBuf+9", "usbConfiguration", "nothing"}
Sized(of) == IF of \in DOMAIN Flash THEN Len(Flash[of]) ELSE 2
Names == {"GET_STATUS", "SET_ADDRESS", "GET_DESCRIPTOR", "GET_CONFIGURATION",
          "SET_CONFIGURATION", "GET_INTERFACE", "SET_INTERFACE", "SET_FEATURE", "SET_IDLE"}

(* What is being sent stays within the array it is read from, and the flag *)
(* says where that is.                                                     *)
TypeOK ==
  /\ mode \in {"PROGRAMMING", "KEYBOARD"}
  /\ usbDeviceAddr \in {0, Address} /\ usbNewDeviceAddr \in {0, Address}
  /\ usbConfiguration \in Nat /\ has_communicated \in BOOLEAN
  /\ usbMsgLen \in 0 .. USB_NO_MSG
  /\ usbMsgFlags \in {{}, {USB_FLG_MSGPTR_IS_ROM}}
  /\ usbMsgPtr \in [of : FlashOrRam, at : Nat]
  /\ usbMsgLen \in 1 .. USB_NO_MSG - 1 =>
       /\ usbMsgPtr.at + usbMsgLen <= Sized(usbMsgPtr.of)
       /\ (usbMsgPtr.of \in DOMAIN Flash) = (USB_FLG_MSGPTR_IS_ROM \in usbMsgFlags)
  /\ usbTxToken \in {0, 1}
  /\ tx.sending \in BOOLEAN /\ Len(tx.data) <= PacketSize
  /\ rx # NoRequest => rx \in [name : Names, wValue : Nat \X Nat, wLength : Nat]
  /\ wasReset \in BOOLEAN /\ calibrated \in BOOLEAN /\ se0 \in BOOLEAN
  /\ host.address \in {0, Address} /\ host.step \in 1 .. Done
  /\ host.stage \in {"attached", "reset", "ready", "data", "status"}
  /\ clean \in BOOLEAN
  /\ faults \in 0 .. MaxFaults
  /\ restarts \in 0 .. MaxRestarts
  /\ queries \in 0 .. MaxQueries

(* What the device should answer, as the specification of USB has it.      *)
Expected(request) ==
  CASE request.name = "GET_DESCRIPTOR" ->
         LET d == usbDriverDescriptor(mode, request.wValue[1], request.wValue[2])
         IN  IF d = Nothing THEN << >> ELSE SubSeq(Flash[d.of], d.at + 1, d.at + d.len)
    [] request.name = "GET_CONFIGURATION" -> <<host.read["configuration"][6]>>
    [] request.name = "GET_STATUS" -> <<0, 0>>
    [] request.name = "GET_INTERFACE" -> <<0>>
    [] OTHER -> << >>

(* A read that has the length it should have is the first bytes of what    *)
(* the host asked for, although packets are lost and never sent again, and *)
(* a request may be made over another's answer; and it has that length if  *)
(* nothing went wrong.  (usbProcessRx aborts what is being sent, starts    *)
(* the token and the flags again; usbBuildTxBlock, usbDeviceRead.)         *)
ReadsAreIntact ==
  host.answer.request # NoRequest =>
    LET expected == Expected(host.answer.request)
        length == Least(host.answer.request.wLength, Len(expected))
    IN  clean \/ Len(host.answer.bytes) = length
        => host.answer.bytes = SubSeq(expected, 1, length)

(* The device answers at the address that the host uses, before, while and *)
(* after it is given one, unless something went wrong since the last reset *)
(* of the bus; and it has been calibrated before it answers at all.        *)
(* (usbNewDeviceAddr and the assignment after a data packet; usbPoll at a  *)
(* reset; USB_RESET_HOOK.)                                                 *)
AddressesAgree ==
  clean /\ ~ se0 =>
    /\ usbDeviceAddr = host.address
    /\ Waiting /\ rx = NoRequest => calibrated

(* Faults that end are overcome: the host comes to know the device as it   *)
(* is and stays with it; a keyboard may then start to play.                *)
Known == host.step = Done /\ (mode = "KEYBOARD" => has_communicated)

EnumeratesEventually == <>[]Known
=============================================================================
