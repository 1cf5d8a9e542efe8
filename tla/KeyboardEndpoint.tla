--------------------------- MODULE KeyboardEndpoint ---------------------------
(***************************************************************************)
(* The keyboard's side of USB: usb_keyboard.c, the interrupt endpoint of   *)
(* V-USB that carries its reports, and a host.                             *)
(*                                                                         *)
(* The driver forgets a report once it is sent, whether or not it arrived; *)
(* the host takes a report with the wrong token for one it has already.    *)
(* The driver starts the token again at SET_INTERFACE; the host does at    *)
(* SET_INTERFACE and at SET_CONFIGURATION.                                 *)
(*                                                                         *)
(* Typed is what the engine has to send, in order; a pair of modifiers and *)
(* keys.  The host makes at most MaxRequests class requests and configures *)
(* the device at most MaxConfigures times more; at most MaxLost reports    *)
(* are lost.  A control transfer is a request, its data, and the reply:    *)
(* what can go wrong with one is in modules RawHid and Enumeration.        *)
(***************************************************************************)
EXTENDS VUsb

CONSTANTS
  KEYBOARD_MAX_KEYS,   \* 6
  Typed,
  MaxRequests, MaxConfigures, MaxLost

Byte == 0 .. 255

ASSUME KeyboardAssumption ==
  /\ KEYBOARD_MAX_KEYS \in Nat
  /\ Typed \in Seq(Byte \X Seq(Byte))
  /\ MaxRequests \in Nat /\ MaxConfigures \in Nat /\ MaxLost \in Nat

VARIABLES
  report_buffer, idle_rate, protocol_version, led_state,
  has_communicated,            \* usb_keyboard.c
  usbTxToken1, tx1,            \* usbTxBuf1: its token, and the report to send
  rx, reply, user_rw,          \* the packet received, the answer, its data is ours
  host,                        \* the host, its token, and the reports it took
  sent,                        \* history: the reports handed to the driver
  requests, configures, lost

keyboard_vars == <<report_buffer, idle_rate, protocol_version, led_state, has_communicated>>
endpoint_vars == <<usbTxToken1, tx1, sent>>
control_vars == <<rx, reply, user_rw>>
bounds == <<requests, configures, lost>>
vars == <<keyboard_vars, endpoint_vars, control_vars, host, bounds>>

KEYBOARD_REPORT_SIZE == KEYBOARD_MAX_KEYS + 2
Zeros == [i \in 1 .. KEYBOARD_REPORT_SIZE |-> 0]

None == [name |-> "none"]
Setup(name, high, wLength) == [name |-> name, high |-> high, wLength |-> wLength]
Data(data) == [name |-> "data", data |-> data]
Reply(data) == [name |-> "reply", data |-> data]
NAK == [name |-> "NAK"]
Interrupt(report) == [name |-> "report", data |-> report]

Init ==
  /\ report_buffer = Zeros
  /\ idle_rate = 125 /\ protocol_version = 0 /\ led_state = 0
  /\ has_communicated = FALSE
  /\ usbTxToken1 = 1 /\ tx1 = NAK
  /\ rx = None /\ reply = None /\ user_rw = FALSE
  /\ host = [token |-> 0, request |-> None, stage |-> "idle", got |-> << >>]
  /\ sent = << >>
  /\ requests = 0 /\ configures = 0 /\ lost = 0
-----------------------------------------------------------------------------
build_report(modifiers, keys) ==
  [i \in 1 .. KEYBOARD_REPORT_SIZE |->
     IF i = 1 THEN modifiers
     ELSE IF i > 2 /\ i - 2 <= Len(keys) THEN keys[i - 2] ELSE 0]

(* Mutant: the token stays.                                                *)
usbSetInterruptSameToken(report) ==
  /\ usbTxToken1' = usbTxToken1
  /\ tx1' = Interrupt(report)

(* usbSetInterrupt: the token changes if the last report has been sent;    *)
(* otherwise the report takes its place.                                   *)
usbSetInterrupt(report) ==
  /\ usbTxToken1' = IF tx1 = NAK THEN 1 - usbTxToken1 ELSE usbTxToken1
  /\ tx1' = Interrupt(report)

usbInterruptIsReady == tx1 = NAK

NextTyped == Typed[Len(sent) + 1]

(* Mutant: the report before it may still wait to be sent.                 *)
keyboard_send_report_unready ==
  /\ has_communicated
  /\ Len(sent) < Len(Typed)
  /\ report_buffer' = build_report(NextTyped[1], NextTyped[2])
  /\ usbSetInterrupt(report_buffer')
  /\ sent' = Append(sent, report_buffer')
  /\ UNCHANGED <<idle_rate, protocol_version, led_state, has_communicated,
                 control_vars, host, bounds>>

(* The loop waits until the host has communicated and, for each report,    *)
(* until the endpoint is ready.                                            *)
keyboard_send_report ==
  /\ has_communicated
  /\ Len(sent) < Len(Typed)
  /\ usbInterruptIsReady
  /\ report_buffer' = build_report(NextTyped[1], NextTyped[2])
  /\ usbSetInterrupt(report_buffer')
  /\ sent' = Append(sent, report_buffer')
  /\ UNCHANGED <<idle_rate, protocol_version, led_state, has_communicated,
                 control_vars, host, bounds>>
-----------------------------------------------------------------------------
(* usbPoll, when it finds a request for the keyboard or one that concerns  *)
(* its endpoint.                                                           *)
Received(name) ==
  /\ rx # None /\ rx.name = name
  /\ rx' = None
  /\ UNCHANGED <<sent, host, bounds>>

Answer(data) == reply' = Reply(SubSeq(data, 1, Limited(Len(data), rx.wLength)))

(* keyboard_handle_setup.                                                  *)
HandleSetup(name, data) ==
  /\ Received(name)
  /\ has_communicated' = TRUE
  /\ Answer(data)
  /\ user_rw' = FALSE
  /\ UNCHANGED <<report_buffer, led_state, usbTxToken1, tx1>>

GetIdle ==
  /\ HandleSetup("GET_IDLE", <<idle_rate>>)
  /\ UNCHANGED <<idle_rate, protocol_version>>

SetIdle ==
  /\ HandleSetup("SET_IDLE", << >>)
  /\ idle_rate' = rx.high
  /\ UNCHANGED protocol_version

GetProtocol ==
  /\ HandleSetup("GET_PROTOCOL", <<protocol_version>>)
  /\ UNCHANGED <<idle_rate, protocol_version>>

SetProtocol ==
  /\ HandleSetup("SET_PROTOCOL", << >>)
  /\ protocol_version' = rx.high
  /\ UNCHANGED idle_rate

GetReport ==
  /\ HandleSetup("GET_REPORT", report_buffer)
  /\ UNCHANGED <<idle_rate, protocol_version>>

OtherClassRequest ==
  /\ HandleSetup("OTHER", << >>)
  /\ UNCHANGED <<idle_rate, protocol_version>>

(* Mutant: the data of a report of any length is taken.                    *)
SetReportOfAnyLength ==
  /\ Received("SET_REPORT")
  /\ has_communicated' = TRUE
  /\ user_rw' = TRUE /\ reply' = None
  /\ UNCHANGED <<report_buffer, idle_rate, protocol_version, led_state, usbTxToken1, tx1>>

(* The LEDs are a report of one byte, and the driver asks for its data;    *)
(* any other report is acknowledged and its data ignored.                  *)
SetReport ==
  /\ Received("SET_REPORT")
  /\ has_communicated' = TRUE
  /\ user_rw' = (rx.wLength = 1)
  /\ reply' = IF rx.wLength = 1 THEN None ELSE Reply(<< >>)
  /\ UNCHANGED <<report_buffer, idle_rate, protocol_version, led_state, usbTxToken1, tx1>>

(* keyboard_handle_write.                                                  *)
ReceiveData ==
  /\ Received("data")
  /\ led_state' = IF user_rw THEN rx.data[1] ELSE led_state
  /\ reply' = IF user_rw THEN Reply(<< >>) ELSE reply
  /\ UNCHANGED <<report_buffer, idle_rate, protocol_version, has_communicated,
                 usbTxToken1, tx1, user_rw>>

(* usbDriverSetup.  usbResetDataToggling is called for SET_INTERFACE and   *)
(* not for SET_CONFIGURATION, also while a report waits to be sent.        *)
SetInterface ==
  /\ Received("SET_INTERFACE")
  /\ usbTxToken1' = 1
  /\ reply' = Reply(<< >>)
  /\ user_rw' = FALSE
  /\ UNCHANGED <<keyboard_vars, tx1>>

SetConfiguration ==
  /\ Received("SET_CONFIGURATION")
  /\ reply' = Reply(<< >>)
  /\ user_rw' = FALSE
  /\ UNCHANGED <<keyboard_vars, usbTxToken1, tx1>>

usbPoll ==
  \/ GetIdle \/ SetIdle \/ GetProtocol \/ SetProtocol
  \/ GetReport \/ SetReport \/ OtherClassRequest
  \/ ReceiveData
  \/ SetInterface \/ SetConfiguration
-----------------------------------------------------------------------------
(* The host's requests.  A byte of a LED report is 1; another report, as   *)
(* of a host that puts a report number before it, is of two bytes.         *)
ClassRequests ==
  {Setup("GET_IDLE", 0, 1), Setup("SET_IDLE", 4, 0), Setup("GET_PROTOCOL", 0, 1),
   Setup("SET_PROTOCOL", 1, 0), Setup("GET_REPORT", 1, KEYBOARD_REPORT_SIZE),
   Setup("SET_REPORT", 2, 1), Setup("SET_REPORT", 2, 2), Setup("OTHER", 0, 0)}

Configures == {Setup("SET_INTERFACE", 0, 0), Setup("SET_CONFIGURATION", 0, 0)}

Begin(request) ==
  /\ host.stage = "idle"
  /\ rx = None
  /\ rx' = request
  /\ host' = [host EXCEPT
       !.request = request,
       !.stage = IF request.name = "SET_REPORT" THEN "data" ELSE "reply"]
  /\ UNCHANGED <<keyboard_vars, endpoint_vars, reply, user_rw, lost>>

BeginClassRequest ==
  /\ requests < MaxRequests
  /\ requests' = requests + 1
  /\ \E request \in ClassRequests : Begin(request)
  /\ UNCHANGED configures

BeginConfigure ==
  /\ configures < MaxConfigures
  /\ configures' = configures + 1
  /\ \E request \in Configures : Begin(request)
  /\ UNCHANGED requests

SendData ==
  /\ host.stage = "data"
  /\ rx = None
  /\ rx' = Data(IF host.request.wLength = 1 THEN <<1>> ELSE <<2, 1>>)
  /\ host' = [host EXCEPT !.stage = "reply"]
  /\ UNCHANGED <<keyboard_vars, endpoint_vars, reply, user_rw, bounds>>

(* The host's own token starts again once the device is configured.        *)
TakeReply ==
  /\ host.stage = "reply"
  /\ rx = None /\ reply # None
  /\ reply' = None
  /\ host' = [host EXCEPT
       !.request = None, !.stage = "idle",
       !.token = IF host.request \in Configures THEN 0 ELSE @]
  /\ UNCHANGED <<keyboard_vars, endpoint_vars, rx, user_rw, bounds>>

(* handleIn1: the driver sends what it has, unless a packet that it has    *)
(* received is still to be processed, and forgets it.  The host does not   *)
(* poll the endpoint while it configures the device.                       *)
SendInterrupt ==
  /\ host.request \notin Configures
  /\ rx = None
  /\ tx1 # NAK
  /\ tx1' = NAK
  /\ UNCHANGED <<keyboard_vars, usbTxToken1, sent, control_vars, requests, configures>>

TakeReport ==
  /\ SendInterrupt
  /\ usbTxToken1 = host.token
  /\ host' = [host EXCEPT !.got = Append(@, tx1.data), !.token = 1 - @]
  /\ UNCHANGED lost

DiscardReport ==
  /\ SendInterrupt
  /\ usbTxToken1 # host.token
  /\ UNCHANGED <<host, lost>>

LoseReport ==
  /\ lost < MaxLost
  /\ lost' = lost + 1
  /\ SendInterrupt
  /\ UNCHANGED host

Host ==
  \/ BeginClassRequest \/ BeginConfigure \/ SendData \/ TakeReply
  \/ TakeReport \/ DiscardReport \/ LoseReport

Next == keyboard_send_report \/ usbPoll \/ Host

Spec == Init /\ [][Next]_vars
-----------------------------------------------------------------------------
KeyReport == [1 .. KEYBOARD_REPORT_SIZE -> Byte]

(* LEDs are only those of a LED report: 0 before the first, then 1.        *)
TypeOK ==
  /\ report_buffer \in KeyReport
  /\ idle_rate \in Byte /\ protocol_version \in Byte /\ led_state \in {0, 1}
  /\ has_communicated \in BOOLEAN
  /\ usbTxToken1 \in {0, 1}
  /\ tx1 # NAK => tx1.data \in KeyReport
  /\ user_rw \in BOOLEAN
  /\ host.token \in {0, 1} /\ host.stage \in {"idle", "data", "reply"}
  /\ host.got \in Seq(KeyReport) /\ sent \in Seq(KeyReport)
  /\ Len(sent) <= Len(Typed)
  /\ lost \in 0 .. MaxLost /\ configures \in 0 .. MaxConfigures

(* The endpoint is a channel of one report: whatever the host asks in      *)
(* between, and whatever is lost, the host takes reports as they were      *)
(* sent, in order, none twice and none overwritten while it waited.        *)
(* (keyboard_send_report, usbGenericSetInterrupt, handleIn1.)              *)
Channel ==
  INSTANCE ReportChannel WITH
    Report <- KeyReport, NoReport <- << >>,
    slot <- IF tx1 = NAK THEN << >> ELSE tx1.data, got <- host.got

ImplementsChannel == Channel!Spec

(* A packet that is lost on the bus costs the host that report and the one *)
(* after it, and no more; and each time that it configures the device it   *)
(* may cost one.  Without either, every report arrives.  (The token:       *)
(* usbGenericSetInterrupt, usbResetDataToggling.)                          *)
InFlight == IF tx1 = NAK THEN 0 ELSE 1

Missing == Len(sent) - Len(host.got) - InFlight

LossIsBounded == Missing <= 2 * lost + configures
=============================================================================
