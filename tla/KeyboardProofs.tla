--------------------------- MODULE KeyboardProofs ---------------------------
(***************************************************************************)
(* The keyboard's endpoint is a channel of one report, and loses no more   *)
(* than two reports for each packet lost and one for each configuration,   *)
(* whatever is typed and however often.                                    *)
(*                                                                         *)
(* The bound on the loss is not inductive: what is to be lost with the     *)
(* next report is known now, from the two tokens.                          *)
(***************************************************************************)
EXTENDS KeyboardEndpoint, TLAPS

(* The next report that reaches the host is one that it discards.          *)
OutOfStep == IF tx1 = NAK THEN usbTxToken1 = host.token ELSE usbTxToken1 # host.token

Owed == IF host.request \in Configures \/ OutOfStep THEN 1 ELSE 0

LossInv == Missing + Owed <= 2 * lost + configures

LED(length) == IF length = 1 THEN Data(<<1>>) ELSE Data(<<2, 1>>)
LEDRequests == {Setup("SET_REPORT", 2, 1), Setup("SET_REPORT", 2, 2)}

(* Where the control transfer stands: data arrives for the SET_REPORT that *)
(* announced it, and the driver takes what that one was granted.           *)
TransferInv ==
  /\ rx \in {None} \union ClassRequests \union Configures \union
            {LED(1), LED(2)}
  /\ host.stage = "data" => host.request \in LEDRequests
  /\ rx # None /\ rx.name # "data" =>
       /\ rx = host.request
       /\ (host.stage = "data") = (rx.name = "SET_REPORT")
  /\ host.stage = "data" /\ rx = None => user_rw = (host.request.wLength = 1)
  /\ rx.name = "data" =>
       /\ rx = LED(host.request.wLength)
       /\ user_rw = (host.request.wLength = 1)
       /\ host.stage # "data"

KeyboardTypes ==
  /\ tx1 \in [name : {"NAK"}] \union [name : {"report"}, data : KeyReport]
  /\ host \in [token : {0, 1}, request : {None} \union ClassRequests \union Configures,
               stage : {"idle", "data", "reply"}, got : Seq(KeyReport)]
  /\ requests \in 0 .. MaxRequests

KeyboardInv == TypeOK /\ KeyboardTypes /\ TransferInv /\ LossInv
-----------------------------------------------------------------------------
LEMMA BuildsReports ==
  ASSUME NEW modifiers \in Byte, NEW keys \in Seq(Byte)
  PROVE  build_report(modifiers, keys) \in KeyReport
<1>1. ASSUME NEW i \in 1 .. KEYBOARD_REPORT_SIZE
      PROVE  (IF i = 1 THEN modifiers
              ELSE IF i > 2 /\ i - 2 <= Len(keys) THEN keys[i - 2] ELSE 0) \in Byte
  <2>1. CASE i > 2 /\ i - 2 <= Len(keys)
    <3>1. i - 2 \in 1 .. Len(keys)
      BY <2>1, KeyboardAssumption DEF KeyboardAssumption, KEYBOARD_REPORT_SIZE
    <3> QED
      BY <2>1, <3>1
  <2>2. CASE ~ (i > 2 /\ i - 2 <= Len(keys))
    BY <2>2 DEF Byte
  <2> QED
    BY <2>1, <2>2
<1> QED
  BY <1>1 DEF build_report, KeyReport

LEMMA NextReport ==
  ASSUME sent \in Seq(KeyReport), Len(sent) < Len(Typed)
  PROVE  build_report(NextTyped[1], NextTyped[2]) \in KeyReport
<1>1. NextTyped \in Byte \X Seq(Byte)
  BY KeyboardAssumption DEF KeyboardAssumption, NextTyped
<1> QED
  BY <1>1, BuildsReports

LEMMA NoneAreReports ==
  /\ << >> \notin KeyReport
  /\ NAK \notin [name : {"report"}, data : KeyReport]
BY KeyboardAssumption
DEF KeyReport, KEYBOARD_REPORT_SIZE, NAK, KeyboardAssumption

(* A packet to be sent is a report, and the other way round.               *)
LEMMA Waits ==
  ASSUME KeyboardTypes
  PROVE  /\ tx1 # NAK => tx1.data \in KeyReport
         /\ tx1 = NAK \/ tx1 \in [name : {"report"}, data : KeyReport]
BY DEF KeyboardTypes, NAK

(* What a request of the host looks like.                                  *)
LEMMA Requests ==
  /\ \A r \in ClassRequests \union Configures :
       /\ r.high \in Byte
       /\ r # None /\ r.name # "data"
       /\ r.name = "SET_REPORT" => r \in LEDRequests
  /\ \A r \in ClassRequests : r \notin Configures
  /\ LED(1).name = "data" /\ LED(2).name = "data"
  /\ LED(1).data[1] = 1
  /\ LED(1) # LED(2) /\ None.name = "none" /\ None \notin Configures
BY KeyboardAssumption
DEF ClassRequests, Configures, Setup, None, LEDRequests, LED, Data, Byte
-----------------------------------------------------------------------------
THEOREM InitIsOK == Init => KeyboardInv
<1> SUFFICES ASSUME Init PROVE KeyboardInv
  OBVIOUS
<1>1. Zeros \in KeyReport
  BY KeyboardAssumption
  DEF Zeros, KeyReport, Byte, KEYBOARD_REPORT_SIZE, KeyboardAssumption
<1>2. KeyboardTypes
  BY KeyboardAssumption DEF Init, KeyboardTypes, NAK, KeyboardAssumption
<1>3. TypeOK
  <2>1. /\ host.got \in Seq(KeyReport) /\ sent \in Seq(KeyReport)
        /\ Len(sent) <= Len(Typed)
    BY KeyboardAssumption DEF Init, KeyboardAssumption
  <2>2. lost \in 0 .. MaxLost /\ configures \in 0 .. MaxConfigures
    BY KeyboardAssumption DEF Init, KeyboardAssumption
  <2>3. /\ idle_rate \in Byte /\ protocol_version \in Byte /\ led_state \in {0, 1}
        /\ usbTxToken1 \in {0, 1}
        /\ host.token \in {0, 1} /\ host.stage \in {"idle", "data", "reply"}
    BY DEF Init, Byte
  <2>4. /\ report_buffer \in KeyReport /\ tx1 = NAK
        /\ has_communicated \in BOOLEAN /\ user_rw \in BOOLEAN
    BY <1>1 DEF Init
  <2> QED
    BY <2>1, <2>2, <2>3, <2>4 DEF TypeOK
<1>4. TransferInv
  BY Requests DEF Init, TransferInv, None
<1>5. LossInv
  BY Requests DEF Init, LossInv, Missing, Owed, OutOfStep, InFlight, NAK
<1> QED
  BY <1>2, <1>3, <1>4, <1>5 DEF KeyboardInv
-----------------------------------------------------------------------------
(* The next state, by what a step touches.                                 *)
ClassRequest ==
  \/ GetIdle \/ SetIdle \/ GetProtocol \/ SetProtocol
  \/ GetReport \/ OtherClassRequest

LEMMA ClassRequestSteps ==
  ASSUME KeyboardInv, ClassRequest
  PROVE  /\ rx \in ClassRequests /\ rx.name # "SET_REPORT" /\ rx' = None
         /\ idle_rate' \in Byte /\ protocol_version' \in Byte
         /\ has_communicated' = TRUE /\ user_rw' = FALSE
         /\ UNCHANGED <<report_buffer, led_state, usbTxToken1, tx1, sent, host, bounds>>
<1>1. \E name \in {"GET_IDLE", "SET_IDLE", "GET_PROTOCOL", "SET_PROTOCOL",
                   "GET_REPORT", "OTHER"} :
        \E data : HandleSetup(name, data)
  BY DEF ClassRequest, GetIdle, SetIdle, GetProtocol, SetProtocol, GetReport,
         OtherClassRequest
<1>2. PICK name \in {"GET_IDLE", "SET_IDLE", "GET_PROTOCOL", "SET_PROTOCOL",
                     "GET_REPORT", "OTHER"} :
        rx # None /\ rx.name = name
  BY <1>1 DEF HandleSetup, Received
<1>3. rx \in ClassRequests
  BY <1>2, Requests
  DEF KeyboardInv, TransferInv, Configures, Setup
<1>4. rx.high \in Byte
  BY <1>3, Requests
<1>5. idle_rate' \in Byte /\ protocol_version' \in Byte
  BY <1>4 DEF ClassRequest, GetIdle, SetIdle, GetProtocol, SetProtocol, GetReport,
     OtherClassRequest, KeyboardInv, TypeOK
<1> QED
  BY <1>1, <1>2, <1>3, <1>5 DEF HandleSetup, Received
-----------------------------------------------------------------------------
LEMMA TypesStep ==
  ASSUME KeyboardInv, Next
  PROVE  TypeOK' /\ KeyboardTypes'
<1> USE DEF KeyboardInv
<1>1. CASE keyboard_send_report
  <2>1. report_buffer' \in KeyReport
    BY <1>1, NextReport DEF keyboard_send_report, TypeOK
  <2>2. tx1' \in [name : {"report"}, data : KeyReport] /\ usbTxToken1' \in {0, 1}
    BY <1>1, <2>1 DEF keyboard_send_report, usbSetInterrupt, Interrupt, TypeOK
  <2>3. sent' \in Seq(KeyReport) /\ Len(sent') <= Len(Typed)
    BY <1>1, <2>1, KeyboardAssumption
    DEF keyboard_send_report, TypeOK, KeyboardAssumption
  <2>4. UNCHANGED <<idle_rate, protocol_version, led_state, has_communicated, user_rw,
                    host, requests, configures, lost>>
    BY <1>1 DEF keyboard_send_report, control_vars, bounds
  <2>5. TypeOK'
    BY <2>1, <2>2, <2>3, <2>4 DEF TypeOK
  <2>6. KeyboardTypes'
    BY <2>2, <2>4 DEF KeyboardTypes
  <2> QED
    BY <2>5, <2>6
<1>2. CASE ClassRequest
  <2>1. TypeOK'
    BY <1>2, ClassRequestSteps DEF TypeOK, bounds
  <2>2. KeyboardTypes'
    BY <1>2, ClassRequestSteps DEF KeyboardTypes, bounds
  <2> QED
    BY <2>1, <2>2
<1>3. CASE SetReport
  <2>1. UNCHANGED <<keyboard_vars, usbTxToken1, tx1, sent, host, bounds>> \/
        /\ has_communicated' = TRUE
        /\ UNCHANGED <<report_buffer, idle_rate, protocol_version, led_state,
                       usbTxToken1, tx1, sent, host, bounds>>
    BY <1>3 DEF SetReport, Received
  <2>2. user_rw' \in BOOLEAN
    BY <1>3 DEF SetReport
  <2>3. TypeOK'
    BY <2>1, <2>2 DEF TypeOK, keyboard_vars, bounds
  <2>4. KeyboardTypes'
    BY <2>1 DEF KeyboardTypes, bounds
  <2> QED
    BY <2>3, <2>4
<1>4. CASE ReceiveData
  <2>1. user_rw => rx.data[1] = 1
    BY <1>4, Requests DEF ReceiveData, Received, TransferInv, LEDRequests, Setup, LED, Data
  <2>2. led_state' \in {0, 1}
    BY <1>4, <2>1 DEF ReceiveData, TypeOK
  <2>3. UNCHANGED <<report_buffer, idle_rate, protocol_version, has_communicated,
                    usbTxToken1, tx1, user_rw, sent, host, requests, configures, lost>>
    BY <1>4 DEF ReceiveData, Received, bounds
  <2> QED
    BY <2>2, <2>3 DEF TypeOK, KeyboardTypes
<1>5. CASE SetInterface \/ SetConfiguration
  <2>1. usbTxToken1' \in {0, 1} /\ user_rw' \in BOOLEAN
    BY <1>5 DEF SetInterface, SetConfiguration, TypeOK
  <2>2. UNCHANGED <<report_buffer, idle_rate, protocol_version, led_state,
                    has_communicated, tx1, sent, host, requests, configures, lost>>
    BY <1>5 DEF SetInterface, SetConfiguration, Received, keyboard_vars, bounds
  <2> QED
    BY <2>1, <2>2 DEF TypeOK, KeyboardTypes
<1>6. CASE BeginClassRequest \/ BeginConfigure \/ SendData \/ TakeReply
  <2>1. UNCHANGED <<report_buffer, idle_rate, protocol_version, led_state,
                    has_communicated, usbTxToken1, tx1, user_rw, sent, lost>>
    BY <1>6 DEF BeginClassRequest, BeginConfigure, Begin, SendData, TakeReply,
       keyboard_vars, endpoint_vars, bounds
  <2>2. requests' \in 0 .. MaxRequests /\ configures' \in 0 .. MaxConfigures
    BY <1>6, KeyboardAssumption
    DEF BeginClassRequest, BeginConfigure, SendData, TakeReply, bounds, TypeOK,
        KeyboardTypes, KeyboardAssumption
  <2>3. /\ host'.token \in {0, 1} /\ host'.stage \in {"idle", "data", "reply"}
        /\ host'.got = host.got
        /\ host'.request \in {None} \union ClassRequests \union Configures
        /\ host' = [token |-> host'.token, request |-> host'.request,
                    stage |-> host'.stage, got |-> host'.got]
    <3>1. CASE BeginClassRequest \/ BeginConfigure
      <4>1. PICK request \in ClassRequests \union Configures : Begin(request)
        BY <3>1 DEF BeginClassRequest, BeginConfigure
      <4> QED
        BY <4>1 DEF Begin, KeyboardTypes
    <3>2. CASE SendData
      BY <3>2 DEF SendData, KeyboardTypes
    <3>3. CASE TakeReply
      BY <3>3 DEF TakeReply, KeyboardTypes
    <3> QED
      BY <1>6, <3>1, <3>2, <3>3
  <2> QED
    BY <2>1, <2>2, <2>3 DEF TypeOK, KeyboardTypes
<1>7. CASE TakeReport \/ DiscardReport \/ LoseReport
  <2>1. /\ tx1' = NAK
        /\ UNCHANGED <<report_buffer, idle_rate, protocol_version, led_state,
                       has_communicated, usbTxToken1, sent, user_rw, requests, configures>>
    BY <1>7 DEF TakeReport, DiscardReport, LoseReport, SendInterrupt, keyboard_vars,
       control_vars
  <2>2. lost' \in 0 .. MaxLost
    BY <1>7, KeyboardAssumption
    DEF TakeReport, DiscardReport, LoseReport, TypeOK, KeyboardAssumption
  <2>3. CASE TakeReport
    <3>1. host' = [host EXCEPT !.got = Append(@, tx1.data), !.token = 1 - @]
      BY <2>3 DEF TakeReport
    <3>2. tx1.data \in KeyReport
      BY <2>3, Waits DEF TakeReport, SendInterrupt
    <3>3. /\ Append(host.got, tx1.data) \in Seq(KeyReport)
          /\ 1 - host.token \in {0, 1}
      BY <3>2 DEF TypeOK
    <3>4. host' \in [token : {0, 1}, request : {None} \union ClassRequests \union Configures,
                     stage : {"idle", "data", "reply"}, got : Seq(KeyReport)]
      BY <3>1, <3>3 DEF KeyboardTypes
    <3>5. KeyboardTypes'
      BY <2>1, <3>4 DEF KeyboardTypes, NAK
    <3> QED
      BY <2>1, <2>2, <3>4, <3>5 DEF TypeOK
  <2>4. CASE DiscardReport \/ LoseReport
    <3>1. host' = host
      BY <2>4 DEF DiscardReport, LoseReport
    <3>2. KeyboardTypes'
      BY <2>1, <3>1 DEF KeyboardTypes, NAK
    <3> QED
      BY <2>1, <2>2, <3>1, <3>2 DEF TypeOK
  <2> QED
    BY <1>7, <2>3, <2>4
<1> QED
  BY <1>1, <1>2, <1>3, <1>4, <1>5, <1>6, <1>7
  DEF Next, usbPoll, Host, ClassRequest
-----------------------------------------------------------------------------
LEMMA TransferStep ==
  ASSUME KeyboardInv, Next
  PROVE  TransferInv'
<1> USE DEF KeyboardInv
<1>1. CASE keyboard_send_report
  BY <1>1 DEF keyboard_send_report, control_vars, TransferInv
<1>2. CASE ClassRequest
  <2>1. host.stage # "data"
    BY <1>2, ClassRequestSteps, Requests DEF TransferInv
  <2> QED
    BY <1>2, <2>1, ClassRequestSteps, Requests DEF TransferInv, bounds
<1>3. CASE SetReport
  <2>1. /\ rx \in LEDRequests /\ rx = host.request /\ host.stage = "data"
        /\ rx' = None /\ user_rw' = (rx.wLength = 1) /\ host' = host
    BY <1>3, Requests DEF SetReport, Received, TransferInv
  <2> QED
    BY <2>1, Requests DEF TransferInv
<1>4. CASE ReceiveData
  <2>1. rx' = None /\ host' = host /\ host.stage # "data"
    BY <1>4 DEF ReceiveData, Received, TransferInv
  <2> QED
    BY <2>1, Requests DEF TransferInv
<1>5. CASE SetInterface \/ SetConfiguration
  <2>1. rx' = None /\ host' = host /\ host.stage # "data"
    BY <1>5 DEF SetInterface, SetConfiguration, Received, TransferInv
  <2> QED
    BY <2>1, Requests DEF TransferInv
<1>6. CASE BeginClassRequest \/ BeginConfigure
  <2>1. PICK request \in ClassRequests \union Configures : Begin(request)
    BY <1>6 DEF BeginClassRequest, BeginConfigure
  <2>2. /\ rx' = request /\ host'.request = request
        /\ host'.stage = IF request.name = "SET_REPORT" THEN "data" ELSE "reply"
    BY <2>1 DEF Begin, KeyboardTypes
  <2>3. /\ request # None /\ request.name # "data"
        /\ request.name = "SET_REPORT" => request \in LEDRequests
    BY Requests
  <2> QED
    BY <2>2, <2>3 DEF TransferInv
<1>7. CASE SendData
  <2>1. /\ host.request \in LEDRequests /\ user_rw = (host.request.wLength = 1)
        /\ rx' = LED(host.request.wLength) /\ user_rw' = user_rw
        /\ host'.stage = "reply" /\ host'.request = host.request
    BY <1>7 DEF SendData, TransferInv, KeyboardTypes, LED
  <2>2. rx' \in {LED(1), LED(2)}
    BY <2>1 DEF LEDRequests, Setup
  <2> QED
    BY <2>1, <2>2, Requests DEF TransferInv
<1>8. CASE TakeReply
  <2>1. rx' = None /\ rx = None /\ host'.stage = "idle"
    BY <1>8 DEF TakeReply, KeyboardTypes
  <2> QED
    BY <2>1, Requests DEF TransferInv
<1>9. CASE TakeReport \/ DiscardReport \/ LoseReport
  <2>1. /\ rx = None /\ rx' = None /\ user_rw' = user_rw
        /\ host'.stage = host.stage /\ host'.request = host.request
    BY <1>9 DEF TakeReport, DiscardReport, LoseReport, SendInterrupt, control_vars,
       KeyboardTypes
  <2> QED
    BY <2>1, Requests DEF TransferInv
<1> QED
  BY <1>1, <1>2, <1>3, <1>4, <1>5, <1>6, <1>7, <1>8, <1>9
  DEF Next, usbPoll, Host, ClassRequest
-----------------------------------------------------------------------------
LEMMA SameBound ==
  ASSUME NEW m \in Int, NEW o \in {0, 1}, NEW p \in {0, 1}, NEW l \in Nat, NEW c \in Nat,
         m + o <= 2 * l + c, p <= o
  PROVE  m + p <= 2 * l + c
OBVIOUS

LEMMA NextBound ==
  ASSUME NEW m \in Int, NEW o \in {0, 1}, NEW p \in {0, 1}, NEW l \in Nat, NEW c \in Nat,
         m + o <= 2 * l + c
  PROVE  m + 1 + p <= 2 * (l + 1) + c
OBVIOUS

LEMMA LossStep ==
  ASSUME KeyboardInv, Next
  PROVE  LossInv'
<1> USE DEF KeyboardInv
<1>1. /\ Len(sent) \in Nat /\ Len(host.got) \in Nat /\ InFlight \in {0, 1}
      /\ usbTxToken1 \in {0, 1} /\ host.token \in {0, 1}
      /\ lost \in Nat /\ configures \in Nat
  BY KeyboardAssumption DEF TypeOK, InFlight, KeyboardAssumption
<1>2. ASSUME UNCHANGED <<sent, tx1, host, lost, configures, usbTxToken1>>
      PROVE  LossInv'
  BY <1>2 DEF LossInv, Missing, InFlight, Owed, OutOfStep
<1>3. CASE keyboard_send_report
  <2>1. /\ tx1 = NAK /\ tx1' # NAK /\ usbTxToken1' = 1 - usbTxToken1
        /\ UNCHANGED <<host, lost, configures>>
    BY <1>3 DEF keyboard_send_report, usbInterruptIsReady, usbSetInterrupt, bounds,
       Interrupt, NAK
  <2>2. Len(sent') = Len(sent) + 1
    BY <1>3 DEF keyboard_send_report, TypeOK
  <2>3. Missing' = Missing
    BY <1>1, <2>1, <2>2 DEF Missing, InFlight
  <2>4. OutOfStep' = OutOfStep
    BY <1>1, <2>1 DEF OutOfStep
  <2> QED
    BY <2>1, <2>3, <2>4 DEF LossInv, Owed
<1>4. CASE ClassRequest \/ SetReport \/ ReceiveData \/ SetConfiguration \/ SendData
  <2>1. /\ UNCHANGED <<sent, tx1, lost, configures, usbTxToken1>>
        /\ host'.got = host.got /\ host'.token = host.token
        /\ host'.request = host.request
    <3>1. CASE ClassRequest
      BY <3>1, ClassRequestSteps DEF bounds
    <3>2. CASE SetReport \/ ReceiveData \/ SetConfiguration
      BY <3>2 DEF SetReport, ReceiveData, SetConfiguration, Received, bounds
    <3>3. CASE SendData
      BY <3>3 DEF SendData, endpoint_vars, bounds, KeyboardTypes
    <3> QED
      BY <1>4, <3>1, <3>2, <3>3
  <2> QED
    BY <2>1 DEF LossInv, Missing, InFlight, Owed, OutOfStep
<1>5. CASE SetInterface
  <2>1. /\ UNCHANGED <<sent, tx1, lost, configures, host>>
        /\ rx.name = "SET_INTERFACE" /\ rx # None
    BY <1>5 DEF SetInterface, Received, bounds
  <2>2. host.request \in Configures
    BY <2>1 DEF TransferInv, KeyboardTypes, ClassRequests, Configures, Setup, None
  <2> QED
    BY <2>1, <2>2 DEF LossInv, Missing, InFlight, Owed
<1>6. CASE BeginClassRequest \/ BeginConfigure
  <2>1. /\ UNCHANGED <<sent, tx1, lost, usbTxToken1>>
        /\ host'.got = host.got /\ host'.token = host.token
    BY <1>6 DEF BeginClassRequest, BeginConfigure, Begin, endpoint_vars, KeyboardTypes
  <2>2. Missing' = Missing /\ OutOfStep' = OutOfStep
    BY <2>1 DEF Missing, InFlight, OutOfStep
  <2>3. Missing \in Int
    BY <1>1 DEF Missing
  <2>4. CASE BeginClassRequest
    <3>1. host'.request \notin Configures /\ configures' = configures
      BY <2>4, Requests DEF BeginClassRequest, Begin, KeyboardTypes
    <3> QED
      BY <1>1, <2>1, <2>2, <2>3, <3>1 DEF LossInv, Owed
  <2>5. CASE BeginConfigure
    <3>1. configures' = configures + 1
      BY <2>5 DEF BeginConfigure
    <3> QED
      BY <1>1, <2>1, <2>2, <2>3, <3>1 DEF LossInv, Owed
  <2> QED
    BY <1>6, <2>4, <2>5
<1>7. CASE TakeReply
  <2>1. /\ UNCHANGED <<sent, tx1, lost, configures, usbTxToken1>>
        /\ host'.got = host.got
        /\ host.request \notin Configures => host'.token = host.token
    BY <1>7 DEF TakeReply, endpoint_vars, bounds, KeyboardTypes
  <2>2. Missing' = Missing
    BY <2>1 DEF Missing, InFlight
  <2>3. Owed' <= Owed /\ Owed \in {0, 1} /\ Owed' \in {0, 1}
    <3>1. host'.request \notin Configures
      BY <1>7, Requests DEF TakeReply, KeyboardTypes
    <3>2. CASE host.request \in Configures
      BY <3>2 DEF Owed
    <3>3. CASE host.request \notin Configures
      BY <2>1, <3>1, <3>3 DEF Owed, OutOfStep
    <3> QED
      BY <3>2, <3>3
  <2>4. Missing \in Int
    BY <1>1 DEF Missing
  <2>5. Missing + Owed <= 2 * lost + configures
    BY DEF LossInv
  <2>6. Missing + Owed' <= 2 * lost + configures
    BY <1>1, <2>3, <2>4, <2>5, SameBound
  <2> QED
    BY <2>1, <2>2, <2>6 DEF LossInv
<1>8. CASE TakeReport
  <2>1. /\ tx1 # NAK /\ tx1' = NAK /\ usbTxToken1' = usbTxToken1
        /\ usbTxToken1 = host.token /\ host'.token = 1 - host.token
        /\ host'.request = host.request
        /\ host.request \notin Configures
        /\ UNCHANGED <<sent, lost, configures>>
    BY <1>8 DEF TakeReport, SendInterrupt, KeyboardTypes
  <2>2. Len(host'.got) = Len(host.got) + 1
    BY <1>8 DEF TakeReport, KeyboardTypes
  <2>3. Missing' = Missing
    BY <1>1, <2>1, <2>2 DEF Missing, InFlight
  <2>4. ~ OutOfStep /\ ~ OutOfStep'
    BY <1>1, <2>1 DEF OutOfStep
  <2> QED
    BY <2>1, <2>3, <2>4 DEF LossInv, Owed
<1>9. CASE DiscardReport
  <2>1. /\ tx1 # NAK /\ tx1' = NAK /\ usbTxToken1 # host.token
        /\ host.request \notin Configures
        /\ UNCHANGED <<sent, lost, configures, host, usbTxToken1>>
    BY <1>9 DEF DiscardReport, SendInterrupt
  <2>2. Missing' = Missing + 1
    BY <1>1, <2>1 DEF Missing, InFlight
  <2>3. OutOfStep /\ ~ OutOfStep'
    BY <1>1, <2>1 DEF OutOfStep
  <2>4. Missing \in Int
    BY <1>1 DEF Missing
  <2> QED
    BY <1>1, <2>1, <2>2, <2>3, <2>4 DEF LossInv, Owed
<1>10. CASE LoseReport
  <2>1. /\ tx1 # NAK /\ tx1' = NAK /\ lost' = lost + 1
        /\ UNCHANGED <<sent, configures, host, usbTxToken1>>
    BY <1>10 DEF LoseReport, SendInterrupt
  <2>2. Missing' = Missing + 1
    BY <1>1, <2>1 DEF Missing, InFlight
  <2>3. Owed \in {0, 1} /\ Owed' \in {0, 1}
    BY DEF Owed
  <2>4. Missing \in Int
    BY <1>1 DEF Missing
  <2>5. Missing + Owed <= 2 * lost + configures
    BY DEF LossInv
  <2>6. Missing + 1 + Owed' <= 2 * (lost + 1) + configures
    BY <1>1, <2>3, <2>4, <2>5, NextBound
  <2> QED
    BY <2>1, <2>2, <2>6 DEF LossInv
<1> QED
  BY <1>3, <1>4, <1>5, <1>6, <1>7, <1>8, <1>9, <1>10
  DEF Next, usbPoll, Host, ClassRequest
-----------------------------------------------------------------------------
LEMMA Inductive == Spec => []KeyboardInv
<1>1. KeyboardInv /\ [Next]_vars => KeyboardInv'
  <2> SUFFICES ASSUME KeyboardInv, [Next]_vars PROVE KeyboardInv'
    OBVIOUS
  <2>1. CASE Next
    BY <2>1, TypesStep, TransferStep, LossStep DEF KeyboardInv
  <2>2. CASE UNCHANGED vars
    BY <2>2
    DEF vars, keyboard_vars, endpoint_vars, control_vars, bounds, KeyboardInv, TypeOK,
        KeyboardTypes, TransferInv, LossInv, Missing, InFlight, Owed, OutOfStep
  <2> QED
    BY <2>1, <2>2
<1> QED
  BY <1>1, InitIsOK, PTL DEF Spec

(* Every reachable state is of its type; in particular the LEDs are those  *)
(* of a LED report, whatever requests came before it.  (usb_keyboard.c:    *)
(* keyboard_handle_setup, keyboard_handle_write.)                          *)
THEOREM KeyboardTypeCorrect == Spec => []TypeOK
<1>1. KeyboardInv => TypeOK
  BY DEF KeyboardInv
<1> QED
  BY <1>1, Inductive, PTL

(* The reports lost are at most two for each packet lost on the bus and    *)
(* one for each configuration.  (usbGenericSetInterrupt,                   *)
(* usbResetDataToggling.)                                                  *)
THEOREM LossAlwaysBounded == Spec => []LossIsBounded
<1>1. KeyboardInv => LossIsBounded
  <2> SUFFICES ASSUME KeyboardInv PROVE LossIsBounded
    OBVIOUS
  <2>1. /\ Missing \in Int /\ Owed \in {0, 1} /\ lost \in Nat /\ configures \in Nat
    BY KeyboardAssumption
    DEF KeyboardInv, TypeOK, Missing, InFlight, Owed, KeyboardAssumption
  <2> QED
    BY <2>1 DEF KeyboardInv, LossInv, LossIsBounded
<1> QED
  BY <1>1, Inductive, PTL
-----------------------------------------------------------------------------
LEMMA ChannelStep ==
  ASSUME KeyboardInv, Next
  PROVE  Channel!Next \/ UNCHANGED Channel!channel_vars
<1> USE DEF KeyboardInv
<1>1. CASE keyboard_send_report
  <2>1. report_buffer' \in KeyReport
    BY <1>1, NextReport DEF keyboard_send_report, TypeOK
  <2>2. /\ tx1 = NAK /\ tx1' # NAK /\ tx1'.data \in KeyReport /\ host' = host
    BY <1>1, <2>1
    DEF keyboard_send_report, usbInterruptIsReady, usbSetInterrupt, Interrupt, NAK
  <2> QED
    BY <2>2 DEF Channel!Next, Channel!Send
<1>2. ASSUME tx1' = tx1, host'.got = host.got
      PROVE  UNCHANGED Channel!channel_vars
  BY <1>2 DEF Channel!channel_vars
<1>3. CASE usbPoll
  <2>1. tx1' = tx1 /\ host' = host
    BY <1>3, ClassRequestSteps
    DEF usbPoll, ClassRequest, SetReport, ReceiveData, SetInterface, SetConfiguration,
        Received
  <2> QED
    BY <1>2, <2>1
<1>4. CASE BeginClassRequest \/ BeginConfigure \/ SendData \/ TakeReply
  <2>1. tx1' = tx1 /\ host'.got = host.got
    BY <1>4
    DEF BeginClassRequest, BeginConfigure, Begin, SendData, TakeReply, endpoint_vars,
        KeyboardTypes
  <2> QED
    BY <1>2, <2>1
<1>5. CASE TakeReport
  <2>1. /\ tx1 # NAK /\ tx1' = NAK /\ tx1.data # << >>
        /\ host'.got = Append(host.got, tx1.data)
    BY <1>5, Waits, NoneAreReports DEF TakeReport, SendInterrupt, KeyboardTypes
  <2> QED
    BY <2>1 DEF Channel!Next, Channel!Deliver
<1>6. CASE DiscardReport \/ LoseReport
  <2>1. tx1 # NAK /\ tx1' = NAK /\ tx1.data # << >> /\ host' = host
    BY <1>6, Waits, NoneAreReports DEF DiscardReport, LoseReport, SendInterrupt
  <2> QED
    BY <2>1 DEF Channel!Next, Channel!Lose
<1> QED
  BY <1>1, <1>3, <1>4, <1>5, <1>6 DEF Next, Host

(* The keyboard's endpoint is a channel of one report: no report is        *)
(* changed, overtaken, repeated or overwritten while it waits, whatever    *)
(* the host asks meanwhile and whatever is lost.  (keyboard_send_report,   *)
(* usbGenericSetInterrupt, handleIn1.)                                     *)
THEOREM EndpointIsAChannel == Spec => ImplementsChannel
<1>1. Init => Channel!Init
  BY DEF Init, Channel!Init
<1>2. KeyboardInv /\ [Next]_vars => [Channel!Next]_(Channel!channel_vars)
  <2> SUFFICES ASSUME KeyboardInv, [Next]_vars
               PROVE  [Channel!Next]_(Channel!channel_vars)
    OBVIOUS
  <2>1. CASE Next
    BY <2>1, ChannelStep
  <2>2. CASE UNCHANGED vars
    BY <2>2 DEF vars, endpoint_vars, Channel!channel_vars
  <2> QED
    BY <2>1, <2>2
<1> QED
  BY <1>1, <1>2, Inductive, PTL DEF Spec, ImplementsChannel, Channel!Spec
=============================================================================
