------------------------------ MODULE HidHost ------------------------------
(***************************************************************************)
(* What a host understands of what it has read (Enumeration): it parses    *)
(* the configuration and the report descriptor as the HID specification    *)
(* has it.                                                                 *)
(***************************************************************************)
EXTENDS Enumeration, SequencesExt

KeycodeTable == INSTANCE Keycode
KEYBOARD_REPORT_SIZE == 8
KEYBOARD_MAX_KEYS == 6
-----------------------------------------------------------------------------
(* The items of a report descriptor: a byte of tag and size, then the      *)
(* value.  Input, Output and Feature make a field of what was said before. *)
USAGE_PAGE == \h04
REPORT_SIZE == \h74
REPORT_COUNT == \h94
LOGICAL_MAXIMUM == \h24
USAGE_MINIMUM == \h18
USAGE_MAXIMUM == \h28
INPUT == \h80
OUTPUT == \h90
FEATURE == \hB0

Unparsed ==
  [tag |-> 0, missing |-> 0, unit |-> 1, value |-> 0,
   said |-> [t \in {USAGE_PAGE, REPORT_SIZE, REPORT_COUNT, LOGICAL_MAXIMUM,
                    USAGE_MINIMUM, USAGE_MAXIMUM} |-> 0],
   fields |-> [kind \in {INPUT, OUTPUT, FEATURE} |-> << >>]]

Item(p) ==
  IF p.tag \in DOMAIN p.said THEN [p EXCEPT !.said[p.tag] = p.value]
  ELSE IF p.tag \in DOMAIN p.fields
       THEN [p EXCEPT !.fields[p.tag] = Append(@,
              [size |-> p.said[REPORT_SIZE], count |-> p.said[REPORT_COUNT],
               constant |-> p.value % 2 = 1, page |-> p.said[USAGE_PAGE],
               upto |-> p.said[LOGICAL_MAXIMUM],
               usages |-> <<p.said[USAGE_MINIMUM], p.said[USAGE_MAXIMUM]>>])]
       ELSE p

ParseByte(p, byte) ==
  IF p.missing = 0
  THEN [p EXCEPT !.tag = byte - (byte % 4), !.missing = byte % 4, !.unit = 1, !.value = 0]
  ELSE LET q == [p EXCEPT !.missing = @ - 1, !.unit = 256 * @,
                          !.value = @ + p.unit * byte]
       IN  IF q.missing = 0 THEN Item(q) ELSE q

Fields(kind, bytes) == FoldLeft(ParseByte, Unparsed, bytes).fields[kind]
-----------------------------------------------------------------------------
Name(string) == [i \in 1 .. (Len(string) - 2) \div 2 |-> string[2 * i + 1]]

(* The interface's class, subclass and protocol.                           *)
Interface == SubSeq(host.read["configuration"], 15, 17)
EndpointSize == host.read["configuration"][32]

(* What build_report builds: the modifiers, a byte that is not used, and   *)
(* the keys, among which is every key that a STRING can press.             *)
UnderstandsReports ==
  LET input == Fields(INPUT, host.read["report"])
      modifiers == input[1]
      reserved == input[2]
      keys == input[3]
  IN  /\ Len(input) = 3
      /\ modifiers.page = 7 /\ modifiers.usages = <<\hE0, \hE7>>
      /\ modifiers.size = 1 /\ modifiers.count = 8 /\ ~ modifiers.constant
      /\ reserved.size * reserved.count = 8 /\ reserved.constant
      /\ keys.page = 7 /\ keys.size = 8 /\ keys.count = KEYBOARD_MAX_KEYS
      /\ ~ keys.constant /\ keys.usages[1] = 0
      /\ \A c \in 0 .. 255 :
           KeycodeTable!keycode_from_ascii(c).keycode <= Least(keys.usages[2], keys.upto)
      /\ 2 + keys.count = KEYBOARD_REPORT_SIZE
      /\ EndpointSize >= KEYBOARD_REPORT_SIZE

(* One feature report of the protocol's size.                              *)
UnderstandsProtocol ==
  LET feature == Fields(FEATURE, host.read["report"])
  IN  /\ Len(feature) = 1
      /\ feature[1].size = 8 /\ feature[1].count = PROTOCOL_REPORT_SIZE

(* A host that has enumerated the device knows it for what it is now, even *)
(* after the device changed its mode under it: a keyboard of the boot      *)
(* protocol whose reports are laid out as build_report does, or a device   *)
(* whose feature report is the protocol's.  (usb_descriptors.c, the mode   *)
(* in usbFunctionDescriptor, the disconnection of usb_init.)               *)
KnowsTheDevice ==
  host.step = Done =>
    /\ Name(host.read["vendor"]) = VENDOR_NAME
    /\ Name(host.read["product"]) = DEVICE_NAME
    /\ Interface[1] = 3
    /\ mode = "KEYBOARD" => Interface = <<3, 1, 1>> /\ UnderstandsReports
    /\ mode = "PROGRAMMING" => Interface = <<3, 0, 0>> /\ UnderstandsProtocol
=============================================================================
