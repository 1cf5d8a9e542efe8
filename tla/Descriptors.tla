----------------------------- MODULE Descriptors -----------------------------
(***************************************************************************)
(* What the device says it is: the descriptors of usb_descriptors.c and    *)
(* those that V-USB builds from usbconfig.h.  An answer is the name of the *)
(* array that usbMsgPtr points into, the offset, and the length.           *)
(***************************************************************************)
EXTENDS Integers, Sequences

DESCRIPTOR_TYPE_DEVICE == \h01
DESCRIPTOR_TYPE_CONFIGURATION == \h02
DESCRIPTOR_TYPE_STRING == \h03
DESCRIPTOR_TYPE_INTERFACE == \h04
DESCRIPTOR_TYPE_ENDPOINT == \h05
DESCRIPTOR_TYPE_HID == \h21
DESCRIPTOR_TYPE_HID_REPORT == \h22

CONFIG_TOTAL_LENGTH == 34
HID_REPORT_LENGTH_KEYBOARD == 63
HID_REPORT_LENGTH_RAWHID == 29
PROTOCOL_REPORT_SIZE == 32

VENDOR_NAME == <<84, 105, 110, 121, 75, 66>>   \* "TinyKB"
DEVICE_NAME == VENDOR_NAME
-----------------------------------------------------------------------------
(* A configuration of one HID interface with one interrupt endpoint.  The  *)
(* two modes differ in the interface's subclass and protocol, and in the   *)
(* length of the report descriptor.                                        *)
config_descriptor(subclass, protocol, report_length) ==
  <<9, DESCRIPTOR_TYPE_CONFIGURATION, CONFIG_TOTAL_LENGTH, 0, 1, 1, 0, \h80, 50>>
  \o <<9, DESCRIPTOR_TYPE_INTERFACE, 0, 0, 1, \h03, subclass, protocol, 0>>
  \o <<9, DESCRIPTOR_TYPE_HID, \h11, \h01, 0, 1,
       DESCRIPTOR_TYPE_HID_REPORT, report_length, 0>>
  \o <<7, DESCRIPTOR_TYPE_ENDPOINT, \h81, \h03, 8, 0, 10>>

config_descriptor_keyboard == config_descriptor(1, 1, HID_REPORT_LENGTH_KEYBOARD)
config_descriptor_rawhid == config_descriptor(0, 0, HID_REPORT_LENGTH_RAWHID)

hid_report_keyboard ==
  <<\h05, \h01, \h09, \h06, \hA1, \h01,
    \h05, \h07, \h19, \hE0, \h29, \hE7, \h15, \h00, \h25, \h01,   \* modifiers
    \h75, \h01, \h95, \h08, \h81, \h02,
    \h95, \h01, \h75, \h08, \h81, \h03,                           \* reserved
    \h95, \h05, \h75, \h01, \h05, \h08, \h19, \h01, \h29, \h05,   \* LEDs
    \h91, \h02, \h95, \h01, \h75, \h03, \h91, \h03,
    \h95, \h06, \h75, \h08, \h15, \h00, \h25, \h65,               \* keys
    \h05, \h07, \h19, \h00, \h29, \h65, \h81, \h00,
    \hC0>>

hid_report_rawhid ==
  <<\h06, \h00, \hFF, \h09, \h01, \hA1, \h01,
    \h15, \h00, \h26, \hFF, \h00, \h75, \h08, \h95, PROTOCOL_REPORT_SIZE,
    \h09, \h01, \h81, \h02, \h09, \h01, \h91, \h02, \h09, \h01, \hB1, \h02,
    \hC0>>

(* usbconfig.h: vendor 0x16C0, device 0x27DB, version 1.00; the vendor's   *)
(* string is number 1, the product's 2, and there is no serial number.     *)
usbDescriptorDevice ==
  <<18, DESCRIPTOR_TYPE_DEVICE, \h10, \h01, 0, 0, 0, 8,
    \hC0, \h16, \hDB, \h27, \h00, \h01, 1, 2, 0, 1>>

usbDescriptorString0 == <<4, DESCRIPTOR_TYPE_STRING, \h09, \h04>>

(* Two bytes a character, little-endian.                                   *)
StringDescriptor(name) ==
  <<2 * Len(name) + 2, DESCRIPTOR_TYPE_STRING>>
  \o [i \in 1 .. 2 * Len(name) |-> IF i % 2 = 1 THEN name[(i + 1) \div 2] ELSE 0]

Flash ==
  [usbDescriptorDevice |-> usbDescriptorDevice,
   usbDescriptorString0 |-> usbDescriptorString0,
   usbDescriptorStringVendor |-> StringDescriptor(VENDOR_NAME),
   usbDescriptorStringDevice |-> StringDescriptor(DEVICE_NAME),
   config_descriptor_keyboard |-> config_descriptor_keyboard,
   config_descriptor_rawhid |-> config_descriptor_rawhid,
   hid_report_keyboard |-> hid_report_keyboard,
   hid_report_rawhid |-> hid_report_rawhid]
-----------------------------------------------------------------------------
Whole(name) == [of |-> name, at |-> 0, len |-> Len(Flash[name])]
Part(name, at, len) == [of |-> name, at |-> at, len |-> len]
Nothing == [of |-> "nothing", at |-> 0, len |-> 0]

descriptors_get_configuration(mode) ==
  Whole(IF mode = "KEYBOARD" THEN "config_descriptor_keyboard"
        ELSE "config_descriptor_rawhid")

(* The HID descriptor stands in the configuration, at offset 18.           *)
descriptors_get_hid(mode) ==
  Part(descriptors_get_configuration(mode).of, 18, 9)

descriptors_get_hid_report(mode) ==
  Whole(IF mode = "KEYBOARD" THEN "hid_report_keyboard" ELSE "hid_report_rawhid")

usbFunctionDescriptor(mode, type) ==
  CASE type = DESCRIPTOR_TYPE_CONFIGURATION -> descriptors_get_configuration(mode)
    [] type = DESCRIPTOR_TYPE_HID -> descriptors_get_hid(mode)
    [] type = DESCRIPTOR_TYPE_HID_REPORT -> descriptors_get_hid_report(mode)
    [] OTHER -> Nothing

Strings ==
  <<"usbDescriptorString0", "usbDescriptorStringVendor", "usbDescriptorStringDevice">>

(* The device's descriptor and the strings are the driver's own; a string  *)
(* or a type that it does not know has no bytes.                           *)
usbDriverDescriptor(mode, type, index) ==
  CASE type = DESCRIPTOR_TYPE_DEVICE -> Whole("usbDescriptorDevice")
    [] type = DESCRIPTOR_TYPE_STRING ->
         IF index < Len(Strings) THEN Whole(Strings[index + 1]) ELSE Nothing
    [] type \in {DESCRIPTOR_TYPE_CONFIGURATION, DESCRIPTOR_TYPE_HID,
                 DESCRIPTOR_TYPE_HID_REPORT} -> usbFunctionDescriptor(mode, type)
    [] OTHER -> Nothing
=============================================================================
