-------------------------------- MODULE VUsb --------------------------------
(***************************************************************************)
(* What the transport, the enumeration and the keyboard's endpoint share   *)
(* of V-USB (usbdrv.c): the length of a message, and the packets.          *)
(***************************************************************************)
EXTENDS Integers, Sequences

CONSTANTS
  PacketSize,   \* data bytes of a packet: 8
  LengthBase    \* values of usbMsgLen_t, an unsigned char: 256

USB_NO_MSG == LengthBase - 1

Least(a, b) == IF a < b THEN a ELSE b

(* usbProcessRx limits an answer to the length that the host asks for,     *)
(* unless that does not fit a byte.                                        *)
Limited(replyLen, wLength) ==
  IF wLength < LengthBase THEN Least(replyLen, wLength) ELSE replyLen
=============================================================================
