---------------------------- MODULE MCUsbTransport ----------------------------
(* UsbTransport with one control frame. *)
EXTENDS UsbTransport

CONSTANT c1

MCControl == {c1}
==============================================================================
