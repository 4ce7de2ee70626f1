------------------------------- MODULE MCUsbTx -------------------------------
(* UsbTx with one control frame and two data frames. *)
EXTENDS UsbTx

CONSTANTS c1, d1, d2

MCControl == {c1}
MCData == {d1, d2}
==============================================================================
