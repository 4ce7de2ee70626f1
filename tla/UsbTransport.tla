----------------------------- MODULE UsbTransport -----------------------------
(***************************************************************************)
(* transport_usb.c as a whole: UsbTx and UsbRx share reset_pending,        *)
(* configured and initial_configuration_seen, and the RESET and CONFIGURED *)
(* events are one interrupt for both halves.                               *)
(*                                                                         *)
(* Bus resets come at any time.  SET_CONFIGURATION follows a reset by      *)
(* milliseconds of enumeration, so here it finds both threads where they   *)
(* block (Settled); UsbTx and UsbRx drop that assumption one by one.  With *)
(* HostWaits the tx thread has also consumed the reset, which it has not   *)
(* if it was blocked with a frame in hand.                                 *)
(***************************************************************************)
EXTENDS UsbRx

CONSTANTS Control, Data, Unaligned, ControlDepth, DataDepth, Submitters, MaxXfer,
          NoFrame

VARIABLES
    ctl, dat, waking, txDone, txWakeup, gate, pc, job, epIn, epFrame, left, wire,
    due, sent, delivered, dead, loose, unsure, overtaken, sessionDirty

txVars == <<ctl, dat, waking, txDone, txWakeup, gate, pc, job, epIn, epFrame, left,
            wire, due, sent, delivered, dead, loose, unsure, overtaken, sessionDirty>>
jointVars == <<txVars, vars>>

Tx == INSTANCE UsbTx WITH FastHost <- FALSE

JointInit == Tx!Init /\ Init

\* Both threads are suspended on a semaphore without a token.
Settled ==
    /\ \/ pc = "idle" /\ txWakeup = 0
       \/ pc = "gateWait" /\ gate = 0
       \/ pc = "wait" /\ txDone = 0
    /\ rxPc = "sleep" /\ rxAvail = 0

\* usb_event_handler, case USBD_EVENT_RESET, for both halves at once.
JointReset == Tx!BusReset /\ BusReset

\* usb_event_handler, case USBD_EVENT_CONFIGURED.
JointConfigured == Settled /\ Tx!Configured /\ Configured

TxStep ==
    /\ \/ \E f \in Tx!Frames : Tx!Submit(f)
       \/ Tx!SubmitWake \/ Tx!TxThread
       \/ Tx!InData \/ Tx!InAckLost \/ Tx!InAck
    /\ UNCHANGED rxVars

RxStep ==
    /\ (\E n \in 0 .. Chunk : OutPacket(n)) \/ RxThread
    /\ UNCHANGED txVars

JointNext == TxStep \/ RxStep \/ JointReset \/ JointConfigured

JointSpec == JointInit /\ [][JointNext]_jointVars

\* The scheduler runs the ready rx thread; nothing is assumed of the host.
JointFairSpec == JointSpec /\ WF_jointVars(RxThread /\ UNCHANGED txVars)

------------------------------------------------------------------------------
(* Properties.  Those of UsbRx are checked here with the real tx thread. *)

\* UsbRx describes the transmit half by one step, TxConsumesReset; the real
\* tx thread does nothing else to the state UsbRx reads.  Every behaviour of
\* the whole transport is one of UsbRx, so what UsbRx shows of it, and what is
\* proved of it, holds here.
ReceiveHalfIsUsbRx == Spec

\* "the next CONFIGURED re-arms the OUT endpoint unconditionally"
\* (transport_usb.c:497) and "The CONFIGURED ISR re-arms the OUT endpoint"
\* (transport_usb.c:400): once configured, the endpoint NAKs only while paused
\* or about to be re-armed.
ConfiguredRearms == NakExplained
==============================================================================
