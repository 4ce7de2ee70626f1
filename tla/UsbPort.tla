------------------------------- MODULE UsbPort -------------------------------
(***************************************************************************)
(* The two bulk endpoints in the CherryUSB port of the chip,               *)
(* usb_dc_usbhs.c: their data toggles and the packets of a transfer, on a  *)
(* bus that loses handshakes.  The transport above arms one packet per     *)
(* read (UsbRx) and writes frames of several packets (UsbTx).  It may give *)
(* a write up (wlh_usbhs_ep_in_halt) or replace it by the next at any      *)
(* time, also while one of its packets is on the wire.                     *)
(*                                                                         *)
(* A transfer interrupt is one step with the packet that raised it: the    *)
(* controller answers NAK until its flag is cleared (USBHS_INT_BUSY_EN).   *)
(* Of the data only the count is kept: how many packets the receiver has   *)
(* taken more than the sender knows of.  The host and its toggles are      *)
(* external; it resets them with the configuration and with                *)
(* CLEAR_FEATURE(ENDPOINT_HALT).                                           *)
(***************************************************************************)
EXTENDS Integers

CONSTANT MaxXfer    \* bound: packets of one IN transfer

ASSUME PortAssumption == MaxXfer \in Nat \ {0}

VARIABLES
    outRes, outTog, autoTog,    \* UEPn_RX_CTRL: response, toggle, AUTOTOG
    owed,       \* the transport is still to start the next read (UsbRx)
    unarmed,    \* history: CONFIGURED left the endpoint closed to packets
    hostOutTog, \* the host's toggle
    outAhead,   \* packets given to the callback less those acknowledged to
                \* the host
    inRes,      \* response in UEPn_TX_CTRL
    inTog,      \* epx_tx_data_toggle
    left,       \* packets of in_ep.xfer_len
    wire,       \* an IN packet is on the wire, its handshake still to come
    hostInTog,  \* the host's toggle
    inAhead,    \* packets accepted by the host less those acknowledged
    outTrouble, inTrouble       \* history: the toggles were torn apart

outVars == <<outRes, outTog, autoTog, owed, unarmed, hostOutTog, outAhead, outTrouble>>
inVars == <<inRes, inTog, left, wire, hostInTog, inAhead, inTrouble>>
vars == <<outVars, inVars>>

\* Nothing is counted any more once the toggles are torn apart.
Count(trouble, n) == IF trouble THEN 0 ELSE n

Responses == {"disabled", "nak", "ack"}

Init ==
    /\ outRes = "disabled" /\ outTog = 0 /\ autoTog = FALSE
    /\ owed = FALSE /\ unarmed = FALSE
    /\ hostOutTog = 0 /\ outAhead = 0 /\ outTrouble = FALSE
    /\ inRes = "disabled" /\ inTog = 0 /\ left = 0
    /\ wire = FALSE /\ hostInTog = 0 /\ inAhead = 0 /\ inTrouble = FALSE

------------------------------------------------------------------------------
(* Bulk OUT: USBD_IRQHandler, PID_OUT *)

\* Mutant of TogOk: not tested.
TogOkAlways == TRUE

\* UIS_TOG_OK
TogOk == outTog = hostOutTog

\* The controller flips its toggle on a match, if AUTOTOG is set.
Flipped == IF autoTog /\ outTog = hostOutTog THEN 1 - outTog ELSE outTog

\* The host sees the ACK and goes on to its next packet, or it is lost.
HostAck(lost, taken) ==
    /\ hostOutTog' = IF lost THEN hostOutTog ELSE 1 - hostOutTog
    /\ outAhead' = Count(outTrouble, outAhead + taken - (IF lost THEN 0 ELSE 1))

\* A packet in turn: the callback either arms the next read or pauses.
OutPacket(lost, res) ==
    /\ outRes = "ack" /\ TogOk
    /\ outTog' = Flipped
    /\ outRes' = res /\ owed' = (res = "nak")
    /\ HostAck(lost, 1)
    /\ UNCHANGED <<autoTog, unarmed, outTrouble, inVars>>

\* Mutant of OutDuplicate: "Keeping the NAK from ISR entry".
OutDuplicateNak(lost) ==
    /\ outRes = "ack" /\ ~TogOk
    /\ outRes' = "nak"
    /\ HostAck(lost, 0)
    /\ UNCHANGED <<outTog, autoTog, owed, unarmed, outTrouble, inVars>>

\* A toggle that does not match: nothing is delivered, but it is acknowledged.
OutDuplicate(lost) ==
    /\ outRes = "ack" /\ ~TogOk
    /\ HostAck(lost, 0)
    /\ UNCHANGED <<outRes, outTog, autoTog, owed, unarmed, outTrouble, inVars>>

\* usbd_ep_start_read from the transport's threads.
StartRead ==
    /\ owed /\ outRes = "nak"
    /\ outRes' = "ack" /\ owed' = FALSE
    /\ UNCHANGED <<outTog, autoTog, unarmed, hostOutTog, outAhead, outTrouble,
                   inVars>>

------------------------------------------------------------------------------
(* Bulk IN *)

\* What is left of a transfer is given up.  The toggle is not touched: if the host
\* has already taken the packet that is not acknowledged and flipped its own, it
\* takes the next transfer's first packet for a repetition.
GiveUp ==
    /\ inTrouble' = (inTrouble \/ (left > 0 /\ inTog # hostInTog))
    /\ inAhead' = Count(inTrouble', inAhead)

\* usbd_ep_start_write of n packets.
StartWrite(n) ==
    /\ inRes # "disabled"
    /\ left' = n /\ inRes' = "ack"
    /\ GiveUp
    /\ UNCHANGED <<outVars, inTog, wire, hostInTog>>

\* The host takes the packet, or throws it away as a repetition; either way it
\* acknowledges it.
InData ==
    /\ inRes = "ack" /\ ~wire
    /\ wire' = TRUE
    /\ IF inTog = hostInTog
       THEN inAhead' = Count(inTrouble, inAhead + 1) /\ hostInTog' = 1 - hostInTog
       ELSE UNCHANGED <<inAhead, hostInTog>>
    /\ UNCHANGED <<outVars, inRes, inTog, left, inTrouble>>

\* The handshake is lost: no interrupt, and the packet is sent again.
InAckLost ==
    /\ wire
    /\ wire' = FALSE
    /\ UNCHANGED <<outVars, inRes, inTog, left, hostInTog, inAhead, inTrouble>>

\* xfer_len > ep_mps
MoreToSend == left > 1

\* Mutant of NextTog: flipped between the packets of a transfer only.
NextTogInside == IF MoreToSend THEN 1 - inTog ELSE inTog

NextTog == 1 - inTog

\* USBD_IRQHandler, PID_IN: the next packet, also of a transfer that was halted
\* while this one was on the wire; or the end of the transfer.
InAck ==
    /\ wire
    /\ wire' = FALSE /\ inTog' = NextTog
    /\ inAhead' = Count(inTrouble, inAhead - 1)
    /\ left' = left - 1
    /\ inRes' = IF MoreToSend THEN "ack" ELSE "nak"
    /\ UNCHANGED <<outVars, hostInTog, inTrouble>>

\* wlh_usbhs_ep_in_halt after the transport's timeout; xfer_len is not touched.
Halt ==
    /\ inRes # "disabled"
    /\ inRes' = "nak"
    /\ GiveUp
    /\ UNCHANGED <<outVars, inTog, left, wire, hostInTog>>

------------------------------------------------------------------------------
(* Requests of the host that reset toggles *)

\* The counts begin anew.
NewCounts ==
    /\ outAhead' = 0 /\ hostOutTog' = 0
    /\ inAhead' = 0 /\ hostInTog' = 0 /\ wire' = FALSE

\* USBHS_DETECT_FLAG
BusReset ==
    /\ outRes' = "disabled" /\ outTog' = 0 /\ autoTog' = TRUE
    /\ owed' = FALSE /\ unarmed' = FALSE
    /\ inRes' = "disabled" /\ inTog' = 0 /\ left' = 0
    /\ outTrouble' = FALSE /\ inTrouble' = FALSE
    /\ NewCounts

\* SET_CONFIGURATION: usbd_ep_open of both endpoints.  The CONFIGURED event arms
\* OUT; if it finds a reset pending it does not, and then nobody does
\* (transport_usb.c:513).  epx_tx_data_toggle is left as it is.  The interrupt
\* serves a transfer before a SETUP packet.
SetConfiguration(res) ==
    /\ ~wire
    /\ outRes' = res /\ owed' = FALSE /\ unarmed' = (res = "nak")
    /\ outTog' = 0 /\ autoTog' = TRUE /\ outTrouble' = FALSE
    /\ inRes' = "nak"
    /\ inTrouble' = (inTrouble \/ inTog # 0)
    /\ NewCounts
    /\ UNCHANGED <<inTog, left>>

\* usbd_ep_clear_stall: armed, but without AUTOTOG.
ClearHaltOut ==
    /\ outRes # "disabled"
    /\ outRes' = "ack" /\ outTog' = 0 /\ autoTog' = FALSE
    /\ hostOutTog' = 0 /\ outTrouble' = TRUE /\ outAhead' = 0
    /\ unarmed' = FALSE
    /\ UNCHANGED <<owed, inVars>>

ClearHaltIn ==
    /\ inRes # "disabled" /\ ~wire
    /\ inRes' = "nak" /\ hostInTog' = 0
    /\ inTrouble' = (inTrouble \/ inTog # 0 \/ hostInTog # inTog)
    /\ inAhead' = Count(inTrouble', inAhead)
    /\ UNCHANGED <<outVars, inTog, left, wire>>

Next ==
    \/ \E lost \in BOOLEAN : OutDuplicate(lost)
    \/ \E lost \in BOOLEAN, res \in {"ack", "nak"} : OutPacket(lost, res)
    \/ StartRead
    \/ \E n \in 1 .. MaxXfer : StartWrite(n)
    \/ InData \/ InAckLost \/ InAck \/ Halt
    \/ BusReset \/ ClearHaltOut \/ ClearHaltIn
    \/ \E res \in {"ack", "nak"} : SetConfiguration(res)

Spec == Init /\ [][Next]_vars

\* The rx thread makes room in the end, and not every handshake is lost.
FairSpec ==
    /\ Spec
    /\ WF_vars(StartRead)
    /\ SF_vars(OutDuplicate(FALSE) \/ \E res \in {"ack", "nak"} : OutPacket(FALSE, res))

------------------------------------------------------------------------------
(* Properties *)

\* With the types: an armed IN endpoint has a packet to send.
TypeOK ==
    /\ outRes \in Responses /\ inRes \in Responses
    /\ outTog \in 0 .. 1 /\ hostOutTog \in 0 .. 1
    /\ inTog \in 0 .. 1 /\ hostInTog \in 0 .. 1
    /\ autoTog \in BOOLEAN /\ owed \in BOOLEAN /\ unarmed \in BOOLEAN
    /\ wire \in BOOLEAN /\ outTrouble \in BOOLEAN /\ inTrouble \in BOOLEAN
    /\ outAhead \in Int /\ inAhead \in Int
    /\ left \in 0 .. MaxXfer
    /\ inRes = "ack" => left > 0

\* OUT: the callback gets what the host sent, nothing twice (more ahead) and
\* nothing missing (less), except after CLEAR_FEATURE, which ends AUTOTOG.
OutExactlyOnce == outAhead \in {0, 1}

\* IN: the host gets what was written.  The toggle is in software and goes on
\* across transfers; it is torn from the host's when a transfer is given up while
\* a packet the host has taken is not acknowledged, and by CLEAR_FEATURE or
\* SET_CONFIGURATION when it is 1.
InExactlyOnce == inAhead \in {0, 1}

\* "a retry whose ACK was lost on the wire [...] duplicates data already
\* consumed" (usb_dc_usbhs.c:395-397): for any number of packets and whatever
\* handshakes are lost, each is taken exactly once.
PacketsExactlyOnce == OutExactlyOnce /\ InExactlyOnce

\* "Keeping the NAK [...] wedges the endpoint permanently" (usb_dc_usbhs.c:399):
\* the host gets every packet through, whatever handshakes are lost, on an endpoint
\* that CONFIGURED has armed.  It does not when it finds the reset still pending
\* (ConfiguredRearms in UsbTransport).
OutProgress ==
    \A t \in 0 .. 1 :
        (outRes # "disabled" /\ hostOutTog = t)
            ~> (outRes = "disabled" \/ unarmed \/ hostOutTog # t)
==============================================================================
