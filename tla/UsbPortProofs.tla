---------------------------- MODULE UsbPortProofs ----------------------------
(***************************************************************************)
(* Proofs about UsbPort for transfers of any length: the data toggles, one *)
(* in hardware and one in software, deliver every packet exactly once      *)
(* although handshakes are lost.                                           *)
(***************************************************************************)
EXTENDS UsbPort, TLAPS

\* A packet on the wire is one of a transfer.
WireInv == wire => left > 0

\* The OUT toggles differ exactly while the host waits for an ACK of a packet
\* that the callback already has; the controller flips its own on its own.
OutInv ==
    IF outTrouble THEN outAhead = 0
    ELSE /\ outRes # "disabled" => autoTog
         /\ outAhead = IF outTog = hostOutTog THEN 0 ELSE 1

\* The IN toggles differ exactly while the port waits for the ACK of a packet
\* that the host already has, which is one of an unfinished transfer.
InInv ==
    IF inTrouble THEN inAhead = 0
    ELSE /\ wire => inTog # hostInTog
         /\ left = 0 => inTog = hostInTog
         /\ inAhead = IF inTog = hostInTog THEN 0 ELSE 1

PortInv == TypeOK /\ WireInv /\ OutInv /\ InInv

LEMMA PortInit == Init => PortInv
<1> SUFFICES ASSUME Init PROVE PortInv
  OBVIOUS
<1>1. /\ outRes \in Responses /\ inRes \in Responses
      /\ outTog \in 0 .. 1 /\ hostOutTog \in 0 .. 1
      /\ inTog \in 0 .. 1 /\ hostInTog \in 0 .. 1
      /\ outAhead \in Int /\ inAhead \in Int
      /\ left \in 0 .. MaxXfer /\ (inRes = "ack" => left > 0)
  BY PortAssumption DEF Init, Responses
<1>2. TypeOK
  BY <1>1 DEF Init, TypeOK
<1>3. WireInv /\ OutInv /\ InInv
  BY DEF Init, WireInv, OutInv, InInv
<1> QED
  BY <1>2, <1>3 DEF PortInv

\* The OUT half: only OUT packets and the requests of the host touch it.
LEMMA OutStep == PortInv /\ [Next]_vars => OutInv'
<1> SUFFICES ASSUME PortInv, [Next]_vars PROVE OutInv'
  OBVIOUS
<1> USE DEF PortInv, TypeOK, OutInv, Responses, Count
<1>1. ASSUME NEW lost \in BOOLEAN, OutDuplicate(lost) PROVE OutInv'
  BY <1>1 DEF OutDuplicate, HostAck, TogOk
<1>2. ASSUME NEW lost \in BOOLEAN, NEW res \in {"ack", "nak"}, OutPacket(lost, res)
      PROVE  OutInv'
  BY <1>2 DEF OutPacket, HostAck, TogOk, Flipped
<1>3. CASE StartRead
  BY <1>3 DEF StartRead
<1>4. CASE BusReset
  BY <1>4 DEF BusReset, NewCounts
<1>5. ASSUME NEW res \in {"ack", "nak"}, SetConfiguration(res) PROVE OutInv'
  BY <1>5 DEF SetConfiguration, NewCounts
<1>6. CASE ClearHaltOut
  BY <1>6 DEF ClearHaltOut
<1>7. CASE UNCHANGED outVars
  BY <1>7 DEF outVars
<1>8. ASSUME NEW n \in 1 .. MaxXfer, StartWrite(n) PROVE OutInv'
  BY <1>8, <1>7 DEF StartWrite
<1>9. CASE InData \/ InAckLost \/ InAck \/ Halt \/ ClearHaltIn
  BY <1>9, <1>7 DEF InData, InAckLost, InAck, Halt, ClearHaltIn
<1> QED
  BY <1>1, <1>2, <1>3, <1>4, <1>5, <1>6, <1>7, <1>8, <1>9 DEF Next, vars

\* The IN half.
LEMMA InStep == PortInv /\ [Next]_vars => (WireInv /\ InInv)'
<1> DEFINE Q == WireInv /\ InInv
<1> SUFFICES ASSUME PortInv, [Next]_vars PROVE Q'
  OBVIOUS
<1> USE DEF PortInv, TypeOK, WireInv, InInv, Responses, Count
<1>1. ASSUME NEW n \in 1 .. MaxXfer, StartWrite(n) PROVE Q'
  BY <1>1 DEF StartWrite, GiveUp
<1>2. CASE InData
  BY <1>2 DEF InData
<1>3. CASE InAckLost
  BY <1>3 DEF InAckLost
<1>4. CASE InAck
  BY <1>4 DEF InAck, NextTog, MoreToSend
<1>5. CASE Halt
  BY <1>5 DEF Halt, GiveUp
<1>6. CASE BusReset
  BY <1>6 DEF BusReset, NewCounts
<1>7. ASSUME NEW res \in {"ack", "nak"}, SetConfiguration(res) PROVE Q'
  BY <1>7 DEF SetConfiguration, NewCounts
<1>8. CASE ClearHaltIn
  BY <1>8 DEF ClearHaltIn
<1>9. CASE UNCHANGED inVars
  BY <1>9 DEF inVars
<1>10. ASSUME NEW lost \in BOOLEAN, OutDuplicate(lost) PROVE Q'
  BY <1>10, <1>9 DEF OutDuplicate
<1>11. ASSUME NEW lost \in BOOLEAN, NEW res \in {"ack", "nak"}, OutPacket(lost, res)
       PROVE  Q'
  BY <1>11, <1>9 DEF OutPacket
<1>12. CASE StartRead \/ ClearHaltOut
  BY <1>12, <1>9 DEF StartRead, ClearHaltOut
<1> QED
  BY <1>1, <1>2, <1>3, <1>4, <1>5, <1>6, <1>7, <1>8, <1>9, <1>10, <1>11, <1>12
  DEF Next, vars

\* Types; an acknowledged packet leaves no fewer than none.
LEMMA PortTypeStep == PortInv /\ [Next]_vars => TypeOK'
<1> SUFFICES ASSUME PortInv, [Next]_vars PROVE TypeOK'
  OBVIOUS
<1> DEFINE
      Flags == /\ autoTog \in BOOLEAN /\ owed \in BOOLEAN /\ unarmed \in BOOLEAN
               /\ wire \in BOOLEAN /\ outTrouble \in BOOLEAN
               /\ inTrouble \in BOOLEAN
      OutTypes == /\ outRes \in Responses /\ outAhead \in Int
                  /\ outTog \in 0 .. 1 /\ hostOutTog \in 0 .. 1
      InTypes == /\ inRes \in Responses /\ inAhead \in Int
                 /\ inTog \in 0 .. 1 /\ hostInTog \in 0 .. 1
                 /\ left \in 0 .. MaxXfer /\ (inRes = "ack" => left > 0)
<1>0. Flags /\ OutTypes /\ InTypes /\ MaxXfer \in Nat \ {0}
  BY PortAssumption DEF PortInv, TypeOK
<1>1. Flags'
  BY <1>0, Zenon DEF Next, vars, outVars, inVars, OutDuplicate, OutPacket, StartRead,
     StartWrite, GiveUp, InData, InAckLost, InAck, Halt, BusReset, ClearHaltOut,
     ClearHaltIn, SetConfiguration, NewCounts
<1>2. OutTypes'
  BY <1>0, SMT DEF Next, vars, outVars, OutDuplicate, OutPacket, HostAck, Flipped, Count,
     StartRead, StartWrite, InData, InAckLost, InAck, Halt, BusReset, ClearHaltOut,
     ClearHaltIn, SetConfiguration, NewCounts, Responses
<1>3. InTypes'
  <2>1. wire => left > 0
    BY DEF PortInv, WireInv
  <2> QED
    BY <1>0, <2>1, SMT DEF Next, vars, inVars, OutDuplicate, OutPacket, StartRead,
       StartWrite, InData, InAckLost, InAck, NextTog, MoreToSend, Halt, GiveUp,
       BusReset, ClearHaltOut, ClearHaltIn, SetConfiguration, NewCounts, Responses, Count
<1> QED
  BY <1>1, <1>2, <1>3 DEF TypeOK

LEMMA PortInvariant == Spec => []PortInv
<1>1. PortInv /\ [Next]_vars => PortInv'
  BY PortTypeStep, OutStep, InStep DEF PortInv
<1> QED
  BY PortInit, <1>1, PTL DEF Spec

\* The registers and counts keep to their types, and an armed IN endpoint has a
\* packet to send.
THEOREM PortTypeCorrect == Spec => []TypeOK
<1>1. PortInv => TypeOK
  BY DEF PortInv
<1> QED
  BY <1>1, PortInvariant, PTL

\* Whatever handshakes are lost, the OUT callback gets every packet of the host
\* once (USBD_IRQHandler acknowledges a repetition and drops it), and the host
\* accepts every packet of the IN transfers once: epx_tx_data_toggle flips with
\* each acknowledged packet and never between.
THEOREM PortPacketsExactlyOnce == Spec => []PacketsExactlyOnce
<1>1. PortInv => OutExactlyOnce
  BY DEF PortInv, OutInv, OutExactlyOnce
<1>2. PortInv => InExactlyOnce
  BY DEF PortInv, InInv, InExactlyOnce
<1> QED
  BY <1>1, <1>2, PortInvariant, PTL DEF PacketsExactlyOnce
==============================================================================
