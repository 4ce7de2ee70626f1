----------------------------- MODULE UsbRxProofs -----------------------------
(***************************************************************************)
(* Proofs about UsbRx for every ring size and packet size.  What holds at  *)
(* any time (WakeInv) is separated from what needs the threads to be idle  *)
(* at SET_CONFIGURATION (FlowInv).  UsbTransport implements UsbRx and      *)
(* UsbTx, so the same holds with the real transmit half beside it.         *)
(***************************************************************************)
EXTENDS UsbTransport, TLAPS

USE RingAssumption, SemMaxAssumption, HostWaitsAssumption

\* Why neither bytes nor a pause are forgotten: outside the drain loop a
\* non-empty ring has left a token, and a pause the thread has walked past
\* found the ring without room, hence non-empty.
WakeInv ==
    /\ BytesHaveWakeup
    /\ PauseHasWakeup

\* Why the put always fits: the endpoint is armed only over a free maximum
\* packet, an endpoint the thread is about to arm is not armed already, and a
\* pause excludes being armed.
FlowInv ==
    /\ ~overruns
    /\ epOut = "armed" => HasRoom
    /\ outPaused => epOut = "nak"
    /\ rxPc \in {"unpause", "rearm"} => epOut # "armed" /\ HasRoom
    /\ rxPc = "rearm" => ~outPaused
    /\ rxPc = "unpause" => outPaused \/ ~configured
    /\ NakExplained
    /\ configured <=> epOut # "disabled"

\* A put never fills the ring beyond its size, and stores everything when
\* there is room.
LEMMA StoredFacts ==
    ASSUME TypeOK, NEW n \in 0 .. Chunk
    PROVE  /\ level + Stored(n) \in 0 .. Ring
           /\ HasRoom => Stored(n) = n
           /\ n = 0 => Stored(n) = 0
BY DEF TypeOK, Stored, HasRoom

\* Every step preserves the types.
LEMMA TypeStep == ASSUME TypeOK, [Next]_vars PROVE TypeOK'
<1> USE DEF TypeOK
<1>0. SemRelease(rxAvail) \in SemValue
  BY DEF SemValue, SemRelease
<1>1. ASSUME NEW n \in 0 .. Chunk, OutPacket(n) PROVE TypeOK'
  BY <1>0, <1>1, StoredFacts DEF OutPacket, flagVars
<1>2. ASSUME BusReset \/ Configured \/ TxConsumesReset PROVE TypeOK'
  BY <1>2 DEF BusReset, Configured, TxConsumesReset, rxVars
<1>3. ASSUME RxWake PROVE TypeOK'
  BY <1>3 DEF RxWake, SemValue, flagVars
<1>4. ASSUME RxDrain PROVE TypeOK'
  BY <1>4 DEF RxDrain, flagVars
<1>5. ASSUME RxRecheck \/ RxUnpause \/ RxRearm PROVE TypeOK'
  BY <1>5 DEF RxRecheck, RxUnpause, RxRearm, flagVars
<1>6. ASSUME UNCHANGED vars PROVE TypeOK'
  BY <1>6 DEF vars, rxVars, flagVars
<1> QED
  BY <1>1, <1>2, <1>3, <1>4, <1>5, <1>6 DEF Next, RxThread

\* Every step keeps a wakeup for the bytes in the ring and for a pause.
LEMMA WakeStep == ASSUME TypeOK, WakeInv, [Next]_vars PROVE WakeInv'
<1> USE DEF TypeOK, WakeInv, BytesHaveWakeup, PauseHasWakeup
<1>0. SemRelease(rxAvail) > 0 /\ SemRelease(rxAvail) >= rxAvail
  BY DEF SemValue, SemRelease
<1>1. ASSUME NEW n \in 0 .. Chunk, OutPacket(n) PROVE WakeInv'
  <2>1. CASE n # 0
    <3>1. rxAvail' > 0
      BY <1>0, <1>1, <2>1 DEF OutPacket
    <3> QED
      BY <3>1
  <2>2. CASE n = 0
    <3>1. level' = level /\ rxAvail' = rxAvail /\ rxPc' = rxPc
      BY <1>1, <2>2, StoredFacts DEF OutPacket
    <3>2. ~(Ring - level >= Chunk) => level > 0
      OBVIOUS
    <3>3. outPaused' => outPaused \/ level > 0
      BY <1>1, <3>1, <3>2 DEF OutPacket
    <3> QED
      BY <3>1, <3>3
  <2> QED
    BY <2>1, <2>2
<1>2. ASSUME BusReset \/ Configured \/ TxConsumesReset PROVE WakeInv'
  BY <1>2 DEF BusReset, Configured, TxConsumesReset, rxVars
<1>3. ASSUME RxWake PROVE WakeInv'
  BY <1>3 DEF RxWake
<1>4. ASSUME RxDrain PROVE WakeInv'
  BY <1>4 DEF RxDrain
<1>5. ASSUME RxRecheck PROVE WakeInv'
  <2>1. UNCHANGED <<level, rxAvail, outPaused>> /\ rxPc = "recheck"
        /\ rxPc' = IF outPaused /\ HasRoom THEN "unpause" ELSE "sleep"
    BY <1>5 DEF RxRecheck
  <2>2. ~HasRoom => level > 0
    BY DEF HasRoom
  <2> QED
    BY <2>1, <2>2
<1>6. ASSUME RxUnpause \/ RxRearm PROVE WakeInv'
  BY <1>6 DEF RxUnpause, RxRearm
<1>7. ASSUME UNCHANGED vars PROVE WakeInv'
  BY <1>7 DEF vars, rxVars
<1> QED
  BY <1>1, <1>2, <1>3, <1>4, <1>5, <1>6, <1>7 DEF Next, RxThread

\* Every step keeps the endpoint armed only over a free maximum packet, if
\* SET_CONFIGURATION finds the threads idle.
LEMMA FlowStep ==
    ASSUME HostWaits, TypeOK, WakeInv, FlowInv, [Next]_vars
    PROVE  FlowInv'
<1> USE DEF TypeOK, FlowInv, HasRoom, NakExplained
<1>1. ASSUME NEW n \in 0 .. Chunk, OutPacket(n) PROVE FlowInv'
  BY <1>1, StoredFacts DEF OutPacket, flagVars
<1>2. ASSUME BusReset PROVE FlowInv'
  BY <1>2 DEF BusReset
<1>3. ASSUME Configured PROVE FlowInv'
  <2>1. /\ rxPc = "sleep" /\ rxAvail = 0
        /\ ~(resetPending /\ initialSeen)
        /\ UNCHANGED <<level, rxPc, outPaused, overruns>>
        /\ epOut' = "armed" /\ configured' = TRUE
    BY <1>3 DEF Configured, ThreadsIdle
  <2>2. level = 0 /\ ~outPaused
    BY <2>1 DEF WakeInv, BytesHaveWakeup, PauseHasWakeup, SemValue
  <2> QED
    BY <2>1, <2>2
<1>4. ASSUME TxConsumesReset \/ RxWake PROVE FlowInv'
  BY <1>4 DEF TxConsumesReset, RxWake, rxVars, flagVars
<1>5. ASSUME RxDrain PROVE FlowInv'
  BY <1>5 DEF RxDrain, flagVars
<1>6. ASSUME RxRecheck PROVE FlowInv'
  BY <1>6 DEF RxRecheck, flagVars
<1>7. ASSUME RxUnpause PROVE FlowInv'
  BY <1>7 DEF RxUnpause, flagVars
<1>8. ASSUME RxRearm PROVE FlowInv'
  BY <1>8 DEF RxRearm, flagVars
<1>9. ASSUME UNCHANGED vars PROVE FlowInv'
  BY <1>9 DEF vars, rxVars, flagVars
<1> QED
  BY <1>1, <1>2, <1>3, <1>4, <1>5, <1>6, <1>7, <1>8, <1>9
     DEF Next, RxThread

------------------------------------------------------------------------------

\* The receive state is always well typed, whenever SET_CONFIGURATION comes:
\* even an overrunning put never fills the ring beyond its size.
THEOREM RxTypeCorrect == Spec => []TypeOK
<1>1. Init => TypeOK
  <2>1. 0 \in 0 .. Ring /\ 0 \in SemValue
    BY DEF SemValue
  <2> QED
    BY <2>1 DEF Init, TypeOK
<1>2. TypeOK /\ [Next]_vars => TypeOK'
  BY TypeStep
<1> QED
  BY <1>1, <1>2, PTL DEF Spec

\* No byte and no pause is forgotten by the rx thread, at any ring and packet
\* size and whenever SET_CONFIGURATION comes.
THEOREM RxNoForgottenWork == Spec => []WorkHasWakeup
<1>1. Init => WakeInv
  BY DEF Init, WakeInv, BytesHaveWakeup, PauseHasWakeup
<1>2. TypeOK /\ WakeInv /\ [Next]_vars => WakeInv'
  BY WakeStep
<1>3. WakeInv => WorkHasWakeup
  BY DEF WakeInv, WorkHasWakeup
<1> QED
  BY <1>1, <1>2, <1>3, RxTypeCorrect, PTL DEF Spec

\* If SET_CONFIGURATION finds the threads idle, no acknowledged byte is lost
\* at the ring, and a configured endpoint that NAKs is paused or about to be
\* re-armed.
THEOREM RxFlowControl == HostWaits => (Spec => [](NoOverrun /\ NakExplained))
<1> SUFFICES ASSUME HostWaits
             PROVE  Spec => [](NoOverrun /\ NakExplained)
  OBVIOUS
<1>1. Init => FlowInv /\ WakeInv
  BY DEF Init, FlowInv, HasRoom, NakExplained, WakeInv, BytesHaveWakeup,
         PauseHasWakeup
<1>2. TypeOK /\ WakeInv /\ FlowInv /\ [Next]_vars => WakeInv' /\ FlowInv'
  BY WakeStep, FlowStep
<1>3. FlowInv => NoOverrun /\ NakExplained
  BY DEF FlowInv, NoOverrun
<1> QED
  BY <1>1, <1>2, <1>3, RxTypeCorrect, PTL DEF Spec

------------------------------------------------------------------------------
(* UsbTransport *)

\* The steps of the transmit half leave the flags alone, but for the thread that
\* consumes a reset.
LEMMA TxStepFlags ==
    ASSUME TxStep
    PROVE  UNCHANGED rxVars /\ (UNCHANGED flagVars \/ Tx!CheckReset)
<1> USE DEF flagVars, Tx!usbVars
<1>1. UNCHANGED rxVars
  BY DEF TxStep
<1>2. ASSUME NEW f \in Tx!Frames, Tx!Submit(f) PROVE UNCHANGED flagVars
  BY <1>2 DEF Tx!Submit
<1>3. ASSUME Tx!SubmitWake \/ Tx!InData \/ Tx!InAckLost \/ Tx!InAck
      PROVE  UNCHANGED flagVars
  BY <1>3 DEF Tx!SubmitWake, Tx!InData, Tx!InAckLost, Tx!InAck
<1>4. ASSUME \/ Tx!TakeWakeup \/ Tx!FlushCtl \/ Tx!FlushDat \/ Tx!RecvControl
             \/ Tx!RecvData \/ Tx!GateClosed \/ Tx!GateTake \/ Tx!GatePassed
      PROVE  UNCHANGED flagVars
  BY <1>4 DEF Tx!TakeWakeup, Tx!FlushCtl, Tx!FlushDat, Tx!RecvControl, Tx!RecvData,
              Tx!GateClosed, Tx!GateTake, Tx!GatePassed
<1>5. ASSUME \/ Tx!DropStale \/ (\E n \in 1 .. MaxXfer : Tx!StartWrite(n)) \/ Tx!WaitDone \/ Tx!Timeout
             \/ Tx!AfterWait \/ Tx!HaltIn \/ Tx!Finish
      PROVE  UNCHANGED flagVars
  BY <1>5 DEF Tx!DropStale, Tx!StartWrite, Tx!WaitDone, Tx!Timeout, Tx!AfterWait,
              Tx!HaltIn, Tx!Finish
<1> QED
  BY <1>1, <1>2, <1>3, <1>4, <1>5 DEF TxStep, Tx!TxThread

\* Seen from the receive half, a step of the whole transport is one of UsbRx.
LEMMA JointStepIsRxStep ==
    ASSUME resetPending \in BOOLEAN, [JointNext]_jointVars
    PROVE  [Next]_vars /\ resetPending' \in BOOLEAN
<1>1. CASE TxStep
  <2>1. CASE UNCHANGED <<rxVars, flagVars>>
    BY <2>1 DEF vars, flagVars
  <2>2. CASE UNCHANGED rxVars /\ Tx!CheckReset
    <3>1. /\ resetPending' = FALSE /\ UNCHANGED <<rxVars, configured, initialSeen>>
      BY <2>2 DEF Tx!CheckReset
    <3>2. CASE resetPending
      BY <3>1, <3>2 DEF Next, TxConsumesReset
    <3>3. CASE ~resetPending
      BY <3>1, <3>3 DEF vars, flagVars
    <3> QED
      BY <3>2, <3>3
  <2> QED
    BY <1>1, <2>1, <2>2, TxStepFlags
<1>2. CASE RxStep
  <2>1. [Next]_vars
    BY <1>2 DEF RxStep, Next
  <2>2. UNCHANGED flagVars
    BY <1>2 DEF RxStep, OutPacket, RxThread, RxWake, RxDrain, RxRecheck, RxUnpause, RxRearm
  <2> QED
    BY <2>1, <2>2 DEF flagVars
<1>3. CASE JointReset
  BY <1>3 DEF JointReset, BusReset, Next
<1>4. CASE JointConfigured
  BY <1>4 DEF JointConfigured, Configured, Next
<1>5. CASE UNCHANGED jointVars
  BY <1>5 DEF jointVars, vars, flagVars
<1> QED
  BY <1>1, <1>2, <1>3, <1>4, <1>5 DEF JointNext

\* The real tx thread does nothing to the state of the receive half that UsbRx
\* does not allow for: every behaviour of transport_usb.c is one of UsbRx.
THEOREM TransportImplementsRx == JointSpec => ReceiveHalfIsUsbRx
<1>1. JointInit => Init /\ resetPending \in BOOLEAN
  BY DEF JointInit, Init
<1>2. /\ resetPending \in BOOLEAN
      /\ [JointNext]_jointVars
      => [Next]_vars /\ (resetPending \in BOOLEAN)'
  BY JointStepIsRxStep
<1> QED
  BY <1>1, <1>2, PTL DEF JointSpec, Spec, ReceiveHalfIsUsbRx

\* Seen from the transmit half, a step of the whole transport is one of UsbTx.
LEMMA JointStepIsTxStep == [JointNext]_jointVars => [Tx!Next]_(Tx!vars)
<1> SUFFICES ASSUME [JointNext]_jointVars PROVE [Tx!Next]_(Tx!vars)
  OBVIOUS
<1>1. CASE TxStep
  BY <1>1 DEF TxStep, Tx!Next, Tx!Usb
<1>2. CASE RxStep
  <2>1. UNCHANGED flagVars
    BY <1>2 DEF RxStep, OutPacket, RxThread, RxWake, RxDrain, RxRecheck, RxUnpause, RxRearm
  <2> QED
    BY <1>2, <2>1 DEF RxStep, txVars, flagVars, Tx!vars, Tx!queueVars, Tx!usbVars,
                      Tx!epVars, Tx!ghostVars
<1>3. CASE JointReset \/ JointConfigured
  BY <1>3 DEF JointReset, JointConfigured, Tx!Next, Tx!Usb
<1>4. CASE UNCHANGED jointVars
  BY <1>4 DEF jointVars, txVars, vars, flagVars, Tx!vars, Tx!queueVars, Tx!usbVars,
              Tx!epVars, Tx!ghostVars
<1> QED
  BY <1>1, <1>2, <1>3, <1>4 DEF JointNext

\* And every behaviour of transport_usb.c is one of UsbTx with a host that does not
\* re-enumerate within a few instructions: what UsbTxProofs shows without FastHost
\* holds of the whole transport.
THEOREM TransportImplementsTx == JointSpec => Tx!Spec
<1>1. JointInit => Tx!Init
  BY DEF JointInit
<1> QED
  BY <1>1, JointStepIsTxStep, PTL DEF JointSpec, Tx!Spec

\* No byte and no pause is forgotten with the real tx thread beside the rx thread.
THEOREM TransportNoForgottenWork == JointSpec => []WorkHasWakeup
<1> QED
  BY TransportImplementsRx, RxNoForgottenWork, PTL DEF ReceiveHalfIsUsbRx

\* With a host that finds the threads idle the put always fits, in the whole
\* transport.
THEOREM TransportNoOverrun == HostWaits => (JointSpec => []NoOverrun)
<1>1. ASSUME HostWaits PROVE JointSpec => []NoOverrun
  <2>1. Spec => [](NoOverrun /\ NakExplained)
    BY <1>1, RxFlowControl
  <2> QED
    BY <2>1, TransportImplementsRx, PTL DEF ReceiveHalfIsUsbRx
<1> QED
  BY <1>1
==============================================================================
