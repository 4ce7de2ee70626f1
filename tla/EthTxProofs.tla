------------------------------ MODULE EthTxProofs ------------------------------
(***************************************************************************)
(* Proofs about EthTx for any number of descriptors, sessions and any      *)
(* semaphore limit: descriptors stay in ring order, no frame is forgotten  *)
(* by the worker and the core gets one completion for each PENDING frame.  *)
(***************************************************************************)
EXTENDS EthTx, FiniteSetTheorems, TLAPS

\* The slots whose frame the current session waits for.
Mine == {i \in Slots : inFlight[i] /\ slotSession[i] = session}

\* One more while the worker reports such a frame.
Reporting == IF workerPc = "call" /\ callSession = session THEN 1 ELSE 0

\* The core is owed at least these, and nothing else while the transport lives.
OwedInv ==
    /\ jobs >= Cardinality(Mine) + Reporting
    /\ ~dead => jobs = Cardinality(Mine) + Reporting

\* Only a dead transport takes a slot off the frame the DMA sends.
HeldInv == ~dead => \A i \in Slots : own[i] => inFlight[i]

\* The DMA owns n descriptors from its position to s_tx_next.
Window(n) ==
    /\ \A i \in Slots : own[i] <=> Ahead(i) < n
    /\ IF n = TxDescNum THEN txNext = dmaPos ELSE Ahead(txNext) = n

\* The worker is in the core for a slot.
CallInv == workerPc = "call" => scan \in Slots

TxInv == TypeOK /\ CallInv /\ SentHasWakeup /\ HeldInv /\ RingOrder /\ OwedInv

\* All of TypeOK but the core's count, which needs OwedInv.
Registers ==
    /\ own \in [Slots -> BOOLEAN] /\ inFlight \in [Slots -> BOOLEAN]
    /\ slotSession \in [Slots -> Sessions] /\ session \in Sessions
    /\ callSession \in Sessions
    /\ txNext \in Slots /\ dmaPos \in Slots /\ scan \in 0 .. TxDescNum
    /\ sem \in SemValue
    /\ corePc \in {"idle", "arm"} /\ workerPc \in {"take", "scan", "call"}

Flags == /\ dead \in BOOLEAN /\ irqT \in BOOLEAN /\ isr \in BOOLEAN
         /\ dmaRun \in BOOLEAN /\ clobbered \in BOOLEAN

LEMMA SemReleased ==
    ASSUME NEW v \in SemValue
    PROVE  SemRelease(v) \in SemValue /\ SemRelease(v) > 0
  BY SemMaxAssumption DEF SemRelease, SemValue

\* The successor in the ring.
LEMMA RingStep ==
    ASSUME NEW i \in Slots
    PROVE  Next1(i) \in Slots
  BY EthTxAssumption DEF Next1, Slots

LEMMA EthTxRegistersStep == TypeOK /\ CallInv /\ [Next]_vars => Registers' /\ CallInv'
<1> SUFFICES ASSUME TypeOK, CallInv, [Next]_vars PROVE Registers' /\ CallInv'
  OBVIOUS
<1>r. /\ SemRelease(sem) \in SemValue /\ (sem > 0 => sem - 1 \in SemValue)
      /\ Next1(txNext) \in Slots /\ Next1(dmaPos) \in Slots
  BY SemReleased, RingStep, SemMaxAssumption DEF TypeOK, SemValue
<1> USE DEF TypeOK, CallInv, Registers, slotVars, workerVars, dmaVars
<1>1. CASE CoreCheck
  BY <1>1, <1>r DEF CoreCheck
<1>2. CASE Reject
  BY <1>2, <1>r DEF Reject
<1>3. CASE Arm
  BY <1>3, <1>r DEF Arm, SlotInTurn
<1>4. CASE DmaSend
  BY <1>4, <1>r DEF DmaSend
<1>5. CASE DmaSuspend
  BY <1>5, <1>r DEF DmaSuspend
<1>6. CASE IsrEnter
  BY <1>6, <1>r DEF IsrEnter
<1>7. CASE IsrLeave
  BY <1>7, <1>r DEF IsrLeave
<1>8. CASE Take
  BY <1>8, <1>r, EthTxAssumption DEF Take
<1>9. CASE ScanSkip
  BY <1>9, <1>r, EthTxAssumption DEF ScanSkip, Slots
<1>10. CASE ScanComplete
  BY <1>10, <1>r DEF ScanComplete, SessionOf, Slots
<1>11. CASE CallReturns
  BY <1>11, <1>r, EthTxAssumption DEF CallReturns, Slots
<1>12. CASE ScanEnd
  BY <1>12, <1>r DEF ScanEnd
<1>13. CASE OtherWake
  BY <1>13, <1>r DEF OtherWake
<1>14. CASE TransportDead
  BY <1>14, <1>r DEF TransportDead
<1>15. ASSUME NEW s \in Sessions, NewSession(s) PROVE Registers' /\ CallInv'
  BY <1>15, <1>r DEF NewSession
<1>16. ASSUME NEW s \in Sessions, TransportAlive(s) PROVE Registers' /\ CallInv'
  BY <1>16, <1>r DEF TransportAlive, Settled
<1>17. CASE UNCHANGED vars
  BY <1>17, <1>r DEF vars
<1> QED
  BY <1>1, <1>2, <1>3, <1>4, <1>5, <1>6, <1>7, <1>8, <1>9, <1>10, <1>11, <1>12,
     <1>13, <1>14, <1>15, <1>16, <1>17 DEF Next, Worker

LEMMA EthTxFlagsStep == TypeOK /\ [Next]_vars => Flags'
<1> SUFFICES ASSUME TypeOK, [Next]_vars PROVE Flags'
  OBVIOUS
<1>f. Flags /\ own \in [Slots -> BOOLEAN] /\ txNext \in Slots
  BY DEF TypeOK, Flags
<1> USE DEF Flags, slotVars, workerVars, dmaVars
<1>1. CASE CoreCheck
  BY <1>1, <1>f, Zenon DEF CoreCheck
<1>2. CASE Reject
  BY <1>2, <1>f, Zenon DEF Reject
<1>3. CASE Arm
  BY <1>3, <1>f, Zenon DEF Arm, SlotInTurn, PollDemand
<1>4. CASE DmaSend
  BY <1>4, <1>f, Zenon DEF DmaSend
<1>5. CASE DmaSuspend
  BY <1>5, <1>f, Zenon DEF DmaSuspend
<1>6. CASE IsrEnter
  BY <1>6, <1>f, Zenon DEF IsrEnter
<1>7. CASE IsrLeave
  BY <1>7, <1>f, Zenon DEF IsrLeave
<1>8. CASE Take
  BY <1>8, <1>f, Zenon DEF Take
<1>9. CASE ScanSkip
  BY <1>9, <1>f, Zenon DEF ScanSkip
<1>10. CASE ScanComplete
  BY <1>10, <1>f, Zenon DEF ScanComplete
<1>11. CASE CallReturns
  BY <1>11, <1>f, Zenon DEF CallReturns
<1>12. CASE ScanEnd
  BY <1>12, <1>f, Zenon DEF ScanEnd
<1>13. CASE OtherWake
  BY <1>13, <1>f, Zenon DEF OtherWake
<1>14. CASE TransportDead
  BY <1>14, <1>f, Zenon DEF TransportDead
<1>15. ASSUME NEW s \in Sessions, NewSession(s) PROVE Flags'
  BY <1>15, <1>f, Zenon DEF NewSession
<1>16. ASSUME NEW s \in Sessions, TransportAlive(s) PROVE Flags'
  BY <1>16, <1>f, Zenon DEF TransportAlive, Settled
<1>17. CASE UNCHANGED vars
  BY <1>17, <1>f, Zenon DEF vars
<1> QED
  BY <1>1, <1>2, <1>3, <1>4, <1>5, <1>6, <1>7, <1>8, <1>9, <1>10, <1>11, <1>12,
     <1>13, <1>14, <1>15, <1>16, <1>17 DEF Next, Worker

LEMMA EthTxSentStep == TypeOK /\ SentHasWakeup /\ [Next]_vars => SentHasWakeup'
<1> SUFFICES ASSUME TypeOK, SentHasWakeup, [Next]_vars PROVE SentHasWakeup'
  OBVIOUS
<1>r. SemRelease(sem) > 0
  BY SemReleased DEF TypeOK
<1> USE DEF TypeOK, SentHasWakeup, Slots, slotVars, workerVars, dmaVars
<1>1. CASE CoreCheck
  BY <1>1, <1>r DEF CoreCheck
<1>2. CASE Reject
  BY <1>2, <1>r DEF Reject
<1>3. CASE Arm
  BY <1>3, <1>r DEF Arm, SlotInTurn
<1>4. CASE DmaSend
  BY <1>4, <1>r DEF DmaSend
<1>5. CASE DmaSuspend
  BY <1>5, <1>r DEF DmaSuspend
<1>6. CASE IsrEnter
  BY <1>6, <1>r DEF IsrEnter
<1>7. CASE IsrLeave
  BY <1>7, <1>r DEF IsrLeave
<1>8. CASE Take
  BY <1>8, <1>r, EthTxAssumption DEF Take
<1>9. CASE ScanSkip
  BY <1>9, <1>r DEF ScanSkip, Finished
<1>10. CASE ScanComplete
  BY <1>10, <1>r DEF ScanComplete, Finished
<1>11. CASE CallReturns
  BY <1>11, <1>r DEF CallReturns
<1>12. CASE ScanEnd
  BY <1>12, <1>r DEF ScanEnd
<1>13. CASE OtherWake
  BY <1>13, <1>r DEF OtherWake
<1>14. CASE TransportDead
  BY <1>14, <1>r DEF TransportDead
<1>15. ASSUME NEW s \in Sessions, NewSession(s) PROVE SentHasWakeup'
  BY <1>15, <1>r DEF NewSession
<1>16. ASSUME NEW s \in Sessions, TransportAlive(s) PROVE SentHasWakeup'
  BY <1>16, <1>r DEF TransportAlive, Settled
<1>17. CASE UNCHANGED vars
  BY <1>17, <1>r DEF vars
<1> QED
  BY <1>1, <1>2, <1>3, <1>4, <1>5, <1>6, <1>7, <1>8, <1>9, <1>10, <1>11, <1>12,
     <1>13, <1>14, <1>15, <1>16, <1>17 DEF Next, Worker

LEMMA EthTxHeldStep == TypeOK /\ HeldInv /\ [Next]_vars => HeldInv'
<1> SUFFICES ASSUME TypeOK, HeldInv, [Next]_vars PROVE HeldInv'
  OBVIOUS
<1> USE DEF TypeOK, HeldInv, slotVars, workerVars, dmaVars
<1>1. CASE CoreCheck
  BY <1>1 DEF CoreCheck
<1>2. CASE Reject
  BY <1>2 DEF Reject
<1>3. CASE Arm
  BY <1>3 DEF Arm, SlotInTurn
<1>4. CASE DmaSend
  BY <1>4 DEF DmaSend
<1>5. CASE DmaSuspend
  BY <1>5 DEF DmaSuspend
<1>6. CASE IsrEnter
  BY <1>6 DEF IsrEnter
<1>7. CASE IsrLeave
  BY <1>7 DEF IsrLeave
<1>8. CASE Take
  BY <1>8 DEF Take
<1>9. CASE ScanSkip
  BY <1>9 DEF ScanSkip
<1>10. CASE ScanComplete
  BY <1>10 DEF ScanComplete, Finished
<1>11. CASE CallReturns
  BY <1>11 DEF CallReturns
<1>12. CASE ScanEnd
  BY <1>12 DEF ScanEnd
<1>13. CASE OtherWake
  BY <1>13 DEF OtherWake
<1>14. CASE TransportDead
  BY <1>14 DEF TransportDead
<1>15. ASSUME NEW s \in Sessions, NewSession(s) PROVE HeldInv'
  BY <1>15 DEF NewSession
<1>16. ASSUME NEW s \in Sessions, TransportAlive(s) PROVE HeldInv'
  BY <1>16 DEF TransportAlive, Settled
<1>17. CASE UNCHANGED vars
  BY <1>17 DEF vars
<1> QED
  BY <1>1, <1>2, <1>3, <1>4, <1>5, <1>6, <1>7, <1>8, <1>9, <1>10, <1>11, <1>12,
     <1>13, <1>14, <1>15, <1>16, <1>17 DEF Next, Worker

LEMMA EthTxRingStep == TypeOK /\ RingOrder /\ [Next]_vars => RingOrder'
<1> SUFFICES ASSUME TypeOK, RingOrder, [Next]_vars PROVE RingOrder'
  OBVIOUS
<1> USE DEF slotVars, workerVars, dmaVars
<1>1. CASE CoreCheck
  BY <1>1 DEF CoreCheck, RingOrder, Ahead
<1>2. CASE Reject
  BY <1>2 DEF Reject, RingOrder, Ahead
<1>3. CASE Arm
  <2> SUFFICES ASSUME ~clobbered' PROVE RingOrder'
    BY DEF RingOrder
  <2>1. PICK n \in 0 .. TxDescNum : Window(n)
    BY <1>3 DEF Arm, RingOrder, Window, TypeOK
  <2>2. ~own[txNext]
    BY <1>3 DEF Arm, SlotInTurn
  <2>3. n < TxDescNum /\ Ahead(txNext) = n
    BY <2>1, <2>2, EthTxAssumption DEF Window, Ahead, Slots, TypeOK
  <2>4. Window(n + 1)'
    <3>1. \A i \in Slots : own'[i] <=> Ahead(i) < n + 1
      BY <1>3, <2>1, <2>3, EthTxAssumption DEF Arm, SlotInTurn, Window, Ahead, Slots, TypeOK
    <3>2. IF n + 1 = TxDescNum THEN txNext' = dmaPos
          ELSE Ahead(txNext') = n + 1
      BY <1>3, <2>3, EthTxAssumption DEF Arm, SlotInTurn, Next1, Ahead, Slots, TypeOK
    <3> QED
      BY <1>3, <3>1, <3>2 DEF Arm, Window, Ahead
  <2>5. n + 1 \in 0 .. TxDescNum
    BY <2>3, EthTxAssumption
  <2> QED
    BY <1>3, <2>4, <2>5 DEF Arm, PollDemand, RingOrder, Window
<1>4. CASE DmaSend
  <2> SUFFICES ASSUME ~clobbered PROVE RingOrder'
    BY <1>4 DEF DmaSend, RingOrder
  <2>1. PICK n \in 0 .. TxDescNum : Window(n)
    BY DEF RingOrder, Window
  <2>2. n > 0
    BY <1>4, <2>1, EthTxAssumption DEF DmaSend, Window, Ahead, Slots, TypeOK
  <2>3. dmaPos' \in Slots /\ dmaPos' = Next1(dmaPos)
    BY <1>4, RingStep DEF DmaSend, TypeOK
  <2>4. \A i \in Slots : (Ahead(i))' = IF i = dmaPos THEN TxDescNum - 1 ELSE Ahead(i) - 1
    BY <2>3, EthTxAssumption DEF Ahead, Slots, Next1, TypeOK
  <2>5. Window(n - 1)'
    <3>1. \A i \in Slots : own'[i] <=> (Ahead(i))' < n - 1
      BY <1>4, <2>1, <2>2, <2>4, EthTxAssumption DEF DmaSend, Window, Ahead, Slots, TypeOK
    <3>2. Ahead(txNext)' = n - 1
      <4>1. txNext \in Slots /\ txNext' = txNext /\ (txNext = dmaPos <=> n = TxDescNum)
        BY <1>4, <2>1, <2>2, EthTxAssumption DEF DmaSend, Window, Ahead, Slots, TypeOK
      <4>2. Ahead(txNext)' = IF txNext = dmaPos THEN TxDescNum - 1 ELSE Ahead(txNext) - 1
        BY <2>3, <4>1, EthTxAssumption DEF Ahead, Slots, Next1, TypeOK
      <4> QED
        BY <2>1, <4>1, <4>2 DEF Window
    <3> QED
      BY <3>1, <3>2, <2>2, EthTxAssumption DEF Window
  <2>6. n - 1 \in 0 .. TxDescNum
    BY <2>2, EthTxAssumption
  <2> QED
    BY <1>4, <2>5, <2>6 DEF DmaSend, RingOrder, Window
<1>5. CASE DmaSuspend
  BY <1>5 DEF DmaSuspend, RingOrder, Ahead
<1>6. CASE IsrEnter
  BY <1>6 DEF IsrEnter, RingOrder, Ahead
<1>7. CASE IsrLeave
  BY <1>7 DEF IsrLeave, RingOrder, Ahead
<1>8. CASE Take
  BY <1>8 DEF Take, RingOrder, Ahead
<1>9. CASE ScanSkip
  BY <1>9 DEF ScanSkip, RingOrder, Ahead
<1>10. CASE ScanComplete
  BY <1>10 DEF ScanComplete, RingOrder, Ahead
<1>11. CASE CallReturns
  BY <1>11 DEF CallReturns, RingOrder, Ahead
<1>12. CASE ScanEnd
  BY <1>12 DEF ScanEnd, RingOrder, Ahead
<1>13. CASE OtherWake
  BY <1>13 DEF OtherWake, RingOrder, Ahead
<1>14. CASE TransportDead
  BY <1>14 DEF TransportDead, RingOrder, Ahead
<1>15. ASSUME NEW s \in Sessions, NewSession(s) PROVE RingOrder'
  BY <1>15 DEF NewSession, RingOrder, Ahead
<1>16. ASSUME NEW s \in Sessions, TransportAlive(s) PROVE RingOrder'
  BY <1>16 DEF TransportAlive, Settled, RingOrder, Ahead
<1>17. CASE UNCHANGED vars
  BY <1>17 DEF vars, RingOrder, Ahead
<1> QED
  BY <1>1, <1>2, <1>3, <1>4, <1>5, <1>6, <1>7, <1>8, <1>9, <1>10, <1>11, <1>12,
     <1>13, <1>14, <1>15, <1>16, <1>17 DEF Next, Worker

LEMMA EthTxOwedStep ==
    TypeOK /\ SentHasWakeup /\ OwedInv /\ [Next]_vars => OwedInv' /\ jobs' \in Nat
<1> DEFINE Goal == OwedInv' /\ jobs' \in Nat
<1> SUFFICES ASSUME TypeOK, SentHasWakeup, OwedInv, [Next]_vars PROVE Goal
  OBVIOUS
<1>c. IsFiniteSet(Mine) /\ Cardinality(Mine) \in Nat
  <2>1. IsFiniteSet(Slots)
    BY EthTxAssumption, FS_Interval DEF Slots
  <2>2. Mine \subseteq Slots
    BY DEF Mine
  <2> QED
    BY <2>1, <2>2, FS_Subset, FS_CardinalityType
<1>d. \A x \in Mine : Cardinality(Mine \ {x}) = Cardinality(Mine) - 1
  BY <1>c, FS_RemoveElement
<1> USE DEF TypeOK, OwedInv, Mine, Reporting, slotVars, workerVars, dmaVars
<1>1. CASE CoreCheck
  <2>1. Mine' = Mine
    BY <1>1 DEF CoreCheck
  <2> QED
    BY <1>1, <1>c, <2>1 DEF CoreCheck
<1>2. CASE Reject
  <2>1. Mine' = Mine
    BY <1>2 DEF Reject
  <2> QED
    BY <1>2, <1>c, <2>1 DEF Reject
<1>3. CASE Arm
  <2>1. Mine' = Mine \cup {txNext} /\ txNext \notin Mine
    BY <1>3 DEF Arm, SlotInTurn
  <2>2. Cardinality(Mine') = Cardinality(Mine) + 1
    BY <1>c, <2>1, FS_AddElement
  <2> QED
    BY <1>3, <1>c, <2>2 DEF Arm
<1>4. CASE DmaSend
  <2>1. Mine' = Mine
    BY <1>4 DEF DmaSend
  <2> QED
    BY <1>4, <1>c, <2>1 DEF DmaSend
<1>5. CASE DmaSuspend
  <2>1. Mine' = Mine
    BY <1>5 DEF DmaSuspend
  <2> QED
    BY <1>5, <1>c, <2>1 DEF DmaSuspend
<1>6. CASE IsrEnter
  <2>1. Mine' = Mine
    BY <1>6 DEF IsrEnter
  <2> QED
    BY <1>6, <1>c, <2>1 DEF IsrEnter
<1>7. CASE IsrLeave
  <2>1. Mine' = Mine
    BY <1>7 DEF IsrLeave
  <2> QED
    BY <1>7, <1>c, <2>1 DEF IsrLeave
<1>8. CASE Take
  <2>1. Mine' = Mine
    BY <1>8 DEF Take
  <2> QED
    BY <1>8, <1>c, <2>1 DEF Take
<1>9. CASE ScanSkip
  <2>1. Mine' = Mine
    BY <1>9 DEF ScanSkip
  <2> QED
    BY <1>9, <1>c, <2>1 DEF ScanSkip
<1>10. CASE ScanComplete
  <2>1. CASE slotSession[scan] = session
    <3>1. Mine' = Mine \ {scan} /\ scan \in Mine
      BY <1>10, <2>1 DEF ScanComplete, Finished
    <3>2. Cardinality(Mine') = Cardinality(Mine) - 1
      BY <1>d, <3>1
    <3> QED
      BY <1>10, <1>c, <2>1, <3>2 DEF ScanComplete, SessionOf
  <2>2. CASE slotSession[scan] # session
    <3>1. Mine' = Mine
      BY <1>10, <2>2 DEF ScanComplete
    <3> QED
      BY <1>10, <1>c, <2>2, <3>1 DEF ScanComplete, SessionOf
  <2> QED
    BY <2>1, <2>2
<1>11. CASE CallReturns
  <2>1. Mine' = Mine
    BY <1>11 DEF CallReturns
  <2> QED
    BY <1>11, <1>c, <2>1 DEF CallReturns
<1>12. CASE ScanEnd
  <2>1. Mine' = Mine
    BY <1>12 DEF ScanEnd
  <2> QED
    BY <1>12, <1>c, <2>1 DEF ScanEnd
<1>13. CASE OtherWake
  <2>1. Mine' = Mine
    BY <1>13 DEF OtherWake
  <2> QED
    BY <1>13, <1>c, <2>1 DEF OtherWake
<1>14. CASE TransportDead
  <2>1. Mine' = {}
    BY <1>14 DEF TransportDead
  <2> QED
    BY <1>14, <1>c, <2>1, FS_EmptySet DEF TransportDead
<1>15. ASSUME NEW s \in Sessions, NewSession(s) PROVE Goal
  <2>1. Mine' = {}
    BY <1>15 DEF NewSession
  <2> QED
    BY <1>15, <2>1, FS_EmptySet, SMTT(30) DEF NewSession
<1>16. ASSUME NEW s \in Sessions, TransportAlive(s) PROVE Goal
  <2>1. Mine' = {}
    BY <1>16 DEF TransportAlive, Settled, SentHasWakeup
  <2> QED
    BY <1>16, <2>1, FS_EmptySet DEF TransportAlive, Settled
<1>17. CASE UNCHANGED vars
  <2>1. Mine' = Mine
    BY <1>17 DEF vars
  <2> QED
    BY <1>17, <1>c, <2>1 DEF vars
<1> QED
  BY <1>1, <1>2, <1>3, <1>4, <1>5, <1>6, <1>7, <1>8, <1>9, <1>10, <1>11, <1>12,
     <1>13, <1>14, <1>15, <1>16, <1>17 DEF Next, Worker

LEMMA EthTxInit == Init => TxInv
<1> SUFFICES ASSUME Init PROVE TxInv
  OBVIOUS
<1>1. TypeOK
  <2>1. 0 \in Slots /\ 0 \in 0 .. TxDescNum /\ 0 \in SemValue
    BY EthTxAssumption, SemMaxAssumption DEF Slots, SemValue
  <2>2. Registers
    BY <2>1 DEF Init, Registers
  <2>3. Flags /\ jobs \in Nat
    BY DEF Init, Flags
  <2> QED
    BY <2>2, <2>3 DEF TypeOK, Registers, Flags
<1>2. SentHasWakeup /\ HeldInv /\ CallInv
  BY DEF Init, SentHasWakeup, HeldInv, CallInv
<1>3. RingOrder
  <2>1. Window(0)
    BY EthTxAssumption DEF Init, Window, Ahead, Slots
  <2>2. 0 \in 0 .. TxDescNum /\ ~own[dmaPos]
    BY EthTxAssumption DEF Init, Slots
  <2> QED
    BY <2>1, <2>2 DEF RingOrder, Window
<1>4. OwedInv
  <2>1. Mine = {}
    BY DEF Init, Mine
  <2> QED
    BY <2>1, FS_EmptySet DEF Init, OwedInv, Reporting
<1> QED
  BY <1>1, <1>2, <1>3, <1>4 DEF TxInv

LEMMA EthTxInvariant == Spec => []TxInv
<1>1. TxInv /\ [Next]_vars => TxInv'
  <2> SUFFICES ASSUME TxInv, [Next]_vars PROVE TxInv'
    OBVIOUS
  <2>1. TypeOK'
    BY EthTxRegistersStep, EthTxFlagsStep, EthTxOwedStep
       DEF TxInv, TypeOK, Registers, Flags
  <2> QED
    BY <2>1, EthTxRegistersStep, EthTxSentStep, EthTxHeldStep, EthTxRingStep, EthTxOwedStep
       DEF TxInv
<1> QED
  BY EthTxInit, <1>1, PTL DEF Spec

\* Slots, descriptors and counters of the transmit path keep to their types; the
\* core's count of PENDING frames never falls below zero.
THEOREM EthTxTypeCorrect == Spec => []TypeOK
<1>1. TxInv => TypeOK
  BY DEF TxInv
<1> QED
  BY <1>1, EthTxInvariant, PTL

\* The DMA's descriptors are those from its position to s_tx_next, and it is
\* never suspended at one, outside the case clobbered marks.
THEOREM EthTxRingOrder == Spec => []RingOrder
<1>1. TxInv => RingOrder
  BY DEF TxInv
<1> QED
  BY <1>1, EthTxInvariant, PTL

\* eth_tx_complete_scan sees every sent frame or is woken for it.
THEOREM EthTxSentHasWakeup == Spec => []SentHasWakeup
<1>1. TxInv => SentHasWakeup
  BY DEF TxInv
<1> QED
  BY <1>1, EthTxInvariant, PTL

\* A live core waits for exactly the frames of its session that are in flight or
\* being reported.
THEOREM EthTxCompletionOwed == Spec => []CompletionOwed
<1>1. TxInv => CompletionOwed
  BY DEF TxInv, OwedInv, Mine, Reporting, CompletionOwed
<1> QED
  BY <1>1, EthTxInvariant, PTL

\* While the transport lives wlh_eth_rx_from_core arms only descriptors the DMA
\* has given back.
THEOREM EthTxLiveArms == Spec => LiveArmsFreeDescriptor
<1>1. TxInv /\ [Next]_vars => [Arm /\ ~dead => ~own[txNext]]_vars
  BY DEF TxInv, HeldInv, TypeOK, Arm, SlotInTurn
<1> QED
  BY <1>1, EthTxInvariant, PTL DEF Spec, LiveArmsFreeDescriptor
==============================================================================
