------------------------------ MODULE EthRxProofs ------------------------------
(***************************************************************************)
(* Proofs about EthRx for any number of descriptors, credit and semaphore  *)
(* limit: the worker never sleeps over a frame, a retained descriptor or a *)
(* paused peer that nothing would bring back to its mind.                  *)
(***************************************************************************)
EXTENDS EthRx, TLAPS

\* The core that was cut off owes nothing and has no session to refuse a frame.
DeadInv == dead => ~sess /\ ~starved

\* A token with a reason to retry, or a callback about to give one.
Latched == creditReady /\ (corePc = "wake" \/ sem > 0)

\* Where the promise to retry a retained frame is, at each place of the worker:
\* the core's, in the latch, or already in retry_rx.
RetainedInv ==
    /\ pc = "take" /\ backpressured =>
         received > 0 /\ (starved \/ Latched \/ (sem > 0 /\ dead))
    /\ pc = "credit" /\ backpressured =>
         received > 0 /\ (starved \/ creditReady \/ dead)
    /\ pc = "decide" /\ backpressured =>
         received > 0 /\ (retry \/ dead \/ starved \/ Latched)
    /\ pc = "block" =>
         received > 0 /\ (starved \/ Latched \/ (sem > 0 /\ dead))
    /\ pc = "resume" => ~backpressured

\* The interrupt of a frame that came after the loop's last look.
FrameInv ==
    /\ FrameHasWakeup
    /\ pc \in {"clear", "resume"} /\ received > 0 /\ ~missed => sr # {} \/ sem > 0

\* Only a full-duplex link has a pause.
PauseInv == flow \in {"pausing", "paused"} => pauseActive /\ link = "full"

RxInv == TypeOK /\ DeadInv /\ RetainedInv /\ FrameInv /\ PauseInv

\* A released semaphore has a token.
LEMMA SemReleased ==
    ASSUME NEW v \in SemValue
    PROVE  SemRelease(v) \in SemValue /\ SemRelease(v) > 0
  BY SemMaxAssumption DEF SemRelease, SemValue

LEMMA EthRxInit == Init => RxInv
<1> SUFFICES ASSUME Init PROVE RxInv
  OBVIOUS
<1>1. /\ received \in 0 .. RxDescNum /\ sr \subseteq {"R", "RBU"}
      /\ sem \in SemValue /\ credit \in 0 .. MaxCredit
  BY EthRxAssumption, SemMaxAssumption DEF Init, SemValue
<1>2. TypeOK
  BY <1>1 DEF Init, TypeOK
<1>3. DeadInv /\ RetainedInv /\ FrameInv /\ PauseInv
  BY DEF Init, DeadInv, RetainedInv, FrameInv, FrameHasWakeup, PauseInv
<1> QED
  BY <1>2, <1>3 DEF RxInv

LEMMA EthRxTypeStep == TypeOK /\ [Next]_vars => TypeOK'
<1> SUFFICES ASSUME TypeOK, [Next]_vars PROVE TypeOK'
  OBVIOUS
<1> DEFINE
      Flags == /\ suspended \in BOOLEAN /\ retry \in BOOLEAN /\ ready \in BOOLEAN
               /\ backpressured \in BOOLEAN /\ creditReady \in BOOLEAN
               /\ pauseActive \in BOOLEAN /\ dead \in BOOLEAN /\ sess \in BOOLEAN
               /\ starved \in BOOLEAN /\ missed \in BOOLEAN
      Places == /\ pc \in {"take", "credit", "decide", "ready", "loop", "block",
                           "clear", "resume"}
                /\ flow \in {"free", "pausing", "paused", "resuming"}
                /\ link \in {"down", "half", "full"}
                /\ linkPc \in {"poll", "clear", "wake"}
                /\ corePc \in {"idle", "wake"}
                /\ sr \subseteq {"R", "RBU"}
      Counts == /\ received \in 0 .. RxDescNum /\ credit \in 0 .. MaxCredit
                /\ sem \in SemValue
<1>0. Flags /\ Places /\ Counts
  BY DEF TypeOK
<1>s. SemRelease(sem) \in SemValue /\ (sem > 0 => sem - 1 \in SemValue)
  BY <1>0, SemReleased, SemMaxAssumption DEF SemValue
<1> USE DEF dmaVars, drainVars, flagVars, linkVars, coreVars
<1>1. ASSUME DmaReceive PROVE Flags' /\ Places' /\ Counts'
  <2>1. Flags'
    BY <1>0, <1>1, Zenon DEF DmaReceive
  <2>2. Places'
    BY <1>0, <1>1, SMT DEF DmaReceive
  <2>3. Counts'
    BY <1>0, <1>1, EthRxAssumption, SMT DEF DmaReceive
  <2> QED
    BY <2>1, <2>2, <2>3
<1>2. ASSUME DmaSuspend PROVE Flags' /\ Places' /\ Counts'
  <2>1. Flags'
    BY <1>0, <1>2, Zenon DEF DmaSuspend
  <2>2. Places'
    BY <1>0, <1>2, SMT DEF DmaSuspend
  <2>3. Counts'
    BY <1>0, <1>2, SMT DEF DmaSuspend
  <2> QED
    BY <2>1, <2>2, <2>3
<1>3. ASSUME Isr PROVE Flags' /\ Places' /\ Counts'
  <2>1. Flags'
    BY <1>0, <1>3, Zenon DEF Isr
  <2>2. Places'
    BY <1>0, <1>3, SMT DEF Isr
  <2>3. Counts'
    BY <1>0, <1>3, <1>s, SMT DEF Isr
  <2> QED
    BY <2>1, <2>2, <2>3
<1>4. ASSUME IsrTx PROVE Flags' /\ Places' /\ Counts'
  <2>1. Flags'
    BY <1>0, <1>4, Zenon DEF IsrTx
  <2>2. Places'
    BY <1>0, <1>4, SMT DEF IsrTx
  <2>3. Counts'
    BY <1>0, <1>4, <1>s, SMT DEF IsrTx
  <2> QED
    BY <2>1, <2>2, <2>3
<1>5. ASSUME Take PROVE Flags' /\ Places' /\ Counts'
  <2>1. Flags'
    BY <1>0, <1>5, Zenon DEF Take
  <2>2. Places'
    BY <1>0, <1>5, SMT DEF Take
  <2>3. Counts'
    BY <1>0, <1>5, <1>s, SMT DEF Take
  <2> QED
    BY <2>1, <2>2, <2>3
<1>6. ASSUME TakeCredit PROVE Flags' /\ Places' /\ Counts'
  <2>1. Flags'
    BY <1>0, <1>6, Zenon DEF TakeCredit
  <2>2. Places'
    BY <1>0, <1>6, SMT DEF TakeCredit
  <2>3. Counts'
    BY <1>0, <1>6, SMT DEF TakeCredit
  <2> QED
    BY <2>1, <2>2, <2>3
<1>7. ASSUME Decide PROVE Flags' /\ Places' /\ Counts'
  <2>1. Flags'
    BY <1>0, <1>7, Zenon DEF Decide
  <2>2. Places'
    BY <1>0, <1>7, SMT DEF Decide
  <2>3. Counts'
    BY <1>0, <1>7, SMT DEF Decide
  <2> QED
    BY <2>1, <2>2, <2>3
<1>8. ASSUME DrainReady PROVE Flags' /\ Places' /\ Counts'
  <2>1. Flags'
    BY <1>0, <1>8, Zenon DEF DrainReady
  <2>2. Places'
    BY <1>0, <1>8, SMT DEF DrainReady
  <2>3. Counts'
    BY <1>0, <1>8, SMT DEF DrainReady
  <2> QED
    BY <2>1, <2>2, <2>3
<1>9. ASSUME Drop PROVE Flags' /\ Places' /\ Counts'
  <2>1. Flags'
    BY <1>0, <1>9, Zenon DEF Drop
  <2>2. Places'
    BY <1>0, <1>9, SMT DEF Drop
  <2>3. Counts'
    BY <1>0, <1>9, EthRxAssumption, SMT DEF Drop, Owned
  <2> QED
    BY <2>1, <2>2, <2>3
<1>10. ASSUME Send PROVE Flags' /\ Places' /\ Counts'
  <2>1. Flags'
    BY <1>0, <1>10, Zenon DEF Send
  <2>2. Places'
    BY <1>0, <1>10, SMT DEF Send
  <2>3. Counts'
    BY <1>0, <1>10, EthRxAssumption, SMT DEF Send, Owned
  <2> QED
    BY <2>1, <2>2, <2>3
<1>11. ASSUME NoCredit PROVE Flags' /\ Places' /\ Counts'
  <2>1. Flags'
    BY <1>0, <1>11, Zenon DEF NoCredit
  <2>2. Places'
    BY <1>0, <1>11, SMT DEF NoCredit
  <2>3. Counts'
    BY <1>0, <1>11, SMT DEF NoCredit
  <2> QED
    BY <2>1, <2>2, <2>3
<1>12. ASSUME Block PROVE Flags' /\ Places' /\ Counts'
  <2>1. Flags'
    BY <1>0, <1>12, Zenon DEF Block
  <2>2. Places'
    BY <1>0, <1>12, SMT DEF Block
  <2>3. Counts'
    BY <1>0, <1>12, SMT DEF Block
  <2> QED
    BY <2>1, <2>2, <2>3
<1>13. ASSUME LoopEnds PROVE Flags' /\ Places' /\ Counts'
  <2>1. Flags'
    BY <1>0, <1>13, Zenon DEF LoopEnds
  <2>2. Places'
    BY <1>0, <1>13, SMT DEF LoopEnds
  <2>3. Counts'
    BY <1>0, <1>13, SMT DEF LoopEnds
  <2> QED
    BY <2>1, <2>2, <2>3
<1>14. ASSUME Clear PROVE Flags' /\ Places' /\ Counts'
  <2>1. Flags'
    BY <1>0, <1>14, Zenon DEF Clear
  <2>2. Places'
    BY <1>0, <1>14, SMT DEF Clear
  <2>3. Counts'
    BY <1>0, <1>14, SMT DEF Clear
  <2> QED
    BY <2>1, <2>2, <2>3
<1>15. ASSUME Resume PROVE Flags' /\ Places' /\ Counts'
  <2>1. Flags'
    BY <1>0, <1>15, Zenon DEF Resume
  <2>2. Places'
    BY <1>0, <1>15, SMT DEF Resume
  <2>3. Counts'
    BY <1>0, <1>15, SMT DEF Resume
  <2> QED
    BY <2>1, <2>2, <2>3
<1>16. ASSUME FlowSent PROVE Flags' /\ Places' /\ Counts'
  <2>1. Flags'
    BY <1>0, <1>16, Zenon DEF FlowSent
  <2>2. Places'
    BY <1>0, <1>16, SMT DEF FlowSent
  <2>3. Counts'
    BY <1>0, <1>16, SMT DEF FlowSent
  <2> QED
    BY <2>1, <2>2, <2>3
<1>17. ASSUME PauseExpires PROVE Flags' /\ Places' /\ Counts'
  <2>1. Flags'
    BY <1>0, <1>17, Zenon DEF PauseExpires
  <2>2. Places'
    BY <1>0, <1>17, SMT DEF PauseExpires
  <2>3. Counts'
    BY <1>0, <1>17, SMT DEF PauseExpires
  <2> QED
    BY <2>1, <2>2, <2>3
<1>18. ASSUME LinkClear PROVE Flags' /\ Places' /\ Counts'
  <2>1. Flags'
    BY <1>0, <1>18, Zenon DEF LinkClear
  <2>2. Places'
    BY <1>0, <1>18, SMT DEF LinkClear
  <2>3. Counts'
    BY <1>0, <1>18, SMT DEF LinkClear
  <2> QED
    BY <2>1, <2>2, <2>3
<1>19. ASSUME LinkWake PROVE Flags' /\ Places' /\ Counts'
  <2>1. Flags'
    BY <1>0, <1>19, Zenon DEF LinkWake
  <2>2. Places'
    BY <1>0, <1>19, SMT DEF LinkWake
  <2>3. Counts'
    BY <1>0, <1>19, <1>s, SMT DEF LinkWake
  <2> QED
    BY <2>1, <2>2, <2>3
<1>20. ASSUME NEW m \in {"down", "half", "full"}, LinkSet(m)
      PROVE  Flags' /\ Places' /\ Counts'
  <2>1. Flags'
    BY <1>0, <1>20, Zenon DEF LinkSet
  <2>2. Places'
    BY <1>0, <1>20, SMT DEF LinkSet
  <2>3. Counts'
    BY <1>0, <1>20, SMT DEF LinkSet
  <2> QED
    BY <2>1, <2>2, <2>3
<1>21. ASSUME TxReady PROVE Flags' /\ Places' /\ Counts'
  <2>1. Flags'
    BY <1>0, <1>21, Zenon DEF TxReady
  <2>2. Places'
    BY <1>0, <1>21, SMT DEF TxReady
  <2>3. Counts'
    BY <1>0, <1>21, SMT DEF TxReady
  <2> QED
    BY <2>1, <2>2, <2>3
<1>22. ASSUME TxReadyWake PROVE Flags' /\ Places' /\ Counts'
  <2>1. Flags'
    BY <1>0, <1>22, Zenon DEF TxReadyWake
  <2>2. Places'
    BY <1>0, <1>22, SMT DEF TxReadyWake
  <2>3. Counts'
    BY <1>0, <1>22, <1>s, SMT DEF TxReadyWake
  <2> QED
    BY <2>1, <2>2, <2>3
<1>23. ASSUME Grant PROVE Flags' /\ Places' /\ Counts'
  <2>1. Flags'
    BY <1>0, <1>23, Zenon DEF Grant
  <2>2. Places'
    BY <1>0, <1>23, SMT DEF Grant
  <2>3. Counts'
    BY <1>0, <1>23, EthRxAssumption, SMT DEF Grant
  <2> QED
    BY <2>1, <2>2, <2>3
<1>24. ASSUME SessionChanges PROVE Flags' /\ Places' /\ Counts'
  <2>1. Flags'
    BY <1>0, <1>24, Zenon DEF SessionChanges
  <2>2. Places'
    BY <1>0, <1>24, SMT DEF SessionChanges
  <2>3. Counts'
    BY <1>0, <1>24, EthRxAssumption, SMT DEF SessionChanges
  <2> QED
    BY <2>1, <2>2, <2>3
<1>25. ASSUME TransportDead PROVE Flags' /\ Places' /\ Counts'
  <2>1. Flags'
    BY <1>0, <1>25, Zenon DEF TransportDead
  <2>2. Places'
    BY <1>0, <1>25, SMT DEF TransportDead
  <2>3. Counts'
    BY <1>0, <1>25, <1>s, EthRxAssumption, SMT DEF TransportDead
  <2> QED
    BY <2>1, <2>2, <2>3
<1>26. ASSUME TransportAlive PROVE Flags' /\ Places' /\ Counts'
  <2>1. Flags'
    BY <1>0, <1>26, Zenon DEF TransportAlive
  <2>2. Places'
    BY <1>0, <1>26, SMT DEF TransportAlive
  <2>3. Counts'
    BY <1>0, <1>26, <1>s, SMT DEF TransportAlive
  <2> QED
    BY <2>1, <2>2, <2>3
<1>27. ASSUME UNCHANGED vars PROVE Flags' /\ Places' /\ Counts'
  <2>1. Flags'
    BY <1>0, <1>27, Zenon DEF vars
  <2>2. Places'
    BY <1>0, <1>27, SMT DEF vars
  <2>3. Counts'
    BY <1>0, <1>27, SMT DEF vars
  <2> QED
    BY <2>1, <2>2, <2>3
<1> QED
  BY <1>1, <1>2, <1>3, <1>4, <1>5, <1>6, <1>7, <1>8, <1>9, <1>10, <1>11,
     <1>12, <1>13, <1>14, <1>15, <1>16, <1>17, <1>18, <1>19, <1>20, <1>21,
     <1>22, <1>23, <1>24, <1>25, <1>26, <1>27 DEF Next, Worker, LinkThread,
     TypeOK

\* The worker's own steps.
LEMMA EthRxWorkerStep ==
    RxInv /\ Worker => (DeadInv /\ RetainedInv /\ FrameInv /\ PauseInv)'
<1> DEFINE Q == DeadInv /\ RetainedInv /\ FrameInv /\ PauseInv
<1> SUFFICES ASSUME RxInv, Worker PROVE Q'
  OBVIOUS
<1> USE DEF RxInv, TypeOK, DeadInv, RetainedInv, Latched, FrameInv, FrameHasWakeup,
            PauseInv, SemValue, dmaVars, drainVars, flagVars, linkVars, coreVars
<1>1. CASE Take
  BY <1>1, SemMaxAssumption DEF Take
<1>2. CASE TakeCredit
  BY <1>2 DEF TakeCredit
<1>3. CASE Decide
  BY <1>3 DEF Decide, Drains
<1>4. CASE DrainReady
  BY <1>4 DEF DrainReady
<1>5. CASE Drop
  BY <1>5 DEF Drop
<1>6. CASE Send
  BY <1>6 DEF Send
<1>7. CASE NoCredit
  BY <1>7 DEF NoCredit, Owned
<1>8. CASE Block
  BY <1>8 DEF Block, Requested
<1>9. CASE LoopEnds
  BY <1>9, EthRxAssumption DEF LoopEnds, Owned
<1>10. CASE Clear
  BY <1>10 DEF Clear
<1>11. CASE Resume
  BY <1>11 DEF Resume, Requested
<1> QED
  BY <1>1, <1>2, <1>3, <1>4, <1>5, <1>6, <1>7, <1>8, <1>9, <1>10, <1>11 DEF Worker

\* The steps of all others, at every place of the worker.
LEMMA EthRxOtherStep ==
    RxInv /\ [Next]_vars /\ ~Worker => (DeadInv /\ RetainedInv /\ FrameInv /\ PauseInv)'
<1> DEFINE Q == DeadInv /\ RetainedInv /\ FrameInv /\ PauseInv
<1> SUFFICES ASSUME RxInv, [Next]_vars, ~Worker PROVE Q'
  OBVIOUS
<1>0. SemRelease(sem) \in SemValue /\ SemRelease(sem) > 0
  BY SemReleased DEF RxInv, TypeOK
<1> USE DEF RxInv, TypeOK, DeadInv, RetainedInv, Latched, FrameInv, FrameHasWakeup,
            PauseInv, SemValue, dmaVars, drainVars, flagVars, linkVars, coreVars
<1>1. CASE DmaReceive
  BY <1>1 DEF DmaReceive
<1>2. CASE DmaSuspend
  BY <1>2 DEF DmaSuspend
<1>3. CASE Isr
  BY <1>3, <1>0 DEF Isr, IsrWakes
<1>4. CASE IsrTx
  BY <1>4, <1>0 DEF IsrTx
<1>5. CASE FlowSent \/ PauseExpires
  BY <1>5 DEF FlowSent, PauseExpires
<1>6. ASSUME NEW m \in {"down", "half", "full"}, LinkSet(m) PROVE Q'
  BY <1>6 DEF LinkSet
<1>7. CASE LinkClear
  BY <1>7 DEF LinkClear
<1>8. CASE LinkWake
  BY <1>8, <1>0 DEF LinkWake
<1>9. CASE TxReady
  BY <1>9 DEF TxReady
<1>10. CASE TxReadyWake
  BY <1>10, <1>0 DEF TxReadyWake
<1>11. CASE Grant \/ SessionChanges
  BY <1>11 DEF Grant, SessionChanges
<1>12. CASE TransportDead
  BY <1>12, <1>0 DEF TransportDead
<1>13. CASE TransportAlive
  BY <1>13, <1>0 DEF TransportAlive
<1>14. CASE UNCHANGED vars
  BY <1>14 DEF vars
<1> QED
  BY <1>1, <1>2, <1>3, <1>4, <1>5, <1>6, <1>7, <1>8, <1>9, <1>10, <1>11, <1>12,
     <1>13, <1>14 DEF Next, LinkThread

LEMMA EthRxInvariant == Spec => []RxInv
<1>1. RxInv /\ [Next]_vars => RxInv'
  BY EthRxTypeStep, EthRxWorkerStep, EthRxOtherStep DEF RxInv
<1> QED
  BY EthRxInit, <1>1, PTL DEF Spec

\* The state of the receive path keeps to its types; the worker gives back no
\* descriptor it does not own.
THEOREM EthRxTypeCorrect == Spec => []TypeOK
<1>1. RxInv => TypeOK
  BY DEF RxInv
<1> QED
  BY <1>1, EthRxInvariant, PTL

\* A worker that goes to sleep leaves no frame behind without an interrupt or a
\* token, outside the window before s_rx_backpressured is reset.
THEOREM EthRxFrameHasWakeup == Spec => []FrameHasWakeup
<1>1. RxInv => FrameHasWakeup
  BY DEF RxInv, FrameInv
<1> QED
  BY <1>1, EthRxInvariant, PTL

\* While receive interrupts are silent there is a retained frame and a promise
\* to offer it again: the latch of s_rx_credit_ready and s_eth_sem misses none.
THEOREM EthRxRetainedHasWakeup == Spec => []RetainedHasWakeup
<1>1. RxInv => RetainedHasWakeup
  BY DEF RxInv, RetainedInv, Latched, RetainedHasWakeup
<1> QED
  BY <1>1, EthRxInvariant, PTL

\* s_pause_active stays set as long as the peer may be paused.
THEOREM EthRxPauseOwned == Spec => []PauseOwned
<1>1. RxInv => PauseOwned
  BY DEF RxInv, PauseInv, PauseOwned
<1> QED
  BY <1>1, EthRxInvariant, PTL
==============================================================================
