-------------------------------- MODULE EthTx --------------------------------
(***************************************************************************)
(* The host-to-wire path of applications/backends/eth_backend.c: the core  *)
(* task arms TX descriptors (wlh_eth_rx_from_core), the DMA sends them in  *)
(* ring order, the interrupt wakes the worker, whose scan gives each slot  *)
(* back and completes the core's record.  wlh_eth_transport_dead and       *)
(* _alive cut the path off and reconnect it around a restart of the core   *)
(* (LinkRestart).                                                          *)
(*                                                                         *)
(* A frame that the size or link test rejects changes nothing, so it is    *)
(* the same as no frame.  The DMA and the core are external.               *)
(***************************************************************************)
EXTENDS RtIpc, Integers, FiniteSets

CONSTANTS
    TxDescNum,  \* WLH_ETH_TX_DESC_NUM
    Sessions    \* session ids the core can use

ASSUME EthTxAssumption == TxDescNum \in Nat \ {0} /\ Sessions # {}

Slots == 0 .. TxDescNum - 1

\* The ring: of the CPU by s_tx_next, of the DMA by the descriptor chain.
Next1(i) == IF i = TxDescNum - 1 THEN 0 ELSE i + 1

VARIABLES
    own,        \* OWN bit of each descriptor: the DMA may read its buffer
    inFlight, slotSession,  \* in_flight and session_id of each slot
    txNext,     \* s_tx_next
    dead,       \* s_transport_dead
    sem,        \* s_eth_sem
    corePc,     \* core task in wlh_eth_rx_from_core: "idle" or "arm"
    workerPc,   \* "take", "scan", or "call" while inside the core
    scan,       \* i in eth_tx_complete_scan
    callSession,            \* session_id in eth_tx_complete_scan
    irqT, isr,  \* ETH_DMA_IT_T is set; the CPU is in ETH_IRQHandler
    dmaPos, dmaRun,         \* descriptor the DMA fetches next; not suspended
    session, jobs,          \* of the core: its session and its PENDING frames
    clobbered   \* history: a descriptor was armed while the DMA owned it

slotVars == <<own, inFlight, slotSession, txNext>>
workerVars == <<workerPc, scan, callSession>>
dmaVars == <<dmaPos, dmaRun>>
vars == <<slotVars, dead, sem, corePc, workerVars, irqT, isr, dmaVars,
          session, jobs, clobbered>>

\* emac_init; the worker waits for its first token.
Init ==
    /\ own = [i \in Slots |-> FALSE] /\ inFlight = [i \in Slots |-> FALSE]
    /\ session \in Sessions /\ slotSession = [i \in Slots |-> session]
    /\ txNext = 0 /\ dead = FALSE /\ sem = 0
    /\ corePc = "idle" /\ workerPc = "take" /\ scan = 0 /\ callSession = session
    /\ irqT = FALSE /\ isr = FALSE
    /\ dmaPos = 0 /\ dmaRun = FALSE
    /\ jobs = 0 /\ clobbered = FALSE

------------------------------------------------------------------------------
(* The core task *)

\* Mutant of SlotInTurn: first free.
FirstFree ==
    IF \E i \in Slots : ~inFlight[i]
    THEN CHOOSE i \in Slots : ~inFlight[i] /\ \A j \in 0 .. i - 1 : inFlight[j]
    ELSE txNext

\* "Allocation is in ring order (see s_tx_next), never first-free."
SlotInTurn == txNext

\* Mutant of PollDemand: missing.
NoPollDemand == UNCHANGED dmaRun

\* DMATPDR: a suspended DMA goes on.
PollDemand == dmaRun' = TRUE

\* wlh_eth_rx_from_core: the tests before interrupts are turned off.
CoreCheck ==
    /\ ~isr /\ corePc = "idle" /\ ~dead
    /\ corePc' = "arm"
    /\ UNCHANGED <<slotVars, dead, sem, workerVars, irqT, isr, dmaVars, session,
                   jobs, clobbered>>

\* The slot in turn is taken: REJECTED.
Reject ==
    /\ ~isr /\ corePc = "arm" /\ inFlight[SlotInTurn]
    /\ corePc' = "idle"
    /\ UNCHANGED <<slotVars, dead, sem, workerVars, irqT, isr, dmaVars, session,
                   jobs, clobbered>>

\* The section with interrupts off: the slot in ring order, its descriptor,
\* and the poll demand, which resumes a suspended DMA.
Arm ==
    /\ ~isr /\ corePc = "arm" /\ ~inFlight[SlotInTurn]
    /\ inFlight' = [inFlight EXCEPT ![SlotInTurn] = TRUE]
    /\ slotSession' = [slotSession EXCEPT ![SlotInTurn] = session]
    /\ own' = [own EXCEPT ![SlotInTurn] = TRUE]
    /\ txNext' = Next1(SlotInTurn)
    /\ PollDemand
    /\ clobbered' = (clobbered \/ own[SlotInTurn])
    /\ corePc' = "idle" /\ jobs' = jobs + 1
    /\ UNCHANGED <<dead, sem, workerVars, irqT, isr, dmaPos, session>>

\* External: the host opens another session with the running core, which
\* forgets the frames of the previous one.
NewSession(s) ==
    /\ corePc = "idle" /\ ~dead /\ s # session
    /\ \A i \in Slots : inFlight[i] => slotSession[i] # s
    /\ workerPc = "call" => callSession # s
    /\ session' = s /\ jobs' = 0
    /\ UNCHANGED <<slotVars, dead, sem, corePc, workerVars, irqT, isr, dmaVars,
                   clobbered>>

------------------------------------------------------------------------------
(* The DMA and its interrupt *)

\* External: the frame at dmaPos is on the wire; the status is written back and,
\* for IC is set, the interrupt raised.
DmaSend ==
    /\ dmaRun /\ own[dmaPos]
    /\ own' = [own EXCEPT ![dmaPos] = FALSE]
    /\ dmaPos' = Next1(dmaPos)
    /\ irqT' = TRUE
    /\ UNCHANGED <<inFlight, slotSession, txNext, dead, sem, corePc, workerVars,
                   isr, dmaRun, session, jobs, clobbered>>

\* External: the DMA suspends at a descriptor that is not its own.
DmaSuspend ==
    /\ dmaRun /\ ~own[dmaPos]
    /\ dmaRun' = FALSE
    /\ UNCHANGED <<slotVars, dead, sem, corePc, workerVars, irqT, isr, dmaPos,
                   session, jobs, clobbered>>

\* ETH_IRQHandler reads DMASR ...
IsrEnter ==
    /\ irqT /\ ~isr
    /\ isr' = TRUE
    /\ UNCHANGED <<slotVars, dead, sem, corePc, workerVars, irqT, dmaVars,
                   session, jobs, clobbered>>

\* ... and clears the bit, with it that of a frame sent in between, and then
\* wakes the worker.
IsrLeave ==
    /\ isr
    /\ isr' = FALSE /\ irqT' = FALSE
    /\ sem' = SemRelease(sem)
    /\ UNCHANGED <<slotVars, dead, corePc, workerVars, dmaVars, session, jobs,
                   clobbered>>

------------------------------------------------------------------------------
(* The worker *)

Take ==
    /\ ~isr /\ workerPc = "take" /\ sem > 0
    /\ sem' = sem - 1
    /\ workerPc' = "scan" /\ scan' = 0
    /\ UNCHANGED <<slotVars, dead, corePc, callSession, irqT, isr, dmaVars,
                   session, jobs, clobbered>>

\* Mutant of Finished: the OWN bit is not tested.
FinishedEarly(i) == inFlight[i]

Finished(i) == inFlight[i] /\ ~own[i]

ScanSkip ==
    /\ ~isr /\ workerPc = "scan" /\ scan \in Slots
    /\ ~Finished(scan)
    /\ scan' = scan + 1
    /\ UNCHANGED <<slotVars, dead, sem, corePc, workerPc, callSession, irqT, isr,
                   dmaVars, session, jobs, clobbered>>

\* Mutant of SessionOf: the session is not the one of the slot.
SessionNow(i) == session

SessionOf(i) == slotSession[i]

\* The slot is free before the core hears of it, so it may be armed again while
\* the worker is inside wlh_coproc_ethernet_rx_complete.
ScanComplete ==
    /\ ~isr /\ workerPc = "scan" /\ scan \in Slots
    /\ Finished(scan)
    /\ inFlight' = [inFlight EXCEPT ![scan] = FALSE]
    /\ callSession' = SessionOf(scan)
    /\ workerPc' = "call"
    /\ UNCHANGED <<own, slotSession, txNext, dead, sem, corePc, scan, irqT, isr,
                   dmaVars, session, jobs, clobbered>>

\* Mutant of CallReturns: one completion per wakeup.
CallReturnsOnce ==
    /\ ~isr /\ workerPc = "call"
    /\ jobs' = IF callSession = session THEN jobs - 1 ELSE jobs
    /\ workerPc' = "take" /\ scan' = scan + 1
    /\ UNCHANGED <<slotVars, dead, sem, corePc, callSession, irqT, isr, dmaVars,
                   session, clobbered>>

\* "Late completions from a dead session are dropped by the core."
CallReturns ==
    /\ ~isr /\ workerPc = "call"
    /\ jobs' = IF callSession = session THEN jobs - 1 ELSE jobs
    /\ workerPc' = "scan" /\ scan' = scan + 1
    /\ UNCHANGED <<slotVars, dead, sem, corePc, callSession, irqT, isr, dmaVars,
                   session, clobbered>>

\* The receive part of the loop (EthRx) follows the scan.
ScanEnd ==
    /\ ~isr /\ workerPc = "scan" /\ scan = TxDescNum
    /\ workerPc' = "take"
    /\ UNCHANGED <<slotVars, dead, sem, corePc, scan, callSession, irqT, isr,
                   dmaVars, session, jobs, clobbered>>

Worker == Take \/ ScanSkip \/ ScanComplete \/ CallReturns \/ ScanEnd

\* The other users of s_eth_sem: receive interrupts, credit, link changes.
OtherWake ==
    /\ ~isr
    /\ sem' = SemRelease(sem)
    /\ UNCHANGED <<slotVars, dead, corePc, workerVars, irqT, isr, dmaVars,
                   session, jobs, clobbered>>

------------------------------------------------------------------------------
(* Restart of the core *)

\* wlh_eth_transport_dead, on the USB tx thread.
TransportDead ==
    /\ ~isr
    /\ dead' = TRUE
    /\ inFlight' = [i \in Slots |-> FALSE]
    /\ sem' = SemRelease(sem)
    /\ UNCHANGED <<own, slotSession, txNext, corePc, workerVars, irqT, isr,
                   dmaVars, session, jobs, clobbered>>

\* The restart takes over 100 ms; the DMA sends a full ring in less than 10, and
\* the worker has seen to it (LinkRestart!SettleEnds).
Settled ==
    /\ \A i \in Slots : ~own[i]
    /\ ~irqT /\ ~isr /\ sem = 0 /\ workerPc = "take" /\ corePc = "idle"

\* wlh_eth_transport_alive, once the core has been stopped, which frees its
\* jobs, and started.
TransportAlive(s) ==
    /\ dead /\ Settled /\ s # session
    /\ dead' = FALSE
    /\ session' = s /\ jobs' = 0
    /\ sem' = SemRelease(sem)
    /\ UNCHANGED <<slotVars, corePc, workerVars, irqT, isr, dmaVars, clobbered>>

Next ==
    \/ CoreCheck \/ Reject \/ Arm
    \/ \E s \in Sessions : NewSession(s) \/ TransportAlive(s)
    \/ DmaSend \/ DmaSuspend \/ IsrEnter \/ IsrLeave
    \/ Worker \/ OtherWake \/ TransportDead

Spec == Init /\ [][Next]_vars

\* The DMA works, interrupts are taken, and the worker gets the processor.
FairSpec ==
    /\ Spec
    /\ WF_vars(DmaSend) /\ WF_vars(IsrEnter \/ IsrLeave) /\ WF_vars(Worker)

------------------------------------------------------------------------------
(* Properties *)

TypeOK ==
    /\ own \in [Slots -> BOOLEAN] /\ inFlight \in [Slots -> BOOLEAN]
    /\ slotSession \in [Slots -> Sessions] /\ session \in Sessions
    /\ callSession \in Sessions
    /\ txNext \in Slots /\ dmaPos \in Slots /\ scan \in 0 .. TxDescNum
    /\ sem \in SemValue /\ jobs \in Nat
    /\ corePc \in {"idle", "arm"} /\ workerPc \in {"take", "scan", "call"}
    /\ dead \in BOOLEAN /\ irqT \in BOOLEAN /\ isr \in BOOLEAN
    /\ dmaRun \in BOOLEAN /\ clobbered \in BOOLEAN

\* How many descriptors after dmaPos slot i comes.
Ahead(i) == IF i >= dmaPos THEN i - dmaPos ELSE i - dmaPos + TxDescNum

\* "the CPU must arm exactly the descriptor the DMA will fetch next; any
\* out-of-order allocation leaves an armed descriptor behind the suspended DMA
\* pointer indefinitely" (eth_backend.c:46-49): the DMA's descriptors are the
\* ones from its own position up to s_tx_next, and it is not suspended at one.
RingOrder ==
    ~clobbered =>
      /\ \E n \in 0 .. TxDescNum :
           /\ \A i \in Slots : own[i] <=> Ahead(i) < n
           /\ IF n = TxDescNum THEN txNext = dmaPos
              ELSE Ahead(txNext) = n
      /\ own[dmaPos] => dmaRun

\* The core never writes into a buffer the DMA may be reading, although only
\* in_flight, which transport_dead clears, guards it.  The exception is a frame
\* already past the tests of wlh_eth_rx_from_core when the transport dies.
LiveArmsFreeDescriptor == [][Arm /\ ~dead => ~own[txNext]]_vars

\* Every PENDING frame of the current session is completed exactly once: the
\* core waits for as many as are in flight or being reported, also when slots
\* of an earlier session complete late or a slot is armed again during the call.
CompletionOwed ==
    ~dead => jobs = Cardinality({i \in Slots : inFlight[i] /\ slotSession[i] = session})
                      + (IF workerPc = "call" /\ callSession = session THEN 1 ELSE 0)

\* A sent frame is never forgotten: the worker is still to scan its slot or will
\* be woken.  The interrupt merges frames and the scan is not atomic.
SentHasWakeup ==
    \A i \in Slots :
        inFlight[i] /\ ~own[i] =>
            \/ irqT \/ isr \/ sem > 0
            \/ workerPc = "scan" /\ scan <= i
            \/ workerPc = "call" /\ scan < i

\* A frame given to the backend does not stay in flight: it is sent and its slot
\* freed, without any other traffic to wake the DMA or the worker.
TxCompletes == \A i \in Slots : inFlight[i] ~> (~inFlight[i] \/ clobbered)
==============================================================================
