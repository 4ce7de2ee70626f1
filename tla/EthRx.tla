-------------------------------- MODULE EthRx --------------------------------
(***************************************************************************)
(* The wire-to-host path of applications/backends/eth_backend.c: the DMA   *)
(* fills RX descriptors in ring order, the interrupt wakes the worker,     *)
(* whose drain loop hands the frames to the core and gives the descriptors *)
(* back.  A frame the core has no credit for stays in its descriptor until *)
(* wlh_eth_tx_ready; meanwhile receive interrupts do not wake the worker   *)
(* and the peer is asked to pause.                                         *)
(*                                                                         *)
(* The ring is the number of descriptors the CPU owns, from s_rx_cur on.   *)
(* What the frames hold is left out: any frame may be one that the drain   *)
(* loop or the core refuses.  The DMA, the core and the peer are external. *)
(***************************************************************************)
EXTENDS RtIpc, Integers

CONSTANTS
    RxDescNum,  \* WLH_ETH_RX_DESC_NUM
    MaxCredit   \* bound: credit the host grants the ETHERNET_ETH channel

ASSUME EthRxAssumption == RxDescNum \in Nat \ {0} /\ MaxCredit \in Nat \ {0}

VARIABLES
    received,   \* descriptors that hold a frame the worker has not given back
    suspended,  \* the DMA found no descriptor
    sr,         \* DMASR: subset of {"R", "RBU"}
    sem,        \* s_eth_sem
    pc,         \* the worker: "take", "credit", "decide", "ready", "loop",
                \* "block", "clear", "resume"
    retry,      \* retry_rx in eth_worker_thread
    ready,      \* ready in eth_rx_drain
    backpressured, creditReady, pauseActive,    \* s_rx_..., s_pause_active
    flow,       \* pause of the peer: "free", "pausing" and "resuming" while
                \* the control frame is emitted (FCBBPA), "paused"
    link,       \* s_link_up and s_duplex_full: "down", "half", "full"
    linkPc,     \* the link thread: "poll", "clear", "wake"
    dead,       \* s_transport_dead
    corePc,     \* the core task: "idle", "wake" in wlh_eth_tx_ready
    sess, credit, starved,  \* of the core: READY, its credit, and whether it
                            \* owes a tx_ready for a NO_CREDIT
    missed      \* history: a frame came in the window of Clear

dmaVars == <<received, suspended, sr>>
drainVars == <<retry, ready>>
flagVars == <<backpressured, creditReady, pauseActive>>
linkVars == <<link, linkPc>>
coreVars == <<corePc, sess, credit, starved>>
vars == <<dmaVars, sem, pc, drainVars, flagVars, flow, linkVars, dead,
          coreVars, missed>>

\* emac_init and the worker at its first wait; no host and no link yet.
Init ==
    /\ received = 0 /\ suspended = FALSE /\ sr = {} /\ sem = 0
    /\ pc = "take" /\ retry = FALSE /\ ready = FALSE
    /\ backpressured = FALSE /\ creditReady = FALSE /\ pauseActive = FALSE
    /\ flow = "free" /\ link = "down" /\ linkPc = "poll" /\ dead = FALSE
    /\ corePc = "idle" /\ sess = FALSE /\ credit = 0 /\ starved = FALSE
    /\ missed = FALSE

------------------------------------------------------------------------------
(* The DMA and its interrupt *)

\* External: a frame fills the next descriptor.  A DMA that was suspended for
\* want of one resumes by itself with the first frame that finds one.
DmaReceive ==
    /\ received < RxDescNum
    /\ received' = received + 1
    /\ suspended' = FALSE
    /\ sr' = sr \cup {"R"}
    /\ UNCHANGED <<sem, pc, drainVars, flagVars, flow, linkVars, dead, coreVars,
                   missed>>

\* External: no descriptor is left for the next frame.
DmaSuspend ==
    /\ received = RxDescNum /\ ~suspended
    /\ suspended' = TRUE
    /\ sr' = sr \cup {"RBU"}
    /\ UNCHANGED <<received, sem, pc, drainVars, flagVars, flow, linkVars, dead,
                   coreVars, missed>>

\* Mutant of IsrWakes: no wakeup while the peer is paused.
IsrWakesNotPaused == ~backpressured /\ ~pauseActive

IsrWakes == ~backpressured

\* ETH_IRQHandler, R and RBU (with AIS): clears what it has seen.
Isr ==
    /\ sr # {}
    /\ sr' = {}
    /\ sem' = IF IsrWakes THEN SemRelease(sem) ELSE sem
    /\ missed' = (missed \/ (pc = "clear" /\ backpressured /\ received > 0))
    /\ UNCHANGED <<received, suspended, pc, drainVars, flagVars, flow, linkVars,
                   dead, coreVars>>

\* ETH_IRQHandler, T.
IsrTx ==
    /\ sem' = SemRelease(sem)
    /\ UNCHANGED <<dmaVars, pc, drainVars, flagVars, flow, linkVars, dead,
                   coreVars, missed>>

------------------------------------------------------------------------------
(* eth_worker_thread, after its transmit scan (EthTx) *)

Take ==
    /\ pc = "take" /\ sem > 0
    /\ sem' = sem - 1 /\ pc' = "credit"
    /\ UNCHANGED <<dmaVars, drainVars, flagVars, flow, linkVars, dead,
                   coreVars, missed>>

\* The section with interrupts off.
TakeCredit ==
    /\ pc = "credit"
    /\ retry' = creditReady /\ creditReady' = FALSE
    /\ pc' = "decide"
    /\ UNCHANGED <<dmaVars, sem, ready, backpressured, pauseActive, flow,
                   linkVars, dead, coreVars, missed>>

\* Mutant of Drains: credit does not matter.
DrainsNoRetry == ~backpressured \/ dead \/ link = "down"

Drains == ~backpressured \/ retry \/ dead \/ link = "down"

Decide ==
    /\ pc = "decide"
    /\ pc' = IF Drains THEN "ready" ELSE "take"
    /\ retry' = FALSE
    /\ UNCHANGED <<dmaVars, sem, ready, flagVars, flow, linkVars, dead,
                   coreVars, missed>>

\* Mutant of DrainReady: nothing is drained without a session.
DrainReadyReturns ==
    /\ pc = "ready"
    /\ ready' = (~dead /\ sess /\ link # "down")
    /\ pc' = (IF ready' THEN "loop" ELSE "take") /\ missed' = FALSE
    /\ UNCHANGED <<dmaVars, sem, retry, flagVars, flow, linkVars, dead,
                   coreVars>>

\* eth_rx_drain up to its loop.
DrainReady ==
    /\ pc = "ready"
    /\ ready' = (~dead /\ sess /\ link # "down")
    /\ pc' = "loop" /\ missed' = FALSE
    /\ UNCHANGED <<dmaVars, sem, retry, flagVars, flow, linkVars, dead,
                   coreVars>>

\* The CPU owns the descriptor at s_rx_cur.
Owned == received > 0

\* The frame is not forwarded, or the core refuses it for good.
Drop ==
    /\ pc = "loop" /\ Owned
    /\ received' = received - 1
    /\ UNCHANGED <<suspended, sr, sem, pc, drainVars, flagVars, flow, linkVars, dead,
                   coreVars, missed>>

\* WLH_COPROC_OK
Send ==
    /\ pc = "loop" /\ Owned /\ ready /\ credit > 0
    /\ received' = received - 1 /\ credit' = credit - 1
    /\ UNCHANGED <<suspended, sr, sem, pc, drainVars, flagVars, flow, linkVars, dead,
                   corePc, sess, starved, missed>>

\* WLH_COPROC_NO_CREDIT: from now on the core owes the backend a tx_ready.
NoCredit ==
    /\ pc = "loop" /\ Owned /\ ready /\ sess /\ credit = 0
    /\ starved' = TRUE
    /\ pc' = "block" /\ ready' = FALSE
    /\ UNCHANGED <<dmaVars, sem, retry, flagVars, flow, linkVars, dead,
                   corePc, sess, credit, missed>>

\* eth_flow_control_request: TRUE when the MAC takes the request.
Requested == link = "full" /\ flow \in {"free", "paused"}

\* Mutant of Block: old credit is forgotten when the frame is retained.
BlockForgets ==
    /\ pc = "block"
    /\ backpressured' = TRUE /\ creditReady' = FALSE
    /\ pauseActive' = (pauseActive \/ link = "full")
    /\ flow' = IF Requested THEN "pausing" ELSE flow
    /\ pc' = "take"
    /\ UNCHANGED <<dmaVars, sem, drainVars, linkVars, dead, coreVars, missed>>

\* The frame is retained, eth_pause_upstream, and the way out of eth_rx_drain,
\* which leaves a blocked ring alone.
Block ==
    /\ pc = "block"
    /\ backpressured' = TRUE
    /\ pauseActive' = (pauseActive \/ link = "full")
    /\ flow' = IF Requested THEN "pausing" ELSE flow
    /\ pc' = "take"
    /\ UNCHANGED <<dmaVars, sem, drainVars, creditReady, linkVars, dead,
                   coreVars, missed>>

\* The descriptor in turn belongs to the DMA.  RBUS, if the interrupt has not
\* cleared it yet, is cleared here and the DMA resumed.
LoopEnds ==
    /\ pc = "loop" /\ ~Owned
    /\ suspended' = (suspended /\ "RBU" \notin sr)
    /\ sr' = sr \ {"RBU"}
    /\ pc' = "clear" /\ ready' = FALSE
    /\ UNCHANGED <<received, sem, retry, flagVars, flow, linkVars, dead,
                   coreVars, missed>>

\* Mutant of Clear: the flag is reset only when the peer was paused.
ClearPausedOnly ==
    /\ pc = "clear"
    /\ backpressured' = (backpressured /\ ~pauseActive)
    /\ pc' = IF pauseActive THEN "resume" ELSE "take"
    /\ UNCHANGED <<dmaVars, sem, drainVars, creditReady, pauseActive, flow,
                   linkVars, dead, coreVars, missed>>

\* Frames received before this step find the flag still set.
Clear ==
    /\ pc = "clear"
    /\ backpressured' = FALSE
    /\ pc' = IF pauseActive THEN "resume" ELSE "take"
    /\ UNCHANGED <<dmaVars, sem, drainVars, creditReady, pauseActive, flow,
                   linkVars, dead, coreVars, missed>>

\* Mutant of Resume: the pause is forgotten when the MAC refuses the request.
ResumeOnce ==
    /\ pc = "resume"
    /\ flow' = IF pauseActive /\ Requested THEN "resuming" ELSE flow
    /\ pauseActive' = FALSE
    /\ pc' = "take"
    /\ UNCHANGED <<dmaVars, sem, drainVars, backpressured, creditReady,
                   linkVars, dead, coreVars, missed>>

\* eth_resume_upstream; that it may be called twice only leaves more time for
\* the MAC to become free.
Resume ==
    /\ pc = "resume"
    /\ IF pauseActive /\ Requested
       THEN flow' = "resuming" /\ pauseActive' = FALSE
       ELSE UNCHANGED <<flow, pauseActive>>
    /\ pc' = "take"
    /\ UNCHANGED <<dmaVars, sem, drainVars, backpressured, creditReady,
                   linkVars, dead, coreVars, missed>>

Worker == Take \/ TakeCredit \/ Decide \/ DrainReady \/ Drop \/ Send \/ NoCredit
            \/ Block \/ LoopEnds \/ Clear \/ Resume

\* External: the control frame is on the wire.
FlowSent ==
    /\ flow \in {"pausing", "resuming"}
    /\ flow' = IF flow = "pausing" THEN "paused" ELSE "free"
    /\ UNCHANGED <<dmaVars, sem, pc, drainVars, flagVars, linkVars, dead,
                   coreVars, missed>>

\* External: the pause time runs out.
PauseExpires ==
    /\ flow = "paused"
    /\ flow' = "free"
    /\ UNCHANGED <<dmaVars, sem, pc, drainVars, flagVars, linkVars, dead,
                   coreVars, missed>>

------------------------------------------------------------------------------
(* The link thread (EthLink) *)

\* A change of the PHY is published.  A link that dropped has lost any pause.
LinkSet(m) ==
    /\ linkPc = "poll" /\ m # link
    /\ link' = m /\ linkPc' = "clear"
    /\ flow' = IF m = "full" THEN flow ELSE "free"
    /\ UNCHANGED <<dmaVars, sem, pc, drainVars, flagVars, dead, coreVars,
                   missed>>

LinkClear ==
    /\ linkPc = "clear"
    /\ pauseActive' = (pauseActive /\ link = "full")
    /\ linkPc' = "wake"
    /\ UNCHANGED <<dmaVars, sem, pc, drainVars, backpressured, creditReady,
                   flow, link, dead, coreVars, missed>>

LinkWake ==
    /\ linkPc = "wake"
    /\ sem' = SemRelease(sem) /\ linkPc' = "poll"
    /\ UNCHANGED <<dmaVars, pc, drainVars, flagVars, flow, link, dead,
                   coreVars, missed>>

LinkThread == LinkClear \/ LinkWake \/ \E m \in {"down", "half", "full"} : LinkSet(m)

------------------------------------------------------------------------------
(* The core *)

\* wlh_eth_tx_ready, first half.  External: the core calls it when there is
\* credit, after a NO_CREDIT always.
TxReady ==
    /\ corePc = "idle" /\ credit > 0
    /\ creditReady' = TRUE
    /\ corePc' = "wake" /\ starved' = FALSE
    /\ UNCHANGED <<dmaVars, sem, pc, drainVars, backpressured, pauseActive,
                   flow, linkVars, dead, sess, credit, missed>>

TxReadyWake ==
    /\ corePc = "wake"
    /\ sem' = SemRelease(sem) /\ corePc' = "idle"
    /\ UNCHANGED <<dmaVars, pc, drainVars, flagVars, flow, linkVars, dead,
                   sess, credit, starved, missed>>

\* External: the host grants credit; its session begins or ends.
Grant ==
    /\ sess /\ credit < MaxCredit
    /\ credit' = credit + 1
    /\ UNCHANGED <<dmaVars, sem, pc, drainVars, flagVars, flow, linkVars,
                   dead, corePc, sess, starved, missed>>

SessionChanges ==
    /\ ~dead
    /\ sess' = ~sess /\ credit' = 0
    /\ UNCHANGED <<dmaVars, sem, pc, drainVars, flagVars, flow, linkVars,
                   dead, corePc, starved, missed>>

\* wlh_eth_transport_dead on the USB tx thread; the core that is about to be
\* stopped owes nothing any more.
TransportDead ==
    /\ dead' = TRUE
    /\ sem' = SemRelease(sem)
    /\ sess' = FALSE /\ credit' = 0 /\ starved' = FALSE
    /\ UNCHANGED <<dmaVars, pc, drainVars, flagVars, flow, linkVars, corePc,
                   missed>>

\* wlh_eth_transport_alive.  The restart takes over 100 ms, in which the worker
\* has gone back to its wait.
TransportAlive ==
    /\ dead /\ pc = "take" /\ sem = 0 /\ corePc = "idle"
    /\ dead' = FALSE
    /\ sem' = SemRelease(sem)
    /\ UNCHANGED <<dmaVars, pc, drainVars, flagVars, flow, linkVars,
                   coreVars, missed>>

Next ==
    \/ DmaReceive \/ DmaSuspend \/ Isr \/ IsrTx
    \/ Worker \/ FlowSent \/ PauseExpires \/ LinkThread
    \/ TxReady \/ TxReadyWake \/ Grant \/ SessionChanges
    \/ TransportDead \/ TransportAlive

Spec == Init /\ [][Next]_vars

\* The DMA looks for its next descriptor at once, interrupts are taken, the
\* worker and a started callback of the core get the
\* processor, and the core makes the call it owes.
FairSpec ==
    /\ Spec
    /\ WF_vars(DmaSuspend) /\ WF_vars(Isr) /\ WF_vars(Worker) /\ WF_vars(TxReadyWake)
    /\ WF_vars(starved /\ TxReady)

------------------------------------------------------------------------------
(* Properties *)

TypeOK ==
    /\ received \in 0 .. RxDescNum /\ suspended \in BOOLEAN
    /\ sr \subseteq {"R", "RBU"} /\ sem \in SemValue
    /\ pc \in {"take", "credit", "decide", "ready", "loop", "block", "clear", "resume"}
    /\ retry \in BOOLEAN /\ ready \in BOOLEAN
    /\ backpressured \in BOOLEAN /\ creditReady \in BOOLEAN /\ pauseActive \in BOOLEAN
    /\ flow \in {"free", "pausing", "paused", "resuming"}
    /\ link \in {"down", "half", "full"} /\ linkPc \in {"poll", "clear", "wake"}
    /\ dead \in BOOLEAN /\ corePc \in {"idle", "wake"}
    /\ sess \in BOOLEAN /\ credit \in 0 .. MaxCredit /\ starved \in BOOLEAN
    /\ missed \in BOOLEAN

\* A received frame that is not retained is never left behind by a worker that
\* goes to sleep: an interrupt or a token is pending.  The exception are frames
\* received between the last look at the ring (:328) and the reset of
\* s_rx_backpressured (:371), whose interrupt is thrown away (:203).
FrameHasWakeup ==
    pc = "take" /\ received > 0 /\ ~backpressured /\ ~missed => sr # {} \/ sem > 0

\* "a notification that arrives before the worker blocks remains latched and
\* cannot be missed" (eth_backend.c:62-63): while receive interrupts are silent
\* there is a retained frame, and behind it the core's next tx_ready, a token
\* together with s_rx_credit_ready, or the token of a reset, in every
\* interleaving of the callback with the worker.
RetainedHasWakeup ==
    pc = "take" /\ backpressured =>
        /\ received > 0
        /\ starved \/ corePc = "wake" \/ (sem > 0 /\ (creditReady \/ dead))

\* A peer that was asked to pause is not forgotten: s_pause_active stays set, so
\* that the next run of the worker releases it, until a resume is emitted, also
\* when the MAC refuses the resume because the pause is still being sent.
PauseOwned == flow \in {"pausing", "paused"} => pauseActive

\* A retained frame is offered to the core again when there is credit for it,
\* with no other traffic to wake the worker.
CreditRetries == (backpressured /\ credit > 0)
                   ~> (pc = "loop" \/ credit = 0 \/ ~backpressured)

\* "Descriptors are still drained and re-armed, otherwise the RX DMA stalls"
\* (eth_backend.c:306-307): a full ring is drained if no frame is retained.
FullRingDrains == (received = RxDescNum) ~> (received < RxDescNum \/ backpressured)

\* The same if no frame fell into the window of FrameHasWakeup.
FullRingDrainsUnlessMissed ==
    (received = RxDescNum) ~> (received < RxDescNum \/ backpressured \/ missed)
==============================================================================
