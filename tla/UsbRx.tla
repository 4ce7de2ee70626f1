-------------------------------- MODULE UsbRx --------------------------------
(***************************************************************************)
(* The receive half of transport_usb.c up to the reassembler: the OUT      *)
(* endpoint interrupt fills the ring buffer and pauses the endpoint when   *)
(* the ring cannot take another maximum packet; the thread "wlh-usb-rx"    *)
(* drains the ring and un-pauses it; the RESET and CONFIGURED events close *)
(* and open the endpoint.  Of the ring only its fill level is kept (its    *)
(* contents are the subject of RingBuffer and RxFeed).                     *)
(***************************************************************************)
EXTENDS RtIpc

CONSTANTS
    Ring,       \* WLH_USB_RX_RING_SIZE
    Chunk,      \* WLH_USB_OUT_CHUNK, the endpoint's maximum packet
    HostWaits   \* TRUE: SET_CONFIGURATION finds the firmware's threads idle
                \* (ThreadsIdle); FALSE: it may come at any time

ASSUME RingAssumption ==
    Ring \in Nat /\ Chunk \in Nat \ {0} /\ Chunk <= Ring
ASSUME HostWaitsAssumption == HostWaits \in BOOLEAN

VARIABLES
    level,      \* bytes in rx_ring
    rxAvail,    \* the semaphore
    outPaused,
    epOut,      \* bulk OUT endpoint: "disabled", "nak" or "armed"
    rxPc,       \* the rx thread
    overruns,   \* TRUE once rt_ringbuffer_put fell short (stats.rx_overruns)
    resetPending, configured, initialSeen   \* shared with the transmit half

flagVars == <<resetPending, configured, initialSeen>>
rxVars == <<level, rxAvail, outPaused, epOut, rxPc, overruns>>
vars == <<rxVars, flagVars>>

\* rt_ringbuffer_space_len(&rx_ring) >= WLH_USB_OUT_CHUNK
HasRoom == Ring - level >= Chunk

\* Nothing left to do for the rx thread, and the tx thread has consumed the
\* last bus reset.
ThreadsIdle ==
    rxPc = "sleep" /\ rxAvail = 0 /\ ~(resetPending /\ initialSeen)

Init ==
    /\ level = 0 /\ rxAvail = 0 /\ outPaused = FALSE
    /\ epOut = "disabled" /\ rxPc = "sleep" /\ overruns = FALSE
    /\ resetPending = FALSE /\ configured = FALSE /\ initialSeen = FALSE

------------------------------------------------------------------------------
(* The USB interrupt *)

\* rt_ringbuffer_put of n bytes: what does not fit is cut off.
Stored(n) == IF n <= Ring - level THEN n ELSE Ring - level

\* Mutant of OutPacket: room for one byte less than a packet is enough.
OutPacketOffByOne(n) ==
    /\ epOut = "armed"
    /\ level' = level + Stored(n)
    /\ overruns' = (overruns \/ Stored(n) # n)
    /\ rxAvail' = IF n # 0 THEN SemRelease(rxAvail) ELSE rxAvail
    /\ IF Ring - level' + 1 >= Chunk
       THEN UNCHANGED <<epOut, outPaused>>
       ELSE epOut' = "nak" /\ outPaused' = TRUE
    /\ UNCHANGED <<rxPc, flagVars>>

\* A packet of n bytes completes the armed read (one packet per read, so a
\* frame of a multiple of the packet size is not held back):
\* out_endpoint_callback.
OutPacket(n) ==
    /\ epOut = "armed"
    /\ level' = level + Stored(n)
    /\ overruns' = (overruns \/ Stored(n) # n)
    /\ rxAvail' = IF n # 0 THEN SemRelease(rxAvail) ELSE rxAvail
    /\ IF Ring - level' >= Chunk
       THEN UNCHANGED <<epOut, outPaused>>
       ELSE epOut' = "nak" /\ outPaused' = TRUE
    /\ UNCHANGED <<rxPc, flagVars>>

\* RESET: the port closes the endpoint; the pause does not survive.
BusReset ==
    /\ epOut' = "disabled"
    /\ outPaused' = FALSE
    /\ configured' = FALSE
    /\ resetPending' = TRUE
    /\ UNCHANGED <<level, rxAvail, rxPc, overruns, initialSeen>>

\* SET_CONFIGURATION: usbd_ep_open NAKs the endpoint and the CONFIGURED event
\* arms it, without looking at the ring, unless a reset of an established
\* session is still pending.
Configured ==
    /\ HostWaits => ThreadsIdle
    /\ epOut' = IF ~initialSeen \/ ~resetPending THEN "armed" ELSE "nak"
    /\ resetPending' = (resetPending /\ initialSeen)
    /\ initialSeen' = TRUE
    /\ configured' = TRUE
    /\ UNCHANGED <<level, rxAvail, outPaused, rxPc, overruns>>

------------------------------------------------------------------------------
(* The rx thread *)

RxWake ==
    /\ rxPc = "sleep" /\ rxAvail > 0
    /\ rxAvail' = rxAvail - 1
    /\ rxPc' = "drain"
    /\ UNCHANGED <<level, outPaused, epOut, overruns, flagVars>>

\* Mutant of RxDrain: one block per wakeup.
RxDrainOnce ==
    /\ rxPc = "drain"
    /\ level' = IF level <= Chunk THEN 0 ELSE level - Chunk
    /\ rxPc' = "recheck"
    /\ UNCHANGED <<rxAvail, outPaused, epOut, overruns, flagVars>>

\* Mutant of RxDrain: the thread goes back to sleep without the test of out_paused.
RxDrainNoRecheck ==
    /\ rxPc = "drain"
    /\ IF level # 0
       THEN /\ level' = IF level <= Chunk THEN 0 ELSE level - Chunk
            /\ UNCHANGED rxPc
       ELSE rxPc' = "sleep" /\ UNCHANGED level
    /\ UNCHANGED <<rxAvail, outPaused, epOut, overruns, flagVars>>

\* One rt_ringbuffer_get into rx_drain (and rx_feed of what it returned); the
\* loop ends when the ring is found empty.
RxDrain ==
    /\ rxPc = "drain"
    /\ IF level # 0
       THEN /\ level' = IF level <= Chunk THEN 0 ELSE level - Chunk
            /\ UNCHANGED rxPc
       ELSE rxPc' = "recheck" /\ UNCHANGED level
    /\ UNCHANGED <<rxAvail, outPaused, epOut, overruns, flagVars>>

\* Mutant of RxRecheck: the pause is never lifted.
RxRecheckMissing ==
    /\ rxPc = "recheck"
    /\ rxPc' = "sleep"
    /\ UNCHANGED <<level, rxAvail, outPaused, epOut, overruns, flagVars>>

\* if (out_paused && space >= WLH_USB_OUT_CHUNK)
RxRecheck ==
    /\ rxPc = "recheck"
    /\ rxPc' = IF outPaused /\ HasRoom THEN "unpause" ELSE "sleep"
    /\ UNCHANGED <<level, rxAvail, outPaused, epOut, overruns, flagVars>>

\* out_paused = false
RxUnpause ==
    /\ rxPc = "unpause"
    /\ outPaused' = FALSE
    /\ rxPc' = "rearm"
    /\ UNCHANGED <<level, rxAvail, epOut, overruns, flagVars>>

\* arm_out_read: usbd_ep_start_read fails on a closed endpoint, and the
\* failure is ignored.
RxRearm ==
    /\ rxPc = "rearm"
    /\ epOut' = IF epOut = "disabled" THEN epOut ELSE "armed"
    /\ rxPc' = "sleep"
    /\ UNCHANGED <<level, rxAvail, outPaused, overruns, flagVars>>

RxThread == RxWake \/ RxDrain \/ RxRecheck \/ RxUnpause \/ RxRearm

\* What the transmit half does to the shared flags: its thread consumes a
\* pending reset (UsbTx!CheckReset).
TxConsumesReset ==
    /\ resetPending
    /\ resetPending' = FALSE
    /\ UNCHANGED <<rxVars, configured, initialSeen>>

Next ==
    \/ \E n \in 0 .. Chunk : OutPacket(n)
    \/ BusReset \/ Configured
    \/ RxThread
    \/ TxConsumesReset

\* The scheduler runs the ready rx thread eventually; nothing is assumed of
\* the host or of the tx thread.
Fairness == WF_vars(RxThread)

Spec == Init /\ [][Next]_vars
FairSpec == Spec /\ Fairness

------------------------------------------------------------------------------
(* Properties *)

\* Type correctness of the receive state.
TypeOK ==
    /\ level \in 0 .. Ring
    /\ rxAvail \in SemValue
    /\ outPaused \in BOOLEAN /\ overruns \in BOOLEAN
    /\ epOut \in {"disabled", "nak", "armed"}
    /\ rxPc \in {"sleep", "drain", "recheck", "unpause", "rearm"}
    /\ resetPending \in BOOLEAN /\ configured \in BOOLEAN
    /\ initialSeen \in BOOLEAN

\* "the put below always fits" (transport_usb.c:171): no byte the host was
\* acknowledged is ever dropped at the ring.  It takes the arm-time check of
\* the interrupt and of the thread to hold together.
NoOverrun == ~overruns

\* A configured device's OUT endpoint only NAKs for a reason that ends: the
\* pause, or the thread about to re-arm it.
NakExplained == configured /\ epOut # "armed" => outPaused \/ rxPc = "rearm"

\* The two halves of WorkHasWakeup: a paused endpoint and a byte in the ring.
PauseHasWakeup ==
    outPaused => rxAvail > 0 \/ rxPc \in {"drain", "recheck", "unpause"}
BytesHaveWakeup == level > 0 => rxAvail > 0 \/ rxPc = "drain"

\* No work is forgotten: whenever the endpoint is paused the rx thread is still
\* to look at out_paused, which the interrupt may set after the thread has found
\* the ring empty, and the thread never sleeps over bytes without a token.
WorkHasWakeup == PauseHasWakeup /\ BytesHaveWakeup

\* Backpressure is always lifted: a host that stays configured finds the
\* endpoint armed again and again, however it fills the ring.
OutServiced == <>[]configured => []<>(epOut = "armed")
==============================================================================
