-------------------------------- MODULE UsbTx --------------------------------
(***************************************************************************)
(* The transmit half of applications/transports/usb/transport_usb.c: the   *)
(* core submits wire frames, two message queues hold them, the thread      *)
(* "wlh-usb-tx" writes them one at a time to the bulk IN endpoint, and     *)
(* every admitted frame is given back to the core through its completion.  *)
(* The USB interrupt (RESET, SET_CONFIGURATION, IN completion) may run     *)
(* between any two steps of the thread.                                    *)
(*                                                                         *)
(* A frame is a buffer of the core; its bytes do not matter here, only     *)
(* its channel (control or data), its alignment and how many packets it    *)
(* takes.  The interrupt of each acknowledged packet arms the next one     *)
(* (usb_dc_usbhs.c), and a packet may be on the wire whatever the thread   *)
(* does meanwhile.                                                         *)
(***************************************************************************)
EXTENDS RtIpc, Integers

CONSTANTS
    Control,        \* frames of WLH_CHANNEL_LINK_CONTROL / CONTROL_RPC
    Data,           \* frames of the other channels
    Unaligned,      \* frames whose buffer is not 4-byte aligned
    ControlDepth,   \* WLH_USB_CONTROL_TX_QUEUE_DEPTH
    DataDepth,      \* WLH_USB_DATA_TX_QUEUE_DEPTH
    Submitters,     \* threads that may be inside wlh_transport_submit_tx
    MaxXfer,        \* bound: packets of a frame
    FastHost,       \* TRUE: the host can reset and re-enumerate the device
                    \* within the few instructions of CheckedWindow
    NoFrame         \* the job variable before the first dequeue

Frames == Control \cup Data

ASSUME FramesAssumption ==
    /\ Control \cap Data = {}
    /\ NoFrame \notin Frames
    /\ Unaligned \subseteq Frames
ASSUME DepthAssumption ==
    /\ ControlDepth \in Nat \ {0}
    /\ DataDepth \in Nat \ {0}
    /\ Submitters \in Nat \ {0}
    /\ MaxXfer \in Nat \ {0}
ASSUME FastHostAssumption == FastHost \in BOOLEAN

VARIABLES
    ctl, dat,       \* tx_control_queue, tx_data_queue
    waking,         \* submitters between rt_mq_send_wait and rt_sem_release
    txDone, txWakeup, gate,                     \* the three semaphores
    resetPending, configured, initialSeen,      \* flags of usb_transport_t
    pc, job,        \* the tx thread
    epIn, epFrame,  \* bulk IN endpoint: response state and xfer_buf
    left,           \* packets of xfer_len
    wire,           \* an IN packet is on the wire, its handshake to come
    \* What the properties talk about; no step's guard reads these, except
    \* that the core only submits buffers it owns.
    due,            \* completions the transport owes for each frame
    sent,           \* frames whose last completion had status 0
    delivered,      \* frames the host has surely read since their submission
    dead,           \* frames admitted before the last bus reset
    loose,          \* the transfer on the endpoint was started over leftovers
                    \* of an earlier one, or halted with a packet on the wire
    unsure,         \* frames last written over such leftovers
    overtaken,      \* data frames dequeued while a control frame waited
    sessionDirty    \* a bus reset not yet reported through on_reset

queueVars  == <<ctl, dat>>
usbVars    == <<resetPending, configured, initialSeen>>
epVars     == <<epIn, epFrame, left, wire>>
ghostVars  == <<due, sent, delivered, dead, loose, unsure, overtaken,
                sessionDirty>>
vars == <<queueVars, waking, txDone, txWakeup, gate, usbVars, pc, job,
          epVars, ghostVars>>

PcStates == {"idle", "check", "resetFlushCtl", "resetFlushDat", "recvCtl",
             "recvDat", "gate", "gateWait", "drop", "write", "wait", "taken",
             "halt", "haltFlushCtl", "haltFlushDat", "finishOk",
             "finishCancelled"}

\* The steps in which the thread holds a dequeued job.
HoldsJob == pc \in {"gate", "gateWait", "drop", "write", "wait", "taken",
                    "halt", "haltFlushCtl", "haltFlushDat", "finishOk",
                    "finishCancelled"}

\* From the configured/reset_pending test to the endpoint write: straight-line
\* code of the highest-priority application thread.
CheckedWindow == pc \in {"drop", "write"}

\* wlh_transport_start: everything zeroed, endpoints not yet opened.
Init ==
    /\ ctl = <<>> /\ dat = <<>> /\ waking = 0
    /\ txDone = 0 /\ txWakeup = 0 /\ gate = 0
    /\ resetPending = FALSE /\ configured = FALSE /\ initialSeen = FALSE
    /\ pc = "idle" /\ job = NoFrame
    /\ epIn = "disabled" /\ epFrame = NoFrame /\ left = 0 /\ wire = FALSE
    /\ due = [f \in Frames |-> 0]
    /\ sent = {} /\ delivered = {} /\ dead = {}
    /\ loose = FALSE /\ unsure = {} /\ overtaken = 0 /\ sessionDirty = FALSE

------------------------------------------------------------------------------
(* The core's side *)

\* wlh_transport_submit_tx up to the queue insertion.  A full queue changes
\* nothing: the core keeps the buffer (return -1).
Submit(f) ==
    /\ due[f] = 0
    /\ waking < Submitters
    /\ \/ /\ f \in Control
          /\ MqHasRoom(ctl, ControlDepth)
          /\ ctl' = Append(ctl, f)
          /\ UNCHANGED dat
       \/ /\ f \in Data
          /\ MqHasRoom(dat, DataDepth)
          /\ dat' = Append(dat, f)
          /\ UNCHANGED ctl
    /\ waking' = waking + 1
    /\ due' = [due EXCEPT ![f] = @ + 1]
    /\ sent' = sent \ {f}
    /\ delivered' = delivered \ {f}
    /\ unsure' = unsure \ {f}
    /\ UNCHANGED <<txDone, txWakeup, gate, usbVars, pc, job, epVars, dead,
                   loose, overtaken, sessionDirty>>

\* The submitter's rt_sem_release(tx_wakeup); it may be preempted before it.
SubmitWake ==
    /\ waking > 0
    /\ waking' = waking - 1
    /\ txWakeup' = SemRelease(txWakeup)
    /\ UNCHANGED <<queueVars, txDone, gate, usbVars, pc, job, epVars,
                   ghostVars>>

\* job.completion(frame, status): the buffer goes back to the core.
Complete(f, ok) ==
    /\ due' = [due EXCEPT ![f] = @ - 1]
    /\ sent' = IF ok THEN sent \cup {f} ELSE sent
    /\ dead' = dead \ {f}
    /\ UNCHANGED <<delivered, loose, unsure>>

------------------------------------------------------------------------------
(* The tx thread *)

TakeWakeup ==
    /\ pc = "idle" /\ txWakeup > 0
    /\ txWakeup' = txWakeup - 1
    /\ pc' = "check"
    /\ UNCHANGED <<queueVars, waking, txDone, gate, usbVars, job, epVars,
                   ghostVars>>

\* Mutant of CheckReset: the next CONFIGURED counts as the first again.
CheckResetForgetsSession ==
    /\ pc = "check"
    /\ pc' = IF resetPending THEN "resetFlushCtl" ELSE "recvCtl"
    /\ resetPending' = FALSE
    /\ initialSeen' = (initialSeen /\ ~resetPending)
    /\ UNCHANGED <<queueVars, waking, txDone, txWakeup, gate, configured,
                   job, epVars, ghostVars>>

\* Top of the inner loop: a pending bus reset is consumed before any frame.
CheckReset ==
    /\ pc = "check"
    /\ pc' = IF resetPending THEN "resetFlushCtl" ELSE "recvCtl"
    /\ resetPending' = FALSE
    /\ UNCHANGED <<queueVars, waking, txDone, txWakeup, gate, configured,
                   initialSeen, job, epVars, ghostVars>>

\* One round of flush_tx_queue on a queue; the index moves on to the next
\* queue (or the loop ends) when the receive finds nothing.
FlushCtl ==
    /\ pc \in {"resetFlushCtl", "haltFlushCtl"}
    /\ IF ctl # <<>>
       THEN /\ Complete(Head(ctl), FALSE)
            /\ ctl' = Tail(ctl)
            /\ overtaken' = 0
            /\ UNCHANGED <<pc, sessionDirty>>
       ELSE /\ pc' = IF pc = "resetFlushCtl" THEN "resetFlushDat"
                     ELSE "haltFlushDat"
            /\ UNCHANGED <<ctl, ghostVars>>
    /\ UNCHANGED <<dat, waking, txDone, txWakeup, gate, usbVars, job, epVars>>

\* The end of the flush runs on_reset (bus reset) or goes on to complete the
\* timed-out frame.
FlushDat ==
    /\ pc \in {"resetFlushDat", "haltFlushDat"}
    /\ IF dat # <<>>
       THEN /\ Complete(Head(dat), FALSE)
            /\ dat' = Tail(dat)
            /\ UNCHANGED <<pc, overtaken, sessionDirty>>
       ELSE /\ \/ /\ pc = "resetFlushDat"
                  /\ pc' = "check"
                  /\ sessionDirty' = FALSE
               \/ /\ pc = "haltFlushDat"
                  /\ pc' = "finishCancelled"
                  /\ UNCHANGED sessionDirty
            /\ UNCHANGED <<dat, due, sent, delivered, dead, loose, unsure,
                           overtaken>>
    /\ UNCHANGED <<ctl, waking, txDone, txWakeup, gate, usbVars, job, epVars>>

\* Mutant of RecvControl: data is served first.
RecvControlLast ==
    /\ pc = "recvCtl"
    /\ IF ctl # <<>> /\ dat = <<>>
       THEN /\ job' = Head(ctl)
            /\ ctl' = Tail(ctl)
            /\ overtaken' = 0
            /\ pc' = "gate"
       ELSE /\ pc' = "recvDat"
            /\ UNCHANGED <<job, ctl, overtaken>>
    /\ UNCHANGED <<dat, waking, txDone, txWakeup, gate, usbVars, epVars, due,
                   sent, delivered, dead, loose, unsure, sessionDirty>>

RecvControl ==
    /\ pc = "recvCtl"
    /\ IF ctl # <<>>
       THEN /\ job' = Head(ctl)
            /\ ctl' = Tail(ctl)
            /\ overtaken' = 0
            /\ pc' = "gate"
       ELSE /\ pc' = "recvDat"
            /\ UNCHANGED <<job, ctl, overtaken>>
    /\ UNCHANGED <<dat, waking, txDone, txWakeup, gate, usbVars, epVars, due,
                   sent, delivered, dead, loose, unsure, sessionDirty>>

RecvData ==
    /\ pc = "recvDat"
    /\ IF dat # <<>>
       THEN /\ job' = Head(dat)
            /\ dat' = Tail(dat)
            /\ overtaken' = IF ctl # <<>> THEN overtaken + 1 ELSE 0
            /\ pc' = "gate"
       ELSE /\ pc' = "idle"
            /\ UNCHANGED <<job, dat, overtaken>>
    /\ UNCHANGED <<ctl, waking, txDone, txWakeup, gate, usbVars, epVars, due,
                   sent, delivered, dead, loose, unsure, sessionDirty>>

\* while (!configured && !reset_pending) ...: the test sends the thread into
\* rt_sem_take(configured_gate), where it stays until a SET_CONFIGURATION
\* releases the gate; a bus reset does not wake it there.
GateClosed ==
    /\ pc = "gate"
    /\ ~configured /\ ~resetPending
    /\ pc' = "gateWait"
    /\ UNCHANGED <<queueVars, waking, txDone, txWakeup, gate, usbVars, job,
                   epVars, ghostVars>>

GateTake ==
    /\ pc = "gateWait" /\ gate > 0
    /\ gate' = gate - 1
    /\ pc' = "gate"
    /\ UNCHANGED <<queueVars, waking, txDone, txWakeup, usbVars, job, epVars,
                   ghostVars>>

\* Mutant of GatePassed: the reset test after the gate is missing.
GatePassedBlind ==
    /\ pc = "gate"
    /\ configured \/ resetPending
    /\ pc' = "drop"
    /\ UNCHANGED <<queueVars, waking, txDone, txWakeup, gate, usbVars, job,
                   epVars, ghostVars>>

\* Mutant of GatePassed: no continue after the cancellation.
GatePassedNoContinue ==
    /\ pc = "gate"
    /\ configured \/ resetPending
    /\ pc' = "drop"
    /\ IF resetPending
       THEN Complete(job, FALSE)
       ELSE UNCHANGED <<due, sent, delivered, dead, loose, unsure>>
    /\ UNCHANGED <<queueVars, waking, txDone, txWakeup, gate, usbVars, job,
                   epVars, overtaken, sessionDirty>>

\* A reset seen here cancels the job without touching the endpoint; the reset
\* itself is left pending for CheckReset.
GatePassed ==
    /\ pc = "gate"
    /\ configured \/ resetPending
    /\ IF resetPending
       THEN /\ Complete(job, FALSE)
            /\ job' = NoFrame
            /\ pc' = "check"
       ELSE /\ pc' = "drop"
            /\ UNCHANGED <<job, due, sent, delivered, dead, loose, unsure>>
    /\ UNCHANGED <<queueVars, waking, txDone, txWakeup, gate, usbVars, epVars,
                   overtaken, sessionDirty>>

\* rt_sem_take(tx_done, RT_WAITING_NO): drops at most one stale token.
DropStale ==
    /\ pc = "drop"
    /\ txDone' = SemTryTake(txDone)
    /\ pc' = "write"
    /\ UNCHANGED <<queueVars, waking, txWakeup, gate, usbVars, job, epVars,
                   ghostVars>>

\* What an earlier transfer may leave behind: a token, a packet on the wire, or
\* an endpoint that still answers.
Leftovers == txDone > 0 \/ wire \/ epIn = "armed"

\* usbd_ep_start_write of a frame of n packets: rejected when the reset closed
\* the endpoint or the buffer is unaligned, else xfer_buf and xfer_len are
\* replaced, whatever they hold, and the endpoint ACKs IN.
StartWrite(n) ==
    /\ pc = "write"
    /\ IF epIn = "disabled" \/ job \in Unaligned
       THEN pc' = "finishCancelled" /\ UNCHANGED <<epVars, loose, unsure>>
       ELSE /\ pc' = "wait" /\ epIn' = "armed" /\ epFrame' = job /\ left' = n
            /\ loose' = Leftovers
            /\ unsure' = IF Leftovers THEN unsure \cup {job} ELSE unsure
            /\ UNCHANGED wire
    /\ UNCHANGED <<queueVars, waking, txDone, txWakeup, gate, usbVars, job,
                   due, sent, delivered, dead, overtaken, sessionDirty>>

WaitDone ==
    /\ pc = "wait" /\ txDone > 0
    /\ txDone' = txDone - 1
    /\ pc' = "taken"
    /\ UNCHANGED <<queueVars, waking, txWakeup, gate, usbVars, job, epVars,
                   ghostVars>>

\* Mutant of Timeout: RT_WAITING_FOREVER.
TimeoutNever == FALSE

\* WLH_USB_TX_TIMEOUT_MS elapsed with no token.
Timeout ==
    /\ pc = "wait" /\ txDone = 0
    /\ pc' = "halt"
    /\ UNCHANGED <<queueVars, waking, txDone, txWakeup, gate, usbVars, job,
                   epVars, ghostVars>>

\* Mutant of AfterWait: any token is taken for the completion.
AfterWaitTrusting ==
    /\ pc = "taken"
    /\ pc' = "finishOk"
    /\ UNCHANGED <<queueVars, waking, txDone, txWakeup, gate, usbVars, job,
                   epVars, ghostVars>>

\* The reset_pending test after the wait.
AfterWait ==
    /\ pc = "taken"
    /\ pc' = IF resetPending THEN "finishCancelled" ELSE "finishOk"
    /\ UNCHANGED <<queueVars, waking, txDone, txWakeup, gate, usbVars, job,
                   epVars, ghostVars>>

\* Mutant of HaltIn: the endpoint keeps ACKing after the timeout.
HaltInMissing ==
    /\ pc = "halt"
    /\ pc' = "haltFlushCtl"
    /\ UNCHANGED <<queueVars, waking, txDone, txWakeup, gate, usbVars, job,
                   epVars, ghostVars>>

\* wlh_usbhs_ep_in_halt writes NAK to the endpoint; xfer_len keeps its value, and
\* the interrupt of a packet on the wire goes on with it (InAck).
HaltIn ==
    /\ pc = "halt"
    /\ epIn' = IF epIn = "armed" THEN "nak" ELSE epIn
    /\ loose' = (loose \/ wire)
    /\ pc' = "haltFlushCtl"
    /\ UNCHANGED <<queueVars, waking, txDone, txWakeup, gate, usbVars, job,
                   epFrame, left, wire, due, sent, delivered, dead, unsure,
                   overtaken, sessionDirty>>

\* Completion of the job; any failed transfer also asks for a core restart.
Finish ==
    /\ pc \in {"finishOk", "finishCancelled"}
    /\ Complete(job, pc = "finishOk")
    /\ sessionDirty' = (sessionDirty /\ pc = "finishOk")
    /\ job' = NoFrame
    /\ pc' = "check"
    /\ UNCHANGED <<queueVars, waking, txDone, txWakeup, gate, usbVars, epVars,
                   overtaken>>

TxThread ==
    \/ TakeWakeup \/ CheckReset \/ FlushCtl \/ FlushDat
    \/ RecvControl \/ RecvData
    \/ GateClosed \/ GateTake \/ GatePassed
    \/ DropStale \/ (\E n \in 1 .. MaxXfer : StartWrite(n))
    \/ WaitDone \/ Timeout \/ AfterWait \/ HaltIn \/ Finish

------------------------------------------------------------------------------
(* The USB interrupt *)

\* The host asks for the armed packet.
InData ==
    /\ epIn = "armed" /\ ~wire
    /\ wire' = TRUE
    /\ UNCHANGED <<queueVars, waking, txDone, txWakeup, gate, usbVars, pc, job,
                   epIn, epFrame, left, ghostVars>>

\* Its handshake is lost: no interrupt.
InAckLost ==
    /\ wire
    /\ wire' = FALSE
    /\ UNCHANGED <<queueVars, waking, txDone, txWakeup, gate, usbVars, pc, job,
                   epIn, epFrame, left, ghostVars>>

\* Mutant of InAck: the callback runs after each packet.
InAckEach ==
    /\ wire
    /\ wire' = FALSE /\ left' = left - 1
    /\ epIn' = IF left > 1 THEN "armed" ELSE "nak"
    /\ txDone' = SemRelease(txDone)
    /\ delivered' = IF left > 1 \/ loose THEN delivered
                    ELSE delivered \cup {epFrame}
    /\ UNCHANGED <<queueVars, waking, txWakeup, gate, usbVars, pc, job,
                   epFrame, due, sent, dead, loose, unsure, overtaken,
                   sessionDirty>>

\* USBD_IRQHandler, PID_IN: the rest of xfer_len is armed, also on an endpoint
\* that was halted or written to since the packet went out; after the last
\* packet in_endpoint_callback releases tx_done.
InAck ==
    /\ wire
    /\ wire' = FALSE /\ left' = left - 1
    /\ IF left > 1
       THEN epIn' = "armed" /\ UNCHANGED <<txDone, delivered>>
       ELSE /\ epIn' = "nak"
            /\ txDone' = SemRelease(txDone)
            /\ delivered' = IF loose THEN delivered ELSE delivered \cup {epFrame}
    /\ UNCHANGED <<queueVars, waking, txWakeup, gate, usbVars, pc, job,
                   epFrame, due, sent, dead, loose, unsure, overtaken,
                   sessionDirty>>

\* Mutant of BusReset: the tx thread is not woken.
BusResetSilent ==
    /\ epIn' = "disabled" /\ left' = 0 /\ wire' = FALSE /\ loose' = FALSE
    /\ configured' = FALSE
    /\ resetPending' = TRUE
    /\ txDone' = SemRelease(txDone)
    /\ IF initialSeen
       THEN /\ dead' = dead \cup {f \in Frames : due[f] > 0}
            /\ sessionDirty' = TRUE
       ELSE UNCHANGED <<dead, sessionDirty>>
    /\ UNCHANGED <<queueVars, waking, txWakeup, gate, initialSeen, pc, job,
                   epFrame, due, sent, delivered, unsure, overtaken>>

\* Bus reset: the port closes the endpoints, usb_event_handler sets the flags
\* and releases tx_done and tx_wakeup (but not configured_gate).
BusReset ==
    /\ epIn' = "disabled" /\ left' = 0 /\ wire' = FALSE /\ loose' = FALSE
    /\ configured' = FALSE
    /\ resetPending' = TRUE
    /\ txDone' = SemRelease(txDone)
    /\ txWakeup' = SemRelease(txWakeup)
    /\ IF initialSeen
       THEN /\ dead' = dead \cup {f \in Frames : due[f] > 0}
            /\ sessionDirty' = TRUE
       ELSE UNCHANGED <<dead, sessionDirty>>
    /\ UNCHANGED <<queueVars, waking, gate, initialSeen, pc, job, epFrame,
                   due, sent, delivered, unsure, overtaken>>

\* Mutant of Configured: the gate is not released.
ConfiguredGateShut ==
    /\ FastHost \/ ~(CheckedWindow /\ resetPending)
    /\ ~wire /\ epIn' = "nak"
    /\ resetPending' = (resetPending /\ initialSeen)
    /\ initialSeen' = TRUE
    /\ configured' = TRUE
    /\ UNCHANGED <<queueVars, waking, txDone, txWakeup, gate, pc, job,
                   epFrame, left, wire, ghostVars>>

\* Mutant of Configured: every configuration clears the pending reset.
ConfiguredForgets ==
    /\ FastHost \/ ~(CheckedWindow /\ resetPending)
    /\ ~wire /\ epIn' = "nak"
    /\ resetPending' = FALSE
    /\ initialSeen' = TRUE
    /\ configured' = TRUE
    /\ gate' = SemRelease(gate)
    /\ UNCHANGED <<queueVars, waking, txDone, txWakeup, pc, job, epFrame,
                   left, wire, ghostVars>>

\* SET_CONFIGURATION: usbd_ep_open NAKs the endpoint, then the CONFIGURED
\* event.  The host may repeat it without a reset.  The interrupt serves a
\* transfer before a SETUP packet.
Configured ==
    /\ FastHost \/ ~(CheckedWindow /\ resetPending)
    /\ ~wire /\ epIn' = "nak"
    /\ resetPending' = (resetPending /\ initialSeen)
    /\ initialSeen' = TRUE
    /\ configured' = TRUE
    /\ gate' = SemRelease(gate)
    /\ UNCHANGED <<queueVars, waking, txDone, txWakeup, pc, job, epFrame,
                   left, wire, ghostVars>>

Usb == InData \/ InAckLost \/ InAck \/ BusReset \/ Configured

Next ==
    \/ \E f \in Frames : Submit(f)
    \/ SubmitWake
    \/ TxThread
    \/ Usb

\* The scheduler runs a ready thread eventually (nothing above priority 8
\* spins), the wait on tx_done is bounded by its timeout, and a submitter that
\* queued a frame goes on to release the semaphore.  Nothing is assumed of the
\* host: it may stop reading, reset or configure at will.
Fairness == WF_vars(TxThread) /\ WF_vars(SubmitWake)

Spec == Init /\ [][Next]_vars
FairSpec == Spec /\ Fairness

------------------------------------------------------------------------------
(* Properties *)

\* Type correctness of the transmit state.
TypeOK ==
    /\ ctl \in Seq(Control) /\ Len(ctl) <= ControlDepth
    /\ dat \in Seq(Data) /\ Len(dat) <= DataDepth
    /\ waking \in 0 .. Submitters
    /\ txDone \in SemValue /\ txWakeup \in SemValue /\ gate \in SemValue
    /\ resetPending \in BOOLEAN /\ configured \in BOOLEAN
    /\ initialSeen \in BOOLEAN
    /\ pc \in PcStates
    /\ job \in Frames \cup {NoFrame}
    /\ epIn \in {"disabled", "nak", "armed"}
    /\ epFrame \in Frames \cup {NoFrame}
    /\ left \in 0 .. MaxXfer /\ wire \in BOOLEAN
    /\ due \in [Frames -> Int]
    /\ sent \in SUBSET Frames /\ delivered \in SUBSET Frames
    /\ dead \in SUBSET Frames /\ unsure \in SUBSET Frames
    /\ loose \in BOOLEAN /\ overtaken \in Nat /\ sessionDirty \in BOOLEAN

InQueue(q, f) == \E i \in 1 .. Len(q) : q[i] = f
NoRepeats(q) == \A i, j \in 1 .. Len(q) : q[i] = q[j] => i = j

\* Where the transport keeps a frame.
InTransport(f) == InQueue(ctl, f) \/ InQueue(dat, f) \/ job = f

\* Every admitted frame is completed exactly once: the transport owes one
\* completion for each frame it still holds, in exactly one place, and none
\* for any other.  Concerns the four places that run a completion
\* (flush_tx_queue, the gate, the end of the inner loop) across resets,
\* timeouts and rejected writes.
ExactlyOnce ==
    /\ \A f \in Frames : due[f] = IF InTransport(f) THEN 1 ELSE 0
    /\ NoRepeats(ctl) /\ NoRepeats(dat)
    /\ job # NoFrame => ~InQueue(ctl, job) /\ ~InQueue(dat, job)

\* The thread never sleeps on tx_wakeup over work: with no token left and no
\* submitter on its way to release one, both queues are empty and no bus
\* reset waits.  Concerns rt_mq_send_wait before rt_sem_release in submit,
\* the RESET event, and the break out of the inner loop.
NoLostWakeup ==
    pc = "idle" /\ txWakeup = 0 /\ waking = 0
        => ctl = <<>> /\ dat = <<>> /\ ~resetPending

\* A frame reported sent was read by the host to its last packet, unless its own
\* write met leftovers of an earlier transfer (WaitObservesCurrent and
\* HaltIsFinal below say how it can).  Concerns the tokens of resets and of
\* finished transfers, which the one wait on tx_done does not tell apart.
SentWasDelivered == sent \subseteq delivered \cup unsure

\* The controller only reads a buffer the transport still owns: a frame is never
\* handed back to the core while the USB DMA may read it, not even on the timeout
\* path, where the halt precedes the completion.  The exceptions are a transfer
\* that was started over leftovers or halted with a packet on the wire.
DmaBufferHeld ==
    (epIn = "armed" \/ wire) /\ ~loose => due[epFrame] = 1 /\ job = epFrame

\* "the job belongs to the dead session and must not be written": no frame
\* admitted before a bus reset of an established session is on the endpoint
\* after it.
DeadSessionNotWritten == epIn = "armed" => epFrame \notin dead

\* "Control RPC/link frames must not wait behind a sustained Ethernet burst":
\* at most one data frame, dequeued in the race with the submission, is sent
\* before a waiting control frame.
ControlFirst == overtaken <= 1

\* "so the wait below only observes the current transfer" (transport_usb.c:438):
\* a token in tx_done during the wait means that the transfer is over or that a
\* reset has come.
WaitObservesCurrent ==
    pc = "wait" /\ txDone > 0 => left = 0 \/ resetPending

\* "NAK the endpoint so the armed DMA buffer can never complete late"
\* (transport_usb.c:452-453): from the halt to the next write the endpoint does not
\* answer.
HaltIsFinal ==
    pc \in {"haltFlushCtl", "haltFlushDat"} => epIn # "armed"

\* What liveness assumes of the surroundings: the host configures the device
\* again after a reset, and the core does not answer every cancellation of a
\* flush with a new frame forever (flush_tx_queue loops until it finds a queue
\* empty, so such a core would keep it from ever returning).
Flushing == pc \in {"resetFlushCtl", "resetFlushDat", "haltFlushCtl",
                    "haltFlushDat"}
CooperativePeers == []<>configured /\ []<>~Flushing

\* Control frames are completed; data frames too, once the control traffic
\* pauses (control has strict priority, so nothing holds for them under endless
\* control traffic).
ControlCompletes == \A f \in Control : due[f] = 1 ~> due[f] = 0
DataCompletes ==
    <>[](\A c \in Control : due[c] = 0) => \A f \in Data : due[f] = 1 ~> due[f] = 0

\* Every admitted frame is completed in the end, whatever resets, timeouts and
\* rejected writes happen on the way; the 2 s timeout of the tx_done wait makes
\* up for a host that does not read.
FramesComplete == CooperativePeers => ControlCompletes /\ DataCompletes

\* "Later resets must still tear down the active session even if
\* reconfiguration is fast": a bus reset of an established session is always
\* reported through on_reset.
SessionTornDown == CooperativePeers => (sessionDirty ~> ~sessionDirty)
==============================================================================
