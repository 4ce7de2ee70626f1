----------------------------- MODULE LinkRestart -----------------------------
(***************************************************************************)
(* Restart of the link core after a transport reset.  The USB tx thread    *)
(* calls on_transport_reset, which cuts the ETH backend off the core       *)
(* (wlh_eth_transport_dead) and sends an event; link_control_thread        *)
(* (applications/app/wlh_app.c) waits 100 ms, stops and starts the core    *)
(* and reconnects the backend (wlh_eth_transport_alive).  The users of the *)
(* core are the worker and the link thread of eth_backend.c.  The core     *)
(* itself is external: its objects are gone from the start of              *)
(* wlh_coproc_stop to the end of a wlh_coproc_start that succeeds.  Both   *)
(* may fail, which the thread only logs; a start succeeds only on a core   *)
(* that has stopped.                                                       *)
(***************************************************************************)
EXTENDS Naturals

CONSTANTS
    StopFails,  \* wlh_coproc_stop may fail
    StartFails, \* wlh_coproc_start may fail on a core that has stopped
    MaxResets   \* bound: transport resets

ASSUME RestartAssumption ==
    StopFails \in BOOLEAN /\ StartFails \in BOOLEAN /\ MaxResets \in Nat

VARIABLES
    resets,     \* resets so far
    dead,       \* s_transport_dead
    event,      \* LINK_EVENT_TRANSPORT_RESET
    core,       \* "up", "stopping" or "down"
    txPc,       \* USB tx thread in on_transport_reset: "idle", "send"
    linkPc,     \* link control thread: "wait", "settle", "stop", "start", "alive"
    calls,      \* threads of the ETH backend that are inside the core
    coreTask,   \* core task in wlh_eth_rx_from_core: "idle", "checked"
    inFlight,   \* a TX slot waits for its completion
    old,        \* what was under way when the settle delay began: calls, a
                \* "check" of the core task, a "slot" to complete
    overlapped, \* history: a reset came during the restart for another
    failed      \* history: the last restart did not start the core

vars == <<resets, dead, event, core, txPc, linkPc, calls, coreTask, inFlight, old,
          overlapped, failed>>

Users == {"worker", "link"}

Init ==
    /\ resets = 0 /\ dead = FALSE /\ event = FALSE /\ core = "up"
    /\ txPc = "idle" /\ linkPc = "wait"
    /\ calls = {} /\ coreTask = "idle" /\ inFlight = FALSE /\ old = {}
    /\ overlapped = FALSE /\ failed = FALSE

------------------------------------------------------------------------------
(* The USB tx thread: on_transport_reset *)

\* wlh_eth_transport_dead: the flag, and no completion for the frames in
\* flight, in one section with interrupts off.
TransportDead ==
    /\ txPc = "idle" /\ resets < MaxResets
    /\ resets' = resets + 1
    /\ dead' = TRUE /\ inFlight' = FALSE
    /\ old' = old \ {"slot"}
    /\ txPc' = "send"
    /\ overlapped' = (overlapped \/ event \/ linkPc # "wait")
    /\ UNCHANGED <<event, core, linkPc, calls, coreTask, failed>>

SendEvent ==
    /\ txPc = "send"
    /\ event' = TRUE /\ txPc' = "idle"
    /\ UNCHANGED <<resets, dead, core, linkPc, calls, coreTask, inFlight, old, overlapped, failed>>

------------------------------------------------------------------------------
(* link_control_thread *)

RecvEvent ==
    /\ linkPc = "wait" /\ event
    /\ event' = FALSE
    /\ linkPc' = "settle"
    /\ old' = calls \cup {t \in {"check", "slot"} :
                           IF t = "check" THEN coreTask = "checked" ELSE inFlight}
    /\ UNCHANGED <<resets, dead, core, txPc, calls, coreTask, inFlight, overlapped, failed>>

\* The settle delay outlasts what was under way when it began: calls do not
\* block, and the DMA sends a full ring in under 10 ms.
SettleEnds ==
    /\ linkPc = "settle" /\ old = {}
    /\ core' = IF core = "up" THEN "stopping" ELSE core
    /\ linkPc' = "stop"
    /\ UNCHANGED <<resets, dead, event, txPc, calls, coreTask, inFlight, old, overlapped, failed>>

\* wlh_coproc_stop returns when the core task has left its callback.
StopReturns ==
    /\ linkPc = "stop" /\ coreTask = "idle"
    /\ core' = "down" /\ linkPc' = "start"
    /\ UNCHANGED <<resets, dead, event, txPc, calls, coreTask, inFlight, old, overlapped, failed>>

\* It may also time out, with the core half stopped, or refuse, with the core
\* running; the failure is logged and the start tried all the same.
StopFailed ==
    /\ linkPc = "stop" /\ core = "stopping" /\ StopFails
    /\ core' \in {"stopping", "up"} /\ linkPc' = "start"
    /\ UNCHANGED <<resets, dead, event, txPc, calls, coreTask, inFlight, old, overlapped, failed>>

\* Mutant of StartOk: the backend is not reconnected.
StartOkOnly ==
    /\ linkPc = "start" /\ core = "down"
    /\ core' = "up" /\ failed' = FALSE /\ linkPc' = "wait"
    /\ UNCHANGED <<resets, dead, event, txPc, calls, coreTask, inFlight, old, overlapped>>

StartOk ==
    /\ linkPc = "start" /\ core = "down"
    /\ core' = "up" /\ failed' = FALSE /\ linkPc' = "alive"
    /\ UNCHANGED <<resets, dead, event, txPc, calls, coreTask, inFlight, old, overlapped>>

\* Mutant of StartFailed: the backend is reconnected to a core that did not start.
StartFailedAlive ==
    /\ linkPc = "start" /\ (StartFails \/ core # "down")
    /\ dead' = FALSE /\ failed' = TRUE /\ linkPc' = "wait"
    /\ UNCHANGED <<resets, event, core, txPc, calls, coreTask, inFlight, old, overlapped>>

StartFailed ==
    /\ linkPc = "start" /\ (StartFails \/ core # "down")
    /\ failed' = TRUE /\ linkPc' = "wait"
    /\ UNCHANGED <<resets, dead, event, core, txPc, calls, coreTask, inFlight, old, overlapped>>

\* Mutant of TransportAlive: the event is cleared at the end of the restart.
TransportAliveClears ==
    /\ linkPc = "alive"
    /\ dead' = FALSE /\ event' = FALSE /\ linkPc' = "wait"
    /\ UNCHANGED <<resets, core, txPc, calls, coreTask, inFlight, old, overlapped, failed>>

\* wlh_eth_transport_alive
TransportAlive ==
    /\ linkPc = "alive"
    /\ dead' = FALSE /\ linkPc' = "wait"
    /\ UNCHANGED <<resets, event, core, txPc, calls, coreTask, inFlight, old, overlapped, failed>>

LinkControl == RecvEvent \/ SettleEnds \/ StopReturns \/ StopFailed
                 \/ StartOk \/ StartFailed \/ TransportAlive

------------------------------------------------------------------------------
(* Users of the core *)

\* wlh_eth_rx_from_core tests s_transport_dead before it turns interrupts off
\* to arm a slot.
RxFromCoreCheck ==
    /\ core = "up" /\ coreTask = "idle" /\ ~dead
    /\ coreTask' = "checked"
    /\ UNCHANGED <<resets, dead, event, core, txPc, linkPc, calls, inFlight, old, overlapped, failed>>

RxFromCoreArm ==
    /\ coreTask = "checked"
    /\ coreTask' = "idle" /\ inFlight' = TRUE
    /\ old' = IF "check" \in old THEN (old \ {"check"}) \cup {"slot"} ELSE old
    /\ UNCHANGED <<resets, dead, event, core, txPc, linkPc, calls, overlapped, failed>>

\* eth_tx_complete_scan looks at in_flight only, then calls
\* wlh_coproc_ethernet_rx_complete.
TxCompleteScan ==
    /\ "worker" \notin calls /\ inFlight
    /\ inFlight' = FALSE
    /\ calls' = calls \cup {"worker"}
    /\ old' = IF "slot" \in old THEN (old \ {"slot"}) \cup {"worker"} ELSE old
    /\ UNCHANGED <<resets, dead, event, core, txPc, linkPc, coreTask, overlapped, failed>>

\* Mutant of EnterCore: the flag is not tested.
EnterCoreUnchecked(u) ==
    /\ u \notin calls
    /\ calls' = calls \cup {u}
    /\ UNCHANGED <<resets, dead, event, core, txPc, linkPc, coreTask, inFlight, old, overlapped, failed>>

\* eth_rx_drain and eth_link_report test s_transport_dead once, then call
\* wlh_coproc_get_diagnostics and the rest.
EnterCore(u) ==
    /\ u \notin calls /\ ~dead
    /\ calls' = calls \cup {u}
    /\ UNCHANGED <<resets, dead, event, core, txPc, linkPc, coreTask, inFlight, old, overlapped, failed>>

LeaveCore(u) ==
    /\ u \in calls
    /\ calls' = calls \ {u}
    /\ old' = old \ {u}
    /\ UNCHANGED <<resets, dead, event, core, txPc, linkPc, coreTask, inFlight, overlapped, failed>>

EthBackend == TxCompleteScan \/ \E u \in Users : EnterCore(u) \/ LeaveCore(u)

Next == TransportDead \/ SendEvent \/ LinkControl
          \/ RxFromCoreCheck \/ RxFromCoreArm \/ EthBackend

Spec == Init /\ [][Next]_vars

\* Calls into the core and its callbacks return, every run of the worker
\* begins with a scan, and the link control thread gets the processor.
FairSpec ==
    /\ Spec
    /\ WF_vars(SendEvent) /\ WF_vars(LinkControl)
    /\ WF_vars(RxFromCoreArm) /\ SF_vars(TxCompleteScan)
    /\ \A u \in Users : WF_vars(LeaveCore(u))

------------------------------------------------------------------------------
(* Properties *)

TypeOK ==
    /\ resets \in 0 .. MaxResets
    /\ dead \in BOOLEAN /\ event \in BOOLEAN /\ inFlight \in BOOLEAN
    /\ core \in {"up", "stopping", "down"}
    /\ txPc \in {"idle", "send"}
    /\ linkPc \in {"wait", "settle", "stop", "start", "alive"}
    /\ coreTask \in {"idle", "checked"}
    /\ calls \subseteq Users
    /\ old \subseteq Users \cup {"check", "slot"}
    /\ overlapped \in BOOLEAN /\ failed \in BOOLEAN

\* "so the ETH worker and link threads can never touch core objects while they
\* are being destroyed" (eth_backend.h:68-70).
NoUseAfterStop == core # "up" => calls = {}

\* The same as long as no reset has come during the restart for another one.
NoUseAfterStopInTurn == ~overlapped => NoUseAfterStop

\* With no reset under way the backend is cut off exactly if the last restart did
\* not start the core, whether its start failed or its stop (wlh_app.c:76-83), and
\* a backend that is connected has a running core (same proviso).
AtRestConsistent ==
    ~overlapped /\ linkPc = "wait" /\ ~event /\ txPc = "idle"
        => (dead <=> failed) /\ (~dead => core = "up")

\* The two halves of RestartCompletes: a reset that arrives during a restart,
\* whose event the thread has already taken, gets a stop and a start of its own;
\* the backend stays cut off only if the core failed to start.
EveryResetRestarts ==
    (txPc = "send") ~> (linkPc = "settle" /\ ~event)
ComesBack == dead ~> (~dead \/ (linkPc = "wait" /\ failed))

\* "the link-control thread coalesces repeats" (transport_usb.c:480) and loses
\* none: every reset leads to a restart, and every restart to its end.
RestartCompletes == EveryResetRestarts /\ ComesBack
==============================================================================
