------------------------------- MODULE EthLink -------------------------------
(***************************************************************************)
(* What the host knows of the Ethernet link.  eth_link_thread              *)
(* (applications/backends/eth_backend.c) polls the PHY, publishes          *)
(* s_link_up, s_duplex_full and s_link_speed and reports a change to the   *)
(* host if its session is READY; a host that connects later asks with      *)
(* GET_INFO (wlh_eth_get_info, on the core task).  All this goes on while  *)
(* resets restart the core (LinkRestart), whose "link" user is this thread.*)
(*                                                                         *)
(* Duplex and speed are one value, the mode.  The PHY, the core and the    *)
(* host are external.                                                      *)
(***************************************************************************)
EXTENDS LinkRestart

CONSTANTS
    Modes,      \* duplex and speed
    MaxChanges  \* bound: changes of the PHY's link

ASSUME LinkAssumption ==
    Modes # {} /\ {"down", "none", "unknown"} \cap Modes = {} /\ MaxChanges \in Nat

VARIABLES
    phy, changes,   \* link of the PHY, "down" or a mode; how often it changed
    mac,        \* speed and duplex bits of MACCR
    last,       \* last_up, last_speed, last_duplex
    up, mode,   \* s_link_up; s_duplex_full and s_link_speed, "none" when down
    pollPc,     \* eth_link_thread: "poll", "up", "mode", "report", "diag",
                \* "send", "wake"
    sess,       \* the core's state is READY
    hostView,   \* what the host of the session knows, at first "unknown"
    lost        \* history: the report was not accepted by the core

phyVars == <<phy, changes>>
linkVars == <<mac, last, up, mode, pollPc>>
hostVars == <<sess, hostView, lost>>
ethVars == <<vars, phyVars, linkVars, hostVars>>

EthInit ==
    /\ Init
    /\ phy = "down" /\ changes = 0 /\ mac \in Modes
    /\ last = "down" /\ up = FALSE /\ mode = "none" /\ pollPc = "poll"
    /\ sess = FALSE /\ hostView = "unknown" /\ lost = FALSE

------------------------------------------------------------------------------
(* The link thread *)

\* External
PhyChanges(p) ==
    /\ changes < MaxChanges /\ p # phy
    /\ phy' = p /\ changes' = changes + 1
    /\ UNCHANGED <<vars, linkVars, hostVars>>

\* Mutant of Changed: a new mode of a link that stays up is not noticed.
ChangedUpOnly == (phy = "down") # (last = "down")

Changed == phy # last

\* Mutant of MacMode: programmed only when the link comes up.
MacModeOnce == IF last = "down" /\ phy # "down" THEN phy ELSE mac

MacMode == IF phy = "down" THEN mac ELSE phy

\* wlh_eth_phy_read_status, which also sets the MAC's mode, and the comparison.
Poll ==
    /\ pollPc = "poll"
    /\ mac' = MacMode
    /\ IF Changed
       THEN last' = phy /\ pollPc' = "up"
       ELSE UNCHANGED <<last, pollPc>>
    /\ UNCHANGED <<vars, phyVars, up, mode, hostVars>>

\* Mutant of PublishUp: only a link that goes up or down is reported.
PublishUpReports ==
    /\ pollPc = "up"
    /\ up' = (last # "down")
    /\ pollPc' = IF up' = up THEN "wake" ELSE "mode"
    /\ UNCHANGED <<vars, phyVars, mac, last, mode, hostVars>>

PublishUp ==
    /\ pollPc = "up"
    /\ up' = (last # "down") /\ pollPc' = "mode"
    /\ UNCHANGED <<vars, phyVars, mac, last, mode, hostVars>>

ModeOf(l) == IF l = "down" THEN "none" ELSE l

PublishMode ==
    /\ pollPc = "mode"
    /\ mode' = ModeOf(last)
    /\ pollPc' = "report"
    /\ UNCHANGED <<vars, phyVars, mac, last, up, hostVars>>

\* eth_link_report: not while the transport is dead ...
ReportEnter ==
    /\ pollPc = "report"
    /\ EnterCore("link")
    /\ pollPc' = "diag"
    /\ UNCHANGED <<phyVars, mac, last, up, mode, hostVars>>

ReportDead ==
    /\ pollPc = "report" /\ dead
    /\ pollPc' = "wake"
    /\ UNCHANGED <<vars, phyVars, mac, last, up, mode, hostVars>>

\* ... nor without a session ...
ReportGated ==
    /\ pollPc = "diag" /\ ~sess
    /\ LeaveCore("link")
    /\ pollPc' = "wake"
    /\ UNCHANGED <<phyVars, mac, last, up, mode, hostVars>>

ReportReady ==
    /\ pollPc = "diag" /\ sess
    /\ pollPc' = "send"
    /\ UNCHANGED <<vars, phyVars, mac, last, up, mode, hostVars>>

\* ... and the event itself, which may meet a session that has just ended.
ReportSend ==
    /\ pollPc = "send"
    /\ LeaveCore("link")
    /\ IF sess THEN hostView' = last /\ lost' = FALSE ELSE UNCHANGED <<hostView, lost>>
    /\ pollPc' = "wake"
    /\ UNCHANGED <<phyVars, mac, last, up, mode, sess>>

\* The result of wlh_coproc_eth_link_state_changed is ignored: without credit on
\* the control channel the event is gone.
ReportFails ==
    /\ pollPc = "send"
    /\ LeaveCore("link")
    /\ lost' = TRUE /\ pollPc' = "wake"
    /\ UNCHANGED <<phyVars, mac, last, up, mode, sess, hostView>>

\* The token for the worker (EthRx!LinkWake).
Wake ==
    /\ pollPc = "wake"
    /\ pollPc' = "poll"
    /\ UNCHANGED <<vars, phyVars, mac, last, up, mode, hostVars>>

LinkThread == Poll \/ PublishUp \/ PublishMode \/ ReportEnter \/ ReportDead
                \/ ReportGated \/ ReportReady \/ ReportSend \/ ReportFails \/ Wake

------------------------------------------------------------------------------
(* The host and the core *)

\* External: the handshake takes several round trips on the bus, so it does not
\* end before the link control thread, which needs only the processor, has
\* called wlh_eth_transport_alive.  The core does not look at s_transport_dead.
SessionReady ==
    /\ core = "up" /\ ~sess /\ linkPc # "alive"
    /\ sess' = TRUE /\ hostView' = "unknown" /\ lost' = FALSE
    /\ UNCHANGED <<vars, phyVars, linkVars>>

SessionEnds ==
    /\ sess' = FALSE
    /\ UNCHANGED <<vars, phyVars, linkVars, hostView, lost>>

\* wlh_eth_get_info: may see the link thread's variables between two of its
\* assignments.
GetInfo ==
    /\ sess /\ core = "up"
    /\ hostView' = IF up THEN mode ELSE "down"
    /\ lost' = FALSE
    /\ UNCHANGED <<vars, phyVars, linkVars, sess>>

\* The steps of LinkRestart; the core that is stopped has no session.
Restart ==
    /\ \/ TransportDead \/ SendEvent \/ LinkControl
       \/ RxFromCoreCheck \/ RxFromCoreArm \/ TxCompleteScan
       \/ EnterCore("worker") \/ LeaveCore("worker")
    /\ sess' = (sess /\ core' = "up")
    /\ UNCHANGED <<phyVars, linkVars, hostView, lost>>

EthNext ==
    \/ LinkThread \/ Restart
    \/ SessionReady \/ SessionEnds \/ GetInfo
    \/ \E p \in Modes \cup {"down"} : PhyChanges(p)

EthSpec == EthInit /\ [][EthNext]_ethVars

\* The threads get the processor, calls into the core return (LinkRestart), and
\* the host asks once after it has connected.
EthFairSpec ==
    /\ EthSpec
    /\ WF_ethVars(LinkThread)
    /\ WF_ethVars(Restart /\ SendEvent) /\ WF_ethVars(Restart /\ LinkControl)
    /\ WF_ethVars(Restart /\ RxFromCoreArm) /\ SF_ethVars(Restart /\ TxCompleteScan)
    /\ WF_ethVars(Restart /\ LeaveCore("worker"))
    /\ WF_ethVars(hostView = "unknown" /\ GetInfo)

------------------------------------------------------------------------------
(* Properties *)

\* If what a connected host was told differs from what the link thread has seen,
\* the thread is still to report it, whatever the order of the report's tests, the
\* session's begin and GET_INFO.  The exception is a report the core did not
\* accept.
HostIsTold ==
    sess /\ ~dead /\ ~lost /\ hostView # "unknown" /\ hostView # last
        => pollPc \in {"up", "mode", "report", "diag", "send"}

\* Between two polls the MAC runs in the mode the host is told.
MacRunsAsReported == pollPc = "poll" /\ up => mac = mode

\* "A host that connects later learns the current state through GET_INFO, so
\* nothing is lost by gating" (eth_backend.c:415-416): MAC, published state and
\* the host's view agree unless the link thread is on its way.
NothingLostByGating == HostIsTold /\ MacRunsAsReported

\* A host whose session lasts learns the state of a link that has settled.
HostLearns ==
    (sess /\ hostView # phy) ~> (hostView = phy \/ ~sess \/ dead \/ lost)
==============================================================================
