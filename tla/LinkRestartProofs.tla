-------------------------- MODULE LinkRestartProofs --------------------------
(***************************************************************************)
(* Proofs about LinkRestart: while restarts do not overlap, the ETH        *)
(* backend never touches a core that is stopped or being stopped.  And     *)
(* about EthLink: it implements LinkRestart, and the host's view of the    *)
(* link is never stale unless the link thread is about to correct it,      *)
(* whatever restarts overlap.                                              *)
(***************************************************************************)
EXTENDS EthLink, TLAPS

\* A reset is under way from wlh_eth_transport_dead to the end of the restart.
UnderWay == txPc = "send" \/ event \/ linkPc # "wait"

\* The flag is up as long as a reset is under way, and only one is: the tx
\* thread, the event and the link control thread take turns.
FlagInv ==
    /\ UnderWay => dead
    /\ txPc = "send" => ~event /\ linkPc = "wait"
    /\ event => linkPc = "wait"

\* Once the settle delay runs, all that can still reach the core was under way
\* when it began.
SettleInv ==
    linkPc = "settle" =>
        /\ calls \subseteq old
        /\ coreTask = "checked" => "check" \in old
        /\ inFlight => "slot" \in old

\* The phases of the restart and the state of the core.
CoreInv ==
    /\ core # "up" => /\ dead /\ calls = {}
                      /\ coreTask = "idle" /\ ~inFlight
    /\ linkPc = "stop" => core # "up"
    /\ linkPc = "alive" => core = "up" /\ ~failed
    /\ ~UnderWay => (dead <=> failed)

IInv == TypeOK /\ (~overlapped => FlagInv /\ SettleInv /\ CoreInv)

LEMMA TypeInit == Init => TypeOK
<1>1. 0 \in 0 .. MaxResets BY RestartAssumption
<1> QED BY <1>1 DEF Init, TypeOK, Users

LEMMA TypeStep == TypeOK /\ [Next]_vars => TypeOK'
<1> SUFFICES ASSUME TypeOK, [Next]_vars PROVE TypeOK'
    OBVIOUS
<1>0. MaxResets \in Nat BY RestartAssumption
<1> USE DEF TypeOK, Users
<1>1. CASE TransportDead
  <2>1. resets' \in 0 .. MaxResets BY <1>0, <1>1 DEF TransportDead
  <2> QED BY <1>1, <2>1 DEF TransportDead
<1>2. CASE SendEvent BY <1>2 DEF SendEvent
<1>3. CASE RecvEvent BY <1>3 DEF RecvEvent
<1>4. CASE SettleEnds BY <1>4 DEF SettleEnds
<1>5. CASE StopReturns \/ StopFailed BY <1>5 DEF StopReturns, StopFailed
<1>6. CASE StartOk BY <1>6 DEF StartOk
<1>7. CASE StartFailed BY <1>7 DEF StartFailed
<1>8. CASE TransportAlive BY <1>8 DEF TransportAlive
<1>9. CASE RxFromCoreCheck BY <1>9 DEF RxFromCoreCheck
<1>10. CASE RxFromCoreArm BY <1>10 DEF RxFromCoreArm
<1>11. CASE TxCompleteScan BY <1>11 DEF TxCompleteScan
<1>12. CASE \E u \in Users : EnterCore(u) BY <1>12 DEF EnterCore
<1>13. CASE \E u \in Users : LeaveCore(u) BY <1>13 DEF LeaveCore
<1>14. CASE UNCHANGED vars BY <1>14 DEF vars
<1> QED BY <1>1, <1>2, <1>3, <1>4, <1>5, <1>6, <1>7, <1>8, <1>9, <1>10,
           <1>11, <1>12, <1>13, <1>14 DEF Next, LinkControl, EthBackend

\* The state keeps to its types, overlapping restarts included.
THEOREM LinkTypeCorrect == Spec => []TypeOK
<1> QED BY TypeInit, TypeStep, PTL DEF Spec

LEMMA InvInit == Init => IInv
BY TypeInit DEF Init, IInv, FlagInv, SettleInv, CoreInv, UnderWay

LEMMA InvStep == IInv /\ [Next]_vars => IInv'
<1> SUFFICES ASSUME IInv, [Next]_vars PROVE IInv'
    OBVIOUS
<1>0. TypeOK' BY TypeStep DEF IInv
<1> USE DEF IInv, TypeOK, FlagInv, SettleInv, CoreInv, UnderWay, Users
<1>1. CASE TransportDead BY <1>0, <1>1 DEF TransportDead
<1>2. CASE SendEvent BY <1>0, <1>2 DEF SendEvent
<1>3. CASE RecvEvent BY <1>0, <1>3 DEF RecvEvent
<1>4. CASE SettleEnds BY <1>0, <1>4 DEF SettleEnds
<1>5. CASE StopReturns \/ StopFailed BY <1>0, <1>5 DEF StopReturns, StopFailed
<1>6. CASE StartOk BY <1>0, <1>6 DEF StartOk
<1>7. CASE StartFailed BY <1>0, <1>7 DEF StartFailed
<1>8. CASE TransportAlive BY <1>0, <1>8 DEF TransportAlive
<1>9. CASE RxFromCoreCheck BY <1>0, <1>9 DEF RxFromCoreCheck
<1>10. CASE RxFromCoreArm BY <1>0, <1>10 DEF RxFromCoreArm
<1>11. CASE TxCompleteScan BY <1>0, <1>11 DEF TxCompleteScan
<1>12. CASE \E u \in Users : EnterCore(u) BY <1>0, <1>12 DEF EnterCore
<1>13. CASE \E u \in Users : LeaveCore(u) BY <1>0, <1>13 DEF LeaveCore
<1>14. CASE UNCHANGED vars BY <1>0, <1>14 DEF vars
<1> QED BY <1>1, <1>2, <1>3, <1>4, <1>5, <1>6, <1>7, <1>8, <1>9, <1>10,
           <1>11, <1>12, <1>13, <1>14 DEF Next, LinkControl, EthBackend

\* While no reset comes during the restart for an earlier one, no thread of the
\* ETH backend is inside the core from the moment wlh_coproc_stop begins until
\* wlh_coproc_start has succeeded.
THEOREM RestartIsSafe == Spec => []NoUseAfterStopInTurn
<1>1. IInv => NoUseAfterStopInTurn
    BY DEF IInv, CoreInv, NoUseAfterStopInTurn, NoUseAfterStop
<1> QED BY InvInit, InvStep, <1>1, PTL DEF Spec

\* With the same proviso, whenever the link control thread rests and no reset is
\* on its way, s_transport_dead is set exactly if the last restart failed in its
\* stop or its start, and a backend that is connected has a running core.
THEOREM RestartIsConsistent == Spec => []AtRestConsistent
<1>1. IInv => AtRestConsistent
    BY DEF IInv, TypeOK, FlagInv, CoreInv, UnderWay, AtRestConsistent
<1> QED BY InvInit, InvStep, <1>1, PTL DEF Spec

------------------------------------------------------------------------------
(* EthLink *)

\* A step of the link thread, the host or the PHY is a step of LinkRestart's
\* "link" user or leaves its state alone.
LEMMA EthStepIsRestartStep == [EthNext]_ethVars => [Next]_vars
<1> SUFFICES ASSUME [EthNext]_ethVars PROVE [Next]_vars
    OBVIOUS
<1>1. CASE LinkThread
  <2>1. "link" \in Users BY DEF Users
  <2>2. CASE Poll \/ PublishUp \/ PublishMode \/ ReportDead \/ ReportReady \/ Wake
    BY <2>2 DEF Poll, PublishUp, PublishMode, ReportDead, ReportReady, Wake
  <2>3. CASE ReportEnter
    BY <2>1, <2>3 DEF ReportEnter, Next, EthBackend
  <2>4. CASE ReportGated \/ ReportSend \/ ReportFails
    BY <2>1, <2>4 DEF ReportGated, ReportSend, ReportFails, Next, EthBackend
  <2> QED BY <1>1, <2>2, <2>3, <2>4 DEF LinkThread
<1>2. CASE Restart
  <2>1. "worker" \in Users BY DEF Users
  <2> QED BY <1>2, <2>1 DEF Restart, Next, EthBackend
<1>3. CASE SessionReady \/ SessionEnds \/ GetInfo
  BY <1>3 DEF SessionReady, SessionEnds, GetInfo
<1>4. CASE \E p \in Modes \cup {"down"} : PhyChanges(p)
  BY <1>4 DEF PhyChanges
<1>5. CASE UNCHANGED ethVars BY <1>5 DEF ethVars
<1> QED BY <1>1, <1>2, <1>3, <1>4, <1>5 DEF EthNext

\* The link thread with its polls and reports, the host and the PHY do to the
\* restart only what LinkRestart lets a user of the core do.
THEOREM EthImplementsRestart == EthSpec => Spec
<1>1. EthInit => Init BY DEF EthInit
<1> QED BY <1>1, EthStepIsRestartStep, PTL DEF EthSpec, Spec

\* So the restart stays safe and consistent while the link thread reports changes
\* to hosts that come and go.
THEOREM EthRestartIsSafe == EthSpec => [](NoUseAfterStopInTurn /\ AtRestConsistent)
<1> QED BY EthImplementsRestart, RestartIsSafe, RestartIsConsistent, PTL

\* A core that is stopped has no session, and a new one waits for
\* wlh_eth_transport_alive: when the flag falls there is no host to miss what was
\* suppressed while it was up.
SessionInv ==
    /\ sess => core = "up"
    /\ linkPc = "alive" => ~sess

\* What the link thread has published follows what it has seen, up to the
\* assignments it has still to make.
PublishedInv ==
    /\ last # "down" => mac = last
    /\ pollPc # "up" => (up <=> last # "down")
    /\ pollPc \notin {"up", "mode"} /\ up => mode = last

EthInv ==
    /\ up \in BOOLEAN /\ sess \in BOOLEAN /\ dead \in BOOLEAN /\ lost \in BOOLEAN
    /\ pollPc \in {"poll", "up", "mode", "report", "diag", "send", "wake"}
    /\ SessionInv /\ PublishedInv /\ HostIsTold

LEMMA EthInvStep == EthInv /\ [EthNext]_ethVars => EthInv'
<1> SUFFICES ASSUME EthInv, [EthNext]_ethVars PROVE EthInv'
    OBVIOUS
<1> USE DEF EthInv, SessionInv, PublishedInv, HostIsTold
<1>1. CASE LinkThread
  <2> USE DEF vars, phyVars, hostVars
  <2>1. CASE Poll BY <2>1 DEF Poll, Changed, MacMode
  <2>2. CASE PublishUp BY <2>2 DEF PublishUp
  <2>3. CASE PublishMode BY <2>3 DEF PublishMode, ModeOf
  <2>4. CASE ReportEnter BY <2>4 DEF ReportEnter, EnterCore
  <2>5. CASE ReportDead BY <2>5 DEF ReportDead
  <2>6. CASE ReportGated BY <2>6 DEF ReportGated, LeaveCore
  <2>7. CASE ReportReady BY <2>7 DEF ReportReady
  <2>8. CASE ReportSend BY <2>8 DEF ReportSend, LeaveCore
  <2>9. CASE ReportFails BY <2>9 DEF ReportFails, LeaveCore
  <2>10. CASE Wake BY <2>10 DEF Wake
  <2> QED BY <1>1, <2>1, <2>2, <2>3, <2>4, <2>5, <2>6, <2>7, <2>8, <2>9, <2>10
             DEF LinkThread
<1>2. CASE Restart
  <2>0. sess' = (sess /\ core' = "up") /\ UNCHANGED <<linkVars, hostView, lost>>
    BY <1>2 DEF Restart
  <2> USE DEF linkVars
  <2>1. CASE TransportDead BY <2>0, <2>1 DEF TransportDead
  <2>2. CASE SendEvent BY <2>0, <2>2 DEF SendEvent
  <2>3. CASE RecvEvent BY <2>0, <2>3 DEF RecvEvent
  <2>4. CASE SettleEnds BY <2>0, <2>4 DEF SettleEnds
  <2>5. CASE StopReturns \/ StopFailed BY <2>0, <2>5 DEF StopReturns, StopFailed
  <2>6. CASE StartOk BY <2>0, <2>6 DEF StartOk
  <2>7. CASE StartFailed BY <2>0, <2>7 DEF StartFailed
  <2>8. CASE TransportAlive BY <2>0, <2>8 DEF TransportAlive
  <2>9. CASE RxFromCoreCheck \/ RxFromCoreArm \/ TxCompleteScan
    BY <2>0, <2>9 DEF RxFromCoreCheck, RxFromCoreArm, TxCompleteScan
  <2>10. CASE EnterCore("worker") \/ LeaveCore("worker")
    BY <2>0, <2>10 DEF EnterCore, LeaveCore
  <2> QED BY <1>2, <2>1, <2>2, <2>3, <2>4, <2>5, <2>6, <2>7, <2>8, <2>9, <2>10
             DEF Restart, LinkControl
<1>3. CASE SessionReady BY <1>3 DEF SessionReady, vars, phyVars, linkVars
<1>4. CASE SessionEnds BY <1>4 DEF SessionEnds, vars, phyVars, linkVars
<1>5. CASE GetInfo BY <1>5 DEF GetInfo, vars, phyVars, linkVars
<1>6. CASE \E p \in Modes \cup {"down"} : PhyChanges(p)
  BY <1>6 DEF PhyChanges, vars, linkVars, hostVars
<1>7. CASE UNCHANGED ethVars
  BY <1>7 DEF ethVars, vars, phyVars, linkVars, hostVars
<1> QED BY <1>1, <1>2, <1>3, <1>4, <1>5, <1>6, <1>7 DEF EthNext

\* Nothing is lost by gating the report on the session and on the transport: the
\* MAC, the published state and what the host was told agree, or the link thread is
\* about to report, for any number of resets, overlapping restarts included.
THEOREM GatingLosesNothing == EthSpec => []NothingLostByGating
<1>1. EthInit => EthInv
  BY DEF EthInit, Init, EthInv, SessionInv, PublishedInv, HostIsTold
<1>2. EthInv => NothingLostByGating
  BY DEF EthInv, PublishedInv, NothingLostByGating, MacRunsAsReported
<1> QED BY <1>1, <1>2, EthInvStep, PTL DEF EthSpec
==============================================================================
