----------------------------- MODULE UsbTxProofs -----------------------------
(***************************************************************************)
(* Proofs about UsbTx, for every set of frames, queue depth and semaphore  *)
(* limit.  The inductive invariant is built in layers: types, ownership    *)
(* (exactly once), wakeups, and the fate of the current transfer.          *)
(***************************************************************************)
EXTENDS UsbTx, TLAPS

\* The thread has a job exactly in the steps between dequeue and completion; an
\* endpoint that answers, or has a packet out, has packets of a frame left.
JobInv ==
    /\ HoldsJob <=> job # NoFrame
    /\ epIn = "armed" \/ wire => epFrame # NoFrame /\ left > 0
    /\ wire => epIn # "disabled"

\* What makes NoLostWakeup inductive: also on the way to the sleep, work that
\* the thread will not look at again before sleeping has left a token.
WakeInv ==
    /\ pc = "idle" /\ (ctl # <<>> \/ dat # <<>>) => txWakeup > 0 \/ waking > 0
    /\ pc = "recvDat" /\ ctl # <<>> => txWakeup > 0 \/ waking > 0
    /\ pc \in {"idle", "recvCtl", "recvDat"} /\ resetPending => txWakeup > 0

\* Control priority: the count of overtaking data frames is only positive
\* while a control frame waits, and the thread never looks at the data queue
\* with a positive count.
OvertakeInv ==
    /\ overtaken <= 1
    /\ overtaken > 0 => ctl # <<>>
    /\ pc = "recvDat" => overtaken = 0

\* A device that is configured, or a job past the gate, has seen the initial
\* SET_CONFIGURATION, so no later one clears reset_pending.
SeenInv ==
    /\ configured => initialSeen
    /\ pc \in {"drop", "write", "wait", "taken"} => initialSeen
    /\ dead # {} => initialSeen

\* A job past the gate with a reset pending meets a closed endpoint.
WindowInv == CheckedWindow /\ resetPending => epIn = "disabled"

\* The transfer in progress.  One that was not started over leftovers belongs to
\* the job until the wait ends, and only its last packet, or a reset, ends it.
TransferInv ==
    /\ ~loose /\ (epIn = "armed" \/ wire) =>
        /\ pc \in {"wait", "halt"} /\ job = epFrame
        /\ pc = "wait" => txDone = 0
    /\ loose /\ pc \in {"wait", "taken"} => job \in unsure
    /\ pc = "wait" /\ txDone > 0 => job \in delivered \cup unsure \/ resetPending
    /\ pc = "taken" => job \in delivered \cup unsure \/ resetPending
    /\ pc = "finishOk" => job \in delivered \cup unsure
    /\ sent \subseteq delivered \cup unsure

\* A frame of a dead session outlives the handling of the reset only in the
\* queues the flush has yet to empty.
DeadInv ==
    /\ epIn = "armed" \/ wire => epFrame \notin dead
    /\ \A f \in dead : InTransport(f)
    /\ ~resetPending =>
        \A f \in dead :
            \/ pc = "resetFlushCtl" /\ (InQueue(ctl, f) \/ InQueue(dat, f))
            \/ pc = "resetFlushDat" /\ InQueue(dat, f)

IInv == /\ TypeOK /\ JobInv /\ ExactlyOnce /\ WakeInv /\ OvertakeInv
        /\ SeenInv /\ TransferInv /\ WindowInv /\ DeadInv

\* The write of a frame of any length, and the interrupts of the IN endpoint.
Writes == \E n \in 1 .. MaxXfer : StartWrite(n)
InIrq == InData \/ InAckLost \/ InAck

------------------------------------------------------------------------------
(* Semaphores and queues *)

\* A release leaves a value in range and at least one token.
LEMMA SemReleaseFacts ==
    ASSUME NEW v \in SemValue
    PROVE  SemRelease(v) \in SemValue /\ SemRelease(v) > 0
BY SemMaxAssumption DEF SemValue, SemRelease

\* A non-blocking take leaves a value in range.
LEMMA SemTryTakeFacts ==
    ASSUME NEW v \in SemValue
    PROVE  SemTryTake(v) \in SemValue
BY SemMaxAssumption DEF SemValue, SemTryTake

\* Appending a frame that is not queued adds it and nothing else.
LEMMA AppendFacts ==
    ASSUME NEW S, NEW q \in Seq(S), NEW f \in S
    PROVE  /\ Append(q, f) \in Seq(S)
           /\ Len(Append(q, f)) = Len(q) + 1
           /\ Append(q, f) # <<>>
           /\ \A g : InQueue(Append(q, f), g) <=> InQueue(q, g) \/ g = f
           /\ NoRepeats(q) /\ ~InQueue(q, f) => NoRepeats(Append(q, f))
<1>1. /\ Append(q, f) \in Seq(S)
      /\ Len(Append(q, f)) = Len(q) + 1
      /\ \A i \in 1 .. Len(q) : Append(q, f)[i] = q[i]
      /\ Append(q, f)[Len(q) + 1] = f
      /\ Len(q) \in Nat
  OBVIOUS
<1>2. Append(q, f) # <<>>
  BY <1>1
<1>3. \A g : InQueue(Append(q, f), g) <=> InQueue(q, g) \/ g = f
  BY <1>1 DEF InQueue
<1>4. ASSUME NoRepeats(q), ~InQueue(q, f)
      PROVE  NoRepeats(Append(q, f))
  BY <1>1, <1>4 DEF InQueue, NoRepeats
<1> QED
  BY <1>1, <1>2, <1>3, <1>4

\* Taking the head of a queue without repeats removes it and nothing else.
LEMMA TailFacts ==
    ASSUME NEW S, NEW q \in Seq(S), q # <<>>
    PROVE  /\ Head(q) \in S
           /\ Tail(q) \in Seq(S)
           /\ Len(Tail(q)) = Len(q) - 1
           /\ InQueue(q, Head(q))
           /\ NoRepeats(q) =>
                /\ NoRepeats(Tail(q))
                /\ \A g : InQueue(Tail(q), g) <=> InQueue(q, g) /\ g # Head(q)
<1>1. /\ Head(q) \in S
      /\ Tail(q) \in Seq(S)
      /\ Len(q) \in Nat /\ Len(q) > 0
      /\ Len(Tail(q)) = Len(q) - 1
      /\ \A i \in 1 .. Len(q) - 1 : Tail(q)[i] = q[i + 1]
      /\ Head(q) = q[1]
  OBVIOUS
<1>2. InQueue(q, Head(q))
  BY <1>1 DEF InQueue
<1>3. ASSUME NoRepeats(q)
      PROVE  NoRepeats(Tail(q))
  BY <1>1, <1>3 DEF NoRepeats
<1>4. ASSUME NoRepeats(q), NEW g
      PROVE  InQueue(Tail(q), g) <=> InQueue(q, g) /\ g # Head(q)
  <2>1. ASSUME InQueue(Tail(q), g)
        PROVE  InQueue(q, g) /\ g # Head(q)
    BY <1>1, <1>4, <2>1 DEF InQueue, NoRepeats
  <2>2. ASSUME InQueue(q, g), g # Head(q)
        PROVE  InQueue(Tail(q), g)
    <3>1. PICK i \in 1 .. Len(q) : q[i] = g
      BY <2>2 DEF InQueue
    <3>2. i - 1 \in 1 .. Len(Tail(q)) /\ Tail(q)[i - 1] = g
      BY <1>1, <2>2, <3>1
    <3> QED
      BY <3>2 DEF InQueue
  <2> QED
    BY <2>1, <2>2
<1> QED
  BY <1>1, <1>2, <1>3, <1>4

------------------------------------------------------------------------------
(* Types *)

USE FramesAssumption, DepthAssumption, FastHostAssumption

\* Every step preserves the types and the bookkeeping of the current job.
LEMMA TypeStep ==
    ASSUME TypeOK, JobInv, [Next]_vars
    PROVE  TypeOK' /\ JobInv'
<1> USE DEF TypeOK, JobInv, HoldsJob, PcStates, Frames
<1>1. ASSUME NEW f \in Frames, Submit(f) PROVE TypeOK' /\ JobInv'
  <2>1. CASE f \in Control /\ MqHasRoom(ctl, ControlDepth)
             /\ ctl' = Append(ctl, f) /\ dat' = dat
    BY <1>1, <2>1, AppendFacts DEF Submit, usbVars, epVars, MqHasRoom
  <2>2. CASE f \in Data /\ MqHasRoom(dat, DataDepth)
             /\ dat' = Append(dat, f) /\ ctl' = ctl
    BY <1>1, <2>2, AppendFacts DEF Submit, usbVars, epVars, MqHasRoom
  <2> QED
    BY <1>1, <2>1, <2>2 DEF Submit
<1>2. ASSUME SubmitWake PROVE TypeOK' /\ JobInv'
  BY <1>2, SemReleaseFacts DEF SubmitWake, queueVars, usbVars, epVars, ghostVars
<1>3. ASSUME TakeWakeup PROVE TypeOK' /\ JobInv'
  BY <1>3, SemMaxAssumption
     DEF TakeWakeup, SemValue, queueVars, usbVars, epVars, ghostVars
<1>4. ASSUME CheckReset PROVE TypeOK' /\ JobInv'
  BY <1>4 DEF CheckReset, queueVars, epVars, ghostVars
<1>5. ASSUME FlushCtl PROVE TypeOK' /\ JobInv'
  <2>1. CASE ctl # <<>>
    <3>1. /\ Head(ctl) \in Control /\ Tail(ctl) \in Seq(Control)
          /\ Len(Tail(ctl)) <= ControlDepth
      BY <2>1, TailFacts
    <3>2. /\ ctl' = Tail(ctl) /\ overtaken' = 0
          /\ UNCHANGED <<dat, waking, txDone, txWakeup, gate, resetPending,
                         configured, initialSeen, pc, job, epIn, epFrame, left,
                         wire, delivered, loose, unsure, sessionDirty, sent>>
          /\ due' = [due EXCEPT ![Head(ctl)] = @ - 1]
          /\ dead' = dead \ {Head(ctl)}
      BY <1>5, <2>1 DEF FlushCtl, Complete, usbVars, epVars
    <3> QED
      BY <3>1, <3>2
  <2>2. CASE ctl = <<>>
    BY <1>5, <2>2 DEF FlushCtl, usbVars, epVars, ghostVars
  <2> QED
    BY <2>1, <2>2
<1>6. ASSUME FlushDat PROVE TypeOK' /\ JobInv'
  <2>1. CASE dat # <<>>
    <3>1. /\ Head(dat) \in Data /\ Tail(dat) \in Seq(Data)
          /\ Len(Tail(dat)) <= DataDepth
      BY <2>1, TailFacts
    <3>2. /\ dat' = Tail(dat)
          /\ UNCHANGED <<ctl, waking, txDone, txWakeup, gate, resetPending,
                         configured, initialSeen, pc, job, epIn, epFrame, left,
                         wire, delivered, loose, unsure, sessionDirty, overtaken, sent>>
          /\ due' = [due EXCEPT ![Head(dat)] = @ - 1]
          /\ dead' = dead \ {Head(dat)}
      BY <1>6, <2>1 DEF FlushDat, Complete, usbVars, epVars
    <3> QED
      BY <3>1, <3>2
  <2>2. CASE dat = <<>> /\ pc = "resetFlushDat"
    BY <1>6, <2>2 DEF FlushDat, usbVars, epVars
  <2>3. CASE dat = <<>> /\ pc = "haltFlushDat"
    BY <1>6, <2>3 DEF FlushDat, usbVars, epVars
  <2> QED
    BY <1>6, <2>1, <2>2, <2>3 DEF FlushDat
<1>7. ASSUME RecvControl PROVE TypeOK' /\ JobInv'
  <2>1. CASE ctl # <<>>
    <3>1. /\ Head(ctl) \in Control /\ Tail(ctl) \in Seq(Control)
          /\ Len(Tail(ctl)) <= ControlDepth
      BY <2>1, TailFacts
    <3>2. /\ ctl' = Tail(ctl) /\ job' = Head(ctl) /\ overtaken' = 0
          /\ pc' = "gate"
          /\ UNCHANGED <<dat, waking, txDone, txWakeup, gate, resetPending,
                         configured, initialSeen, epIn, epFrame, left, wire, due,
                         sent, delivered, dead, loose, unsure, sessionDirty>>
      BY <1>7, <2>1 DEF RecvControl, usbVars, epVars
    <3>3. Head(ctl) # NoFrame /\ Head(ctl) \in Frames
      BY <3>1
    <3> QED
      BY <3>1, <3>2, <3>3
  <2>2. CASE ctl = <<>>
    BY <1>7, <2>2 DEF RecvControl, usbVars, epVars
  <2> QED
    BY <2>1, <2>2
<1>8. ASSUME RecvData PROVE TypeOK' /\ JobInv'
  <2>1. CASE dat # <<>>
    <3>1. /\ Head(dat) \in Data /\ Tail(dat) \in Seq(Data)
          /\ Len(Tail(dat)) <= DataDepth
      BY <2>1, TailFacts
    <3>2. /\ dat' = Tail(dat) /\ job' = Head(dat) /\ overtaken' \in Nat
          /\ pc' = "gate"
          /\ UNCHANGED <<ctl, waking, txDone, txWakeup, gate, resetPending,
                         configured, initialSeen, epIn, epFrame, left, wire, due,
                         sent, delivered, dead, loose, unsure, sessionDirty>>
      BY <1>8, <2>1 DEF RecvData, usbVars, epVars
    <3>3. Head(dat) # NoFrame /\ Head(dat) \in Frames
      BY <3>1
    <3> QED
      BY <3>1, <3>2, <3>3
  <2>2. CASE dat = <<>>
    BY <1>8, <2>2 DEF RecvData, usbVars, epVars
  <2> QED
    BY <2>1, <2>2
<1>9. ASSUME GateClosed \/ GateTake PROVE TypeOK' /\ JobInv'
  <2>1. CASE GateClosed
    BY <2>1 DEF GateClosed, queueVars, usbVars, epVars, ghostVars
  <2>2. CASE GateTake
    <3>1. gate' \in SemValue
      BY <2>2, SemMaxAssumption DEF GateTake, SemValue
    <3> QED
      BY <2>2, <3>1 DEF GateTake, queueVars, usbVars, epVars, ghostVars
  <2> QED
    BY <1>9, <2>1, <2>2
<1>10. ASSUME GatePassed PROVE TypeOK' /\ JobInv'
  BY <1>10 DEF GatePassed, Complete, queueVars, usbVars, epVars
<1>11. ASSUME DropStale PROVE TypeOK' /\ JobInv'
  BY <1>11, SemTryTakeFacts DEF DropStale, queueVars, usbVars, epVars, ghostVars
<1>12. ASSUME Writes PROVE TypeOK' /\ JobInv'
  <2>1. PICK n \in 1 .. MaxXfer : StartWrite(n)
    BY <1>12 DEF Writes
  <2>2. n \in 0 .. MaxXfer /\ n > 0
    OBVIOUS
  <2>3. CASE epIn = "disabled" \/ job \in Unaligned
    BY <2>1, <2>3 DEF StartWrite, queueVars, usbVars, epVars
  <2>4. CASE ~(epIn = "disabled" \/ job \in Unaligned)
    <3>1. /\ pc = "write" /\ pc' = "wait" /\ epIn' = "armed" /\ epFrame' = job /\ left' = n
          /\ loose' = Leftovers /\ unsure' = IF Leftovers THEN unsure \cup {job} ELSE unsure
          /\ UNCHANGED <<ctl, dat, waking, txDone, txWakeup, gate, resetPending, configured,
                         initialSeen, job, wire, due, sent, delivered, dead, overtaken,
                         sessionDirty>>
      BY <2>1, <2>4 DEF StartWrite, queueVars, usbVars
    <3>2. Leftovers \in BOOLEAN
      BY DEF Leftovers
    <3>3. job \in Frames /\ job # NoFrame
      BY <3>1
    <3> QED
      BY <2>2, <3>1, <3>2, <3>3
  <2> QED
    BY <2>3, <2>4
<1>13. ASSUME WaitDone PROVE TypeOK' /\ JobInv'
  BY <1>13, SemMaxAssumption
     DEF WaitDone, SemValue, queueVars, usbVars, epVars, ghostVars
<1>14. ASSUME Timeout \/ AfterWait PROVE TypeOK' /\ JobInv'
  BY <1>14 DEF Timeout, AfterWait, queueVars, usbVars, epVars, ghostVars
<1>15. ASSUME HaltIn PROVE TypeOK' /\ JobInv'
  BY <1>15 DEF HaltIn, queueVars, usbVars, ghostVars
<1>16. ASSUME Finish PROVE TypeOK' /\ JobInv'
  BY <1>16 DEF Finish, Complete, queueVars, usbVars, epVars
<1>17. ASSUME InIrq PROVE TypeOK' /\ JobInv'
  <2>1. CASE InData \/ InAckLost
    <3>1. /\ wire' \in BOOLEAN /\ (wire' => epIn = "armed")
          /\ UNCHANGED <<ctl, dat, waking, txDone, txWakeup, gate, resetPending, configured,
                         initialSeen, pc, job, epIn, epFrame, left, due, sent, delivered,
                         dead, loose, unsure, overtaken, sessionDirty>>
      BY <2>1 DEF InData, InAckLost, queueVars, usbVars, ghostVars
    <3> QED
      BY <3>1
  <2>2. CASE InAck
    <3>1. /\ wire /\ ~wire' /\ wire' \in BOOLEAN /\ left' = left - 1
          /\ txDone' \in {txDone, SemRelease(txDone)}
          /\ delivered' \in {delivered, delivered \cup {epFrame}}
          /\ epIn' = IF left > 1 THEN "armed" ELSE "nak"
          /\ UNCHANGED <<ctl, dat, waking, txWakeup, gate, resetPending, configured,
                         initialSeen, pc, job, epFrame, due, sent, dead, loose, unsure,
                         overtaken, sessionDirty>>
      BY <2>2 DEF InAck, queueVars, usbVars
    <3>2. left \in 1 .. MaxXfer /\ epFrame \in Frames
      BY <3>1
    <3>3. left' \in 0 .. MaxXfer /\ (left > 1 => left' > 0)
      BY <3>1, <3>2
    <3>4. txDone' \in SemValue
      BY <3>1, SemReleaseFacts
    <3> QED
      BY <3>1, <3>2, <3>3, <3>4
  <2> QED
    BY <1>17, <2>1, <2>2 DEF InIrq
<1>18. ASSUME BusReset PROVE TypeOK' /\ JobInv'
  <2>1. /\ epIn' = "disabled" /\ left' = 0 /\ ~wire' /\ wire' \in BOOLEAN
        /\ loose' \in BOOLEAN /\ configured' \in BOOLEAN /\ resetPending' \in BOOLEAN
        /\ txDone' = SemRelease(txDone) /\ txWakeup' = SemRelease(txWakeup)
        /\ UNCHANGED <<ctl, dat, waking, gate, initialSeen, pc, job, epFrame, due, sent,
                       delivered, unsure, overtaken>>
    BY <1>18 DEF BusReset, queueVars
  <2>2. dead' \in SUBSET Frames /\ sessionDirty' \in BOOLEAN
    BY <1>18 DEF BusReset
  <2>3. txDone' \in SemValue /\ txWakeup' \in SemValue
    BY <2>1, SemReleaseFacts
  <2> QED
    BY <2>1, <2>2, <2>3
<1>19. ASSUME Configured PROVE TypeOK' /\ JobInv'
  BY <1>19, SemReleaseFacts DEF Configured, queueVars, ghostVars
<1>20. ASSUME UNCHANGED vars PROVE TypeOK' /\ JobInv'
  BY <1>20 DEF vars, queueVars, usbVars, epVars, ghostVars
<1> QED
  BY <1>1, <1>2, <1>3, <1>4, <1>5, <1>6, <1>7, <1>8, <1>9, <1>10, <1>11,
     <1>12, <1>13, <1>14, <1>15, <1>16, <1>17, <1>18, <1>19, <1>20
     DEF Next, TxThread, Usb, Writes, InIrq

------------------------------------------------------------------------------
(* Ownership *)

\* A queue only holds elements of its own channel.
LEMMA QueueDomain ==
    ASSUME NEW S, NEW q \in Seq(S), NEW g, InQueue(q, g)
    PROVE  g \in S
BY DEF InQueue

\* The steps that move no frame and run no completion.
LEMMA QuietSteps ==
    ASSUME \/ SubmitWake \/ TakeWakeup \/ CheckReset \/ GateClosed \/ GateTake \/ DropStale
           \/ Writes \/ WaitDone \/ Timeout \/ AfterWait \/ HaltIn
           \/ InIrq \/ BusReset \/ Configured \/ UNCHANGED vars
    PROVE  UNCHANGED <<ctl, dat, job, due>>
BY DEF SubmitWake, TakeWakeup, CheckReset, GateClosed, GateTake, DropStale, Writes, StartWrite,
       WaitDone, Timeout, AfterWait, HaltIn, InIrq, InData, InAckLost, InAck, BusReset, Configured,
       vars, queueVars, ghostVars

\* Every step keeps one completion due for each frame in the transport.
LEMMA OwnershipStep ==
    ASSUME TypeOK, JobInv, ExactlyOnce, [Next]_vars
    PROVE  ExactlyOnce'
<1> USE DEF Frames
<1>0. /\ ctl \in Seq(Control) /\ dat \in Seq(Data)
      /\ job \in Frames \cup {NoFrame} /\ due \in [Frames -> Int]
      /\ \A g : InQueue(ctl, g) => g \in Control
      /\ \A g : InQueue(dat, g) => g \in Data
  BY QueueDomain DEF TypeOK
<1>1. ASSUME NEW f \in Frames, Submit(f) PROVE ExactlyOnce'
  <2>1. due' = [due EXCEPT ![f] = @ + 1] /\ job' = job /\ due[f] = 0
    BY <1>1 DEF Submit
  <2>2. ~InQueue(ctl, f) /\ ~InQueue(dat, f) /\ job # f
    BY <2>1 DEF ExactlyOnce, InTransport
  <2>3. CASE f \in Control /\ ctl' = Append(ctl, f) /\ dat' = dat
    <3>1. /\ \A g : InQueue(ctl', g) <=> InQueue(ctl, g) \/ g = f
          /\ NoRepeats(ctl')
      BY <1>0, <2>2, <2>3, AppendFacts DEF ExactlyOnce
    <3> QED
      BY <1>0, <2>1, <2>2, <2>3, <3>1 DEF ExactlyOnce, InTransport
  <2>4. CASE f \in Data /\ dat' = Append(dat, f) /\ ctl' = ctl
    <3>1. /\ \A g : InQueue(dat', g) <=> InQueue(dat, g) \/ g = f
          /\ NoRepeats(dat')
      BY <1>0, <2>2, <2>4, AppendFacts DEF ExactlyOnce
    <3> QED
      BY <1>0, <2>1, <2>2, <2>4, <3>1 DEF ExactlyOnce, InTransport
  <2> QED
    BY <1>1, <2>3, <2>4 DEF Submit
<1>2. ASSUME ctl # <<>>, ctl' = Tail(ctl), dat' = dat
      PROVE  /\ Head(ctl) \in Control
             /\ NoRepeats(ctl')
             /\ InQueue(ctl, Head(ctl)) /\ ~InQueue(dat, Head(ctl))
             /\ job # Head(ctl)
             /\ \A g : InQueue(ctl', g) <=> InQueue(ctl, g) /\ g # Head(ctl)
  BY <1>0, <1>2, TailFacts DEF ExactlyOnce
<1>3. ASSUME dat # <<>>, dat' = Tail(dat), ctl' = ctl
      PROVE  /\ Head(dat) \in Data
             /\ NoRepeats(dat')
             /\ InQueue(dat, Head(dat)) /\ ~InQueue(ctl, Head(dat))
             /\ job # Head(dat)
             /\ \A g : InQueue(dat', g) <=> InQueue(dat, g) /\ g # Head(dat)
  BY <1>0, <1>3, TailFacts DEF ExactlyOnce
<1>4. ASSUME FlushCtl PROVE ExactlyOnce'
  <2>1. CASE ctl # <<>>
    <3>1. /\ ctl' = Tail(ctl) /\ dat' = dat /\ job' = job
          /\ due' = [due EXCEPT ![Head(ctl)] = @ - 1]
      BY <1>4, <2>1 DEF FlushCtl, Complete
    <3> QED
      BY <1>0, <1>2, <2>1, <3>1 DEF ExactlyOnce, InTransport
  <2>2. CASE ctl = <<>>
    <3>1. UNCHANGED <<ctl, dat, job, due>>
      BY <1>4, <2>2 DEF FlushCtl, ghostVars
    <3> QED
      BY <3>1 DEF ExactlyOnce, InTransport
  <2> QED
    BY <2>1, <2>2
<1>5. ASSUME FlushDat PROVE ExactlyOnce'
  <2>1. CASE dat # <<>>
    <3>1. /\ dat' = Tail(dat) /\ ctl' = ctl /\ job' = job
          /\ due' = [due EXCEPT ![Head(dat)] = @ - 1]
      BY <1>5, <2>1 DEF FlushDat, Complete
    <3> QED
      BY <1>0, <1>3, <2>1, <3>1 DEF ExactlyOnce, InTransport
  <2>2. CASE dat = <<>>
    <3>1. UNCHANGED <<ctl, dat, job, due>>
      BY <1>5, <2>2 DEF FlushDat
    <3> QED
      BY <3>1 DEF ExactlyOnce, InTransport
  <2> QED
    BY <2>1, <2>2
<1>6. ASSUME RecvControl PROVE ExactlyOnce'
  <2>1. job = NoFrame /\ due' = due /\ dat' = dat
    BY <1>6 DEF RecvControl, JobInv, HoldsJob
  <2>2. CASE ctl # <<>>
    <3>1. ctl' = Tail(ctl) /\ job' = Head(ctl)
      BY <1>6, <2>2 DEF RecvControl
    <3> QED
      BY <1>0, <1>2, <2>1, <2>2, <3>1 DEF ExactlyOnce, InTransport
  <2>3. CASE ctl = <<>>
    <3>1. ctl' = ctl /\ job' = job
      BY <1>6, <2>3 DEF RecvControl
    <3> QED
      BY <2>1, <3>1 DEF ExactlyOnce, InTransport
  <2> QED
    BY <2>2, <2>3
<1>7. ASSUME RecvData PROVE ExactlyOnce'
  <2>1. job = NoFrame /\ due' = due /\ ctl' = ctl
    BY <1>7 DEF RecvData, JobInv, HoldsJob
  <2>2. CASE dat # <<>>
    <3>1. dat' = Tail(dat) /\ job' = Head(dat)
      BY <1>7, <2>2 DEF RecvData
    <3> QED
      BY <1>0, <1>3, <2>1, <2>2, <3>1 DEF ExactlyOnce, InTransport
  <2>3. CASE dat = <<>>
    <3>1. dat' = dat /\ job' = job
      BY <1>7, <2>3 DEF RecvData
    <3> QED
      BY <2>1, <3>1 DEF ExactlyOnce, InTransport
  <2> QED
    BY <2>2, <2>3
<1>8. ASSUME due' = [due EXCEPT ![job] = @ - 1], job' = NoFrame,
             UNCHANGED <<ctl, dat>>, job # NoFrame
      PROVE  ExactlyOnce'
  BY <1>0, <1>8, FramesAssumption DEF ExactlyOnce, InTransport
<1>9. ASSUME GatePassed PROVE ExactlyOnce'
  <2>1. CASE resetPending
    BY <1>8, <1>9, <2>1 DEF GatePassed, Complete, queueVars, JobInv, HoldsJob
  <2>2. CASE ~resetPending
    <3>1. UNCHANGED <<ctl, dat, job, due>>
      BY <1>9, <2>2 DEF GatePassed, queueVars
    <3> QED
      BY <3>1 DEF ExactlyOnce, InTransport
  <2> QED
    BY <2>1, <2>2
<1>10. ASSUME Finish PROVE ExactlyOnce'
  BY <1>8, <1>10 DEF Finish, Complete, queueVars, JobInv, HoldsJob
<1>11. ASSUME UNCHANGED <<ctl, dat, job, due>> PROVE ExactlyOnce'
  BY <1>11 DEF ExactlyOnce, InTransport
<1> QED
  BY <1>1, <1>4, <1>5, <1>6, <1>7, <1>9, <1>10, <1>11, QuietSteps
     DEF Next, TxThread, Usb, Writes, InIrq

------------------------------------------------------------------------------
(* Wakeups and priority *)

\* Every step keeps a token (or a submitter about to release one) for the work
\* the sleeping thread has not seen.
LEMMA WakeStep ==
    ASSUME TypeOK, WakeInv, [Next]_vars
    PROVE  WakeInv'
<1> USE DEF WakeInv
<1>0. /\ txWakeup \in SemValue /\ txWakeup \in Nat /\ waking \in Nat
      /\ SemRelease(txWakeup) > 0
  BY SemReleaseFacts DEF TypeOK, SemValue
<1>1. ASSUME NEW f \in Frames, Submit(f) PROVE WakeInv'
  <2>1. waking' > 0 /\ UNCHANGED <<pc, txWakeup, resetPending>>
    BY <1>0, <1>1 DEF Submit, usbVars
  <2> QED
    BY <2>1
<1>2. ASSUME SubmitWake PROVE WakeInv'
  <2>1. txWakeup' > 0
    BY <1>0, <1>2 DEF SubmitWake
  <2> QED
    BY <2>1
<1>3. ASSUME FlushCtl \/ FlushDat PROVE WakeInv'
  BY <1>3 DEF FlushCtl, FlushDat
<1>4. ASSUME RecvControl PROVE WakeInv'
  BY <1>4 DEF RecvControl, usbVars
<1>5. ASSUME RecvData PROVE WakeInv'
  BY <1>5 DEF RecvData, usbVars
<1>6. ASSUME CheckReset PROVE WakeInv'
  BY <1>6 DEF CheckReset
<1>7. ASSUME BusReset PROVE WakeInv'
  <2>1. txWakeup' > 0
    BY <1>0, <1>7 DEF BusReset
  <2> QED
    BY <2>1
<1>8. ASSUME Configured PROVE WakeInv'
  <2>1. /\ UNCHANGED <<ctl, dat, waking, txWakeup, pc>>
        /\ resetPending' => resetPending
    BY <1>8 DEF Configured, queueVars
  <2> QED
    BY <2>1
<1>9. ASSUME InIrq \/ UNCHANGED vars PROVE WakeInv'
  BY <1>9 DEF InIrq, InData, InAckLost, InAck, vars, queueVars, usbVars
<1>10. ASSUME \/ TakeWakeup \/ GateClosed \/ GateTake \/ GatePassed \/ DropStale
              \/ Writes \/ WaitDone \/ Timeout \/ AfterWait \/ HaltIn
              \/ Finish
       PROVE  WakeInv'
  BY <1>10 DEF TakeWakeup, GateClosed, GateTake, GatePassed, DropStale, Writes, StartWrite,
               WaitDone, Timeout, AfterWait, HaltIn, Finish
<1> QED
  BY <1>1, <1>2, <1>3, <1>4, <1>5, <1>6, <1>7, <1>8, <1>9, <1>10
     DEF Next, TxThread, Usb, Writes, InIrq

\* Every step keeps the count of overtaking data frames at most one.
LEMMA OvertakeStep ==
    ASSUME TypeOK, OvertakeInv, [Next]_vars
    PROVE  OvertakeInv'
<1> USE DEF OvertakeInv
<1>0. overtaken \in Nat /\ ctl \in Seq(Control)
  BY DEF TypeOK
<1>1. ASSUME NEW f \in Frames, Submit(f) PROVE OvertakeInv'
  <2>1. UNCHANGED <<pc, overtaken>>
    BY <1>1 DEF Submit
  <2>2. CASE f \in Control /\ ctl' = Append(ctl, f)
    BY <1>0, <2>1, <2>2, AppendFacts
  <2>3. CASE ctl' = ctl
    BY <2>1, <2>3
  <2> QED
    BY <1>1, <2>2, <2>3 DEF Submit
<1>2. ASSUME FlushCtl PROVE OvertakeInv'
  <2>1. CASE ctl # <<>>
    <3>1. overtaken' = 0 /\ pc' = pc /\ pc # "recvDat"
      BY <1>2, <2>1 DEF FlushCtl
    <3> QED
      BY <3>1
  <2>2. CASE ctl = <<>>
    <3>1. overtaken' = overtaken /\ ctl' = ctl /\ pc' # "recvDat"
      BY <1>2, <2>2 DEF FlushCtl, ghostVars
    <3> QED
      BY <3>1
  <2> QED
    BY <2>1, <2>2
<1>3. ASSUME FlushDat PROVE OvertakeInv'
  BY <1>3 DEF FlushDat
<1>4. ASSUME RecvControl PROVE OvertakeInv'
  BY <1>0, <1>4 DEF RecvControl
<1>5. ASSUME RecvData PROVE OvertakeInv'
  BY <1>0, <1>5 DEF RecvData
<1>6. ASSUME \/ SubmitWake \/ InIrq \/ BusReset \/ Configured
             \/ UNCHANGED vars
      PROVE  OvertakeInv'
  BY <1>6 DEF SubmitWake, InIrq, InData, InAckLost, InAck, BusReset, Configured, vars, queueVars,
              ghostVars
<1>7. ASSUME \/ TakeWakeup \/ CheckReset \/ GateClosed \/ GateTake \/ GatePassed
             \/ DropStale \/ Writes \/ WaitDone \/ Timeout \/ AfterWait
             \/ HaltIn \/ Finish
      PROVE  OvertakeInv'
  BY <1>7 DEF TakeWakeup, CheckReset, GateClosed, GateTake, GatePassed, DropStale,
              Writes, StartWrite, WaitDone, Timeout, AfterWait, HaltIn, Finish,
              queueVars, ghostVars
<1> QED
  BY <1>1, <1>2, <1>3, <1>4, <1>5, <1>6, <1>7 DEF Next, TxThread, Usb, Writes, InIrq

\* Every step keeps initial_configuration_seen set past the gate.
LEMMA SeenStep ==
    ASSUME TypeOK, SeenInv, [Next]_vars
    PROVE  SeenInv'
<1> USE DEF SeenInv
<1>1. ASSUME \/ \E f \in Frames : Submit(f)
             \/ SubmitWake \/ InIrq \/ UNCHANGED vars
      PROVE  SeenInv'
  BY <1>1 DEF Submit, SubmitWake, InIrq, InData, InAckLost, InAck, vars, usbVars, ghostVars
<1>2. ASSUME FlushCtl \/ FlushDat PROVE SeenInv'
  BY <1>2 DEF FlushCtl, FlushDat, Complete, usbVars, ghostVars
<1>3. ASSUME RecvControl \/ RecvData \/ GatePassed \/ Finish PROVE SeenInv'
  BY <1>3 DEF RecvControl, RecvData, GatePassed, Finish, Complete, usbVars,
              TypeOK
<1>4. ASSUME \/ TakeWakeup \/ CheckReset \/ GateClosed \/ GateTake \/ DropStale
             \/ Writes \/ WaitDone \/ Timeout \/ AfterWait \/ HaltIn
      PROVE  SeenInv'
  BY <1>4 DEF TakeWakeup, CheckReset, GateClosed, GateTake, DropStale, Writes, StartWrite,
              WaitDone, Timeout, AfterWait, HaltIn, usbVars, ghostVars
<1>5. ASSUME BusReset \/ Configured PROVE SeenInv'
  BY <1>5 DEF BusReset, Configured, ghostVars
<1> QED
  BY <1>1, <1>2, <1>3, <1>4, <1>5 DEF Next, TxThread, Usb, Writes, InIrq

------------------------------------------------------------------------------
(* The current transfer *)

\* Every step keeps a transfer genuine that was started without leftovers.
LEMMA TransferStep ==
    ASSUME TypeOK, JobInv, ExactlyOnce, SeenInv, TransferInv, [Next]_vars
    PROVE  TransferInv'
<1> USE DEF TransferInv
<1>0. /\ txDone \in SemValue /\ txDone \in Nat
      /\ SemRelease(txDone) \in Nat /\ SemTryTake(txDone) \in Nat
  BY SemReleaseFacts, SemTryTakeFacts DEF TypeOK, SemValue
<1>1. ASSUME NEW f \in Frames, Submit(f) PROVE TransferInv'
  <2>1. /\ UNCHANGED <<pc, job, epIn, epFrame, wire, txDone, resetPending, loose>>
        /\ sent' = sent \ {f} /\ delivered' = delivered \ {f} /\ unsure' = unsure \ {f}
        /\ due[f] = 0
    BY <1>1 DEF Submit, usbVars, epVars
  <2>2. job # f
    BY <2>1 DEF ExactlyOnce, InTransport
  <2> QED
    BY <2>1, <2>2
<1>2. ASSUME SubmitWake \/ UNCHANGED vars PROVE TransferInv'
  BY <1>2 DEF SubmitWake, vars, queueVars, usbVars, epVars, ghostVars
<1>3. ASSUME FlushCtl \/ FlushDat PROVE TransferInv'
  BY <1>3 DEF FlushCtl, FlushDat, Complete, usbVars, epVars, ghostVars
<1>4. ASSUME TakeWakeup \/ CheckReset \/ RecvControl \/ RecvData \/ GateClosed \/ GateTake
      PROVE  TransferInv'
  BY <1>4 DEF TakeWakeup, CheckReset, RecvControl, RecvData, GateClosed, GateTake,
              usbVars, epVars, ghostVars
<1>5. ASSUME GatePassed PROVE TransferInv'
  BY <1>5 DEF GatePassed, Complete, usbVars, epVars
<1>6. ASSUME DropStale PROVE TransferInv'
  BY <1>6 DEF DropStale, usbVars, epVars, ghostVars
<1>7. ASSUME Writes PROVE TransferInv'
  <2>1. /\ UNCHANGED <<resetPending, txDone, sent, delivered, job, wire>>
        /\ pc = "write"
        /\ \/ pc' = "finishCancelled" /\ UNCHANGED <<epIn, epFrame, loose, unsure>>
           \/ /\ pc' = "wait" /\ epFrame' = job /\ loose' = Leftovers
              /\ unsure' = IF Leftovers THEN unsure \cup {job} ELSE unsure
    BY <1>7 DEF Writes, StartWrite, usbVars, epVars
  <2>2. ~Leftovers => txDone = 0
    BY <1>0 DEF Leftovers
  <2> QED
    BY <1>0, <2>1, <2>2
<1>8. ASSUME WaitDone \/ Timeout PROVE TransferInv'
  BY <1>0, <1>8 DEF WaitDone, Timeout, usbVars, epVars, ghostVars
<1>9. ASSUME AfterWait PROVE TransferInv'
  BY <1>9 DEF AfterWait, usbVars, epVars, ghostVars
<1>10. ASSUME HaltIn PROVE TransferInv'
  BY <1>10 DEF HaltIn, usbVars, TypeOK
<1>11. ASSUME Finish PROVE TransferInv'
  BY <1>11 DEF Finish, Complete, usbVars, epVars
<1>12. ASSUME InData \/ InAckLost PROVE TransferInv'
  BY <1>12 DEF InData, InAckLost, usbVars, ghostVars
<1>13. ASSUME InAck PROVE TransferInv'
  <2>1. /\ UNCHANGED <<pc, job, resetPending, loose, unsure, sent, epFrame>>
        /\ wire /\ ~wire'
    BY <1>13 DEF InAck, usbVars
  <2>2. CASE left > 1
    <3>1. UNCHANGED <<txDone, delivered>>
      BY <1>13, <2>2 DEF InAck
    <3> QED
      BY <2>1, <3>1
  <2>3. CASE ~(left > 1)
    <3>1. /\ epIn' = "nak" /\ txDone' \in Nat
          /\ delivered' = IF loose THEN delivered ELSE delivered \cup {epFrame}
      BY <1>0, <1>13, <2>3 DEF InAck
    <3> QED
      BY <2>1, <3>1 DEF TypeOK
  <2> QED
    BY <2>2, <2>3
<1>14. ASSUME BusReset PROVE TransferInv'
  BY <1>14 DEF BusReset
<1>15. ASSUME Configured PROVE TransferInv'
  <2>1. /\ UNCHANGED <<pc, job, txDone, loose, unsure, sent, delivered, epFrame, wire>>
        /\ epIn' = "nak" /\ ~wire
        /\ resetPending' = (resetPending /\ initialSeen)
    BY <1>15 DEF Configured, ghostVars
  <2>2. pc \in {"wait", "taken"} => resetPending' = resetPending
    BY <2>1 DEF SeenInv, TypeOK
  <2> QED
    BY <2>1, <2>2
<1> QED
  BY <1>1, <1>2, <1>3, <1>4, <1>5, <1>6, <1>7, <1>8, <1>9, <1>10, <1>11,
     <1>12, <1>13, <1>14, <1>15 DEF Next, TxThread, Usb, Writes

\* Every step keeps the endpoint closed under a reset that came after the gate,
\* if the host cannot re-enumerate the device inside the checked window.
LEMMA WindowStep ==
    ASSUME ~FastHost, TypeOK, JobInv, WindowInv, [Next]_vars
    PROVE  WindowInv'
<1> USE DEF WindowInv, CheckedWindow
<1>1. ASSUME \/ \E f \in Frames : Submit(f)
             \/ SubmitWake \/ UNCHANGED vars
      PROVE  WindowInv'
  BY <1>1 DEF Submit, SubmitWake, vars, usbVars, epVars
<1>2. ASSUME FlushCtl \/ FlushDat PROVE WindowInv'
  BY <1>2 DEF FlushCtl, FlushDat, Complete, usbVars, epVars
<1>3. ASSUME \/ TakeWakeup \/ CheckReset \/ RecvControl \/ RecvData \/ GateClosed
             \/ GateTake \/ GatePassed \/ DropStale
      PROVE  WindowInv'
  BY <1>3 DEF TakeWakeup, CheckReset, RecvControl, RecvData, GateClosed, GateTake,
              GatePassed, DropStale, usbVars, epVars
<1>4. ASSUME Writes \/ WaitDone \/ Timeout \/ AfterWait \/ HaltIn \/ Finish
      PROVE  WindowInv'
  BY <1>4 DEF Writes, StartWrite, WaitDone, Timeout, AfterWait, HaltIn, Finish
<1>5. ASSUME InIrq PROVE WindowInv'
  BY <1>5 DEF InIrq, InData, InAckLost, InAck, usbVars, JobInv
<1>6. ASSUME BusReset \/ Configured PROVE WindowInv'
  BY <1>6 DEF BusReset, Configured, TypeOK
<1> QED
  BY <1>1, <1>2, <1>3, <1>4, <1>5, <1>6 DEF Next, TxThread, Usb, Writes, InIrq

\* Every step keeps frames of a dead session off the endpoint.
LEMMA DeadStep ==
    ASSUME TypeOK, JobInv, ExactlyOnce, SeenInv, WindowInv, DeadInv, [Next]_vars
    PROVE  DeadInv'
<1>0. /\ ctl \in Seq(Control) /\ dat \in Seq(Data)
      /\ \A g : InQueue(ctl, g) => g \in Control
      /\ \A g : InQueue(dat, g) => g \in Data
      /\ dead \subseteq Frames
      /\ NoRepeats(ctl) /\ NoRepeats(dat)
  BY QueueDomain DEF TypeOK, ExactlyOnce
<1>1. ASSUME NEW f \in Frames, Submit(f) PROVE DeadInv'
  <2>1. UNCHANGED <<pc, job, epIn, epFrame, wire, resetPending, dead>>
    BY <1>1 DEF Submit, usbVars, epVars
  <2>2. \A g : /\ InQueue(ctl, g) => InQueue(ctl', g)
               /\ InQueue(dat, g) => InQueue(dat', g)
    <3>1. CASE f \in Control /\ ctl' = Append(ctl, f) /\ dat' = dat
      BY <1>0, <3>1, AppendFacts
    <3>2. CASE f \in Data /\ dat' = Append(dat, f) /\ ctl' = ctl
      BY <1>0, <3>2, AppendFacts
    <3> QED
      BY <1>1, <3>1, <3>2 DEF Submit
  <2> QED
    BY <2>1, <2>2 DEF DeadInv, InTransport
<1>2. ASSUME CheckReset PROVE DeadInv'
  <2>1. /\ UNCHANGED <<ctl, dat, job, epIn, epFrame, wire, dead>>
        /\ pc = "check"
        /\ pc' = IF resetPending THEN "resetFlushCtl" ELSE "recvCtl"
    BY <1>2 DEF CheckReset, queueVars, epVars, ghostVars
  <2>2. job = NoFrame
    BY <2>1 DEF JobInv, HoldsJob
  <2>3. \A f \in dead : InQueue(ctl, f) \/ InQueue(dat, f)
    BY <1>0, <2>2, FramesAssumption DEF DeadInv, InTransport
  <2>4. ~resetPending => dead = {}
    BY <2>1 DEF DeadInv
  <2> QED
    BY <2>1, <2>3, <2>4 DEF DeadInv, InTransport
<1>3. ASSUME FlushCtl PROVE DeadInv'
  <2>1. UNCHANGED <<dat, job, epIn, epFrame, wire, resetPending>>
    BY <1>3 DEF FlushCtl, usbVars, epVars
  <2>2. CASE ctl # <<>>
    <3>1. ctl' = Tail(ctl) /\ dead' = dead \ {Head(ctl)} /\ pc' = pc
      BY <1>3, <2>2 DEF FlushCtl, Complete
    <3>2. \A g : InQueue(ctl', g) <=> InQueue(ctl, g) /\ g # Head(ctl)
      BY <1>0, <2>2, <3>1, TailFacts
    <3> QED
      BY <2>1, <3>1, <3>2 DEF DeadInv, InTransport
  <2>3. CASE ctl = <<>>
    <3>1. /\ ctl' = ctl /\ dead' = dead
          /\ pc' = IF pc = "resetFlushCtl" THEN "resetFlushDat"
                   ELSE "haltFlushDat"
          /\ pc \in {"resetFlushCtl", "haltFlushCtl"}
      BY <1>3, <2>3 DEF FlushCtl, ghostVars
    <3>2. \A g : ~InQueue(ctl, g)
      BY <2>3 DEF InQueue
    <3> QED
      BY <2>1, <3>1, <3>2 DEF DeadInv, InTransport
  <2> QED
    BY <2>2, <2>3
<1>4. ASSUME FlushDat PROVE DeadInv'
  <2>1. UNCHANGED <<ctl, job, epIn, epFrame, wire, resetPending>>
    BY <1>4 DEF FlushDat, usbVars, epVars
  <2>2. CASE dat # <<>>
    <3>1. /\ dat' = Tail(dat) /\ dead' = dead \ {Head(dat)} /\ pc' = pc
          /\ pc # "resetFlushCtl"
      BY <1>4, <2>2 DEF FlushDat, Complete
    <3>2. \A g : InQueue(dat', g) <=> InQueue(dat, g) /\ g # Head(dat)
      BY <1>0, <2>2, <3>1, TailFacts
    <3> QED
      BY <2>1, <3>1, <3>2 DEF DeadInv, InTransport
  <2>3. CASE dat = <<>>
    <3>1. dat' = dat /\ dead' = dead /\ pc # "resetFlushCtl"
      BY <1>4, <2>3 DEF FlushDat
    <3>2. \A g : ~InQueue(dat, g)
      BY <2>3 DEF InQueue
    <3> QED
      BY <2>1, <3>1, <3>2 DEF DeadInv, InTransport
  <2> QED
    BY <2>2, <2>3
<1>5. ASSUME RecvControl \/ RecvData PROVE DeadInv'
  <2>1. /\ UNCHANGED <<epIn, epFrame, wire, resetPending, dead>>
        /\ pc \in {"recvCtl", "recvDat"}
    BY <1>5 DEF RecvControl, RecvData, usbVars, epVars
  <2>2. job = NoFrame
    BY <2>1 DEF JobInv, HoldsJob
  <2>3. \A g \in Frames : InTransport(g) => InTransport(g)'
    <3>1. CASE RecvControl /\ ctl # <<>>
      <4>1. ctl' = Tail(ctl) /\ job' = Head(ctl) /\ dat' = dat
        BY <3>1 DEF RecvControl
      <4>2. \A g : InQueue(ctl', g) <=> InQueue(ctl, g) /\ g # Head(ctl)
        BY <1>0, <3>1, <4>1, TailFacts
      <4> QED
        BY <2>2, <4>1, <4>2, FramesAssumption DEF InTransport
    <3>2. CASE RecvData /\ dat # <<>>
      <4>1. dat' = Tail(dat) /\ job' = Head(dat) /\ ctl' = ctl
        BY <3>2 DEF RecvData
      <4>2. \A g : InQueue(dat', g) <=> InQueue(dat, g) /\ g # Head(dat)
        BY <1>0, <3>2, <4>1, TailFacts
      <4> QED
        BY <2>2, <4>1, <4>2, FramesAssumption DEF InTransport
    <3>3. CASE \/ RecvControl /\ ctl = <<>>
               \/ RecvData /\ dat = <<>>
      <4>1. UNCHANGED <<ctl, dat, job>>
        BY <3>3 DEF RecvControl, RecvData
      <4> QED
        BY <4>1 DEF InTransport
    <3> QED
      BY <1>5, <3>1, <3>2, <3>3
  <2>4. ~resetPending => dead = {}
    BY <2>1 DEF DeadInv
  <2> QED
    BY <1>0, <2>1, <2>3, <2>4 DEF DeadInv
<1>6. ASSUME UNCHANGED <<ctl, dat, epIn, epFrame, wire, resetPending>>,
             dead' = dead \ {job}, job' = NoFrame,
             pc \notin {"resetFlushCtl", "resetFlushDat"}
      PROVE  DeadInv'
  <2>1. ~resetPending => dead = {}
    BY <1>6 DEF DeadInv
  <2>2. \A g \in dead' : InTransport(g)'
    BY <1>6 DEF DeadInv, InTransport
  <2> QED
    BY <1>6, <2>1, <2>2 DEF DeadInv
<1>7. ASSUME GatePassed PROVE DeadInv'
  <2>1. CASE resetPending
    BY <1>6, <1>7, <2>1 DEF GatePassed, Complete, queueVars, usbVars, epVars
  <2>2. CASE ~resetPending
    <3>1. /\ UNCHANGED <<ctl, dat, job, epIn, epFrame, wire, resetPending, dead>>
          /\ pc = "gate"
      BY <1>7, <2>2 DEF GatePassed, queueVars, usbVars, epVars
    <3> QED
      BY <2>2, <3>1 DEF DeadInv, InTransport
  <2> QED
    BY <2>1, <2>2
<1>8. ASSUME Finish PROVE DeadInv'
  BY <1>6, <1>8 DEF Finish, Complete, queueVars, usbVars, epVars
<1>9. ASSUME Writes PROVE DeadInv'
  <2>1. /\ UNCHANGED <<ctl, dat, job, resetPending, dead, wire>>
        /\ pc = "write"
        /\ \/ UNCHANGED <<epIn, epFrame>>
           \/ epIn # "disabled" /\ epFrame' = job
    BY <1>9 DEF Writes, StartWrite, queueVars, usbVars, epVars
  <2>2. ~resetPending => dead = {}
    BY <2>1 DEF DeadInv
  <2>3. resetPending => epIn = "disabled"
    BY <2>1 DEF WindowInv, CheckedWindow
  <2> QED
    BY <2>1, <2>2, <2>3 DEF DeadInv, InTransport, JobInv
<1>10. ASSUME \/ SubmitWake \/ TakeWakeup \/ GateClosed \/ GateTake \/ DropStale
              \/ WaitDone \/ Timeout \/ AfterWait
       PROVE  DeadInv'
  <2>1. /\ UNCHANGED <<ctl, dat, job, epIn, epFrame, wire, resetPending, dead>>
        /\ pc' = pc \/ pc \notin {"resetFlushCtl", "resetFlushDat"}
    BY <1>10 DEF SubmitWake, TakeWakeup, GateClosed, GateTake, DropStale, WaitDone,
                 Timeout, AfterWait, queueVars, usbVars, epVars, ghostVars
  <2> QED
    BY <2>1 DEF DeadInv, InTransport
<1>11. ASSUME HaltIn \/ InIrq PROVE DeadInv'
  <2>1. /\ UNCHANGED <<ctl, dat, job, epFrame, resetPending, dead>>
        /\ epIn' = "armed" \/ wire' => epIn = "armed" \/ wire
        /\ pc' = pc \/ pc = "halt"
    BY <1>11 DEF HaltIn, InIrq, InData, InAckLost, InAck, queueVars, usbVars, ghostVars
  <2> QED
    BY <2>1 DEF DeadInv, InTransport
<1>12. ASSUME BusReset PROVE DeadInv'
  <2>1. /\ UNCHANGED <<ctl, dat, job>>
        /\ epIn' = "disabled" /\ ~wire' /\ resetPending' = TRUE
        /\ dead' \subseteq dead \cup {f \in Frames : due[f] > 0}
    BY <1>12 DEF BusReset, queueVars
  <2>2. \A f \in Frames : due[f] > 0 => InTransport(f)
    BY DEF ExactlyOnce
  <2> QED
    BY <2>1, <2>2 DEF DeadInv, InTransport
<1>13. ASSUME Configured PROVE DeadInv'
  <2>1. /\ UNCHANGED <<ctl, dat, job, pc, dead>>
        /\ epIn' = "nak" /\ ~wire'
        /\ resetPending' = (resetPending /\ initialSeen)
    BY <1>13 DEF Configured, queueVars, ghostVars
  <2>2. dead # {} => resetPending' = resetPending
    BY <2>1 DEF SeenInv, TypeOK
  <2> QED
    BY <2>1, <2>2 DEF DeadInv, InTransport
<1>14. ASSUME UNCHANGED vars PROVE DeadInv'
  BY <1>14 DEF DeadInv, InTransport, vars, queueVars, usbVars, epVars,
               ghostVars
<1> QED
  BY <1>1, <1>2, <1>3, <1>4, <1>5, <1>7, <1>8, <1>9, <1>10, <1>11, <1>12,
     <1>13, <1>14 DEF Next, TxThread, Usb, Writes, InIrq

------------------------------------------------------------------------------
(* Theorems *)

\* The part of the invariant that holds whatever the host's speed.
CoreInv == /\ TypeOK /\ JobInv /\ ExactlyOnce /\ WakeInv /\ OvertakeInv
           /\ SeenInv /\ TransferInv

\* wlh_transport_start establishes the whole invariant.
LEMMA InitInv ==
    ASSUME Init
    PROVE  CoreInv /\ WindowInv /\ DeadInv
<1>1. TypeOK /\ JobInv
  <2>1. <<>> \in Seq(Control) /\ <<>> \in Seq(Data) /\ Len(<<>>) = 0
    OBVIOUS
  <2>2. 0 \in SemValue /\ 0 <= ControlDepth /\ 0 <= DataDepth
        /\ 0 \in 0 .. Submitters /\ 0 \in 0 .. MaxXfer
    BY SemMaxAssumption DEF SemValue
  <2>3. [f \in Frames |-> 0] \in [Frames -> Int]
    OBVIOUS
  <2>4. TypeOK
    BY <2>1, <2>2, <2>3 DEF Init, TypeOK, PcStates
  <2>5. JobInv
    BY DEF Init, JobInv, HoldsJob
  <2> QED
    BY <2>4, <2>5
<1>2. ExactlyOnce
  <2>1. \A f : ~InQueue(ctl, f) /\ ~InQueue(dat, f)
    BY DEF Init, InQueue
  <2>2. NoRepeats(ctl) /\ NoRepeats(dat)
    BY DEF Init, NoRepeats
  <2> QED
    BY <2>1, <2>2 DEF Init, ExactlyOnce, InTransport, Frames
<1>3. WakeInv /\ OvertakeInv /\ SeenInv
  BY DEF Init, WakeInv, OvertakeInv, SeenInv
<1>4. TransferInv /\ WindowInv /\ DeadInv
  BY DEF Init, TransferInv, WindowInv, CheckedWindow, DeadInv
<1> QED
  BY <1>1, <1>2, <1>3, <1>4 DEF CoreInv

\* The core invariant holds in every behaviour.
LEMMA CoreInvariant == Spec => []CoreInv
<1>1. Init => CoreInv
  BY InitInv
<1>2. CoreInv /\ [Next]_vars => CoreInv'
  BY TypeStep, OwnershipStep, WakeStep, OvertakeStep, SeenStep, TransferStep DEF CoreInv
<1> QED
  BY <1>1, <1>2, PTL DEF Spec

\* The transmit state is always well typed: in particular neither queue
\* exceeds its depth and no semaphore its maximum.
THEOREM TxTypeCorrect == Spec => []TypeOK
BY CoreInvariant, PTL DEF CoreInv

\* Each frame wlh_transport_submit_tx admits is completed exactly once,
\* through resets, timeouts, rejected writes and flushes, for any number of
\* frames and any queue depths.
THEOREM TxExactlyOnce == Spec => []ExactlyOnce
BY CoreInvariant, PTL DEF CoreInv

\* The tx thread never sleeps on tx_wakeup while a frame or a bus reset waits,
\* even when the semaphore saturates at its maximum.
THEOREM TxNoLostWakeup == Spec => []NoLostWakeup
<1>1. CoreInv => NoLostWakeup
  BY DEF CoreInv, TypeOK, WakeInv, NoLostWakeup, SemValue
<1> QED
  BY <1>1, CoreInvariant, PTL

\* At most one data frame overtakes a waiting control frame.
THEOREM TxControlFirst == Spec => []ControlFirst
<1>1. CoreInv => ControlFirst
  BY DEF CoreInv, OvertakeInv, ControlFirst
<1> QED
  BY <1>1, CoreInvariant, PTL

\* A frame reported sent was read by the host to its last packet, unless its own
\* write met a token, an armed endpoint or a packet on the wire of an earlier one.
THEOREM TxSentWasDelivered == Spec => []SentWasDelivered
<1>1. CoreInv => SentWasDelivered
  BY DEF CoreInv, TransferInv, SentWasDelivered
<1> QED
  BY <1>1, CoreInvariant, PTL

\* No buffer is given back to the core while the endpoint may still read it, for
\* frames of any number of packets; excepted are a transfer started over the
\* leftovers of another and one that was halted with a packet on the wire.
THEOREM TxDmaBufferHeld == Spec => []DmaBufferHeld
<1>1. CoreInv => DmaBufferHeld
  BY DEF CoreInv, TypeOK, JobInv, ExactlyOnce, InTransport, TransferInv,
         DmaBufferHeld, Frames
<1> QED
  BY <1>1, CoreInvariant, PTL

\* The full invariant, when the host cannot re-enumerate inside the window.
LEMMA FullInvariant == ~FastHost => (Spec => []IInv)
<1> SUFFICES ASSUME ~FastHost PROVE Spec => []IInv
  OBVIOUS
<1>1. Init => IInv
  BY InitInv DEF IInv, CoreInv
<1>2. IInv /\ [Next]_vars => IInv'
  BY TypeStep, OwnershipStep, WakeStep, OvertakeStep, SeenStep, TransferStep,
     WindowStep, DeadStep DEF IInv
<1> QED
  BY <1>1, <1>2, PTL DEF Spec

\* No frame admitted before a bus reset of an established session is written
\* to the endpoint after it.
THEOREM TxDeadSessionNotWritten ==
    ~FastHost => (Spec => []DeadSessionNotWritten)
<1>1. IInv => DeadSessionNotWritten
  BY DEF IInv, DeadInv, DeadSessionNotWritten
<1> QED
  BY <1>1, FullInvariant, PTL
==============================================================================
