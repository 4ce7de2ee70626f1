# Verification of the WL-hosted coprocessor firmware (CH32V307/317, RT-Thread)

TLA+ modules, TLC configurations and TLAPS proofs about the firmware in `src/`.
The firmware makes a WCH microcontroller the Ethernet coprocessor of a USB host:
wire frames travel over a pair of bulk endpoints, an RT-Thread application moves
them between USB, the link core (`wl-hosted-core`, a submodule whose sources are
not in the repository) and the Ethernet MAC.

## 1. Inventory

| component | state it keeps | operations | hard part |
| --- | --- | --- | --- |
| USB transport, transmit (`transports/usb/transport_usb.c`) | control and data queue, `tx_done`, `tx_wakeup`, `configured_gate`, `reset_pending`, `configured`, `initial_configuration_seen`, the job in hand | `wlh_transport_submit_tx`, `tx_thread_entry`, `flush_tx_queue`, `in_endpoint_callback`, RESET and CONFIGURED events | interrupts between any two steps, stale semaphore tokens, timeout against late completion, completing each frame once |
| USB transport, receive | `rx_ring`, `rx_avail`, `out_paused`, OUT endpoint | `out_endpoint_callback`, `rx_thread_entry`, `arm_out_read` | pause and wakeup races, room test against arming |
| Frame reassembly (`rx_feed`) | `rx_frame`, `rx_frame_length` | append, overflow, plausibility scan, delivery | boundaries, recovery after loss, resets in the middle of a frame |
| Ring buffer (`rt-thread/.../ringbuffer.c`) | buffer, two index/mirror words | init, put (interrupt), get (thread), data_len | no lock: words read while the other side changes them |
| Kernel IPC (`rt-thread/src/ipc.c`) | semaphore value, queue | release, take, mq send/recv | saturation |
| Link restart (`app/wlh_app.c`, hooks in `backends/eth_backend.c`) | `s_transport_dead`, link event, core up or down | `on_transport_reset`, `link_control_thread`, `wlh_eth_transport_dead/alive` | a reset during a restart, users of a core being destroyed, failed start |
| ETH transmit path (`backends/eth_backend.c`) | TX slots and descriptors, `s_tx_next`, `s_eth_sem` | `wlh_eth_rx_from_core`, `eth_tx_complete_scan`, interrupt, `wlh_eth_transport_dead/alive` | DMA ownership and ring order, completions of dead sessions |
| ETH receive path | RX descriptor in hand, `s_rx_backpressured`, `s_rx_credit_ready`, `s_pause_active` | `eth_rx_drain`, interrupt, worker, `wlh_eth_tx_ready` | silenced interrupts, credit and PAUSE races, RBU recovery |
| ETH link and PHY (`eth_phy.c`, link thread) | last status, `s_link_up`, speed, duplex | poll, report, GET_INFO | reports gated by session state |
| USB device port (`usb_dc_usbhs.c`, `usbd_core.c`) | endpoint control, data toggles, transfer state | open, start read/write, interrupt, reset, CLEAR_FEATURE | lost handshakes, toggles across reconfiguration, halt of a running transfer |
| Boot (`bl_s1`, `bl_s2`) | option bytes | RAM/code split update, jump | power loss during programming, reboot loop |
| Start-up, console, board | none of interest | one-time initialisation, diagnostics | none |

Interaction.  The core submits frames (any thread) and gets a completion from the
tx thread.  The USB interrupt stores received bytes in `rx_ring` and raises
`rx_avail`; the rx thread drains, reassembles and calls `wlh_coproc_on_frame`.
The RESET and CONFIGURED events run in the same interrupt and share three flags
with both threads.  The tx thread reports resets and failed transfers through
`on_reset`, which cuts the ETH backend off the core and wakes the link control
thread; that thread stops and starts the core and reconnects the backend.
Priorities (lower runs first): usb-tx 8, usb-rx and ETH worker 9, core 10, link
control 12, ETH link 15.

What makes each part correct: a frame admitted by the transport is completed
exactly once, reported sent only if read, not read by the DMA once given back
(two comments of the code promise both without exception and are refuted, section
3), never written for a dead session; work never waits without a wakeup; a byte
acknowledged on USB is not lost; the ring is a byte queue; the reassembler
delivers what was sent, whole and in order; nobody uses the core while it is
being destroyed; the slots follow the DMA round the ring and each pending frame is
completed once; neither a received frame nor a retained descriptor nor a paused
peer is forgotten; the host knows the link or is about to be told; every packet
counts once on a bus that loses handshakes; the application starts in its memory
split, whatever fails before.  `PROJECT.json` lists the hazards line by line.

## 2. Modules

* **RtIpc** – semaphores that saturate at `SemMax` and bounded queues, by effect.
* **UsbTx** – the transmit half.  One action per stretch of `tx_thread_entry`
  between two points where other contexts can intervene; `pc` is the place in the
  thread.  `Submit`/`SubmitWake` are the two halves of `wlh_transport_submit_tx`;
  a rejected submission (full queue) changes nothing.  A frame is written as one
  or more packets: `InData` puts the armed one on the wire, `InAck` is its interrupt,
  which arms the next packet of `xfer_len` or, after the last, releases `tx_done`;
  `InAckLost` loses the handshake.  `HaltIn` writes NAK and leaves `xfer_len` alone,
  so the interrupt of a packet that was on the wire goes on with the cancelled
  frame, and `StartWrite` may meet all of that.  `BusReset` and `Configured` are the
  events.  History variables (`due`, `sent`, `delivered`, `dead`, `loose`, `unsure`,
  `overtaken`, `sessionDirty`) record what the properties speak of.  A frame is its
  channel, alignment and number of packets; queue payloads, logging and counters are
  left out, and so is `stopping`, which nothing ever sets.  `usbd_ep_start_write` is
  one step: an interrupt inside it is not told from one before or after.
* **UsbTxClaims** – UsbTx with one more history variable, the comments of
  `tx_thread_entry` that a behaviour has contradicted.
* **UsbRx** – the receive half up to the reassembler; of the ring only
  its level.  The tx thread appears as the one step that touches shared state,
  `TxConsumesReset`.
* **UsbTransport** – both halves: extends UsbRx, instantiates UsbTx; RESET and
  CONFIGURED (`JointReset`, `JointConfigured`) act on both at once, and the tx
  thread's own step takes the place of `TxConsumesReset`.
* **UsbPort** – the bulk endpoints in `usb_dc_usbhs.c` under the transport: one
  step per packet with its interrupt, toggles of both ends, handshakes that get
  lost, transfers of several packets, halt, a write over an unfinished one, bus
  reset, SET_CONFIGURATION and CLEAR_FEATURE.  SET_CONFIGURATION arms OUT or, with a
  reset pending, does not; then no read follows (`unarmed`).  Of the data only a difference is kept: packets taken by the
  receiver less those the sender knows of (`outAhead`, `inAhead`), so the number of
  packets is unbounded.
* **ByteFifo** – abstract specification: a bounded byte queue.
  **RingBuffer** – `ringbuffer.c` with the interrupt able to run between the
  thread's accesses; implements ByteFifo under the mapping `Content`.
* **RxFeed** – `rx_feed`.  A byte is (frame, place); places 1 and 2 stand for the
  bytes the plausibility test and the size field read.  No other byte passes for
  them: see the assumption on `HeaderPlausible` in section 3.  `HostSend` may cut a frame
  short, which is what a bus reset in the middle of a transfer leaves behind.  The
  core's answer to a delivered frame does not influence `rx_feed`.
* **RxPath** – RingBuffer and RxFeed composed as in `rx_thread_entry`: the interrupt
  puts packets of the host's stream into the ring between any two steps of the
  thread, which hands each block it gets to `rx_feed` and looks at the ring again
  when `rx_feed` has returned.
* **LinkRestart** – the restart protocol of `wlh_app.c` with the users of the core
  in `eth_backend.c`.  The core itself is external: "up", "stopping" or "down".
  `wlh_coproc_stop` may fail (`StopFailed`), leaving the core half stopped or running,
  and so may `wlh_coproc_start`; the thread logs both and goes on.
  `old` makes the settle delay mean something: it ends when what was under way at
  its beginning is over.
* **EthLink** – extends LinkRestart: the link thread step by step (poll and MAC
  mode, the published variables one by one, the tests of `eth_link_report`), the
  host's session and GET_INFO, all during restarts.
* **EthTx** – `wlh_eth_rx_from_core` in its two parts (before and inside the section
  with interrupts off), the DMA, the interrupt in two steps (a frame may be sent
  between its read and its clear), the scan slot by slot with the call into the
  core, `transport_dead` and `transport_alive`.
* **EthRx** – the worker after its scan, `eth_rx_drain` step by step, interrupt,
  credit callback, PAUSE, link changes.  The ring is the number of descriptors the
  CPU owns; any frame may be one that is dropped.
* **Boot** – `bl_s2/main.c` and the SDK's option-byte programming, halfword by
  halfword, with power failures and refused writes.
* **UsbTxProofs, UsbRxProofs** (also about UsbTransport), **RxPathProofs** (RingBuffer,
  RxFeed and RxPath), **LinkRestartProofs** (also about
  EthLink), **UsbPortProofs, EthTxProofs, EthRxProofs, BootProofs** – theorems.
* **MCUsbTx, MCUsbTransport** – constants for TLC.

Operators whose comment starts "Mutant of" are deliberately wrong versions of the
definition that follows; no specification uses them.  Each shows that a property
fails when the code has that bug.

## 3. Runs

`tlc -config <cfg> <module>`; `PROJECT.json` names the pairs.

| run | shows |
| --- | --- |
| tx | `ExactlyOnce`, `NoLostWakeup`, `SentWasDelivered`, `DmaBufferHeld`, `DeadSessionNotWritten`, `ControlFirst`; every admitted frame is completed (`FramesComplete`), every reset of a session reported (`SessionTornDown`) |
| tx_claims (violation) | one behaviour contradicts both "the wait below only observes the current transfer" (transport_usb.c:438) and "the armed DMA buffer can never complete late" (:452-453) |
| transport | both halves: `NoOverrun`, no work without a wakeup (`WorkHasWakeup`), reception goes on (`OutServiced`), and the whole refines UsbRx (`ReceiveHalfIsUsbRx`) |
| transport_rearm (violation) | a tx thread blocked on the gate keeps `reset_pending` set across CONFIGURED, OUT stays unarmed |
| port | each packet counts once in either direction (`PacketsExactlyOnce`); every OUT packet gets through on an endpoint that CONFIGURED has armed (`OutProgress`) |
| rx_path | in the composed path the ring implements ByteFifo across every wrap (`IsByteFifo`), `rx_feed` is given the host's bytes in order and once (`FeedGetsStream`), its buffer is never overrun (`FeedTypeOK`), delivered frames are whole and in order (`DeliveredInOrder`), loss is local (`LossIsLocal`), short frames never overflow (`OnlyLongFramesOverflow`), survivors arrive (`SurvivorsArrive`) |
| link | every reset restarts the core and service comes back (`RestartCompletes`); in turn, the backend is never inside a stopped core (`NoUseAfterStopInTurn`); at rest the backend is cut off exactly if the last restart did not start the core, by a failed stop or start, and connected only to a running one (`AtRestConsistent`); gating loses no link event and the MAC runs in the reported mode (`NothingLostByGating`); a host learns a settled link (`HostLearns`) |
| link_overlap (violation) | `transport_alive` of one restart cancels the `transport_dead` of the next |
| eth_tx | slots follow the DMA (`RingOrder`), no live arm over a descriptor in use (`LiveArmsFreeDescriptor`), each pending frame completed once (`CompletionOwed`), none forgotten (`SentHasWakeup`, `TxCompletes`) |
| eth_rx | no frame (`FrameHasWakeup`), retained descriptor (`RetainedHasWakeup`) or paused peer (`PauseOwned`) is forgotten; credit retries the retained frame (`CreditRetries`); a full ring is drained (`FullRingDrainsUnlessMissed`) |
| eth_stall (violation) | frames that fill the ring between the last look at it and the reset of `s_rx_backpressured` wake nobody |
| boot | the application has its RAM split (`AppHasItsRam`), settings are kept (`SettingsKept`), one erase per fault and one more (`OneRewrite`), the application starts in the end (`AppStarts`) |

Bounds.  tx: one control and two data frames, each submitted again and again,
of one or two packets, queues small enough to be full, one unaligned buffer
(rejected writes), semaphores up to 2 (a stale token and a fresh one); resets, configurations and timeouts are
unbounded.  More frames, deeper queues and several submitters are covered by the
proofs, of which only the liveness properties are not part.  tx_claims: the same.
transport: ring of 7, packets up to 3, so levels are not multiples of the
packet and the last packet before the pause leaves every remainder; one control
frame keeps the tx thread busy.  port: transfers of up to three packets (first,
middle, last), any number of them.  rx_path: ring of 6, packets and blocks of up to
5, so both indices wrap at and across the end in every combination and the endpoint
is paused and armed again; header 3, maximum 6, buffer 9, frames of 5, 6 and 7 bytes
(the longest that cannot overflow, maximal, oversized), two of them, each cut
anywhere; as in the firmware a maximal frame and a chunk do not fit together, a
short one and a chunk do.  More frames and other sizes are covered by the proofs.  link: two
resets (one during the restart caused by the other) and two changes of the link;
stop and start may each fail.  link_overlap: three resets.  Further resets change nothing for the invariants of
link, which are proved for any number.  eth_tx: two slots, two sessions (the old and the new
one), semaphore up to 2.  eth_rx: two descriptors (one retained, one received
behind it), credit up to 1.  boot: all 256 values of the USER byte, three faults.

`CHECK_DEADLOCK FALSE` stands in link_overlap (resets are bounded) and boot (the application runs).

Fairness.  Weak fairness of the tx thread, the rx thread and the submitter's
second half: they are ready threads on a fixed-priority scheduler and nothing
above them spins; the wait on `tx_done` ends by its timeout.  In LinkRestart weak
fairness of the link control thread and of returning calls, and strong fairness of
`TxCompleteScan`: each run of the worker starts with a scan.  EthLink adds the link
thread, whose poll is periodic, and one GET_INFO of a host that has connected.  EthTx
and EthRx: the DMA, the interrupt and the worker; in EthRx also the `tx_ready` the
core owes after a NO_CREDIT, not credit itself.  UsbPort: the rx thread makes room
in the end, and of infinitely many handshakes not all are lost (strong fairness).
RxPath: the rx thread, and strong fairness of the packets, because `Torn = FALSE`
keeps the interrupt out of two instants of the thread's loop, which the program does
not.  It amounts to a host that goes on sending what it has begun; it need not begin
another frame.
Boot: the processor runs, faults are bounded.  The host is otherwise never fair.
The liveness properties of UsbTx assume `CooperativePeers`: the host configures the
device again and again, and the core does not answer every cancelled frame with a
new one for ever, for `flush_tx_queue` would then not end.

Timing assumptions, all named.
`FastHost = FALSE`: between the test after the gate and the endpoint write, a few
instructions of the highest application priority, the host does not both reset
and configure the device.  `HostWaits = TRUE` and `UsbTransport!Settled`:
SET_CONFIGURATION follows a reset by milliseconds of enumeration and finds the
threads blocked.  Without it (`HostWaits = FALSE` in UsbRx) `NoOverrun` fails: a
repeated SET_CONFIGURATION arms the endpoint over a full ring
(transport_usb.c:512-514).  That hazard is thus outside what the run and the theorem
show.  `Torn = FALSE`: the interrupt does not come between the
access to an index and to its mirror; with `Torn = TRUE` a put across the end
between the two loads makes an empty ring look full (ringbuffer.c:20-22) and
`IsByteFifo` fails.  C permits either code, and the build decides; tearing is
outside the run and the theorems.
`EthLink!SessionReady`: the handshake of a new session, several round trips on the
bus, does not end between `wlh_coproc_start` and the call of
`wlh_eth_transport_alive` behind it.  `EthTx!Settled`: the restart of the core outlasts the frames in the TX ring and the
worker's reaction to them (100 ms settle delay against less than 10 ms for six
frames at 10 Mbit/s); likewise in LinkRestart for calls under way and in
EthRx!TransportAlive.  `EthRx!DmaReceive`: a DMA suspended for want of a descriptor
resumes with the first frame that finds one.  The code issues the poll demand only
if it still sees RBUS, which the interrupt usually has cleared, so reception relies
on this; the comment at eth_backend.c:329-330 says that only an explicit resume
helps, and whether the DMA resumes is not checked.

Assumptions about data and about the core.  `RxFeed!HeaderPlausible`: the code
accepts any bytes that pass `frame_header_plausible` and the size test
(transport_usb.c:221-226, 253-256), the model only the first bytes of a frame.  A
payload, or the tail of a cut frame, that happens to look like a header is not
modelled; the results on RxFeed are about streams without one.
`LinkRestart!StartOk`: `wlh_coproc_start` succeeds only on a core that has stopped, so
after a failed `wlh_coproc_stop` (wlh_app.c:76-77) it fails, `s_transport_dead` stays
set, and only the next reset brings the service back.  The core is not in the
repository; this is what its use in `link_control_thread` presupposes.

Provisos.  Where the code has a window that a property would fall into, a history
variable marks it and the property holds outside it:

* `unsure`, `loose` (UsbTx), both per frame or transfer, not for good: a write met
  leftovers of an earlier transfer (a token, a packet on the wire, an armed
  endpoint), or its halt met a packet on the wire.  A frame in `unsure` may be reported
  sent before the host has read it, until it is submitted again; a `loose` transfer
  may go on with a buffer given back, until the next write without leftovers or the
  next reset.  The code's comments know no such case; tx_claims refutes them.  Its
  trace: the resets of an enumeration leave two tokens in `tx_done`, of which the
  take at transport_usb.c:439 drops one, and the other ends the wait of the first
  write at once with status 0, its transfer still armed; later a write times out with
  a packet on the wire, and its interrupt (usb_dc_usbhs.c:333-353) arms the rest of
  the cancelled frame.  Each half is a finding in `PROJECT.json`.
* `overlapped` (LinkRestart): a reset during a restart, see link_overlap.
* frames cut by a reset (RxFeed): neither the reset nor the restart empties
  `rx_frame`, so the head of a cut frame swallows the first frame of the next session
  (transport_usb.c:494).  Long frames: with 3609 bytes or more buffered the chunk
  that completes a legal frame may not fit and is thrown away with it
  (transport_usb.c:243).  `LossIsLocal` and `SurvivorsArrive` give up what such a cut or
  overflow reaches; `OnlyLongFramesOverflow` is the bound that holds.
* `clobbered` (EthTx): the core task was past its tests when the transport died and
  arms a descriptor the DMA owns; ring order is not claimed after that.
* `missed` (EthRx): see eth_stall.
* `lost` (EthLink): the core did not accept the link event; its result is ignored,
  and neither `NothingLostByGating` nor `HostLearns` says anything of that report.
* `inTrouble`, `outTrouble` (UsbPort): CLEAR_FEATURE, or SET_CONFIGURATION while the
  IN toggle is 1, or a transfer given up (halted or replaced) after the host took a
  packet whose handshake is not in, tear the toggles apart; packets are not counted
  from there to the next reset, so these hazards are shown by no run.
* `unarmed` (UsbPort): CONFIGURED found a reset pending and nobody arms OUT, see
  transport_rearm; the host then waits for ever.
* `lost` (Boot): a fault hit the write of the option bytes.

## 4. Proofs

`tlapm <module>`.

* **UsbTxProofs**, for all sets of frames, depths, submitters and semaphore
  limits and frames of any length: `TxTypeCorrect`, `TxExactlyOnce`, `TxNoLostWakeup`,
  `TxControlFirst`, `TxSentWasDelivered`, `TxDmaBufferHeld`, and with `~FastHost`
  `TxDeadSessionNotWritten`.  None is inductive alone.  The invariant adds where
  the job is held at each `pc`, that a waking submitter or a token exists for each
  queued frame unless the thread is on its way to look (`WakeInv`), how far a data
  frame can overtake at each `pc`, that a transfer that is not `loose` belongs to the
  thread's wait, which has no token before its last packet or a reset
  (`TransferInv`), and that dead frames are never past the gate without
  `reset_pending`.  One lemma per group of actions, one step per action.
* **UsbRxProofs**, for all ring and packet sizes: `RxTypeCorrect`,
  `RxNoForgottenWork`, and with `HostWaits` `RxFlowControl`.  The strengthening says
  that an armed endpoint has room for a packet, that a thread about to re-arm
  faces a NAKing or closed endpoint with room, and that unconsumed work has a token.
  Then the whole transport: `TransportImplementsRx` and `TransportImplementsTx` show
  that each step of UsbTransport is a step of UsbRx and one of UsbTx or leaves their
  state alone.  Only `CheckReset` of the tx thread writes a flag outside the
  interrupt; it is `TxConsumesReset` if a reset was pending and a stutter if not,
  which needs `resetPending \in BOOLEAN` as an invariant.  `TransportNoForgottenWork`
  and `TransportNoOverrun` follow.
* **RxPathProofs**, for buffers, headers, frames and chunks of any size and any number
  of frames, in three parts.
  `RingIsByteFifo` (with `~Torn`): every step of RingBuffer is a step of ByteFifo on
  `Content` or leaves it alone.  The invariant (`RingInv`) says what the mirrors mean
  (equal: the writer is ahead in the same lap; different: one lap further), what the
  thread still knows at each place of `rt_ringbuffer_get` although the interrupt may
  have put more since (`GetInv`), and that an armed endpoint has room for a packet, so
  that `rt_ringbuffer_put` never cuts one.  `Put` then needs that the new bytes take
  places no old byte has; both sides stay less than a lap apart (`SlotDiffers`).
  `FeedTypeCorrect`, `FeedDeliversInOrder`, `FeedLossIsLocal` and the action property
  `FeedOnlyLongFramesOverflow`: the invariant (`FeedInv`) rests on `SentTail`, which
  says of `rx_frame` followed by the unread bytes that it is an end of what the host
  sent, frame after frame, each up to where it was cut.  Dropping bytes from the
  front (a resync, a delivery, an overflow) and appending a frame keep it
  (`SentTailDrop`, `SentTailAppend`).  From it a plausible header is the header of one
  frame (`FrontFacts`), so the size field belongs to the bytes that follow; the scan
  never steps over the first byte of an acceptable frame; and what follows a
  delivered block belongs to later frames (`DeliveredInv`), which gives the order.
  `AwaitInv` (the loop of `rx_feed` is left only for want of bytes) gives the bound on
  overflows.
  `PathFeedGetsStream` and `PathImplementsParts` (with `~Torn`) join them: the bytes in
  the ring and in the block are the front of the stream (`FlightInv`), so `rx_feed` gets
  what the host sent, and RxPath implements RingBuffer and RxFeed, whose theorems hold
  in it.
* **LinkRestartProofs**, for any number of resets: `RestartIsSafe`,
  `RestartIsConsistent`.  The invariant (`IInv`) ties the phases together: while a
  reset is under way the flag is set, once the settle delay runs everything that
  can still reach the core is among `old`, and so nothing is left when it ends.  A
  failed stop goes through the same phases; `failed` then tells why the flag stays set.
  EthLink is shown to implement LinkRestart (`EthImplementsRestart`), which carries
  both over (`EthRestartIsSafe`).  `GatingLosesNothing` needs no such proviso: what is
  published follows what was polled up to the assignments still to come
  (`PublishedInv`), and when `s_transport_dead` falls there is no session that could
  have missed a suppressed report (`SessionInv`).  The second conjunct is where the
  timing assumption on `SessionReady` enters: a session that began before
  `wlh_eth_transport_alive` of an overlapped restart could lose a report to the next
  reset (three resets).
* **UsbPortProofs**, for transfers of any length: `PortTypeCorrect`,
  `PortPacketsExactlyOnce`.  The invariant says
  what the difference of the toggles means: they differ exactly while one end waits
  for the handshake of a packet the other has, and a packet on the wire is one of
  those.
* **EthTxProofs**, for any number of descriptors and sessions: `EthTxTypeCorrect`,
  `EthTxRingOrder`, `EthTxSentHasWakeup`, `EthTxCompletionOwed`, and the action
  property `EthTxLiveArms`.  The DMA's part of the ring is a window of n descriptors
  that `Arm` extends at one end and `DmaSend` shortens at the other (`Window`).
  That the count of pending frames stays a natural number needs `OwedInv`, which
  weakens the equation of `CompletionOwed` to an inequality while the transport is
  dead; at the reconnection it starts afresh because `SentHasWakeup` leaves no slot
  in flight when everything has settled.
* **EthRxProofs**, for any number of descriptors and credits: `EthRxTypeCorrect`,
  `EthRxFrameHasWakeup`, `EthRxRetainedHasWakeup`, `EthRxPauseOwned`.
  `RetainedInv` says for each place of the worker who holds the promise to retry a
  retained frame: the core, the latch of `s_rx_credit_ready` and a token, or
  `retry_rx`.
* **BootProofs**, for any number of faults: `BootTypeCorrect`, `BootAppHasItsRam`,
  `BootSettingsKept`, `BootOneRewrite`.  The invariant follows each halfword from
  flash to `pbuf` and back; an erase that no fault explains is followed by a good
  USER byte and so is the last.

The assumptions are those on the constants, named in the modules that declare them
and evaluated by TLC in the runs.

Every invariant, action property and refinement that a passing run checks is a
theorem.  Only model-checked are the eleven liveness properties (outside the prover's
reach, as is ENABLED) and the violations.  The type invariants of the proved modules
are theorems; except for `FeedTypeOK`, which says that the buffer is not overrun, the
runs do not check them again.

## 5. Not modelled

The control endpoint with its descriptors and requests (`usbd_core.c`), PHY
initialisation, start-up, console and board code (no behaviour over time); the link
core (not in the repository); vendored code the firmware does not rely on in these
ways.  Thread creation failures at start-up, statistics and logging are left out
everywhere.  The repository holds all of RT-Thread and the vendor's SDK; the
firmware's own code, which is what is modelled, is a small part of it.

## 6. Plan

1. The theorems of UsbTxProofs for UsbTransport by instantiation instead of by the
   reader's combination with `TransportImplementsTx`.
2. Sharper provisos: the places of the worker from which `missed` can be reached.
3. Bytes in RxFeed that look like a header without being one.
