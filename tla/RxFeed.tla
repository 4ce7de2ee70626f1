-------------------------------- MODULE RxFeed --------------------------------
(***************************************************************************)
(* Reassembly of wire frames from the bulk OUT byte stream: rx_feed in     *)
(* applications/transports/usb/transport_usb.c, fed by rx_thread_entry.    *)
(*                                                                         *)
(* A byte is known by its frame and its place in it.  Place 1 stands for   *)
(* the magic and version bytes, place 2 for the flags and the two size     *)
(* bytes, the rest of the header and the payload follow; no other byte     *)
(* passes for place 1 or 2.  A bus reset may cut the frame the host is     *)
(* sending; the next byte is then the first of a new session's frame.      *)
(***************************************************************************)
EXTENDS Naturals, Sequences, Functions

CONSTANTS
    Sizes,          \* sizes the host writes into its frame headers
    HeaderSize,     \* FRAME_HEADER_SIZE
    MaxFrameSize,   \* max_frame_size, WLH_WIRE_MAX_FRAME_SIZE
    DrainSize,      \* sizeof(rx_drain), WLH_USB_OUT_CHUNK
    Cuts,           \* a bus reset may cut a frame
    MaxFrames       \* bound: frames the host sends

ASSUME FeedAssumption ==
    /\ HeaderSize \in Nat \ {0, 1}
    /\ MaxFrameSize \in Nat /\ DrainSize \in 1 .. MaxFrameSize /\ MaxFrames \in Nat
    /\ Sizes \subseteq {n \in Nat : n >= HeaderSize}
    /\ Cuts \in BOOLEAN

VARIABLES
    frames,     \* frames the host sent: size claimed and bytes sent
    stream,     \* bytes sent and not yet taken from rx_ring
    rxFrame,    \* rx_frame[0 .. rx_frame_length - 1]
    scanning,   \* the thread is in the while loop of rx_feed
    delivered,  \* blocks passed to wlh_coproc_on_frame
    dropped     \* history: frames whose first byte an overflow threw away

feedVars == <<frames, stream, rxFrame, scanning, delivered, dropped>>

BufSize == HeaderSize + MaxFrameSize     \* sizeof(transport.rx_frame)

ByteOf(f, i) == [frame |-> f, at |-> i]
FrameBytes(f, n) == [i \in 1 .. n |-> ByteOf(f, i)]

FeedInit ==
    /\ frames = <<>> /\ stream = <<>> /\ rxFrame = <<>>
    /\ scanning = FALSE /\ delivered = <<>>
    /\ dropped = {}

\* The host writes a frame of the given size, of which n bytes arrive.
HostSend(size, n) ==
    LET f == Len(frames) + 1
    IN  /\ f <= MaxFrames
        /\ n = size \/ Cuts
        /\ frames' = Append(frames, [size |-> size, sent |-> n])
        /\ stream' = stream \o FrameBytes(f, n)
        /\ UNCHANGED <<rxFrame, scanning, delivered, dropped>>

\* Mutant of Feed: no test that the chunk fits.
FeedUnchecked(n) ==
    /\ ~scanning /\ n <= Len(stream)
    /\ rxFrame' = rxFrame \o SubSeq(stream, 1, n)
    /\ stream' = SubSeq(stream, n + 1, Len(stream))
    /\ scanning' = TRUE
    /\ UNCHANGED <<frames, delivered, dropped>>

\* rt_ringbuffer_get returns what has arrived, at most a chunk, whatever
\* packets it came in; rx_feed appends it to rx_frame ...
Feed(n) ==
    /\ ~scanning /\ n <= Len(stream)
    /\ Len(rxFrame) + n <= BufSize
    /\ rxFrame' = rxFrame \o SubSeq(stream, 1, n)
    /\ stream' = SubSeq(stream, n + 1, Len(stream))
    /\ scanning' = TRUE
    /\ UNCHANGED <<frames, delivered, dropped>>

\* Mutant of Overflow: only the chunk is dropped.
OverflowKeepsHead(n) ==
    /\ ~scanning /\ n <= Len(stream)
    /\ Len(rxFrame) + n > BufSize
    /\ stream' = SubSeq(stream, n + 1, Len(stream))
    /\ dropped' = dropped \cup
         {f \in DOMAIN frames : ByteOf(f, 1) \in Range(SubSeq(stream, 1, n))}
    /\ UNCHANGED <<frames, rxFrame, scanning, delivered>>

\* ... or drops what rx_frame holds, and the chunk with it.
Overflow(n) ==
    /\ ~scanning /\ n <= Len(stream)
    /\ Len(rxFrame) + n > BufSize
    /\ rxFrame' = <<>>
    /\ stream' = SubSeq(stream, n + 1, Len(stream))
    /\ dropped' = dropped \cup
         {f \in DOMAIN frames :
            ByteOf(f, 1) \in Range(rxFrame \o SubSeq(stream, 1, n))}
    /\ UNCHANGED <<frames, scanning, delivered>>

\* frame_header_plausible, and the size field of the header at the front.
HeaderPlausible == rxFrame[1].at = 1 /\ rxFrame[2].at = 2
FrameSize == frames[rxFrame[2].frame].size
Accepted == HeaderPlausible /\ FrameSize <= MaxFrameSize

\* rx_consume
Consume(n) == rxFrame' = SubSeq(rxFrame, n + 1, Len(rxFrame))

\* Mutant of Resync: the scan goes on a header at a time.
ResyncByHeader ==
    /\ scanning /\ Len(rxFrame) >= HeaderSize
    /\ ~Accepted
    /\ Consume(HeaderSize)
    /\ UNCHANGED <<frames, stream, scanning, delivered, dropped>>

Resync ==
    /\ scanning /\ Len(rxFrame) >= HeaderSize
    /\ ~Accepted
    /\ Consume(1)
    /\ UNCHANGED <<frames, stream, scanning, delivered, dropped>>

Deliver ==
    /\ scanning /\ Len(rxFrame) >= HeaderSize
    /\ Accepted /\ FrameSize <= Len(rxFrame)
    /\ delivered' = Append(delivered, SubSeq(rxFrame, 1, FrameSize))
    /\ Consume(FrameSize)
    /\ UNCHANGED <<frames, stream, scanning, dropped>>

\* Mutant of AwaitMore: a frame that is just complete is left for the next chunk.
AwaitMoreEarly ==
    /\ scanning
    /\ Len(rxFrame) >= HeaderSize => Accepted /\ Len(rxFrame) <= FrameSize
    /\ scanning' = FALSE
    /\ UNCHANGED <<frames, stream, rxFrame, delivered, dropped>>

\* Less than a header, or less than the frame it announces, is buffered.
AwaitMore ==
    /\ scanning
    /\ Len(rxFrame) >= HeaderSize => Accepted /\ Len(rxFrame) < FrameSize
    /\ scanning' = FALSE
    /\ UNCHANGED <<frames, stream, rxFrame, delivered, dropped>>

RxThread ==
    \/ \E n \in 1 .. DrainSize : Feed(n) \/ Overflow(n)
    \/ Resync \/ Deliver \/ AwaitMore

FeedNext ==
    \/ \E size \in Sizes : \E n \in 1 .. size : HostSend(size, n)
    \/ RxThread

FeedSpec == FeedInit /\ [][FeedNext]_feedVars

------------------------------------------------------------------------------
(* Properties *)

Cut(f) == frames[f].sent < frames[f].size
Whole(f) == FrameBytes(f, frames[f].size)
Wanted(f) == ~Cut(f) /\ frames[f].size <= MaxFrameSize
IsDelivered(f) == f \in DOMAIN frames /\ Whole(f) \in Range(delivered)

FeedTypeOK ==
    /\ frames \in Seq([size : Sizes, sent : Nat \ {0}])
    /\ Len(rxFrame) <= BufSize
    /\ scanning \in BOOLEAN
    /\ dropped \subseteq DOMAIN frames

\* Where a complete frame of legal size can be: still in the pipeline, handed
\* to the core, or inside the block of a frame that a reset cut.
InPipeline(f) == ByteOf(f, 1) \in Range(rxFrame \o stream)
Swallowed(f) ==
    \E d \in Range(delivered) : Cut(d[1].frame) /\ ByteOf(f, 1) \in Range(d)

\* Only a frame longer than BufSize - DrainSize + 1 bytes can make rx_frame
\* overflow, and only after its header was accepted: shorter traffic never
\* takes that branch, however it is chunked.
OnlyLongFramesOverflow ==
    [][\A n \in 1 .. DrainSize : Overflow(n) =>
         /\ Len(rxFrame) >= HeaderSize /\ Accepted
         /\ FrameSize > BufSize - DrainSize + 1]_feedVars

\* An overflow costs the frames that start in what it drops, a cut frame those
\* it swallows, and no other is lost: the scan never skips the start of a frame
\* the core should see, and finds it in the tail of a frame without a head.
LossIsLocal ==
    \A f \in DOMAIN frames :
        Wanted(f) => InPipeline(f) \/ IsDelivered(f) \/ Swallowed(f) \/ f \in dropped

\* The core sees frames in the order sent, none twice, and only a frame that a
\* reset cut comes with another frame's bytes.
DeliveredInOrder ==
    /\ \A i \in DOMAIN delivered :
         \/ Cut(delivered[i][1].frame)
         \/ delivered[i] = Whole(delivered[i][1].frame)
    /\ \A i, j \in DOMAIN delivered :
         i < j => delivered[i][1].frame < delivered[j][1].frame

\* What is not lost arrives: no complete frame stays in rx_frame or in the ring,
\* while nothing is cut.
SurvivorsArrive ==
    \A f \in 1 .. MaxFrames :
        (f \in DOMAIN frames /\ Wanted(f))
            ~> (IsDelivered(f) \/ f \in dropped \/ \E g \in DOMAIN frames : Cut(g))
==============================================================================
