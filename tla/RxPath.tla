-------------------------------- MODULE RxPath --------------------------------
(***************************************************************************)
(* The way of the received bytes: the OUT interrupt puts the packets of    *)
(* the host's stream into rx_ring (RingBuffer), and rx_thread_entry hands  *)
(* each block it gets from there to rx_feed (RxFeed) before it looks at    *)
(* the ring again.                                                         *)
(***************************************************************************)
EXTENDS RingBuffer, RxFeed

VARIABLES
    fed,    \* rx_feed has taken what is in rx_drain
    gone    \* bytes of stream that have left the host

ringVars == vars
pathVars == <<ringVars, feedVars, fed, gone>>

Zero == ByteOf(0, 0)
PathByte ==
    {Zero} \cup {ByteOf(f, i) : f \in 1 .. MaxFrames, i \in UNION {1 .. n : n \in Sizes}}

\* rx_drain is the buffer of both, and the ring takes the bytes of the frames.
ASSUME PathAssumption == Chunk = DrainSize /\ PathByte \subseteq Byte

PathInit ==
    /\ buf = [s \in 0 .. Size - 1 |-> Zero]
    /\ Init /\ FeedInit
    /\ fed = TRUE /\ gone = 0

\* The host's next packet.
Packet(n) ==
    /\ gone + n <= Len(stream)
    /\ Put(SubSeq(stream, gone + 1, gone + n))
    /\ gone' = gone + n
    /\ UNCHANGED <<feedVars, fed>>

HostSends ==
    /\ \E size \in Sizes : \E n \in 1 .. size : HostSend(size, n)
    /\ UNCHANGED <<ringVars, fed, gone>>

\* rt_ringbuffer_get, when rx_feed has returned.
GetBlock ==
    /\ fed /\ ~scanning
    /\ Status \/ StatusMirrors \/ Length \/ Copy \/ Rearm
    /\ fed' = (pc # "copy" \/ len = 0)
    /\ UNCHANGED <<feedVars, gone>>

GetEnds ==
    /\ ~fed /\ Wrap
    /\ UNCHANGED <<feedVars, fed, gone>>

\* rx_feed(transport.rx_drain, length)
FeedBlock ==
    /\ ~fed /\ pc = "status"
    /\ Feed(Len(out)) \/ Overflow(Len(out))
    /\ fed' = TRUE /\ gone' = gone - Len(out)
    /\ UNCHANGED ringVars

Scan ==
    /\ Resync \/ Deliver \/ AwaitMore
    /\ UNCHANGED <<ringVars, fed, gone>>

PathThread == GetBlock \/ GetEnds \/ FeedBlock \/ Scan

PathNext ==
    \/ HostSends
    \/ \E n \in 1 .. Chunk : Packet(n)
    \/ PathThread

\* Strong fairness of the packets: Torn = FALSE keeps the interrupt out of two
\* instants of the thread's loop, which the program does not.
PathSpec ==
    /\ PathInit /\ [][PathNext]_pathVars
    /\ WF_pathVars(PathThread)
    /\ SF_pathVars(\E n \in 1 .. Chunk : Packet(n))

\* rx_feed is given the bytes of the stream, in their order and each once,
\* whatever the interrupt does while the thread is in rt_ringbuffer_get.
FeedGetsStream == ~fed => out = SubSeq(stream, 1, Len(out))
==============================================================================
