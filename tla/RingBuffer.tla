------------------------------ MODULE RingBuffer ------------------------------
(***************************************************************************)
(* rx_ring: rt-thread/components/drivers/ipc/ringbuffer.c as               *)
(* transport_usb.c uses it.  The OUT interrupt puts a packet in one go;    *)
(* the rx thread gets blocks, and the interrupt may run between the        *)
(* thread's accesses to the indices.  There is no lock.                    *)
(*                                                                         *)
(* read_index/read_mirror and write_index/write_mirror are bit fields of   *)
(* two words, neither volatile nor atomic.  C lets the compiler load a     *)
(* word once for both its fields or once for each, and store both together *)
(* or one after the other; the model takes the accesses apart.  Torn says  *)
(* whether the interrupt may come in between.                              *)
(***************************************************************************)
EXTENDS Naturals, Sequences

CONSTANTS
    Byte,       \* byte values
    Size,       \* buffer_size
    Chunk,      \* WLH_USB_OUT_CHUNK: largest put, and sizeof(rx_drain)
    Torn        \* an interrupt may come between the accesses to an index and
                \* its mirror (FALSE where the build makes them one access)

ASSUME SizeAssumption ==
    Size \in Nat \ {0} /\ Chunk \in 1 .. Size
ASSUME TornAssumption == Torn \in BOOLEAN

VARIABLES
    buf,                \* buffer_ptr[0 .. Size-1]
    ri, rm, wi, wm,     \* indices and mirror bits
    armed,              \* the OUT endpoint accepts a packet
    pc, len,            \* the rx thread inside rt_ringbuffer_get
    out                 \* rx_drain

vars == <<buf, ri, rm, wi, wm, armed, pc, len, out>>

\* rt_ringbuffer_data_len on a consistent snapshot with read index r, and the
\* space left.
DataLenAt(r) ==
    IF r = wi THEN IF rm = wm THEN 0 ELSE Size
    ELSE IF wi > r THEN wi - r ELSE Size - (r - wi)
DataLen == DataLenAt(ri)
SpaceLen == Size - DataLen

Blocks == UNION {[1 .. n -> Byte] : n \in 1 .. Chunk}

Init ==
    /\ buf \in [0 .. Size - 1 -> Byte]
    /\ ri = 0 /\ rm = 0 /\ wi = 0 /\ wm = 0
    /\ armed = TRUE
    /\ pc = "status" /\ len = 0 /\ out = <<>>

------------------------------------------------------------------------------
(* Producer: out_endpoint_callback *)

\* Mutant of Put: the endpoint is armed again without the check.
PutAlwaysArms(block) ==
    LET n == IF Len(block) <= SpaceLen THEN Len(block) ELSE SpaceLen
        At(i) == (wi + i - 1) % Size
    IN  /\ armed /\ (Torn \/ pc \notin {"mirrors", "wrap"})
        /\ buf' = [s \in 0 .. Size - 1 |->
                     IF \E i \in 1 .. n : At(i) = s
                     THEN block[CHOOSE i \in 1 .. n : At(i) = s]
                     ELSE buf[s]]
        /\ IF Size - wi > n
           THEN wi' = wi + n /\ UNCHANGED wm
           ELSE wi' = n - (Size - wi) /\ wm' = 1 - wm
        /\ UNCHANGED <<ri, rm, pc, len, out, armed>>

\* rt_ringbuffer_put; a block that reaches the end of the buffer flips the
\* write mirror, also when it ends exactly there.  Then the arm-time check.
Put(block) ==
    LET n == IF Len(block) <= SpaceLen THEN Len(block) ELSE SpaceLen
        At(i) == (wi + i - 1) % Size
    IN  /\ armed /\ (Torn \/ pc \notin {"mirrors", "wrap"})
        /\ buf' = [s \in 0 .. Size - 1 |->
                     IF \E i \in 1 .. n : At(i) = s
                     THEN block[CHOOSE i \in 1 .. n : At(i) = s]
                     ELSE buf[s]]
        /\ IF Size - wi > n
           THEN wi' = wi + n /\ UNCHANGED wm
           ELSE wi' = n - (Size - wi) /\ wm' = 1 - wm
        /\ UNCHANGED <<ri, rm, pc, len, out>>
        /\ armed' = (SpaceLen' >= Chunk)

------------------------------------------------------------------------------
(* Consumer: the drain loop of rx_thread_entry *)

\* rt_ringbuffer_status compares the indices; if they are equal it compares
\* the mirrors.
Status ==
    /\ pc = "status"
    /\ pc' = IF ri = wi THEN "mirrors" ELSE "length"
    /\ UNCHANGED <<buf, ri, rm, wi, wm, armed, len, out>>

StatusMirrors ==
    /\ pc = "mirrors"
    /\ len' = IF rm = wm THEN 0 ELSE Size
    /\ pc' = "copy"
    /\ UNCHANGED <<buf, ri, rm, wi, wm, armed, out>>

\* Mutant of Length: the length when the data wraps is taken the wrong way round.
LengthSwapped ==
    /\ pc = "length"
    /\ len' = IF wi > ri THEN wi - ri ELSE ri - wi
    /\ pc' = "copy"
    /\ UNCHANGED <<buf, ri, rm, wi, wm, armed, out>>

\* The HALFFULL branch of rt_ringbuffer_data_len loads write_index again.
Length ==
    /\ pc = "length"
    /\ len' = IF wi > ri THEN wi - ri ELSE Size - (ri - wi)
    /\ pc' = "copy"
    /\ UNCHANGED <<buf, ri, rm, wi, wm, armed, out>>

\* Mutant of Copy: the read mirror is not flipped at the end of the buffer.
CopyNoMirror ==
    LET n == IF len <= Chunk THEN len ELSE Chunk
    IN  /\ pc = "copy" /\ n > 0
        /\ out' = [i \in 1 .. n |-> buf[(ri + i - 1) % Size]]
        /\ len' = n
        /\ IF Size - ri > n
           THEN ri' = ri + n /\ pc' = "status"
           ELSE pc' = "wrap" /\ UNCHANGED ri
        /\ UNCHANGED <<buf, rm, wi, wm, armed>>

\* The copy to rx_drain and the update of the read side.  A block that reaches
\* the end of the buffer flips read_mirror before it stores read_index.
Copy ==
    LET n == IF len <= Chunk THEN len ELSE Chunk
    IN  /\ pc = "copy" /\ n > 0
        /\ out' = [i \in 1 .. n |-> buf[(ri + i - 1) % Size]]
        /\ len' = n
        /\ IF Size - ri > n
           THEN ri' = ri + n /\ pc' = "status" /\ UNCHANGED rm
           ELSE rm' = 1 - rm /\ pc' = "wrap" /\ UNCHANGED ri
        /\ UNCHANGED <<buf, wi, wm, armed>>

Wrap ==
    /\ pc = "wrap"
    /\ ri' = len - (Size - ri)
    /\ pc' = "status"
    /\ UNCHANGED <<buf, rm, wi, wm, armed, len, out>>

\* Nothing to get: the thread re-arms a paused endpoint that has room again,
\* and starts over when it is woken.
Rearm ==
    /\ pc = "copy" /\ len = 0
    /\ armed' = (armed \/ SpaceLen >= Chunk)
    /\ pc' = "status"
    /\ UNCHANGED <<buf, ri, rm, wi, wm, len, out>>

Next ==
    \/ \E block \in Blocks : Put(block)
    \/ Status \/ StatusMirrors \/ Length \/ Copy \/ Wrap \/ Rearm

Spec == Init /\ [][Next]_vars

------------------------------------------------------------------------------
(* Properties *)

\* The bytes between the read and the write position; a get that is about to
\* store its read index has already taken its block.
ReadIndex == IF pc = "wrap" THEN len - (Size - ri) ELSE ri
Content == [i \in 1 .. DataLenAt(ReadIndex) |-> buf[(ReadIndex + i - 1) % Size]]

\* The ring delivers the bytes of the packets in order, none lost, repeated or
\* invented, across every wrap of either index.
Fifo == INSTANCE ByteFifo WITH q <- Content
IsByteFifo == Fifo!Spec
==============================================================================
