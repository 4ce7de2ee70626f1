------------------------------- MODULE ByteFifo -------------------------------
(***************************************************************************)
(* What the transport expects of rx_ring: a bounded first-in first-out     *)
(* queue of bytes with one producer and one consumer, each working in      *)
(* blocks of at most Chunk bytes.                                          *)
(***************************************************************************)
EXTENDS Naturals, Sequences

CONSTANTS Byte, Size, Chunk

VARIABLES
    q,      \* the queued bytes
    out     \* the block the last Get returned

vars == <<q, out>>

Init == q = <<>> /\ out = <<>>

Put(block) ==
    /\ Len(q) + Len(block) <= Size
    /\ q' = q \o block
    /\ UNCHANGED out

Get(n) ==
    /\ n <= Len(q)
    /\ out' = SubSeq(q, 1, n)
    /\ q' = SubSeq(q, n + 1, Len(q))

\* What a step appends.
Appended == SubSeq(q', Len(q) + 1, Len(q'))

Next == \/ /\ \E n \in 1 .. Chunk : Appended \in [1 .. n -> Byte]
           /\ Put(Appended)
        \/ \E n \in 1 .. Chunk : Get(n)

Spec == Init /\ [][Next]_vars
==============================================================================
