----------------------------- MODULE RxPathProofs -----------------------------
(***************************************************************************)
(* Proofs about the way of the received bytes: the ring between interrupt  *)
(* and rx thread (RingBuffer) implements a byte queue of any size, and the *)
(* reassembler behind it (RxFeed) delivers what the host sent, for frames, *)
(* headers and chunks of any size and any number of frames.                *)
(***************************************************************************)
EXTENDS RxPath, SequenceTheorems, TLAPS

------------------------------------------------------------------------------
(* Sequences *)

\* Dropping the first k bytes of a sequence.
LEMMA DropFacts ==
    ASSUME NEW S, NEW s \in Seq(S), NEW k \in 0 .. Len(s)
    PROVE  /\ SubSeq(s, k + 1, Len(s)) \in Seq(S)
           /\ Len(SubSeq(s, k + 1, Len(s))) = Len(s) - k
           /\ \A i \in 1 .. Len(s) - k : SubSeq(s, k + 1, Len(s))[i] = s[k + i]
<1>1. \A i \in k + 1 .. Len(s) : s[i] \in S
  BY LenProperties
<1>2. k + 1 \in Int /\ Len(s) \in Int
  BY LenProperties
<1>3. /\ SubSeq(s, k + 1, Len(s)) \in Seq(S)
      /\ Len(SubSeq(s, k + 1, Len(s)))
           = IF k + 1 <= Len(s) THEN Len(s) - (k + 1) + 1 ELSE 0
      /\ \A i \in 1 .. Len(s) - (k + 1) + 1 :
           SubSeq(s, k + 1, Len(s))[i] = s[(k + 1) + i - 1]
  BY <1>1, <1>2, SubSeqProperties
<1>4. Len(s) \in Nat
  BY LenProperties
<1> QED
  BY <1>3, <1>4

\* The first k bytes of a sequence.
LEMMA TakeFacts ==
    ASSUME NEW S, NEW s \in Seq(S), NEW k \in 0 .. Len(s)
    PROVE  /\ SubSeq(s, 1, k) \in Seq(S)
           /\ Len(SubSeq(s, 1, k)) = k
           /\ \A i \in 1 .. k : SubSeq(s, 1, k)[i] = s[i]
<1>1. \A i \in 1 .. k : s[i] \in S
  BY LenProperties
<1>2. /\ SubSeq(s, 1, k) \in Seq(S)
      /\ Len(SubSeq(s, 1, k)) = IF 1 <= k THEN k - 1 + 1 ELSE 0
      /\ \A i \in 1 .. k - 1 + 1 : SubSeq(s, 1, k)[i] = s[1 + i - 1]
  BY <1>1, SubSeqProperties
<1> QED
  BY <1>2

\* What was appended comes off the end.
LEMMA DropWhole ==
    ASSUME NEW S, NEW s \in Seq(S), NEW t \in Seq(S)
    PROVE  SubSeq(s \o t, Len(s) + 1, Len(s \o t)) = t
<1> DEFINE a == SubSeq(s \o t, Len(s) + 1, Len(s \o t))
<1>1. /\ s \o t \in Seq(S) /\ Len(s \o t) = Len(s) + Len(t)
      /\ Len(s) \in Nat /\ Len(t) \in Nat
      /\ \A i \in 1 .. Len(s) + Len(t) :
           (s \o t)[i] = IF i <= Len(s) THEN s[i] ELSE t[i - Len(s)]
  BY ConcatProperties, LenProperties
<1>2. /\ a \in Seq(S) /\ Len(a) = Len(t)
      /\ \A i \in 1 .. Len(t) : a[i] = (s \o t)[Len(s) + i]
  BY <1>1, DropFacts
<1> HIDE DEF a
<1>3. \A i \in 1 .. Len(t) : a[i] = t[i]
  BY <1>1, <1>2
<1>4. a = t
  BY <1>2, <1>3, SeqEqual
<1> QED
  BY <1>4 DEF a

\* Dropping from the front of a concatenation, within its first part ...
LEMMA DropConcat ==
    ASSUME NEW S, NEW s \in Seq(S), NEW t \in Seq(S), NEW k \in 0 .. Len(s)
    PROVE  SubSeq(s, k + 1, Len(s)) \o t = SubSeq(s \o t, k + 1, Len(s \o t))
<1> DEFINE a == SubSeq(s, k + 1, Len(s))
           b == SubSeq(s \o t, k + 1, Len(s \o t))
<1>1. /\ s \o t \in Seq(S) /\ Len(s \o t) = Len(s) + Len(t)
      /\ Len(s) \in Nat /\ Len(t) \in Nat
      /\ \A i \in 1 .. Len(s) + Len(t) :
           (s \o t)[i] = IF i <= Len(s) THEN s[i] ELSE t[i - Len(s)]
  BY ConcatProperties, LenProperties
<1>2. /\ a \in Seq(S) /\ Len(a) = Len(s) - k
      /\ \A i \in 1 .. Len(s) - k : a[i] = s[k + i]
  BY DropFacts
<1>3. /\ b \in Seq(S) /\ Len(b) = Len(s) + Len(t) - k
      /\ \A i \in 1 .. Len(s) + Len(t) - k : b[i] = (s \o t)[k + i]
  <2>1. k \in 0 .. Len(s \o t)
    BY <1>1
  <2> QED
    BY <1>1, <2>1, DropFacts
<1>4. /\ a \o t \in Seq(S) /\ Len(a \o t) = Len(a) + Len(t)
      /\ \A i \in 1 .. Len(a) + Len(t) :
           (a \o t)[i] = IF i <= Len(a) THEN a[i] ELSE t[i - Len(a)]
  BY <1>2, ConcatProperties
<1> HIDE DEF a, b
<1>5. \A i \in 1 .. Len(a \o t) : (a \o t)[i] = b[i]
  <2> SUFFICES ASSUME NEW i \in 1 .. Len(a \o t) PROVE (a \o t)[i] = b[i]
    OBVIOUS
  <2>1. i \in Nat /\ i >= 1 /\ i <= Len(s) - k + Len(t)
    BY <1>1, <1>2, <1>4
  <2>2. CASE i <= Len(s) - k
    <3>1. (a \o t)[i] = s[k + i]
      BY <1>1, <1>2, <1>4, <2>1, <2>2
    <3>2. b[i] = s[k + i]
      BY <1>1, <1>3, <2>1, <2>2
    <3> QED
      BY <3>1, <3>2
  <2>3. CASE i > Len(s) - k
    <3>1. (a \o t)[i] = t[i - (Len(s) - k)]
      BY <1>1, <1>2, <1>4, <2>1, <2>3
    <3>2. b[i] = t[k + i - Len(s)]
      BY <1>1, <1>3, <2>1, <2>3, SMTT(30)
    <3>3. i - (Len(s) - k) = k + i - Len(s)
      BY <1>1, <2>1
    <3> QED
      BY <3>1, <3>2, <3>3
  <2> QED
    BY <1>1, <2>1, <2>2, <2>3
<1>6. Len(a \o t) = Len(b)
  BY <1>1, <1>2, <1>3, <1>4
<1>7. a \o t = b
  BY <1>3, <1>4, <1>5, <1>6, SeqEqual
<1> QED
  BY <1>7 DEF a, b

\* ... or all of it and k of the second.
LEMMA DropBoth ==
    ASSUME NEW S, NEW s \in Seq(S), NEW t \in Seq(S), NEW k \in 0 .. Len(t)
    PROVE  SubSeq(t, k + 1, Len(t)) = SubSeq(s \o t, Len(s) + k + 1, Len(s \o t))
<1> DEFINE a == SubSeq(t, k + 1, Len(t))
           b == SubSeq(s \o t, Len(s) + k + 1, Len(s \o t))
<1>1. /\ s \o t \in Seq(S) /\ Len(s \o t) = Len(s) + Len(t)
      /\ Len(s) \in Nat /\ Len(t) \in Nat
      /\ \A i \in 1 .. Len(s) + Len(t) :
           (s \o t)[i] = IF i <= Len(s) THEN s[i] ELSE t[i - Len(s)]
  BY ConcatProperties, LenProperties
<1>2. /\ a \in Seq(S) /\ Len(a) = Len(t) - k
      /\ \A i \in 1 .. Len(t) - k : a[i] = t[k + i]
  BY DropFacts
<1>3. /\ b \in Seq(S) /\ Len(b) = Len(t) - k
      /\ \A i \in 1 .. Len(t) - k : b[i] = (s \o t)[(Len(s) + k) + i]
  <2>1. Len(s) + k \in 0 .. Len(s \o t)
    BY <1>1
  <2>2. /\ b \in Seq(S) /\ Len(b) = Len(s \o t) - (Len(s) + k)
        /\ \A i \in 1 .. Len(s \o t) - (Len(s) + k) : b[i] = (s \o t)[(Len(s) + k) + i]
    BY <1>1, <2>1, DropFacts
  <2> QED
    BY <1>1, <2>2
<1> HIDE DEF a, b
<1>4. \A i \in 1 .. Len(a) : a[i] = b[i]
  <2> SUFFICES ASSUME NEW i \in 1 .. Len(a) PROVE a[i] = b[i]
    OBVIOUS
  <2>1. i \in 1 .. Len(t) - k /\ (Len(s) + k) + i \in 1 .. Len(s) + Len(t)
    BY <1>1, <1>2
  <2>2. ~((Len(s) + k) + i <= Len(s)) /\ (Len(s) + k) + i - Len(s) = k + i
    BY <1>1, <2>1
  <2>3. b[i] = t[k + i]
    BY <1>1, <1>3, <2>1, <2>2
  <2> QED
    BY <1>2, <2>1, <2>3
<1>5. a = b
  BY <1>1, <1>2, <1>3, <1>4, SeqEqual
<1> QED
  BY <1>5 DEF a, b

------------------------------------------------------------------------------
(* RingBuffer *)

\* The place of a byte that is a bytes after the start of the buffer.
Slot(a) == IF a < Size THEN a ELSE a - Size

\* The bytes in the ring, without the ones a get has already taken.
Held == DataLenAt(ReadIndex)

RingTypes ==
    /\ buf \in [0 .. Size - 1 -> Byte]
    /\ ri \in 0 .. Size - 1 /\ wi \in 0 .. Size - 1 /\ rm \in {0, 1} /\ wm \in {0, 1}
    /\ len \in 0 .. Size
    /\ pc \in {"status", "mirrors", "length", "copy", "wrap"}

\* The mirrors tell which index is ahead.
MirrorInv ==
    /\ rm = wm => ReadIndex <= wi
    /\ rm # wm => wi <= ReadIndex

\* What the thread knows at each point of rt_ringbuffer_get: an interrupt since
\* then can only have added bytes.
GetInv ==
    /\ pc = "mirrors" => ri = wi
    /\ pc = "length" => Held > 0
    /\ pc = "copy" => len <= Held
    /\ pc = "wrap" => len \in 1 .. Chunk /\ Size - ri <= len

\* An armed endpoint has room for a packet.
ArmedInv == armed => Size - Held >= Chunk

RingInv == RingTypes /\ MirrorInv /\ GetInv /\ ArmedInv

\* The code wraps with an index that is at most one buffer past the end.
LEMMA SlotFacts ==
    ASSUME NEW a \in 0 .. 2 * Size - 1
    PROVE  a % Size = Slot(a) /\ Slot(a) \in 0 .. Size - 1
<1>1. ASSUME a < Size PROVE a % Size = a
  BY <1>1, SizeAssumption
<1>2. ASSUME ~(a < Size) PROVE a % Size = a - Size
  BY <1>2, SizeAssumption
<1> QED
  BY <1>1, <1>2, SizeAssumption DEF Slot

\* Less than a buffer apart, two bytes have different places.
LEMMA SlotDiffers ==
    ASSUME NEW a \in 0 .. 2 * Size - 1, NEW b \in 0 .. 2 * Size - 1, a < b, b < a + Size
    PROVE  Slot(a) # Slot(b)
  BY SizeAssumption DEF Slot

\* How much the ring holds, and where.
LEMMA HeldFacts ==
    ASSUME RingInv
    PROVE  /\ ReadIndex \in 0 .. Size - 1 /\ Held \in 0 .. Size
           /\ Held = IF rm = wm THEN wi - ReadIndex ELSE Size - (ReadIndex - wi)
<1>1. ReadIndex \in 0 .. Size - 1
  BY SizeAssumption DEF RingInv, RingTypes, GetInv, ReadIndex
<1>2. Held = IF rm = wm THEN wi - ReadIndex ELSE Size - (ReadIndex - wi)
  BY <1>1, SizeAssumption DEF RingInv, RingTypes, MirrorInv, Held, DataLenAt
<1> QED
  BY <1>1, <1>2, SizeAssumption DEF RingInv, RingTypes, MirrorInv

\* The content, byte by byte.
LEMMA ContentFacts ==
    ASSUME RingInv
    PROVE  /\ Content \in Seq(Byte) /\ Len(Content) = Held
           /\ \A i \in 1 .. Held : Content[i] = buf[Slot(ReadIndex + i - 1)]
<1>1. \A i \in 1 .. Held :
        /\ (ReadIndex + i - 1) % Size = Slot(ReadIndex + i - 1)
        /\ Slot(ReadIndex + i - 1) \in 0 .. Size - 1
  <2> SUFFICES ASSUME NEW i \in 1 .. Held
               PROVE  /\ (ReadIndex + i - 1) % Size = Slot(ReadIndex + i - 1)
                      /\ Slot(ReadIndex + i - 1) \in 0 .. Size - 1
    OBVIOUS
  <2>1. ReadIndex + i - 1 \in 0 .. 2 * Size - 1
    BY HeldFacts, SizeAssumption
  <2> QED
    BY <2>1, SlotFacts
<1>2. Content = [i \in 1 .. Held |-> buf[Slot(ReadIndex + i - 1)]]
  BY <1>1 DEF Content, Held
<1>3. \A i \in 1 .. Held : buf[Slot(ReadIndex + i - 1)] \in Byte
  BY <1>1 DEF RingInv, RingTypes
<1>4. Held \in Nat
  BY HeldFacts, SizeAssumption
<1> QED
  BY <1>2, <1>3, <1>4

\* rt_ringbuffer_put: the packet is appended.
LEMMA PutStep ==
    ASSUME ~Torn, RingInv, NEW block \in Blocks, Put(block)
    PROVE  RingInv' /\ Fifo!Put(block)
<1> DEFINE n == Len(block)
<1>1. n \in 1 .. Chunk /\ block \in Seq(Byte) /\ \A i \in 1 .. n : block[i] \in Byte
  <2>1. PICK m \in 1 .. Chunk : block \in [1 .. m -> Byte]
    BY DEF Blocks
  <2>2. m \in Nat
    BY <2>1, SizeAssumption
  <2> QED
    BY <2>1, <2>2
<1>2. /\ armed /\ pc \in {"status", "length", "copy"}
      /\ UNCHANGED <<ri, rm, pc, len, out>>
  BY DEF Put, RingInv, RingTypes
<1>3. ReadIndex = ri /\ ReadIndex' = ri /\ SpaceLen = Size - Held
  BY <1>2 DEF ReadIndex, SpaceLen, DataLen, Held
<1>4. /\ Held + n <= Size /\ n <= SpaceLen /\ Held \in 0 .. Size /\ ri \in 0 .. Size - 1
      /\ Held = IF rm = wm THEN wi - ri ELSE Size - (ri - wi)
      /\ Size \in Nat /\ Chunk \in 1 .. Size
  BY <1>1, <1>2, <1>3, HeldFacts, SizeAssumption DEF RingInv, ArmedInv
<1>5. /\ IF Size - wi > n THEN wi' = wi + n /\ wm' = wm
                          ELSE wi' = n - (Size - wi) /\ wm' = 1 - wm
      /\ armed' = (SpaceLen' >= Chunk)
      /\ buf' = [s \in 0 .. Size - 1 |->
                   IF \E i \in 1 .. n : (wi + i - 1) % Size = s
                   THEN block[CHOOSE i \in 1 .. n : (wi + i - 1) % Size = s]
                   ELSE buf[s]]
  BY <1>4 DEF Put
<1>6. wi \in 0 .. Size - 1 /\ rm \in {0, 1} /\ wm \in {0, 1} /\ n \in 1 .. Size
  BY <1>1, <1>4 DEF RingInv, RingTypes
<1> HIDE DEF n
<1>7. /\ wi' \in 0 .. Size - 1 /\ wm' \in {0, 1}
      /\ rm = wm' => ri <= wi'
      /\ rm # wm' => wi' <= ri
      /\ Held + n = IF rm = wm' THEN wi' - ri ELSE Size - (ri - wi')
  <2>0. MirrorInv /\ ReadIndex = ri
    BY <1>3 DEF RingInv
  <2>1. CASE Size - wi > n
    BY <1>4, <1>5, <1>6, <2>0, <2>1 DEF MirrorInv
  <2>2. CASE ~(Size - wi > n)
    <3>1. rm = wm
      BY <1>4, <1>6, <2>0, <2>2 DEF MirrorInv
    <3> QED
      BY <1>4, <1>5, <1>6, <2>0, <2>2, <3>1 DEF MirrorInv
  <2> QED
    BY <2>1, <2>2
<1>8. Held' = Held + n
  <2>1. Held' = IF ri = wi' THEN IF rm = wm' THEN 0 ELSE Size
                ELSE IF wi' > ri THEN wi' - ri ELSE Size - (ri - wi')
    BY <1>2, <1>3 DEF Held, DataLenAt
  <2>2. CASE rm = wm'
    <3>1. \A r, w \in 0 .. Size - 1 : r <= w =>
            (IF r = w THEN 0 ELSE IF w > r THEN w - r ELSE Size - (r - w)) = w - r
      BY SizeAssumption
    <3>2. Held' = wi' - ri
      BY <1>4, <1>7, <2>1, <2>2, <3>1
    <3> QED
      BY <1>7, <2>2, <3>2
  <2>3. CASE rm # wm'
    <3>1. \A r, w \in 0 .. Size - 1 : w <= r =>
            (IF r = w THEN Size ELSE IF w > r THEN w - r ELSE Size - (r - w))
              = Size - (r - w)
      BY SizeAssumption
    <3>2. Held' = Size - (ri - wi')
      BY <1>4, <1>7, <2>1, <2>3, <3>1
    <3> QED
      BY <1>7, <2>3, <3>2
  <2> QED
    BY <2>2, <2>3
<1>9. ASSUME NEW i \in 1 .. n
      PROVE  /\ wi + i - 1 \in 0 .. 2 * Size - 1
             /\ (wi + i - 1) % Size = Slot(wi + i - 1)
             /\ Slot(wi + i - 1) \in 0 .. Size - 1
  <2>1. wi + i - 1 \in 0 .. 2 * Size - 1
    BY <1>4, <1>6
  <2> QED
    BY <2>1, SlotFacts
<1>10. buf' \in [0 .. Size - 1 -> Byte]
  <2>1. ASSUME NEW s \in 0 .. Size - 1 PROVE buf'[s] \in Byte
    <3>1. CASE \E i \in 1 .. n : (wi + i - 1) % Size = s
      <4>1. (CHOOSE i \in 1 .. n : (wi + i - 1) % Size = s) \in 1 .. n
        BY <3>1
      <4> QED
        BY <1>1, <1>5, <3>1, <4>1 DEF n
    <3>2. CASE ~ \E i \in 1 .. n : (wi + i - 1) % Size = s
      BY <1>5, <3>2 DEF RingInv, RingTypes
    <3> QED
      BY <3>1, <3>2
  <2> QED
    BY <1>5, <2>1
<1>11. RingInv'
  <2>1. RingTypes'
    BY <1>2, <1>7, <1>10 DEF RingInv, RingTypes
  <2>2. MirrorInv'
    BY <1>2, <1>3, <1>7 DEF MirrorInv
  <2>3. GetInv'
    BY <1>2, <1>4, <1>6, <1>8 DEF RingInv, RingTypes, GetInv
  <2>4. ArmedInv'
    BY <1>2, <1>3, <1>5 DEF ArmedInv, SpaceLen, DataLen, Held
  <2> QED
    BY <2>1, <2>2, <2>3, <2>4 DEF RingInv
<1>12. ASSUME NEW i \in 1 .. n PROVE buf'[Slot(wi + i - 1)] = block[i]
  <2> DEFINE s == Slot(wi + i - 1)
             j == CHOOSE k \in 1 .. n : (wi + k - 1) % Size = s
  <2>1. j \in 1 .. n /\ (wi + j - 1) % Size = s
    BY <1>9
  <2>2. buf'[s] = block[j]
    BY <1>5, <1>9
  <2>3. Slot(wi + j - 1) = Slot(wi + i - 1)
    BY <1>9, <2>1
  <2> HIDE DEF j, s
  <2>4. j = i
    <3>1. /\ wi + j - 1 \in 0 .. 2 * Size - 1 /\ wi + i - 1 \in 0 .. 2 * Size - 1
          /\ j \in Int /\ i \in Int /\ j < i + Size /\ i < j + Size
      BY <1>4, <1>6, <2>1
    <3>2. ~(j < i)
      <4>1. j < i => wi + j - 1 < wi + i - 1 /\ wi + i - 1 < (wi + j - 1) + Size
        BY <1>4, <1>6, <3>1
      <4> QED
        BY <2>3, <3>1, <4>1, SlotDiffers
    <3>3. ~(i < j)
      <4>1. i < j => wi + i - 1 < wi + j - 1 /\ wi + j - 1 < (wi + i - 1) + Size
        BY <1>4, <1>6, <3>1
      <4> QED
        BY <2>3, <3>1, <4>1, SlotDiffers
    <3> QED
      BY <3>1, <3>2, <3>3
  <2> QED
    BY <2>2, <2>4 DEF s
<1>13. ASSUME NEW i \in 1 .. Held PROVE buf'[Slot(ri + i - 1)] = buf[Slot(ri + i - 1)]
  <2>1. ri + i - 1 \in 0 .. 2 * Size - 1
    BY <1>4
  <2>2. Slot(ri + i - 1) \in 0 .. Size - 1
    BY <2>1, SlotFacts
  <2>3. ASSUME NEW j \in 1 .. n PROVE Slot(wi + j - 1) # Slot(ri + i - 1)
    BY <1>4, <1>6 DEF Slot
  <2> QED
    BY <1>5, <1>9, <2>2, <2>3
<1>14. ASSUME NEW i \in Held + 1 .. Held + n
       PROVE  Slot(ri + i - 1) = Slot(wi + (i - Held) - 1) /\ i - Held \in 1 .. n
  BY <1>4, <1>6 DEF Slot
<1>15. /\ Content \in Seq(Byte) /\ Len(Content) = Held
       /\ \A i \in 1 .. Held : Content[i] = buf[Slot(ri + i - 1)]
  BY <1>3, ContentFacts
<1>16. /\ Content' \in Seq(Byte) /\ Len(Content') = Held + n
       /\ \A i \in 1 .. Held + n : Content'[i] = buf'[Slot(ri + i - 1)]
  <2>1. ASSUME NEW i \in 1 .. Held + n
        PROVE  (ri + i - 1) % Size = Slot(ri + i - 1) /\ Slot(ri + i - 1) \in 0 .. Size - 1
    <3>1. ri + i - 1 \in 0 .. 2 * Size - 1
      BY <1>4, <1>6
    <3> QED
      BY <3>1, SlotFacts
  <2>2. Content' = [i \in 1 .. Held + n |-> buf'[Slot(ri + i - 1)]]
    <3>1. Content' = [i \in 1 .. Held' |-> buf'[(ReadIndex' + i - 1) % Size]]
      BY DEF Content, Held
    <3> QED
      BY <1>3, <1>8, <2>1, <3>1
  <2>3. \A i \in 1 .. Held + n : buf'[Slot(ri + i - 1)] \in Byte
    BY <1>10, <2>1
  <2>4. Held + n \in Nat
    BY <1>4, <1>6
  <2> QED
    BY <2>2, <2>3, <2>4
<1>17. Content' = Content \o block
  <2>1. /\ Content \o block \in Seq(Byte) /\ Len(Content \o block) = Held + n
        /\ \A i \in 1 .. Held + n :
             (Content \o block)[i] = IF i <= Held THEN Content[i] ELSE block[i - Held]
    BY <1>1, <1>15, ConcatProperties DEF n
  <2>2. ASSUME NEW i \in 1 .. Held + n PROVE Content'[i] = (Content \o block)[i]
    <3>1. CASE i <= Held
      <4>1. i \in 1 .. Held
        BY <1>4, <1>6, <3>1
      <4> QED
        BY <1>13, <1>15, <1>16, <2>1, <3>1, <4>1
    <3>2. CASE ~(i <= Held)
      <4>1. i \in Held + 1 .. Held + n
        BY <1>4, <1>6, <3>2
      <4> QED
        BY <1>12, <1>14, <1>16, <2>1, <3>2, <4>1
    <3> QED
      BY <3>1, <3>2
  <2> QED
    BY <1>16, <2>1, <2>2, SeqEqual
<1> QED
  BY <1>2, <1>4, <1>11, <1>15, <1>17 DEF Fifo!Put, n

\* The copy and the update of the read side: the block is taken from the front.
LEMMA CopyStep ==
    ASSUME RingInv, Copy
    PROVE  RingInv' /\ \E n \in 1 .. Chunk : Fifo!Get(n)
<1> DEFINE n == IF len <= Chunk THEN len ELSE Chunk
           next == IF Size - ri > n THEN ri + n ELSE n - (Size - ri)
           mirror == IF Size - ri > n THEN rm ELSE 1 - rm
<1>1. /\ pc = "copy" /\ n > 0 /\ len' = n /\ UNCHANGED <<buf, wi, wm, armed>>
      /\ out' = [i \in 1 .. n |-> buf[(ri + i - 1) % Size]]
      /\ IF Size - ri > n THEN ri' = ri + n /\ pc' = "status" /\ rm' = rm
                          ELSE rm' = 1 - rm /\ pc' = "wrap" /\ ri' = ri
  BY DEF Copy
<1>2. /\ ReadIndex = ri /\ ri \in 0 .. Size - 1 /\ wi \in 0 .. Size - 1
      /\ rm \in {0, 1} /\ wm \in {0, 1} /\ len \in 0 .. Size /\ len <= Held
      /\ Held \in 0 .. Size /\ Size \in Nat \ {0} /\ Chunk \in 1 .. Size
      /\ Held = IF rm = wm THEN wi - ri ELSE Size - (ri - wi)
      /\ rm = wm => ri <= wi
      /\ rm # wm => wi <= ri
  BY <1>1, HeldFacts, SizeAssumption
     DEF RingInv, RingTypes, MirrorInv, GetInv, ReadIndex
<1>3. n \in 1 .. Chunk /\ n <= Held /\ n \in 1 .. Size
  BY <1>1, <1>2
<1> HIDE DEF n
<1>4. next \in 0 .. Size - 1 /\ mirror \in {0, 1}
      /\ (mirror = wm => next <= wi) /\ (mirror # wm => wi <= next)
      /\ Held - n = IF mirror = wm THEN wi - next ELSE Size - (next - wi)
  BY <1>2, <1>3
<1>5. ReadIndex' = next /\ rm' = mirror
  BY <1>1, <1>2, <1>3 DEF ReadIndex
<1>6. Held' = Held - n
  <2>1. Held' = IF next = wi THEN IF mirror = wm THEN 0 ELSE Size
                ELSE IF wi > next THEN wi - next ELSE Size - (next - wi)
    BY <1>1, <1>5 DEF Held, DataLenAt
  <2> HIDE DEF next, mirror
  <2> QED
    BY <1>2, <1>3, <1>4, <2>1
<1>7. RingInv'
  <2>1. RingTypes'
    BY <1>1, <1>2, <1>3, <1>4 DEF RingInv, RingTypes
  <2>2. MirrorInv'
    BY <1>1, <1>4, <1>5 DEF MirrorInv
  <2>3. GetInv'
    BY <1>1, <1>2, <1>3 DEF GetInv
  <2>4. ArmedInv'
    BY <1>1, <1>2, <1>3, <1>6 DEF RingInv, ArmedInv
  <2> QED
    BY <2>1, <2>2, <2>3, <2>4 DEF RingInv
<1>8. /\ Content \in Seq(Byte) /\ Len(Content) = Held
      /\ \A i \in 1 .. Held : Content[i] = buf[Slot(ri + i - 1)]
  BY <1>2, ContentFacts
<1>9. ASSUME NEW i \in 1 .. Size
      PROVE  (ri + i - 1) % Size = Slot(ri + i - 1) /\ Slot(ri + i - 1) \in 0 .. Size - 1
  <2>1. ri + i - 1 \in 0 .. 2 * Size - 1
    BY <1>2
  <2> QED
    BY <2>1, SlotFacts
<1>10. out' = SubSeq(Content, 1, n)
  <2>1. /\ SubSeq(Content, 1, n) \in Seq(Byte) /\ Len(SubSeq(Content, 1, n)) = n
        /\ \A i \in 1 .. n : SubSeq(Content, 1, n)[i] = Content[i]
    <3>1. n \in 0 .. Len(Content)
      BY <1>2, <1>3, <1>8
    <3> QED
      BY <1>8, <3>1, TakeFacts
  <2>2. \A i \in 1 .. n : i \in 1 .. Held /\ i \in 1 .. Size
    BY <1>2, <1>3
  <2>3. out' = [i \in 1 .. n |-> Content[i]]
    BY <1>1, <1>8, <1>9, <2>2
  <2>4. SubSeq(Content, 1, n) = [i \in 1 .. n |-> Content[i]]
    BY <2>1, LenProperties
  <2> QED
    BY <2>3, <2>4
<1>11. Content' = SubSeq(Content, n + 1, Len(Content))
  <2>1. /\ SubSeq(Content, n + 1, Len(Content)) \in Seq(Byte)
        /\ Len(SubSeq(Content, n + 1, Len(Content))) = Held - n
        /\ \A i \in 1 .. Held - n :
             SubSeq(Content, n + 1, Len(Content))[i] = Content[n + i]
    <3>1. n \in 0 .. Len(Content)
      BY <1>2, <1>3, <1>8
    <3> QED
      BY <1>8, <3>1, DropFacts
  <2>2. Content' = [i \in 1 .. Held - n |-> buf[(next + i - 1) % Size]]
    BY <1>1, <1>5, <1>6 DEF Content, Held
  <2>3. ASSUME NEW i \in 1 .. Held - n
        PROVE  buf[(next + i - 1) % Size] = Content[n + i]
    <3>1. n + i \in 1 .. Held /\ n + i \in 1 .. Size /\ next + i - 1 \in 0 .. 2 * Size - 1
      BY <1>2, <1>3, <1>4
    <3>2. (next + i - 1) % Size = Slot(next + i - 1)
      BY <3>1, SlotFacts
    <3>3. Slot(next + i - 1) = Slot(ri + (n + i) - 1)
      BY <1>2, <1>3, <3>1 DEF Slot
    <3> QED
      BY <1>8, <3>1, <3>2, <3>3
  <2>4. SubSeq(Content, n + 1, Len(Content)) = [i \in 1 .. Held - n |-> Content[n + i]]
    BY <2>1, LenProperties
  <2> QED
    BY <2>2, <2>3, <2>4
<1>12. Fifo!Get(n)
  BY <1>2, <1>3, <1>8, <1>10, <1>11 DEF Fifo!Get
<1> QED
  BY <1>3, <1>7, <1>12

\* The other steps of the thread leave the content alone.
LEMMA ThreadStep ==
    ASSUME RingInv, Status \/ StatusMirrors \/ Length \/ Wrap \/ Rearm
    PROVE  RingInv' /\ UNCHANGED <<Content, out>>
<1>1. /\ ri \in 0 .. Size - 1 /\ wi \in 0 .. Size - 1 /\ len \in 0 .. Size
      /\ Held \in 0 .. Size /\ Size \in Nat \ {0} /\ Chunk \in 1 .. Size
      /\ ReadIndex \in 0 .. Size - 1
      /\ Held = IF rm = wm THEN wi - ReadIndex ELSE Size - (ReadIndex - wi)
      /\ rm = wm => ReadIndex <= wi
      /\ rm # wm => wi <= ReadIndex
  BY HeldFacts, SizeAssumption DEF RingInv, RingTypes, MirrorInv
<1>2. UNCHANGED <<buf, rm, wi, wm, out, ReadIndex>>
  BY <1>1 DEF Status, StatusMirrors, Length, Wrap, Rearm, ReadIndex
<1>3. Held' = Held /\ Content' = Content
  BY <1>2 DEF Held, Content, DataLenAt
<1>4. RingTypes'
  BY <1>1, <1>2 DEF RingInv, RingTypes, GetInv, Status, StatusMirrors, Length, Wrap, Rearm
<1>5. MirrorInv'
  BY <1>2 DEF RingInv, MirrorInv
<1>6. GetInv'
  <2>1. CASE Status
    BY <1>1, <1>2, <1>3, <2>1 DEF Status, GetInv, ReadIndex
  <2>2. CASE StatusMirrors
    BY <1>1, <1>2, <1>3, <2>2 DEF RingInv, StatusMirrors, GetInv, ReadIndex
  <2>3. CASE Length
    BY <1>1, <1>2, <1>3, <2>3 DEF RingInv, Length, GetInv, ReadIndex
  <2>4. CASE Wrap
    BY <2>4 DEF Wrap, GetInv
  <2>5. CASE Rearm
    BY <2>5 DEF Rearm, GetInv
  <2> QED
    BY <2>1, <2>2, <2>3, <2>4, <2>5
<1>7. ArmedInv'
  <2>1. CASE Rearm
    <3>1. SpaceLen = Size - Held
      BY <2>1 DEF Rearm, SpaceLen, DataLen, Held, ReadIndex
    <3> QED
      BY <1>3, <2>1, <3>1 DEF RingInv, ArmedInv, Rearm
  <2>2. CASE Status \/ StatusMirrors \/ Length \/ Wrap
    BY <1>3, <2>2 DEF RingInv, ArmedInv, Status, StatusMirrors, Length, Wrap
  <2> QED
    BY <2>1, <2>2
<1> QED
  BY <1>2, <1>3, <1>4, <1>5, <1>6, <1>7 DEF RingInv

\* rt_ringbuffer_put and rt_ringbuffer_get make rx_ring a byte queue for a buffer
\* and chunks of any size, where no interrupt can come between the accesses to an
\* index and its mirror.
THEOREM RingIsByteFifo ==
    ASSUME ~Torn
    PROVE  Spec => IsByteFifo
<1>1. Init => RingInv /\ Fifo!Init
  <2> SUFFICES ASSUME Init PROVE RingInv /\ Fifo!Init
    OBVIOUS
  <2>1. Held = 0 /\ ReadIndex = 0
    BY DEF Init, Held, DataLenAt, ReadIndex
  <2>2. RingInv
    BY <2>1, SizeAssumption DEF Init, RingInv, RingTypes, MirrorInv, GetInv, ArmedInv
  <2>3. Content = <<>>
    <3>1. Content \in Seq(Byte) /\ Len(Content) = 0
      BY <2>1, <2>2, ContentFacts
    <3> QED
      BY <3>1, EmptySeq
  <2> QED
    BY <2>2, <2>3 DEF Init, Fifo!Init
<1>2. RingInv /\ [Next]_vars => RingInv' /\ [Fifo!Next]_(Fifo!vars)
  <2> SUFFICES ASSUME RingInv, [Next]_vars PROVE RingInv' /\ [Fifo!Next]_(Fifo!vars)
    OBVIOUS
  <2>1. ASSUME NEW block \in Blocks, Put(block)
        PROVE  RingInv' /\ Fifo!Next
    <3>1. PICK n \in 1 .. Chunk : block \in [1 .. n -> Byte]
      BY DEF Blocks
    <3>2. n \in Nat /\ block \in Seq(Byte) /\ Content \in Seq(Byte)
      BY <3>1, ContentFacts, SizeAssumption
    <3>3. RingInv' /\ Fifo!Put(block) /\ Content' = Content \o block
      BY <2>1, PutStep DEF Fifo!Put
    <3>4. Fifo!Appended = block
      BY <3>2, <3>3, DropWhole DEF Fifo!Appended
    <3> QED
      BY <3>1, <3>3, <3>4 DEF Fifo!Next
  <2>2. CASE Copy
    BY <2>2, CopyStep DEF Fifo!Next
  <2>3. CASE Status \/ StatusMirrors \/ Length \/ Wrap \/ Rearm
    BY <2>3, ThreadStep DEF Fifo!vars
  <2>4. CASE UNCHANGED vars
    BY <2>4 DEF vars, RingInv, RingTypes, MirrorInv, GetInv, ArmedInv, Held, DataLenAt,
                ReadIndex, Content, Fifo!vars
  <2> QED
    BY <2>1, <2>2, <2>3, <2>4 DEF Next
<1> QED
  BY <1>1, <1>2, PTL DEF Spec, IsByteFifo, Fifo!Spec

------------------------------------------------------------------------------
(* RxFeed *)

FrameByte == [frame : Nat \ {0}, at : Nat \ {0}]
FrameInfo == [size : Sizes, sent : Nat \ {0}]

\* The bytes the thread has not dealt with.
Pipe == rxFrame \o stream

\* p is the end of what the host has sent (fr): after a byte come the rest of
\* its frame and then only later frames from their first byte on, and nothing is
\* missing at the end.
SentTail(p, fr) ==
    \A i \in 1 .. Len(p) :
        /\ p[i].frame \in 1 .. Len(fr)
        /\ p[i].at <= fr[p[i].frame].sent
        /\ fr[p[i].frame].sent <= p[i].at + (Len(p) - i)
        /\ \A j \in i .. Len(p) :
             IF p[i].at + (j - i) <= fr[p[i].frame].sent
             THEN p[j] = ByteOf(p[i].frame, p[i].at + (j - i))
             ELSE p[j].frame > p[i].frame
        /\ i < Len(p) /\ p[i].at = fr[p[i].frame].sent => p[i + 1].at = 1

\* Types, also of the history of delivered blocks.
FeedTypes ==
    /\ FeedTypeOK
    /\ \A f \in 1 .. Len(frames) : frames[f].sent <= frames[f].size
    /\ rxFrame \in Seq(FrameByte) /\ stream \in Seq(FrameByte)
    /\ delivered \in Seq(Seq(FrameByte))

\* rx_feed leaves its loop only with less than a header, or less than the frame
\* that the accepted header announces.
AwaitInv ==
    ~scanning => (Len(rxFrame) >= HeaderSize => Accepted /\ Len(rxFrame) < FrameSize)

\* A delivered block starts with the first byte of a frame, of which nothing is
\* left in the pipeline.
DeliveredInv ==
    \A k \in 1 .. Len(delivered) :
        /\ Len(delivered[k]) > 0
        /\ delivered[k][1].frame \in 1 .. Len(frames)
        /\ \A j \in 1 .. Len(Pipe) : delivered[k][1].frame < Pipe[j].frame

FeedInv ==
    /\ FeedTypes /\ SentTail(Pipe, frames) /\ AwaitInv /\ DeliveredInv
    /\ DeliveredInOrder /\ LossIsLocal

\* A byte by its frame and place.
LEMMA ByteOfFields ==
    ASSUME NEW f, NEW i
    PROVE  ByteOf(f, i).frame = f /\ ByteOf(f, i).at = i
  BY DEF ByteOf

\* The end of an end of what was sent is one.
LEMMA SentTailDrop ==
    ASSUME NEW p \in Seq(FrameByte), NEW fr \in Seq(FrameInfo), SentTail(p, fr),
           NEW k \in 0 .. Len(p)
    PROVE  SentTail(SubSeq(p, k + 1, Len(p)), fr)
<1> DEFINE s == SubSeq(p, k + 1, Len(p))
<1>1. /\ Len(s) = Len(p) - k /\ Len(p) \in Nat
      /\ \A i \in 1 .. Len(p) - k : s[i] = p[k + i]
  BY DropFacts, LenProperties
<1> HIDE DEF s
<1>2. ASSUME NEW i \in 1 .. Len(s)
      PROVE  /\ s[i].frame \in 1 .. Len(fr)
             /\ s[i].at <= fr[s[i].frame].sent
             /\ fr[s[i].frame].sent <= s[i].at + (Len(s) - i)
             /\ \A j \in i .. Len(s) :
                  IF s[i].at + (j - i) <= fr[s[i].frame].sent
                  THEN s[j] = ByteOf(s[i].frame, s[i].at + (j - i))
                  ELSE s[j].frame > s[i].frame
             /\ i < Len(s) /\ s[i].at = fr[s[i].frame].sent => s[i + 1].at = 1
  <2>1. k + i \in 1 .. Len(p) /\ s[i] = p[k + i]
    BY <1>1
  <2>2. Len(s) - i = Len(p) - (k + i)
    BY <1>1
  <2>3. ASSUME NEW j \in i .. Len(s)
        PROVE  k + j \in k + i .. Len(p) /\ s[j] = p[k + j] /\ (k + j) - (k + i) = j - i
    BY <1>1
  <2>4. i < Len(s) => k + i < Len(p) /\ s[i + 1] = p[(k + i) + 1]
    <3>1. i < Len(s) => i + 1 \in 1 .. Len(p) - k /\ k + (i + 1) = (k + i) + 1
      BY <1>1
    <3> QED
      BY <1>1, <3>1, SMTT(30)
  <2> QED
    BY <2>1, <2>2, <2>3, <2>4 DEF SentTail
<1> QED
  BY <1>2 DEF SentTail, s

\* What was sent and a new frame is what was sent afterwards.
LEMMA SentTailAppend ==
    ASSUME NEW p \in Seq(FrameByte), NEW fr \in Seq(FrameInfo), SentTail(p, fr),
           NEW size \in Sizes, NEW n \in Nat \ {0}
    PROVE  SentTail(p \o FrameBytes(Len(fr) + 1, n),
                    Append(fr, [size |-> size, sent |-> n]))
<1> DEFINE g == Len(fr) + 1
           t == FrameBytes(g, n)
           q == p \o t
           r == Append(fr, [size |-> size, sent |-> n])
<1>0. Len(p) \in Nat /\ Len(fr) \in Nat /\ g \in Nat \ {0}
  BY LenProperties
<1>1. t \in Seq(FrameByte) /\ Len(t) = n /\ \A i \in 1 .. n : t[i] = ByteOf(g, i)
  BY <1>0 DEF FrameBytes, FrameByte, ByteOf
<1>2. /\ Len(q) = Len(p) + n
      /\ \A i \in 1 .. Len(p) + n : q[i] = IF i <= Len(p) THEN p[i] ELSE t[i - Len(p)]
  BY <1>1, ConcatProperties
<1>3. /\ Len(r) = g
      /\ \A f \in 1 .. Len(fr) : r[f] = fr[f]
      /\ r[g].sent = n
  BY AppendProperties DEF FrameInfo
<1>4. /\ \A i \in 1 .. Len(p) : q[i] = p[i]
      /\ \A i \in Len(p) + 1 .. Len(p) + n : q[i] = ByteOf(g, i - Len(p))
  <2>1. ASSUME NEW i \in Len(p) + 1 .. Len(p) + n
        PROVE  q[i] = ByteOf(g, i - Len(p))
    <3>1. i - Len(p) \in 1 .. n /\ i \in 1 .. Len(p) + n /\ ~(i <= Len(p))
      BY <1>0
    <3> QED
      BY <1>1, <1>2, <3>1
  <2> QED
    BY <1>0, <1>2, <2>1
<1>5. \A i \in 1 .. Len(p) : p[i].at \in Nat /\ p[i].frame \in Nat
  <2>1. \A i \in 1 .. Len(p) : p[i] \in FrameByte
    BY ElementOfSeq
  <2> QED
    BY <2>1 DEF FrameByte
<1>6. \A f \in 1 .. Len(fr) : fr[f].sent \in Nat
  <2>1. \A f \in 1 .. Len(fr) : fr[f] \in FrameInfo
    BY ElementOfSeq
  <2> QED
    BY <2>1 DEF FrameInfo
<1> HIDE DEF g, t, q, r
<1>7. ASSUME NEW i \in 1 .. Len(q)
      PROVE  /\ q[i].frame \in 1 .. Len(r)
             /\ q[i].at <= r[q[i].frame].sent
             /\ r[q[i].frame].sent <= q[i].at + (Len(q) - i)
             /\ \A j \in i .. Len(q) :
                  IF q[i].at + (j - i) <= r[q[i].frame].sent
                  THEN q[j] = ByteOf(q[i].frame, q[i].at + (j - i))
                  ELSE q[j].frame > q[i].frame
             /\ i < Len(q) /\ q[i].at = r[q[i].frame].sent => q[i + 1].at = 1
  <2>1. CASE i <= Len(p)
    <3>1. /\ i \in 1 .. Len(p) /\ q[i] = p[i] /\ p[i].frame \in 1 .. Len(fr)
          /\ r[q[i].frame] = fr[p[i].frame]
          /\ p[i].at <= fr[p[i].frame].sent
          /\ fr[p[i].frame].sent <= p[i].at + (Len(p) - i)
      BY <1>0, <1>2, <1>3, <1>4, <2>1, SMTT(30) DEF SentTail
    <3>2. ASSUME NEW j \in i .. Len(q)
          PROVE  IF q[i].at + (j - i) <= r[q[i].frame].sent
                 THEN q[j] = ByteOf(q[i].frame, q[i].at + (j - i))
                 ELSE q[j].frame > q[i].frame
      <4>1. CASE j <= Len(p)
        <5>1. j \in i .. Len(p) /\ q[j] = p[j]
          BY <1>0, <1>2, <1>4, <3>1, <4>1
        <5> QED
          BY <3>1, <5>1 DEF SentTail
      <4>2. CASE j > Len(p)
        <5>1. j \in Len(p) + 1 .. Len(p) + n
          BY <1>0, <1>2, <4>2
        <5>2. q[j].frame = g
          BY <1>4, <5>1, ByteOfFields
        <5>3. p[i].frame < g /\ p[i].frame \in Nat
          BY <1>0, <3>1 DEF g
        <5>4. ~(q[i].at + (j - i) <= r[q[i].frame].sent)
          BY <1>0, <1>5, <1>6, <3>1, <4>2
        <5> QED
          BY <3>1, <5>2, <5>3, <5>4, <1>0
      <4> QED
        BY <1>0, <1>2, <4>1, <4>2
    <3>3. fr[p[i].frame].sent <= p[i].at + (Len(q) - i)
      BY <1>0, <1>2, <1>5, <1>6, <3>1
    <3>4. q[i].frame \in 1 .. Len(r)
      BY <1>0, <1>3, <3>1 DEF g
    <3>5. q[i].at = r[q[i].frame].sent => q[i + 1].at = 1
      <4>1. CASE i < Len(p)
        <5>1. i + 1 \in 1 .. Len(p)
          BY <1>0, <4>1
        <5> QED
          BY <1>4, <3>1, <4>1, <5>1 DEF SentTail
      <4>2. CASE ~(i < Len(p))
        <5>1. i + 1 = Len(p) + 1 /\ i + 1 \in Len(p) + 1 .. Len(p) + n
              /\ (i + 1) - Len(p) = 1
          BY <1>0, <2>1, <4>2
        <5>2. q[i + 1] = ByteOf(g, (i + 1) - Len(p))
          BY <1>4, <5>1
        <5>3. q[i + 1] = ByteOf(g, 1)
          BY <5>1, <5>2
        <5>4. ByteOf(g, 1).at = 1
          BY DEF ByteOf
        <5> QED
          BY <5>3, <5>4
      <4> QED
        BY <4>1, <4>2
    <3> QED
      BY <3>1, <3>2, <3>3, <3>4, <3>5
  <2>2. CASE i > Len(p)
    <3>1. i \in Len(p) + 1 .. Len(p) + n
      BY <1>0, <1>2, <2>2
    <3>2. q[i].frame = g /\ q[i].at = i - Len(p)
      BY <1>4, <3>1, ByteOfFields
    <3>3. ASSUME NEW j \in i .. Len(q)
          PROVE  q[j] = ByteOf(g, q[i].at + (j - i))
      <4>1. j \in Len(p) + 1 .. Len(p) + n
        BY <1>0, <1>2, <2>2, <3>1
      <4>2. q[j] = ByteOf(g, j - Len(p))
        BY <1>4, <4>1
      <4>3. q[i].at + (j - i) = j - Len(p)
        BY <1>0, <3>2, <3>1, <4>1
      <4> QED
        BY <4>2, <4>3
    <3>4. \A j \in i .. Len(q) : q[i].at + (j - i) <= n
      BY <1>0, <1>2, <3>1, <3>2
    <3>5. g \in 1 .. Len(r)
      BY <1>0, <1>3
    <3>6. ~(i < Len(q) /\ q[i].at = n)
      BY <1>0, <1>2, <3>1, <3>2
    <3> QED
      BY <1>0, <1>2, <1>3, <3>1, <3>2, <3>3, <3>4, <3>5, <3>6
  <2> QED
    BY <1>0, <1>2, <2>1, <2>2
<1> QED
  BY <1>7 DEF SentTail, g, t, q, r

\* What the types say of the pipeline and of the frames.
LEMMA PipeFacts ==
    ASSUME FeedTypes
    PROVE  /\ Len(rxFrame) \in Nat /\ Len(stream) \in Nat /\ Len(frames) \in Nat
           /\ Pipe \in Seq(FrameByte) /\ Len(Pipe) = Len(rxFrame) + Len(stream)
           /\ \A i \in 1 .. Len(rxFrame) : Pipe[i] = rxFrame[i]
           /\ \A i \in 1 .. Len(Pipe) :
                Pipe[i].frame \in Nat /\ Pipe[i].at \in Nat \ {0}
           /\ frames \in Seq(FrameInfo) /\ DOMAIN frames = 1 .. Len(frames)
           /\ \A f \in 1 .. Len(frames) :
                /\ frames[f].sent \in Nat \ {0} /\ frames[f].size \in Nat
                /\ frames[f].sent <= frames[f].size /\ frames[f].size >= HeaderSize
<1>1. /\ rxFrame \in Seq(FrameByte) /\ stream \in Seq(FrameByte)
      /\ frames \in Seq(FrameInfo)
  BY DEF FeedTypes, FeedTypeOK, FrameInfo
<1>2. /\ Len(rxFrame) \in Nat /\ Len(stream) \in Nat /\ Len(frames) \in Nat
      /\ DOMAIN frames = 1 .. Len(frames)
  BY <1>1, LenProperties
<1>3. /\ Pipe \in Seq(FrameByte) /\ Len(Pipe) = Len(rxFrame) + Len(stream)
      /\ \A i \in 1 .. Len(rxFrame) + Len(stream) :
           Pipe[i] = IF i <= Len(rxFrame) THEN rxFrame[i] ELSE stream[i - Len(rxFrame)]
  BY <1>1, ConcatProperties DEF Pipe
<1>4. \A i \in 1 .. Len(Pipe) : Pipe[i].frame \in Nat /\ Pipe[i].at \in Nat \ {0}
  <2>1. \A i \in 1 .. Len(Pipe) : Pipe[i] \in FrameByte
    BY <1>3, ElementOfSeq
  <2> QED
    BY <2>1 DEF FrameByte
<1>5. \A f \in 1 .. Len(frames) :
        /\ frames[f].sent \in Nat \ {0} /\ frames[f].size \in Nat
        /\ frames[f].sent <= frames[f].size /\ frames[f].size >= HeaderSize
  <2>1. \A f \in 1 .. Len(frames) : frames[f] \in FrameInfo
    BY <1>1, ElementOfSeq
  <2> QED
    BY <2>1, FeedAssumption DEF FrameInfo, FeedTypes
<1>6. \A i \in 1 .. Len(rxFrame) : Pipe[i] = rxFrame[i]
  BY <1>2, <1>3
<1> QED
  BY <1>1, <1>2, <1>3, <1>4, <1>5, <1>6

\* A frame is in the pipeline while its first byte is.
LEMMA InPipelineAt ==
    ASSUME FeedTypes, NEW f
    PROVE  InPipeline(f) <=> \E j \in 1 .. Len(Pipe) : Pipe[j] = ByteOf(f, 1)
<1>1. DOMAIN Pipe = 1 .. Len(Pipe)
  BY PipeFacts, LenProperties
<1> QED
  BY <1>1 DEF InPipeline, Pipe, Range

\* A plausible header is the header of one frame, at its first byte.
LEMMA FrontFacts ==
    ASSUME FeedTypes, SentTail(Pipe, frames), Len(rxFrame) >= HeaderSize, HeaderPlausible
    PROVE  /\ Pipe[1].frame \in 1 .. Len(frames) /\ Pipe[1].at = 1
           /\ Pipe[1] = rxFrame[1] /\ rxFrame[2].frame = Pipe[1].frame
           /\ FrameSize = frames[Pipe[1].frame].size
<1>1. /\ 1 \in 1 .. Len(rxFrame) /\ 2 \in 1 .. Len(rxFrame)
      /\ 1 \in 1 .. Len(Pipe) /\ 2 \in 1 .. Len(Pipe)
  BY PipeFacts, FeedAssumption
<1>2. Pipe[1] = rxFrame[1] /\ Pipe[2] = rxFrame[2] /\ Pipe[1].at = 1 /\ Pipe[2].at = 2
  BY <1>1, PipeFacts DEF HeaderPlausible
<1>3. Pipe[1].frame \in 1 .. Len(frames) /\ frames[Pipe[1].frame].sent \in Nat \ {0}
  BY <1>1, PipeFacts DEF SentTail
<1>4. frames[Pipe[1].frame].sent # 1
  <2>1. 1 < Len(Pipe) /\ 1 + 1 = 2
    BY <1>1, PipeFacts
  <2>2. Pipe[1].at = frames[Pipe[1].frame].sent => Pipe[1 + 1].at = 1
    BY <1>1, <2>1 DEF SentTail
  <2> QED
    BY <1>2, <2>1, <2>2
<1>5. Pipe[1].at + (2 - 1) <= frames[Pipe[1].frame].sent
  BY <1>2, <1>3, <1>4
<1>6. Pipe[2] = ByteOf(Pipe[1].frame, Pipe[1].at + (2 - 1))
  BY <1>1, <1>5 DEF SentTail
<1>7. Pipe[2].frame = Pipe[1].frame
  BY <1>6, ByteOfFields
<1> QED
  BY <1>2, <1>3, <1>7 DEF FrameSize

\* The front of the pipeline as long as its frame is sent: that frame's bytes.
LEMMA FrontBytes ==
    ASSUME FeedTypes, SentTail(Pipe, frames), Len(Pipe) > 0, Pipe[1].at = 1,
           NEW j \in 1 .. Len(Pipe)
    PROVE  /\ j <= frames[Pipe[1].frame].sent => Pipe[j] = ByteOf(Pipe[1].frame, j)
           /\ j > frames[Pipe[1].frame].sent => Pipe[j].frame > Pipe[1].frame
<1>1. 1 \in 1 .. Len(Pipe) /\ j \in 1 .. Len(Pipe) /\ Pipe[1].at + (j - 1) = j
  BY PipeFacts
<1>2. frames[Pipe[1].frame].sent \in Nat
  BY <1>1, PipeFacts DEF SentTail
<1>3. IF Pipe[1].at + (j - 1) <= frames[Pipe[1].frame].sent
      THEN Pipe[j] = ByteOf(Pipe[1].frame, Pipe[1].at + (j - 1))
      ELSE Pipe[j].frame > Pipe[1].frame
  BY <1>1 DEF SentTail
<1> QED
  BY <1>1, <1>2, <1>3

\* A step that takes k bytes from the front of the pipeline.
LEMMA DropStep ==
    ASSUME FeedInv, FeedTypes', NEW k \in 0 .. Len(Pipe), frames' = frames,
           Pipe' = SubSeq(Pipe, k + 1, Len(Pipe))
    PROVE  /\ SentTail(Pipe, frames)'
           /\ Len(Pipe)' = Len(Pipe) - k
           /\ \A i \in 1 .. Len(Pipe) - k : Pipe'[i] = Pipe[k + i]
           /\ \A f : InPipeline(f) =>
                InPipeline(f)' \/ \E j \in 1 .. k : Pipe[j] = ByteOf(f, 1)
           /\ DeliveredInv /\ UNCHANGED delivered => DeliveredInv'
<1>1. FeedTypes /\ SentTail(Pipe, frames) /\ Pipe \in Seq(FrameByte)
      /\ frames \in Seq(FrameInfo) /\ Len(Pipe) \in Nat
  BY PipeFacts DEF FeedInv
<1>2. SentTail(Pipe', frames')
  BY <1>1, SentTailDrop
<1>3. /\ Len(Pipe') = Len(Pipe) - k
      /\ \A i \in 1 .. Len(Pipe) - k : Pipe'[i] = Pipe[k + i]
  BY <1>1, DropFacts
<1>4. ASSUME NEW f, InPipeline(f)
      PROVE  InPipeline(f)' \/ \E j \in 1 .. k : Pipe[j] = ByteOf(f, 1)
  <2>1. PICK j \in 1 .. Len(Pipe) : Pipe[j] = ByteOf(f, 1)
    BY <1>1, <1>4, InPipelineAt
  <2>2. CASE j > k
    <3>1. j - k \in 1 .. Len(Pipe) - k /\ k + (j - k) = j
      BY <1>1, <2>2
    <3>2. Pipe'[j - k] = ByteOf(f, 1) /\ j - k \in 1 .. Len(Pipe')
      BY <1>3, <2>1, <3>1
    <3>3. DOMAIN Pipe' = 1 .. Len(Pipe')
      <4>1. Pipe' \in Seq(FrameByte)
        BY <1>1, DropFacts
      <4> QED
        BY <4>1, LenProperties
    <3>4. ByteOf(f, 1) \in Range(Pipe')
      BY <3>2, <3>3 DEF Range
    <3> QED
      BY <3>4 DEF InPipeline, Pipe, ByteOf
  <2>3. CASE j <= k
    BY <1>1, <2>1, <2>3
  <2> QED
    BY <1>1, <2>2, <2>3
<1>5. ASSUME DeliveredInv, UNCHANGED delivered
      PROVE  DeliveredInv'
  <2>1. \A i \in 1 .. Len(Pipe') : k + i \in 1 .. Len(Pipe) /\ Pipe'[i] = Pipe[k + i]
    BY <1>1, <1>3
  <2> QED
    BY <1>5, <2>1 DEF DeliveredInv
<1> QED
  BY <1>2, <1>3, <1>4, <1>5

\* The host appends a frame to the stream.
LEMMA HostSendStep ==
    ASSUME FeedInv, NEW size \in Sizes, NEW n \in 1 .. size, HostSend(size, n)
    PROVE  FeedInv'
<1> DEFINE g == Len(frames) + 1
           t == FrameBytes(g, n)
           info == [size |-> size, sent |-> n]
<1>0. FeedTypes /\ SentTail(Pipe, frames)
  BY DEF FeedInv
<1>1. n \in Nat \ {0} /\ size \in Nat /\ n <= size /\ g \in Nat \ {0} /\ info \in FrameInfo
  BY <1>0, PipeFacts, FeedAssumption DEF FrameInfo
<1>2. t \in Seq(FrameByte) /\ Len(t) = n /\ \A i \in 1 .. n : t[i] = ByteOf(g, i)
  BY <1>1 DEF FrameBytes, FrameByte, ByteOf
<1>3. /\ frames' \in Seq(FrameInfo) /\ Len(frames') = g
      /\ \A f \in 1 .. Len(frames) : frames'[f] = frames[f]
      /\ frames'[g] = info
  <2>1. frames \in Seq(FrameInfo) /\ frames' = Append(frames, info)
    BY <1>0, PipeFacts DEF HostSend
  <2> QED
    BY <1>1, <2>1, AppendProperties
<1>4. stream' \in Seq(FrameByte) /\ Pipe' = Pipe \o t
  <2>1. rxFrame \in Seq(FrameByte) /\ stream \in Seq(FrameByte)
    BY <1>0 DEF FeedTypes
  <2>2. stream' = stream \o t /\ rxFrame' = rxFrame
    BY DEF HostSend
  <2> HIDE DEF t
  <2>3. rxFrame \o (stream \o t) = (rxFrame \o stream) \o t
    BY <1>2, <2>1, ConcatAssociative
  <2>4. stream \o t \in Seq(FrameByte)
    BY <1>2, <2>1, ConcatProperties
  <2> QED
    BY <2>2, <2>3, <2>4 DEF Pipe
<1>5. SentTail(Pipe', frames')
  BY <1>0, <1>1, <1>4, SentTailAppend, PipeFacts DEF HostSend
<1> HIDE DEF t, info
<1>6. /\ Len(Pipe') = Len(Pipe) + n /\ Len(Pipe) \in Nat
      /\ \A i \in 1 .. Len(Pipe) : Pipe'[i] = Pipe[i]
      /\ \A i \in Len(Pipe) + 1 .. Len(Pipe') : Pipe'[i] = ByteOf(g, i - Len(Pipe))
  <2>1. Pipe \in Seq(FrameByte) /\ Len(Pipe) \in Nat
    BY <1>0, PipeFacts
  <2>2. /\ Len(Pipe \o t) = Len(Pipe) + n
        /\ \A i \in 1 .. Len(Pipe) + n :
             (Pipe \o t)[i] = IF i <= Len(Pipe) THEN Pipe[i] ELSE t[i - Len(Pipe)]
    BY <1>2, <2>1, ConcatProperties
  <2>3. ASSUME NEW i \in Len(Pipe) + 1 .. Len(Pipe')
        PROVE  Pipe'[i] = ByteOf(g, i - Len(Pipe))
    <3>1. i - Len(Pipe) \in 1 .. n /\ i \in 1 .. Len(Pipe) + n /\ ~(i <= Len(Pipe))
      BY <1>1, <1>4, <2>1, <2>2
    <3> QED
      BY <1>2, <1>4, <2>2, <3>1
  <2> QED
    BY <1>1, <1>4, <2>1, <2>2, <2>3
<1>7. FeedTypes'
  <2>1. DOMAIN frames' = 1 .. g /\ DOMAIN frames = 1 .. Len(frames) /\ Len(frames) \in Nat
    BY <1>0, <1>3, LenProperties, PipeFacts
  <2>2. FeedTypeOK'
    BY <1>0, <1>3, <2>1 DEF FeedTypes, FeedTypeOK, HostSend, FrameInfo, BufSize
  <2>3. \A f \in 1 .. Len(frames') : frames'[f].sent <= frames'[f].size
    BY <1>0, <1>1, <1>3, <2>1, SMTT(30) DEF FeedTypes, info
  <2> QED
    BY <1>0, <1>4, <2>2, <2>3 DEF FeedTypes, HostSend
<1>8. \A k \in 1 .. Len(delivered) :
        /\ delivered[k][1].frame \in 1 .. Len(frames)
        /\ frames'[delivered[k][1].frame] = frames[delivered[k][1].frame]
  BY <1>3 DEF FeedInv, DeliveredInv
<1>9. AwaitInv'
  <2>1. ASSUME ~scanning, Len(rxFrame) >= HeaderSize
        PROVE  (Accepted /\ Len(rxFrame) < FrameSize)'
    <3>1. Accepted /\ Len(rxFrame) < FrameSize
      BY <2>1 DEF FeedInv, AwaitInv
    <3>2. rxFrame[2].frame \in 1 .. Len(frames)
      BY <1>0, <2>1, <3>1, FrontFacts DEF Accepted
    <3> QED
      BY <1>3, <3>1, <3>2 DEF Accepted, HeaderPlausible, FrameSize, HostSend
  <2> QED
    BY <2>1 DEF AwaitInv, HostSend
<1>10. DeliveredInv'
  <2>1. ASSUME NEW k \in 1 .. Len(delivered), NEW j \in 1 .. Len(Pipe')
        PROVE  delivered[k][1].frame < Pipe'[j].frame
    <3>1. CASE j <= Len(Pipe)
      <4>1. j \in 1 .. Len(Pipe)
        BY <1>6, <3>1
      <4> QED
        BY <1>6, <4>1 DEF FeedInv, DeliveredInv
    <3>2. CASE j > Len(Pipe)
      <4>1. Pipe'[j].frame = g
        BY <1>6, <3>2, ByteOfFields
      <4> QED
        BY <1>0, <1>8, <4>1, PipeFacts
    <3> QED
      BY <1>6, <3>1, <3>2
  <2>2. \A k \in 1 .. Len(delivered) : delivered[k][1].frame \in 1 .. Len(frames')
    BY <1>0, <1>3, <1>8, PipeFacts
  <2> QED
    BY <2>1, <2>2 DEF DeliveredInv, HostSend, FeedInv
<1>11. DOMAIN delivered = 1 .. Len(delivered)
  BY <1>0, LenProperties DEF FeedTypes
<1>12. DeliveredInOrder'
  BY <1>8, <1>11 DEF FeedInv, DeliveredInOrder, Cut, Whole, HostSend
<1>13. LossIsLocal'
  <2>1. DOMAIN frames = 1 .. Len(frames) /\ DOMAIN frames' = 1 .. g /\ Len(frames) \in Nat
    BY <1>0, <1>3, LenProperties, PipeFacts
  <2>2. ASSUME NEW f, \E j \in 1 .. Len(Pipe') : Pipe'[j] = ByteOf(f, 1)
        PROVE  InPipeline(f)'
    <3>1. DOMAIN Pipe' = 1 .. Len(Pipe')
      <4>1. Pipe' \in Seq(FrameByte)
        BY <1>7, PipeFacts DEF FeedTypes, Pipe
      <4> QED
        BY <4>1, LenProperties
    <3> QED
      BY <2>2, <3>1 DEF InPipeline, Pipe, Range, ByteOf
  <2>3. ASSUME NEW f \in DOMAIN frames', Wanted(f)'
        PROVE  (InPipeline(f) \/ IsDelivered(f) \/ Swallowed(f) \/ f \in dropped)'
    <3>1. CASE f = g
      <4>1. /\ Len(Pipe) + 1 \in Len(Pipe) + 1 .. Len(Pipe') /\ Len(Pipe) + 1 \in 1 .. Len(Pipe')
            /\ (Len(Pipe) + 1) - Len(Pipe) = 1
        BY <1>1, <1>6
      <4>2. Pipe'[Len(Pipe) + 1] = ByteOf(g, 1)
        BY <1>6, <4>1
      <4> QED
        BY <2>2, <3>1, <4>1, <4>2
    <3>2. CASE f # g
      <4>1. f \in DOMAIN frames /\ frames'[f] = frames[f]
        BY <1>3, <2>1, <3>2
      <4>2. InPipeline(f) \/ IsDelivered(f) \/ Swallowed(f) \/ f \in dropped
        BY <2>3, <4>1 DEF FeedInv, LossIsLocal, Wanted, Cut
      <4>3. CASE InPipeline(f)
        <5>1. PICK j \in 1 .. Len(Pipe) : Pipe[j] = ByteOf(f, 1)
          BY <1>0, <4>3, InPipelineAt
        <5>2. j \in 1 .. Len(Pipe') /\ Pipe'[j] = ByteOf(f, 1)
          BY <1>1, <1>6, <5>1
        <5> QED
          BY <2>2, <5>2
      <4>4. CASE IsDelivered(f)
        BY <2>1, <4>1, <4>4 DEF IsDelivered, Whole, HostSend
      <4>5. CASE Swallowed(f)
        <5>1. PICK k \in 1 .. Len(delivered) :
                Cut(delivered[k][1].frame) /\ ByteOf(f, 1) \in Range(delivered[k])
          BY <1>11, <4>5 DEF Swallowed, Range
        <5>2. Cut(delivered[k][1].frame)' /\ delivered' = delivered
          BY <1>8, <5>1 DEF Cut, HostSend
        <5> QED
          BY <1>11, <5>1, <5>2 DEF Swallowed, Range, ByteOf
      <4>6. CASE f \in dropped
        BY <4>6 DEF HostSend
      <4> QED
        BY <4>2, <4>3, <4>4, <4>5, <4>6
    <3> QED
      BY <3>1, <3>2
  <2> QED
    BY <2>3 DEF LossIsLocal
<1> QED
  BY <1>5, <1>7, <1>9, <1>10, <1>12, <1>13 DEF FeedInv

\* Frames keep their fate while what is delivered and dropped only grows.
LEMMA LossStep ==
    ASSUME FeedInv, frames' = frames, dropped \subseteq dropped',
           Range(delivered) \subseteq Range(delivered'),
           \A f \in DOMAIN frames : Wanted(f) /\ InPipeline(f) =>
             (InPipeline(f) \/ IsDelivered(f) \/ Swallowed(f) \/ f \in dropped)'
    PROVE  LossIsLocal'
<1> SUFFICES ASSUME NEW f \in DOMAIN frames, Wanted(f)
             PROVE  (InPipeline(f) \/ IsDelivered(f) \/ Swallowed(f) \/ f \in dropped)'
  BY DEF LossIsLocal, Wanted, Cut
<1>1. InPipeline(f) \/ IsDelivered(f) \/ Swallowed(f) \/ f \in dropped
  BY DEF FeedInv, LossIsLocal
<1>2. IsDelivered(f) => IsDelivered(f)'
  BY DEF IsDelivered, Whole
<1>3. Swallowed(f) => Swallowed(f)'
  BY DEF Swallowed, Cut, ByteOf
<1>4. f \in dropped => f \in dropped'
  OBVIOUS
<1>5. InPipeline(f) => (InPipeline(f) \/ IsDelivered(f) \/ Swallowed(f) \/ f \in dropped)'
  OBVIOUS
<1> QED
  BY <1>1, <1>2, <1>3, <1>4, <1>5

\* A chunk moves from the ring to rx_frame: the pipeline is the same.
LEMMA FeedStep ==
    ASSUME FeedInv, NEW n \in 1 .. DrainSize, Feed(n)
    PROVE  FeedInv'
<1>1. /\ FeedTypes /\ rxFrame \in Seq(FrameByte) /\ stream \in Seq(FrameByte)
      /\ n \in 0 .. Len(stream) /\ Len(stream) \in Nat /\ Len(rxFrame) \in Nat
  BY PipeFacts, FeedAssumption DEF FeedInv, FeedTypes, Feed
<1> DEFINE a == SubSeq(stream, 1, n)
           b == SubSeq(stream, n + 1, Len(stream))
<1>2. a \in Seq(FrameByte) /\ Len(a) = n /\ \A i \in 1 .. n : a[i] = stream[i]
  BY <1>1, TakeFacts
<1>3. /\ b \in Seq(FrameByte) /\ Len(b) = Len(stream) - n
      /\ \A i \in 1 .. Len(stream) - n : b[i] = stream[n + i]
  BY <1>1, DropFacts
<1>4. rxFrame' = rxFrame \o a /\ stream' = b
  BY DEF Feed
<1>5. UNCHANGED <<frames, delivered, dropped>> /\ scanning' = TRUE
      /\ Len(rxFrame) + n <= BufSize
  BY DEF Feed
<1> HIDE DEF a, b
<1>6. a \o b = stream
  <2>0. n \in Nat /\ Len(stream) \in Nat /\ n + (Len(stream) - n) = Len(stream)
    BY <1>1
  <2>1. /\ a \o b \in Seq(FrameByte) /\ Len(a \o b) = Len(stream)
        /\ \A i \in 1 .. Len(stream) : (a \o b)[i] = IF i <= n THEN a[i] ELSE b[i - n]
    <3>1. /\ a \o b \in Seq(FrameByte) /\ Len(a \o b) = Len(a) + Len(b)
          /\ \A i \in 1 .. Len(a) + Len(b) :
               (a \o b)[i] = IF i <= Len(a) THEN a[i] ELSE b[i - Len(a)]
      BY <1>2, <1>3, ConcatProperties
    <3> QED
      BY <1>2, <1>3, <2>0, <3>1
  <2>2. ASSUME NEW i \in 1 .. Len(stream) PROVE (a \o b)[i] = stream[i]
    <3>1. CASE i <= n
      BY <1>1, <1>2, <2>1, <3>1
    <3>2. CASE i > n
      <4>1. i - n \in 1 .. Len(stream) - n /\ n + (i - n) = i /\ ~(i <= n)
        BY <1>1, <3>2
      <4> QED
        BY <1>3, <2>1, <4>1
    <3>3. i <= n \/ i > n
      BY <2>0
    <3> QED
      BY <3>1, <3>2, <3>3
  <2> QED
    BY <1>1, <2>1, <2>2, SeqEqual
<1>7. Pipe' = Pipe
  <2>1. (rxFrame \o a) \o b = rxFrame \o (a \o b)
    <3>1. rxFrame \in Seq(FrameByte) /\ a \in Seq(FrameByte) /\ b \in Seq(FrameByte)
      BY <1>1, <1>2, <1>3, SMTT(30)
    <3> QED
      BY <3>1, ConcatAssociative
  <2> QED
    BY <1>4, <1>6, <2>1 DEF Pipe
<1>8. rxFrame' \in Seq(FrameByte) /\ Len(rxFrame') = Len(rxFrame) + n
  BY <1>1, <1>2, <1>4, ConcatProperties
<1>9. FeedTypes'
  BY <1>1, <1>3, <1>4, <1>5, <1>8 DEF FeedTypes, FeedTypeOK, BufSize
<1>10. SentTail(Pipe', frames') /\ DeliveredInv' /\ DeliveredInOrder'
  BY <1>5, <1>7 DEF FeedInv, DeliveredInv, DeliveredInOrder, Cut, Whole
<1>11. AwaitInv'
  BY <1>5 DEF AwaitInv
<1>12. LossIsLocal'
  <2>1. \A f : InPipeline(f) => InPipeline(f)'
    BY <1>7 DEF InPipeline, Pipe, ByteOf
  <2> QED
    BY <1>5, <2>1, LossStep
<1> QED
  BY <1>9, <1>10, <1>11, <1>12 DEF FeedInv

\* What rx_frame holds and a chunk are thrown away.
LEMMA OverflowStep ==
    ASSUME FeedInv, NEW n \in 1 .. DrainSize, Overflow(n)
    PROVE  FeedInv'
<1>1. /\ FeedTypes /\ rxFrame \in Seq(FrameByte) /\ stream \in Seq(FrameByte)
      /\ n \in 0 .. Len(stream) /\ Len(stream) \in Nat /\ Len(rxFrame) \in Nat
      /\ Len(Pipe) = Len(rxFrame) + Len(stream) /\ DOMAIN frames = 1 .. Len(frames)
  BY PipeFacts, FeedAssumption DEF FeedInv, FeedTypes, Overflow
<1> DEFINE k == Len(rxFrame) + n
           a == SubSeq(stream, 1, n)
           b == SubSeq(stream, n + 1, Len(stream))
<1>2. a \in Seq(FrameByte) /\ Len(a) = n /\ \A i \in 1 .. n : a[i] = stream[i]
  BY <1>1, TakeFacts
<1>3. /\ b \in Seq(FrameByte) /\ Len(b) = Len(stream) - n
      /\ b = SubSeq(Pipe, k + 1, Len(Pipe))
  BY <1>1, DropFacts, DropBoth DEF Pipe
<1>4. /\ stream' = b /\ rxFrame' = <<>> /\ UNCHANGED <<frames, delivered, scanning>>
      /\ dropped' = dropped \cup
           {f \in DOMAIN frames : ByteOf(f, 1) \in Range(rxFrame \o a)}
  BY DEF Overflow
<1>5. k \in 0 .. Len(Pipe) /\ k \in Nat
  BY <1>1
<1> HIDE DEF a, b, k
<1>6. <<>> \in Seq(FrameByte) /\ Len(<<>>) = 0
  BY EmptySeq
<1>7. FeedTypes'
  <2>1. dropped' \subseteq DOMAIN frames' /\ 0 <= BufSize
    BY <1>1, <1>4, FeedAssumption DEF FeedTypes, FeedTypeOK, BufSize
  <2> QED
    BY <1>1, <1>3, <1>4, <1>6, <2>1 DEF FeedTypes, FeedTypeOK, BufSize
<1>8. Pipe' = SubSeq(Pipe, k + 1, Len(Pipe))
  BY <1>3, <1>4, ConcatEmptySeq DEF Pipe
<1>9. AwaitInv'
  BY <1>4, <1>6, FeedAssumption DEF AwaitInv
<1>10. DeliveredInOrder'
  BY <1>4 DEF FeedInv, DeliveredInOrder, Cut, Whole
<1>11. ASSUME NEW f \in DOMAIN frames, NEW j \in 1 .. k, Pipe[j] = ByteOf(f, 1)
       PROVE  f \in dropped'
  <2>1. /\ rxFrame \o a \in Seq(FrameByte) /\ Len(rxFrame \o a) = k
        /\ \A i \in 1 .. k :
             (rxFrame \o a)[i] = IF i <= Len(rxFrame) THEN rxFrame[i] ELSE a[i - Len(rxFrame)]
    <3>1. rxFrame \in Seq(FrameByte) /\ a \in Seq(FrameByte) /\ Len(a) = n
      BY <1>1, <1>2
    <3>2. /\ rxFrame \o a \in Seq(FrameByte) /\ Len(rxFrame \o a) = Len(rxFrame) + Len(a)
          /\ \A i \in 1 .. Len(rxFrame) + Len(a) :
               (rxFrame \o a)[i] = IF i <= Len(rxFrame) THEN rxFrame[i] ELSE a[i - Len(rxFrame)]
      BY <3>1, ConcatProperties
    <3> QED
      BY <3>1, <3>2 DEF k
  <2>2. (rxFrame \o a)[j] = Pipe[j]
    <3>1. \A i \in 1 .. Len(rxFrame) + Len(stream) :
            Pipe[i] = IF i <= Len(rxFrame) THEN rxFrame[i] ELSE stream[i - Len(rxFrame)]
      BY <1>1, ConcatProperties DEF Pipe
    <3>2. j \in 1 .. Len(rxFrame) + Len(stream)
          /\ (~(j <= Len(rxFrame)) => j - Len(rxFrame) \in 1 .. n)
      BY <1>1, <1>5 DEF k
    <3> QED
      BY <1>2, <2>1, <3>1, <3>2
  <2>3. DOMAIN (rxFrame \o a) = 1 .. k
    BY <2>1, LenProperties
  <2>4. ByteOf(f, 1) \in Range(rxFrame \o a)
    BY <1>11, <2>2, <2>3 DEF Range
  <2> QED
    BY <1>4, <2>4
<1>12. /\ SentTail(Pipe, frames)'
       /\ \A f : InPipeline(f) =>
            InPipeline(f)' \/ \E j \in 1 .. k : Pipe[j] = ByteOf(f, 1)
       /\ DeliveredInv'
  BY <1>4, <1>5, <1>7, <1>8, DropStep DEF FeedInv
<1>13. LossIsLocal'
  BY <1>4, <1>11, <1>12, LossStep
<1> QED
  BY <1>7, <1>9, <1>10, <1>12, <1>13 DEF FeedInv

\* A byte in front of no acceptable header goes; it is never the first of a
\* frame that should be delivered.
LEMMA ResyncStep ==
    ASSUME FeedInv, Resync
    PROVE  FeedInv'
<1>1. /\ FeedTypes /\ SentTail(Pipe, frames)
      /\ rxFrame \in Seq(FrameByte) /\ stream \in Seq(FrameByte)
      /\ Len(stream) \in Nat /\ Len(rxFrame) \in Nat /\ Len(rxFrame) >= 2
      /\ Len(Pipe) = Len(rxFrame) + Len(stream)
      /\ 1 \in 0 .. Len(rxFrame) /\ 1 \in 0 .. Len(Pipe)
      /\ 1 \in 1 .. Len(Pipe) /\ 2 \in 1 .. Len(Pipe)
      /\ DOMAIN frames = 1 .. Len(frames)
  BY PipeFacts, FeedAssumption DEF FeedInv, FeedTypes, Resync
<1>2. /\ rxFrame' = SubSeq(rxFrame, 1 + 1, Len(rxFrame)) /\ scanning' = TRUE
      /\ UNCHANGED <<frames, stream, delivered, dropped>>
  BY DEF Resync, Consume, FeedInv, FeedTypes, FeedTypeOK
<1>3. rxFrame' \in Seq(FrameByte) /\ Len(rxFrame') = Len(rxFrame) - 1
  BY <1>1, <1>2, DropFacts
<1>4. Pipe' = SubSeq(Pipe, 1 + 1, Len(Pipe))
  BY <1>1, <1>2, DropConcat DEF Pipe
<1>5. FeedTypes'
  <2>1. Len(rxFrame') <= BufSize
    BY <1>1, <1>3, FeedAssumption DEF FeedTypes, FeedTypeOK, BufSize
  <2> QED
    BY <1>1, <1>2, <1>3, <2>1 DEF FeedTypes, FeedTypeOK, BufSize
<1>6. AwaitInv' /\ DeliveredInOrder'
  BY <1>2 DEF FeedInv, AwaitInv, DeliveredInOrder, Cut, Whole
<1>7. /\ SentTail(Pipe, frames)'
      /\ \A f : InPipeline(f) =>
           InPipeline(f)' \/ \E j \in 1 .. 1 : Pipe[j] = ByteOf(f, 1)
      /\ DeliveredInv'
  BY <1>1, <1>2, <1>4, <1>5, DropStep DEF FeedInv
<1>8. ASSUME NEW f \in DOMAIN frames, Wanted(f), Pipe[1] = ByteOf(f, 1)
      PROVE  FALSE
  <2>1. Pipe[1].frame = f /\ Pipe[1].at = 1
    BY <1>8, ByteOfFields
  <2>2. 2 <= frames[f].sent /\ frames[f].size <= MaxFrameSize
    BY <1>1, <1>8, PipeFacts, FeedAssumption DEF Wanted, Cut
  <2>3. Pipe[2] = ByteOf(f, 2)
    BY <1>1, <2>1, <2>2, FrontBytes
  <2>4. rxFrame[1] = Pipe[1] /\ rxFrame[2] = Pipe[2]
    BY <1>1, PipeFacts
  <2>5. Accepted
    BY <2>1, <2>2, <2>3, <2>4, ByteOfFields DEF Accepted, HeaderPlausible, FrameSize
  <2> QED
    BY <2>5 DEF Resync
<1>9. LossIsLocal'
  BY <1>2, <1>7, <1>8, LossStep
<1> QED
  BY <1>5, <1>6, <1>7, <1>9 DEF FeedInv

\* A block is handed over.  A frame that is all there is handed over as it was
\* sent, and what follows the block belongs to later frames.
LEMMA DeliverStep ==
    ASSUME FeedInv, Deliver
    PROVE  FeedInv'
<1> DEFINE g == Pipe[1].frame
           k == FrameSize
           block == SubSeq(rxFrame, 1, k)
<1>0. /\ FeedTypes /\ SentTail(Pipe, frames) /\ Len(rxFrame) >= HeaderSize
      /\ HeaderPlausible /\ k <= Len(rxFrame)
  BY DEF FeedInv, Deliver, Accepted
<1>1. /\ g \in 1 .. Len(frames) /\ Pipe[1].at = 1 /\ Pipe[1] = rxFrame[1]
      /\ k = frames[g].size
  BY <1>0, FrontFacts
<1>2. /\ rxFrame \in Seq(FrameByte) /\ stream \in Seq(FrameByte)
      /\ delivered \in Seq(Seq(FrameByte))
  BY <1>0 DEF FeedTypes
<1>3. /\ Len(stream) \in Nat /\ Len(rxFrame) \in Nat /\ Len(delivered) \in Nat
      /\ Len(Pipe) = Len(rxFrame) + Len(stream) /\ DOMAIN frames = 1 .. Len(frames)
      /\ DOMAIN delivered = 1 .. Len(delivered) /\ Len(frames) \in Nat
  BY <1>0, <1>2, PipeFacts, LenProperties
<1>4. /\ k \in Nat \ {0} /\ frames[g].sent \in Nat \ {0} /\ frames[g].sent <= k
  BY <1>0, <1>1, PipeFacts, FeedAssumption
<1>5. k \in 0 .. Len(rxFrame) /\ k \in 0 .. Len(Pipe) /\ Len(Pipe) > 0 /\ 1 \in 1 .. Len(Pipe)
  BY <1>0, <1>3, <1>4
<1>6. /\ delivered' = Append(delivered, block)
      /\ rxFrame' = SubSeq(rxFrame, k + 1, Len(rxFrame)) /\ scanning' = TRUE
      /\ UNCHANGED <<frames, stream, dropped>>
  BY <1>0 DEF Deliver, Consume, FeedTypes, FeedTypeOK
<1>7. block \in Seq(FrameByte) /\ Len(block) = k /\ \A i \in 1 .. k : block[i] = rxFrame[i]
  BY <1>2, <1>5, TakeFacts
<1>8. rxFrame' \in Seq(FrameByte) /\ Len(rxFrame') = Len(rxFrame) - k
  BY <1>2, <1>5, <1>6, DropFacts
<1>9. Pipe' = SubSeq(Pipe, k + 1, Len(Pipe))
  <2>1. SubSeq(rxFrame, k + 1, Len(rxFrame)) \o stream
          = SubSeq(rxFrame \o stream, k + 1, Len(rxFrame \o stream))
    BY <1>2, <1>5, DropConcat
  <2> QED
    BY <1>6, <2>1 DEF Pipe
<1> HIDE DEF g, k, block
<1>10. /\ delivered' \in Seq(Seq(FrameByte)) /\ Len(delivered') = Len(delivered) + 1
       /\ \A i \in 1 .. Len(delivered) : delivered'[i] = delivered[i]
       /\ delivered'[Len(delivered) + 1] = block
       /\ DOMAIN delivered' = 1 .. Len(delivered) + 1
  <2>1. /\ delivered' \in Seq(Seq(FrameByte)) /\ Len(delivered') = Len(delivered) + 1
        /\ \A i \in 1 .. Len(delivered) : delivered'[i] = delivered[i]
        /\ delivered'[Len(delivered) + 1] = block
    BY <1>2, <1>6, <1>7, AppendProperties
  <2> QED
    BY <2>1, LenProperties
<1>11. FeedTypes'
  <2>1. Len(rxFrame') <= BufSize
    BY <1>0, <1>3, <1>4, <1>8, FeedAssumption DEF FeedTypes, FeedTypeOK, BufSize
  <2> QED
    BY <1>0, <1>2, <1>6, <1>8, <1>10, <2>1 DEF FeedTypes, FeedTypeOK, BufSize
<1>12. AwaitInv'
  BY <1>6 DEF AwaitInv
<1>13. /\ SentTail(Pipe, frames)'
       /\ Len(Pipe') = Len(Pipe) - k
       /\ \A i \in 1 .. Len(Pipe) - k : Pipe'[i] = Pipe[k + i]
       /\ \A f : InPipeline(f) =>
            InPipeline(f)' \/ \E j \in 1 .. k : Pipe[j] = ByteOf(f, 1)
  BY <1>5, <1>6, <1>9, <1>11, DropStep
<1>14. \A i \in 1 .. k : block[i] = Pipe[i]
  <2>1. \A i \in 1 .. k : i \in 1 .. Len(rxFrame)
    BY <1>3, <1>5
  <2> QED
    BY <1>0, <1>7, <2>1, PipeFacts
<1>15. block[1].frame = g
  BY <1>4, <1>14 DEF g
<1>16. ~Cut(g) => block = Whole(g)
  <2> SUFFICES ASSUME frames[g].sent = k PROVE block = Whole(g)
    BY <1>1, <1>4 DEF Cut
  <2>1. Whole(g) = [i \in 1 .. k |-> ByteOf(g, i)]
    BY <1>1 DEF Whole, FrameBytes
  <2>2. \A i \in 1 .. k : block[i] = ByteOf(g, i)
    <3> SUFFICES ASSUME NEW i \in 1 .. k PROVE block[i] = ByteOf(g, i)
      OBVIOUS
    <3>1. i \in 1 .. Len(Pipe) /\ i <= frames[Pipe[1].frame].sent
      BY <1>3, <1>4, <1>5 DEF g
    <3> QED
      BY <1>0, <1>1, <1>5, <1>14, <3>1, FrontBytes DEF g
  <2>3. block = [i \in 1 .. k |-> block[i]]
    BY <1>7, LenProperties
  <2> QED
    BY <2>1, <2>2, <2>3
<1>17. DeliveredInv'
  <2>1. ASSUME NEW i \in 1 .. Len(delivered) + 1
        PROVE  /\ Len(delivered'[i]) > 0
               /\ delivered'[i][1].frame \in 1 .. Len(frames)
               /\ \A j \in 1 .. Len(Pipe) - k : delivered'[i][1].frame < Pipe[k + j].frame
    <3>1. CASE i = Len(delivered) + 1
      <4>1. ASSUME NEW j \in 1 .. Len(Pipe) - k PROVE g < Pipe[k + j].frame
        <5>1. k + j \in 1 .. Len(Pipe) /\ k + j > frames[Pipe[1].frame].sent
          BY <1>3, <1>4, <1>5 DEF g
        <5>2. Pipe[k + j].frame > g
          BY <1>0, <1>1, <1>5, <5>1, FrontBytes DEF g
        <5> QED
          BY <1>0, <1>1, <5>1, <5>2, PipeFacts
      <4>2. delivered'[i] = block
        BY <1>10, <3>1
      <4>3. Len(block) > 0
        BY <1>4, <1>7
      <4> QED
        BY <1>1, <1>15, <4>1, <4>2, <4>3
    <3>2. CASE i # Len(delivered) + 1
      <4>1. i \in 1 .. Len(delivered) /\ delivered'[i] = delivered[i]
        BY <1>3, <1>10, <3>2
      <4>2. \A j \in 1 .. Len(Pipe) - k : k + j \in 1 .. Len(Pipe)
        BY <1>3, <1>4, <1>5
      <4> QED
        BY <4>1, <4>2 DEF FeedInv, DeliveredInv
    <3> QED
      BY <3>1, <3>2
  <2>2. ASSUME NEW i \in 1 .. Len(delivered'), NEW j \in 1 .. Len(Pipe')
        PROVE  delivered'[i][1].frame < Pipe'[j].frame
    <3>1. i \in 1 .. Len(delivered) + 1 /\ j \in 1 .. Len(Pipe) - k
      BY <1>10, <1>13
    <3>2. Pipe'[j] = Pipe[k + j]
      BY <1>13, <3>1
    <3> QED
      BY <2>1, <3>1, <3>2
  <2>3. \A i \in 1 .. Len(delivered') :
          Len(delivered'[i]) > 0 /\ delivered'[i][1].frame \in 1 .. Len(frames')
    <3>1. frames' = frames /\ Len(delivered') = Len(delivered) + 1
      BY <1>6, <1>10
    <3> QED
      BY <2>1, <3>1
  <2> QED
    BY <2>2, <2>3 DEF DeliveredInv
<1>18. DeliveredInOrder'
  <2>1. ASSUME NEW i \in 1 .. Len(delivered) + 1
        PROVE  \/ Cut(delivered'[i][1].frame)
               \/ delivered'[i] = Whole(delivered'[i][1].frame)
    <3>1. CASE i = Len(delivered) + 1
      <4>1. delivered'[i] = block
        BY <1>10, <3>1
      <4>2. Cut(g) \/ block = Whole(g)
        BY <1>16
      <4> QED
        BY <1>15, <4>1, <4>2
    <3>2. CASE i # Len(delivered) + 1
      <4>1. i \in 1 .. Len(delivered) /\ delivered'[i] = delivered[i]
        BY <1>3, <1>10, <3>2
      <4> QED
        BY <1>3, <4>1 DEF FeedInv, DeliveredInOrder
    <3> QED
      BY <3>1, <3>2
  <2>2. ASSUME NEW i \in 1 .. Len(delivered) + 1, NEW j \in 1 .. Len(delivered) + 1, i < j
        PROVE  delivered'[i][1].frame < delivered'[j][1].frame
    <3>1. i \in 1 .. Len(delivered) /\ delivered'[i] = delivered[i]
      BY <1>3, <1>10, <2>2
    <3>2. CASE j = Len(delivered) + 1
      BY <1>5, <1>10, <1>15, <3>1, <3>2 DEF FeedInv, DeliveredInv, g
    <3>3. CASE j # Len(delivered) + 1
      <4>1. j \in 1 .. Len(delivered) /\ delivered'[j] = delivered[j]
        BY <1>3, <1>10, <3>3
      <4> QED
        BY <1>3, <2>2, <3>1, <4>1 DEF FeedInv, DeliveredInOrder
    <3> QED
      BY <3>2, <3>3
  <2>3. \A f : (Cut(f) <=> Cut(f)') /\ Whole(f)' = Whole(f)
    BY <1>6 DEF Cut, Whole
  <2>4. /\ \A i \in DOMAIN delivered' :
             \/ Cut(delivered'[i][1].frame)
             \/ delivered'[i] = Whole(delivered'[i][1].frame)
        /\ \A i, j \in DOMAIN delivered' :
             i < j => delivered'[i][1].frame < delivered'[j][1].frame
    BY <1>10, <2>1, <2>2
  <2> QED
    BY <1>6, <2>4 DEF DeliveredInOrder, Cut, Whole
<1>19. ASSUME NEW f \in DOMAIN frames, Wanted(f), NEW j \in 1 .. k, Pipe[j] = ByteOf(f, 1)
       PROVE  (IsDelivered(f) \/ Swallowed(f))'
  <2>1. block \in Range(delivered')
    <3>1. Len(delivered) + 1 \in DOMAIN delivered'
      BY <1>3, <1>10
    <3> QED
      BY <1>10, <3>1 DEF Range
  <2>2. CASE Cut(g)
    <3>1. j \in DOMAIN block /\ block[j] = ByteOf(f, 1)
      BY <1>7, <1>14, <1>19, LenProperties
    <3>2. ByteOf(f, 1) \in Range(block)
      BY <3>1 DEF Range
    <3>3. frames'[block[1].frame].sent < frames'[block[1].frame].size
      BY <1>6, <1>15, <2>2 DEF Cut
    <3>4. \E d \in Range(delivered') :
            frames'[d[1].frame].sent < frames'[d[1].frame].size /\ ByteOf(f, 1) \in Range(d)
      BY <2>1, <3>2, <3>3
    <3> QED
      BY <3>4 DEF Swallowed, Cut, ByteOf
  <2>3. CASE ~Cut(g)
    <3>1. j \in 1 .. Len(Pipe) /\ j <= frames[Pipe[1].frame].sent
      BY <1>1, <1>3, <1>4, <1>5, <2>3, SMTT(30) DEF Cut, g
    <3>2. Pipe[j] = ByteOf(g, j)
      BY <1>0, <1>1, <1>5, <3>1, FrontBytes DEF g
    <3>3. f = g
      BY <1>19, <3>2, ByteOfFields
    <3> QED
      BY <1>6, <1>16, <2>1, <2>3, <3>3 DEF IsDelivered, Whole
  <2> QED
    BY <2>2, <2>3
<1>20. LossIsLocal'
  <2>1. Range(delivered) \subseteq Range(delivered')
    BY <1>3, <1>10 DEF Range
  <2> QED
    BY <1>6, <1>13, <1>19, <2>1, LossStep
<1> QED
  BY <1>11, <1>12, <1>13, <1>17, <1>18, <1>20 DEF FeedInv

\* The thread leaves the loop of rx_feed.
LEMMA AwaitMoreStep ==
    ASSUME FeedInv, AwaitMore
    PROVE  FeedInv'
<1>1. scanning' = FALSE /\ UNCHANGED <<frames, stream, rxFrame, delivered, dropped>>
  BY DEF AwaitMore
<1>2. FeedTypes' /\ SentTail(Pipe, frames)' /\ DeliveredInv' /\ DeliveredInOrder'
  BY <1>1 DEF FeedInv, FeedTypes, FeedTypeOK, BufSize, Pipe, DeliveredInv,
              DeliveredInOrder, Cut, Whole
<1>3. AwaitInv'
  BY <1>1 DEF AwaitMore, AwaitInv, Accepted, HeaderPlausible, FrameSize
<1>4. LossIsLocal'
  <2>1. \A f : InPipeline(f) => InPipeline(f)'
    BY <1>1 DEF InPipeline, ByteOf
  <2> QED
    BY <1>1, <2>1, LossStep
<1> QED
  BY <1>2, <1>3, <1>4 DEF FeedInv

\* FeedInv is inductive.
LEMMA FeedInductive == FeedSpec => []FeedInv
<1>1. FeedInit => FeedInv
  <2> SUFFICES ASSUME FeedInit PROVE FeedInv
    OBVIOUS
  <2>1. /\ <<>> \in Seq(FrameByte) /\ <<>> \in Seq(FrameInfo) /\ <<>> \in Seq(Seq(FrameByte))
        /\ Len(<<>>) = 0
    BY EmptySeq
  <2>2. DOMAIN <<>> = {}
    BY <2>1, LenProperties
  <2>3. Pipe = <<>>
    BY <2>1, ConcatEmptySeq DEF FeedInit, Pipe
  <2>4. FeedTypes
    <3>1. FeedTypeOK
      <4>1. 0 <= BufSize
        BY FeedAssumption DEF BufSize
      <4> QED
        BY <2>1, <2>2, <4>1 DEF FeedInit, FeedTypeOK, FrameInfo
    <3> QED
      BY <2>1, <3>1 DEF FeedInit, FeedTypes
  <2>5. SentTail(Pipe, frames) /\ DeliveredInv
    BY <2>1, <2>3 DEF FeedInit, SentTail, DeliveredInv
  <2>6. AwaitInv
    BY <2>1, FeedAssumption DEF FeedInit, AwaitInv
  <2>7. DeliveredInOrder /\ LossIsLocal
    BY <2>2 DEF FeedInit, DeliveredInOrder, LossIsLocal
  <2> QED
    BY <2>4, <2>5, <2>6, <2>7 DEF FeedInv
<1>2. FeedInv /\ [FeedNext]_feedVars => FeedInv'
  <2> SUFFICES ASSUME FeedInv, [FeedNext]_feedVars PROVE FeedInv'
    OBVIOUS
  <2>1. ASSUME NEW size \in Sizes, NEW n \in 1 .. size, HostSend(size, n) PROVE FeedInv'
    BY <2>1, HostSendStep
  <2>2. ASSUME NEW n \in 1 .. DrainSize, Feed(n) PROVE FeedInv'
    BY <2>2, FeedStep
  <2>3. ASSUME NEW n \in 1 .. DrainSize, Overflow(n) PROVE FeedInv'
    BY <2>3, OverflowStep
  <2>4. CASE Resync
    BY <2>4, ResyncStep
  <2>5. CASE Deliver
    BY <2>5, DeliverStep
  <2>6. CASE AwaitMore
    BY <2>6, AwaitMoreStep
  <2>7. CASE UNCHANGED feedVars
    <3>1. UNCHANGED <<frames, stream, rxFrame, scanning, delivered, dropped>>
      BY <2>7 DEF feedVars
    <3>2. FeedTypes' /\ SentTail(Pipe, frames)' /\ DeliveredInv' /\ DeliveredInOrder'
      BY <3>1 DEF FeedInv, FeedTypes, FeedTypeOK, BufSize, Pipe, DeliveredInv,
                  DeliveredInOrder, Cut, Whole
    <3>3. AwaitInv'
      BY <3>1 DEF FeedInv, AwaitInv, Accepted, HeaderPlausible, FrameSize
    <3>4. \A f : InPipeline(f) => InPipeline(f)'
      BY <3>1 DEF InPipeline, ByteOf
    <3>5. LossIsLocal'
      BY <3>1, <3>4, LossStep
    <3> QED
      BY <3>2, <3>3, <3>5 DEF FeedInv
  <2> QED
    BY <2>1, <2>2, <2>3, <2>4, <2>5, <2>6, <2>7 DEF FeedNext, RxThread
<1> QED
  BY <1>1, <1>2, PTL DEF FeedSpec

\* rx_frame never holds more than its buffer, whatever arrives in whatever chunks.
THEOREM FeedTypeCorrect == FeedSpec => []FeedTypeOK
<1>1. FeedInv => FeedTypeOK
  BY DEF FeedInv, FeedTypes
<1> QED
  BY <1>1, FeedInductive, PTL

\* The core sees the frames of the host whole, in order and once, except for what
\* a frame that a reset cut runs into.
THEOREM FeedDeliversInOrder == FeedSpec => []DeliveredInOrder
<1>1. FeedInv => DeliveredInOrder
  BY DEF FeedInv
<1> QED
  BY <1>1, FeedInductive, PTL

\* The resynchronisation of rx_feed never loses a frame that the core should see:
\* it is ahead, delivered, inside a cut frame's block, or dropped by an overflow.
THEOREM FeedLossIsLocal == FeedSpec => []LossIsLocal
<1>1. FeedInv => LossIsLocal
  BY DEF FeedInv
<1> QED
  BY <1>1, FeedInductive, PTL

\* rx_feed takes its overflow branch only behind the accepted header of a frame
\* longer than BufSize - DrainSize + 1 bytes.
THEOREM FeedOnlyLongFramesOverflow == FeedSpec => OnlyLongFramesOverflow
<1>1. ASSUME FeedInv, NEW n \in 1 .. DrainSize, Overflow(n)
      PROVE  /\ Len(rxFrame) >= HeaderSize /\ Accepted
             /\ FrameSize > BufSize - DrainSize + 1
  <2>1. /\ ~scanning /\ Len(rxFrame) + n > BufSize /\ Len(rxFrame) \in Nat
        /\ FeedTypes /\ SentTail(Pipe, frames)
    BY <1>1, PipeFacts DEF Overflow, FeedInv
  <2>2. Len(rxFrame) >= HeaderSize /\ Len(rxFrame) > BufSize - DrainSize
    BY <2>1, FeedAssumption DEF BufSize
  <2>3. Accepted /\ Len(rxFrame) < FrameSize
    BY <1>1, <2>1, <2>2 DEF FeedInv, AwaitInv
  <2>4. FrameSize \in Nat
    BY <2>1, <2>2, <2>3, FrontFacts, PipeFacts DEF Accepted
  <2> QED
    BY <2>1, <2>2, <2>3, <2>4, FeedAssumption DEF BufSize
<1>2. FeedInv /\ [FeedNext]_feedVars =>
        [\A n \in 1 .. DrainSize : Overflow(n) =>
           /\ Len(rxFrame) >= HeaderSize /\ Accepted
           /\ FrameSize > BufSize - DrainSize + 1]_feedVars
  BY <1>1
<1> QED
  BY <1>2, FeedInductive, PTL DEF FeedSpec, OnlyLongFramesOverflow
------------------------------------------------------------------------------
(* RxPath *)

\* Bytes of the stream in rx_drain that rx_feed has not taken.
Drained == IF fed THEN 0 ELSE Len(out)

PathTypes ==
    /\ frames \in Seq(FrameInfo)
    /\ stream \in Seq(Byte) /\ gone \in 0 .. Len(stream)
    /\ fed \in BOOLEAN
    /\ ~fed => out \in Seq(Byte) /\ Len(out) \in 1 .. Chunk

\* What has left the host is the block in rx_drain and then the content of the
\* ring.
FlightInv ==
    /\ gone = Drained + Len(Content)
    /\ \A i \in 1 .. Drained : out[i] = stream[i]
    /\ \A i \in 1 .. Len(Content) : Content[i] = stream[Drained + i]

PathInv == RingInv /\ PathTypes /\ FlightInv

\* The host sends: the stream gets longer.
LEMMA HostSendsStep ==
    ASSUME PathInv, HostSends
    PROVE  PathInv'
<1>0. PICK size \in Sizes : \E n \in 1 .. size : HostSend(size, n)
  BY DEF HostSends
<1>1. PICK n \in 1 .. size : HostSend(size, n)
  BY <1>0
<1> DEFINE f == Len(frames) + 1
           new == FrameBytes(f, n)
<1> HIDE DEF new
<1>2. /\ f \in 1 .. MaxFrames /\ stream' = stream \o new /\ size \in Nat /\ n \in Nat
      /\ UNCHANGED <<buf, ri, rm, wi, wm, armed, pc, len, out, fed, gone>>
  <2>1. Len(frames) \in Nat
    BY LenProperties DEF PathInv, PathTypes
  <2> QED
    BY <1>1, <2>1, FeedAssumption DEF HostSends, HostSend, ringVars, vars, new
<1>3. \A i \in 1 .. n : ByteOf(f, i) \in Byte
  BY <1>1, <1>2, PathAssumption DEF PathByte
<1>4. new \in Seq(Byte)
  BY <1>2, <1>3 DEF FrameBytes, new
<1>5. /\ stream' \in Seq(Byte) /\ Len(stream') = Len(stream) + Len(new)
      /\ Len(stream) \in Nat /\ Len(new) \in Nat
      /\ \A i \in 1 .. Len(stream) : stream'[i] = stream[i]
  BY <1>2, <1>4, ConcatProperties, LenProperties DEF PathInv, PathTypes
<1>6. RingInv' /\ Content' = Content /\ Drained' = Drained
  BY <1>2 DEF PathInv, RingInv, RingTypes, MirrorInv, GetInv, ArmedInv, Held, DataLenAt,
              ReadIndex, Content, Drained
<1>7. PathTypes'
  <2>1. [size |-> size, sent |-> n] \in FrameInfo
    BY <1>1, <1>2 DEF FrameInfo
  <2>2. frames' \in Seq(FrameInfo)
    BY <1>1, <2>1, AppendProperties DEF HostSend, PathInv, PathTypes
  <2> QED
    BY <1>2, <1>5, <2>2 DEF PathInv, PathTypes
<1>8. FlightInv'
  <2>1. Len(Content) \in Nat /\ Drained \in Nat
    BY ContentFacts, LenProperties DEF PathInv, PathTypes, Drained
  <2>2. Drained + Len(Content) <= Len(stream)
    BY <1>5 DEF PathInv, PathTypes, FlightInv
  <2> QED
    BY <1>2, <1>5, <1>6, <2>1, <2>2 DEF PathInv, FlightInv
<1> QED
  BY <1>6, <1>7, <1>8 DEF PathInv
\* A packet goes from the host into the ring.
LEMMA PacketStep ==
    ASSUME ~Torn, PathInv, NEW n \in 1 .. Chunk, Packet(n)
    PROVE  PathInv' /\ \E block \in Blocks : Put(block)
<1> DEFINE block == SubSeq(stream, gone + 1, gone + n)
<1>1. /\ Put(block) /\ gone' = gone + n /\ gone + n <= Len(stream)
      /\ UNCHANGED <<stream, frames, fed>>
  BY DEF Packet, feedVars
<1>2. /\ stream \in Seq(Byte) /\ Len(stream) \in Nat /\ gone \in Nat /\ n \in Nat
      /\ Len(Content) \in Nat /\ Drained \in Nat /\ Content \in Seq(Byte)
  BY ContentFacts, LenProperties, SizeAssumption DEF PathInv, PathTypes, Drained
<1>3. /\ block \in Seq(Byte) /\ Len(block) = n
      /\ \A i \in 1 .. n : block[i] = stream[gone + i]
  <2>1. \A i \in gone + 1 .. gone + n : stream[i] \in Byte
    BY <1>1, <1>2, LenProperties
  <2>2. gone + 1 \in Int /\ gone + n \in Int
    BY <1>2
  <2>3. /\ block \in Seq(Byte)
        /\ Len(block) = IF gone + 1 <= gone + n THEN (gone + n) - (gone + 1) + 1 ELSE 0
        /\ \A i \in 1 .. (gone + n) - (gone + 1) + 1 : block[i] = stream[(gone + 1) + i - 1]
    BY <2>1, <2>2, SubSeqProperties
  <2> QED
    BY <1>2, <2>3
<1> HIDE DEF block
<1>4. block \in Blocks
  <2>1. block \in [1 .. n -> Byte]
    BY <1>3, LenProperties
  <2> QED
    BY <2>1 DEF Blocks
<1>5. RingInv' /\ Content' = Content \o block /\ out' = out
  BY <1>1, <1>4, PutStep DEF PathInv, Fifo!Put
<1>6. /\ Len(Content') = Len(Content) + n
      /\ \A i \in 1 .. Len(Content) + n :
           Content'[i] = IF i <= Len(Content) THEN Content[i] ELSE block[i - Len(Content)]
  BY <1>2, <1>3, <1>5, ConcatProperties
<1>7. PathTypes' /\ Drained' = Drained
  BY <1>1, <1>2, <1>5 DEF PathInv, PathTypes, Drained
<1>8. FlightInv'
  <2>1. gone = Drained + Len(Content)
    BY DEF PathInv, FlightInv
  <2>2. ASSUME NEW i \in 1 .. Len(Content) + n
        PROVE  Content'[i] = stream[Drained + i]
    <3>1. CASE i <= Len(Content)
      BY <1>2, <1>6, <3>1 DEF PathInv, FlightInv
    <3>2. CASE ~(i <= Len(Content))
      <4>1. i - Len(Content) \in 1 .. n /\ gone + (i - Len(Content)) = Drained + i
        BY <1>2, <2>1, <3>2
      <4> QED
        BY <1>3, <1>6, <3>2, <4>1
    <3> QED
      BY <3>1, <3>2
  <2> QED
    BY <1>1, <1>2, <1>5, <1>6, <1>7, <2>1, <2>2 DEF PathInv, FlightInv
<1> QED
  BY <1>1, <1>4, <1>5, <1>7, <1>8 DEF PathInv

\* rt_ringbuffer_get takes a block into rx_drain, or only looks.
LEMMA GetBlockStep ==
    ASSUME PathInv, GetBlock
    PROVE  PathInv'
<1>1. fed /\ UNCHANGED <<stream, frames, gone>> /\ fed' = (pc # "copy" \/ len = 0)
  BY DEF GetBlock, feedVars
<1>2. Content \in Seq(Byte) /\ Len(Content) \in Nat /\ Len(stream) \in Nat /\ Drained = 0
  BY <1>1, ContentFacts, LenProperties DEF PathInv, PathTypes, Drained
<1>3. CASE Copy
  <2>1. ~fed'
    <3>1. pc = "copy" /\ len \in Nat /\ Chunk \in Nat
      BY <1>3, SizeAssumption DEF Copy, PathInv, RingInv, RingTypes
    <3>2. len # 0
      BY <1>3, <3>1, SizeAssumption DEF Copy
    <3> QED
      BY <1>1, <3>1, <3>2
  <2>2. RingInv' /\ \E n \in 1 .. Chunk : Fifo!Get(n)
    BY <1>3, CopyStep DEF PathInv
  <2>3. PICK n \in 1 .. Chunk : Fifo!Get(n)
    BY <2>2
  <2>4. /\ n \in Nat /\ n <= Len(Content) /\ out' = SubSeq(Content, 1, n)
        /\ Content' = SubSeq(Content, n + 1, Len(Content))
    BY <2>3, SizeAssumption DEF Fifo!Get
  <2>5. out' \in Seq(Byte) /\ Len(out') = n /\ \A i \in 1 .. n : out'[i] = Content[i]
    BY <1>2, <2>4, TakeFacts
  <2>6. /\ Len(Content') = Len(Content) - n
        /\ \A i \in 1 .. Len(Content) - n : Content'[i] = Content[n + i]
    BY <1>2, <2>4, DropFacts
  <2>7. Drained' = n
    BY <2>1, <2>5 DEF Drained
  <2>8. PathTypes'
    BY <1>1, <2>1, <2>5 DEF PathInv, PathTypes
  <2>9. FlightInv'
    BY <1>1, <1>2, <2>4, <2>5, <2>6, <2>7 DEF PathInv, FlightInv
  <2> QED
    BY <2>2, <2>8, <2>9 DEF PathInv
<1>4. CASE Status \/ StatusMirrors \/ Length \/ Rearm
  <2>1. RingInv' /\ UNCHANGED <<Content, out>>
    BY <1>4, ThreadStep DEF PathInv
  <2>2. fed'
    BY <1>1, <1>4 DEF Status, StatusMirrors, Length, Rearm
  <2>3. Drained' = 0 /\ PathTypes'
    BY <1>1, <2>1, <2>2 DEF PathInv, PathTypes, Drained
  <2> QED
    BY <1>1, <1>2, <2>1, <2>3 DEF PathInv, FlightInv
<1> QED
  BY <1>3, <1>4 DEF GetBlock

\* rx_feed takes the block.
LEMMA FeedBlockStep ==
    ASSUME PathInv, FeedBlock
    PROVE  PathInv' /\ RxThread
<1> DEFINE n == Len(out)
<1>1. /\ ~fed /\ fed' /\ gone' = gone - n /\ frames' = frames
      /\ stream' = SubSeq(stream, n + 1, Len(stream)) /\ n <= Len(stream)
      /\ UNCHANGED <<buf, ri, rm, wi, wm, armed, pc, len, out>>
  BY DEF FeedBlock, Feed, Overflow, ringVars, vars
<1>2. /\ n \in 1 .. Chunk /\ n \in Nat /\ Drained = n /\ gone = n + Len(Content)
      /\ stream \in Seq(Byte) /\ Len(stream) \in Nat /\ Len(Content) \in Nat
      /\ gone <= Len(stream)
  BY <1>1, ContentFacts, LenProperties, SizeAssumption
     DEF PathInv, PathTypes, FlightInv, Drained
<1>3. RxThread
  BY <1>2, PathAssumption DEF FeedBlock, RxThread
<1>4. RingInv' /\ Content' = Content /\ Drained' = 0
  BY <1>1 DEF PathInv, RingInv, RingTypes, MirrorInv, GetInv, ArmedInv, Held, DataLenAt,
              ReadIndex, Content, Drained
<1> HIDE DEF n
<1>5. /\ stream' \in Seq(Byte) /\ Len(stream') = Len(stream) - n
      /\ \A i \in 1 .. Len(stream) - n : stream'[i] = stream[n + i]
  <2>1. n \in 0 .. Len(stream)
    BY <1>1, <1>2
  <2> QED
    BY <1>1, <1>2, <2>1, DropFacts
<1>6. PathTypes'
  BY <1>1, <1>2, <1>5 DEF PathInv, PathTypes
<1>7. FlightInv'
  BY <1>1, <1>2, <1>4, <1>5 DEF PathInv, FlightInv
<1> QED
  BY <1>3, <1>4, <1>6, <1>7 DEF PathInv

\* The end of the copy and the scan leave the bytes alone.
LEMMA QuietStep ==
    ASSUME PathInv, GetEnds \/ Scan \/ UNCHANGED pathVars
    PROVE  PathInv'
<1>1. UNCHANGED <<stream, frames, gone, fed>>
  BY DEF GetEnds, Scan, Resync, Deliver, AwaitMore, pathVars, feedVars
<1>2. RingInv' /\ UNCHANGED <<Content, out>>
  <2>1. CASE GetEnds
    BY <2>1, ThreadStep DEF GetEnds, PathInv
  <2>2. CASE UNCHANGED ringVars
    BY <2>2 DEF ringVars, vars, PathInv, RingInv, RingTypes, MirrorInv, GetInv, ArmedInv,
                Held, DataLenAt, ReadIndex, Content
  <2> QED
    BY <2>1, <2>2 DEF Scan, pathVars
<1>3. PathTypes' /\ Drained' = Drained
  BY <1>1, <1>2 DEF PathInv, PathTypes, Drained
<1> QED
  BY <1>1, <1>2, <1>3 DEF PathInv, FlightInv

LEMMA PathStep ==
    ASSUME ~Torn
    PROVE  PathInv /\ [PathNext]_pathVars => PathInv'
  BY HostSendsStep, PacketStep, GetBlockStep, FeedBlockStep, QuietStep
     DEF PathNext, PathThread

LEMMA PathStart == PathInit => PathInv
<1> SUFFICES ASSUME PathInit PROVE PathInv
  OBVIOUS
<1>1. Held = 0 /\ ReadIndex = 0
  BY DEF PathInit, Init, Held, DataLenAt, ReadIndex
<1>2. RingInv
  BY <1>1, SizeAssumption
     DEF PathInit, Init, RingInv, RingTypes, MirrorInv, GetInv, ArmedInv
<1>3. Len(Content) = 0
  BY <1>1, <1>2, ContentFacts
<1>4. <<>> \in Seq(Byte) /\ <<>> \in Seq(FrameInfo) /\ Len(<<>>) = 0
  BY EmptySeq
<1> QED
  BY <1>2, <1>3, <1>4 DEF PathInit, FeedInit, PathInv, PathTypes, FlightInv, Drained

\* rx_feed is given what the host sent, byte for byte, for a ring, packets and
\* frames of any size.
THEOREM PathFeedGetsStream ==
    ASSUME ~Torn
    PROVE  PathSpec => []FeedGetsStream
<1>1. PathInv => FeedGetsStream
  <2> SUFFICES ASSUME PathInv, ~fed PROVE out = SubSeq(stream, 1, Len(out))
    BY DEF FeedGetsStream
  <2>1. /\ out \in Seq(Byte) /\ stream \in Seq(Byte) /\ Len(out) \in 0 .. Len(stream)
        /\ \A i \in 1 .. Len(out) : out[i] = stream[i]
    BY ContentFacts, LenProperties DEF PathInv, PathTypes, FlightInv, Drained
  <2>2. /\ SubSeq(stream, 1, Len(out)) \in Seq(Byte)
        /\ Len(SubSeq(stream, 1, Len(out))) = Len(out)
        /\ \A i \in 1 .. Len(out) : SubSeq(stream, 1, Len(out))[i] = stream[i]
    BY <2>1, TakeFacts
  <2> QED
    BY <2>1, <2>2, SeqEqual
<1> QED
  BY <1>1, PathStart, PathStep, PTL DEF PathSpec

\* The composition does nothing that the ring and the reassembler do not do on
\* their own, so what is proved of them holds in it.
THEOREM PathImplementsParts ==
    ASSUME ~Torn
    PROVE  PathSpec => Spec /\ FeedSpec
<1>1. PathInit => Init /\ FeedInit
  BY DEF PathInit
<1>2. PathInv /\ [PathNext]_pathVars => [Next]_vars /\ [FeedNext]_feedVars
  <2> SUFFICES ASSUME PathInv, [PathNext]_pathVars
               PROVE  [Next]_vars /\ [FeedNext]_feedVars
    OBVIOUS
  <2>1. CASE HostSends
    BY <2>1 DEF HostSends, FeedNext, ringVars
  <2>2. ASSUME NEW n \in 1 .. Chunk, Packet(n)
        PROVE  [Next]_vars /\ [FeedNext]_feedVars
    BY <2>2, PacketStep DEF Packet, Next
  <2>3. CASE GetBlock \/ GetEnds
    BY <2>3 DEF GetBlock, GetEnds, Next
  <2>4. CASE FeedBlock
    BY <2>4, FeedBlockStep DEF FeedBlock, FeedNext, ringVars
  <2>5. CASE Scan
    BY <2>5 DEF Scan, FeedNext, RxThread, ringVars
  <2>6. CASE UNCHANGED pathVars
    BY <2>6 DEF pathVars, ringVars
  <2> QED
    BY <2>1, <2>2, <2>3, <2>4, <2>5, <2>6 DEF PathNext, PathThread
<1> QED
  BY <1>1, <1>2, PathStart, PathStep, PTL DEF PathSpec, Spec, FeedSpec
==============================================================================
