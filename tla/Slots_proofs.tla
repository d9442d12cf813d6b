----------------------------- MODULE Slots_proofs -----------------------------
(***************************************************************************)
(* The tags of the command slots, and the slots.                           *)
(*                                                                         *)
(* Part 1, TagPool.  For a pool of any size and of either kind: every      *)
(* field stays in range, and each tag is at any time either free, once, or *)
(* held.  The partition is not inductive alone: that a return never        *)
(* overfills the array needs the number of free entries to be tied to the  *)
(* number of tags held.                                                    *)
(*                                                                         *)
(* Part 2, RunningReq.  For any senders, requests and devices and any      *)
(* finite number of slots: each slot is in one place, each request on one  *)
(* slot, the count of a device is right, and the hardware works on nothing *)
(* that has been given back, but for the lapses the properties name.  What *)
(* the books need is apart from what is known of the hardware: an entry    *)
(* that completes the wrong request leaves the books right.                *)
(***************************************************************************)
EXTENDS TagPool, RunningReq, SequenceTheorems, FiniteSetTheorems, TLAPS

\* Top counts the tags that are not held.
TagsCounted == IsFiniteSet(held) /\ Cardinality(held) = Size - Top

TagInv == PoolTypeOK /\ TagsCounted /\ Partition

-----------------------------------------------------------------------------
\* Below twice the size, reducing modulo the size is at most one subtraction.
LEMMA ModOnce ==
    \A x \in Nat : x < 2 * Size =>
        x % Size = IF x < Size THEN x ELSE x - Size
  BY SizeAssumption, SMT

\* The ring entry Top places after PtrOut.
LEMMA RingIndex ==
    ASSUME PoolTypeOK, Top < Size
    PROVE  (PtrOut + Top) % Size = IF PtrOut + Top < Size THEN PtrOut + Top
                                   ELSE PtrOut + Top - Size
<1>1. PICK x \in Nat : x = PtrOut + Top
  BY DEF PoolTypeOK, Tag
<1>2. x < 2 * Size
  BY <1>1, SizeAssumption DEF PoolTypeOK, Tag
<1>3. x % Size = IF x < Size THEN x ELSE x - Size
  BY <1>2, ModOnce
<1>4. (PtrOut + Top) % Size = x % Size
  BY <1>1, Zenon
<1>5. CASE x < Size
  <2>1. x % Size = x
    BY <1>3, <1>5, Zenon
  <2>2. PtrOut + Top < Size
    BY <1>1, <1>5
  <2> QED
    BY <1>1, <1>4, <2>1, <2>2, Zenon
<1>6. CASE ~(x < Size)
  <2>1. x % Size = x - Size
    BY <1>3, <1>6, Zenon
  <2>2. ~(PtrOut + Top < Size)
    BY <1>1, <1>6
  <2>3. x - Size = PtrOut + Top - Size
    BY <1>1, SizeAssumption DEF PoolTypeOK, Tag
  <2> QED
    BY <1>4, <2>1, <2>2, <2>3, Zenon
<1> QED
  BY <1>5, <1>6

\* A return finds room in the array.
LEMMA RoomToRelease ==
    ASSUME TagInv, NEW tag \in Tag, tag \in held
    PROVE  Top < Size
<1>1. Cardinality(held) # 0
  BY FS_EmptySet DEF TagInv, TagsCounted
<1> QED
  BY <1>1, SizeAssumption DEF TagInv, PoolTypeOK, TagsCounted

\* The entry a tag is returned to: in range and not a free one.
LEMMA ReleaseIndexUnused ==
    ASSUME PoolTypeOK, Top < Size
    PROVE  ReleaseIndex \in Tag /\ ~IsFree(ReleaseIndex)
<1>1. CASE FIFO
  <2>1. ReleaseIndex = IF PtrOut + Top < Size THEN PtrOut + Top
                                              ELSE PtrOut + Top - Size
    BY <1>1, RingIndex DEF ReleaseIndex
  <2> QED
    BY <1>1, <2>1, SizeAssumption DEF IsFree, PoolTypeOK, Tag
<1>2. CASE ~FIFO
  BY <1>2, SizeAssumption DEF ReleaseIndex, IsFree, PoolTypeOK, Tag
<1> QED
  BY <1>1, <1>2

\* Tag_GetOne takes exactly one entry out of the free part.
LEMMA GetFree ==
    ASSUME PoolTypeOK, Tag_GetOne
    PROVE  /\ PoolTypeOK'
           /\ \E k \in Tag :
                /\ IsFree(k)
                /\ held' = held \cup {Stack[k]}
                /\ \A i \in Tag : IsFree(i)' <=> IsFree(i) /\ i # k
<1> USE SizeAssumption DEF Tag
<1>1. /\ Top \in 1..Size /\ Top' = Top - 1 /\ Stack' = Stack
      /\ Top' \in 0..Size
  BY DEF PoolTypeOK, Tag_GetOne, Tag_IsEmpty
<1>2. CASE FIFO
  <2>1. PtrOut' = IF PtrOut + 1 >= Size THEN 0 ELSE PtrOut + 1
    BY <1>2 DEF Tag_GetOne, Advance
  <2>2. IsFree(PtrOut) /\ held' = held \cup {Stack[PtrOut]}
    BY <1>1, <1>2 DEF IsFree, PoolTypeOK, Tag_GetOne
  <2>3. \A i \in Tag : IsFree(i)' <=> IsFree(i) /\ i # PtrOut
    BY <1>1, <1>2, <2>1 DEF IsFree, PoolTypeOK
  <2>4. Stack[PtrOut] \in Tag /\ PtrOut' \in Tag
    BY <2>1 DEF PoolTypeOK
  <2>5. held' \subseteq Tag
    BY <2>2, <2>4 DEF PoolTypeOK
  <2>6. PoolTypeOK'
    BY <1>1, <2>4, <2>5 DEF PoolTypeOK
  <2> QED
    BY <2>2, <2>3, <2>6 DEF PoolTypeOK
<1>3. CASE ~FIFO
  <2>1. PtrOut' = PtrOut /\ held' = held \cup {Stack[Top - 1]}
    BY <1>3 DEF Tag_GetOne
  <2>2. Top - 1 \in Tag /\ IsFree(Top - 1)
    BY <1>1, <1>3 DEF IsFree
  <2>3. \A i \in Tag : IsFree(i)' <=> IsFree(i) /\ i # Top - 1
    BY <1>1, <1>3 DEF IsFree
  <2>4. held' \subseteq 0..Size-1
    BY <2>1, <2>2 DEF PoolTypeOK
  <2>5. PoolTypeOK'
    BY <1>1, <2>1, <2>4 DEF PoolTypeOK
  <2> QED
    BY <2>1, <2>2, <2>3, <2>5
<1> QED
  BY <1>2, <1>3

\* Tag_ReleaseOne adds exactly the entry it writes to the free part.
LEMMA ReleaseFree ==
    ASSUME PoolTypeOK, Top < Size, NEW tag \in Tag, Tag_ReleaseOne(tag)
    PROVE  /\ PoolTypeOK'
           /\ \A i \in Tag : IsFree(i)' <=> IsFree(i) \/ i = ReleaseIndex
<1> USE SizeAssumption DEF Tag
<1>1. ReleaseIndex \in Tag
  BY ReleaseIndexUnused
<1>2. /\ Top' = Top + 1 /\ PtrOut' = PtrOut /\ held' = held \ {tag}
      /\ Stack' = [Stack EXCEPT ![ReleaseIndex] = tag]
  BY DEF Tag_ReleaseOne
<1>3. PoolTypeOK'
  <2>1. Stack' \in [Tag -> Tag]
    BY <1>1, <1>2 DEF PoolTypeOK
  <2>2. Top' \in 0..Size /\ PtrOut' \in Tag /\ held' \subseteq Tag
    BY <1>2 DEF PoolTypeOK
  <2> QED
    BY <2>1, <2>2 DEF PoolTypeOK
<1> SUFFICES ASSUME NEW i \in Tag
             PROVE  IsFree(i)' <=> IsFree(i) \/ i = ReleaseIndex
  BY <1>3
<1>4. CASE FIFO
  <2>1. ReleaseIndex = IF PtrOut + Top < Size THEN PtrOut + Top
                                              ELSE PtrOut + Top - Size
    BY <1>4, RingIndex DEF ReleaseIndex
  <2>2. IsFree(i)' <=> \/ PtrOut <= i /\ i < PtrOut + Top + 1
                       \/ i + Size < PtrOut + Top + 1
    BY <1>2, <1>4 DEF IsFree, PoolTypeOK
  <2>3. PtrOut \in 0..Size-1 /\ Top \in 0..Size-1 /\ i \in 0..Size-1
    BY DEF PoolTypeOK
  <2>4. IsFree(i) <=> \/ PtrOut <= i /\ i < PtrOut + Top
                     \/ i + Size < PtrOut + Top
    BY <1>4 DEF IsFree
  <2>5. CASE PtrOut + Top < Size
    <3>1. ReleaseIndex = PtrOut + Top
      BY <2>1, <2>5
    <3> QED
      BY <2>2, <2>3, <2>4, <2>5, <3>1
  <2>6. CASE ~(PtrOut + Top < Size)
    <3>1. ReleaseIndex = PtrOut + Top - Size
      BY <2>1, <2>6
    <3> QED
      BY <2>2, <2>3, <2>4, <2>6, <3>1
  <2> QED
    BY <2>5, <2>6
<1>5. CASE ~FIFO
  BY <1>2, <1>5 DEF IsFree, ReleaseIndex, PoolTypeOK
<1> QED
  BY <1>4, <1>5

-----------------------------------------------------------------------------
\* The initial array holds every tag once, all free.
LEMMA InitTagInv == PoolInit => TagInv
<1> SUFFICES ASSUME PoolInit PROVE TagInv
  OBVIOUS
<1> USE SizeAssumption DEF PoolInit, Tag
<1>1. PoolTypeOK
  BY DEF PoolTypeOK
<1>2. TagsCounted
  BY FS_EmptySet DEF TagsCounted
<1>3. FreeNotHeld
  BY DEF FreeNotHeld
<1>4. FreeDistinct
  BY DEF FreeDistinct
<1>5. NoTagLost
  <2> SUFFICES ASSUME NEW t \in Tag
               PROVE  \E i \in Tag : IsFree(i) /\ Stack[i] = t
    BY DEF NoTagLost
  <2>1. CASE FIFO
    BY <2>1 DEF IsFree
  <2>2. CASE ~FIFO
    <3>1. Size - 1 - t \in Tag /\ IsFree(Size - 1 - t)
      BY <2>2 DEF IsFree
    <3>2. Stack[Size - 1 - t] = t
      BY <2>2, <3>1
    <3> QED
      BY <3>1, <3>2
  <2> QED
    BY <2>1, <2>2
<1> QED
  BY <1>1, <1>2, <1>3, <1>4, <1>5 DEF TagInv, Partition

\* Taking a tag moves it from the free part to the held ones.
LEMMA GetTagInv == TagInv /\ Tag_GetOne => TagInv'
<1> SUFFICES ASSUME TagInv, Tag_GetOne PROVE TagInv'
  OBVIOUS
<1> USE DEF TagInv, Partition
<1>1. PoolTypeOK'
  BY GetFree
<1>2. PICK k \in Tag : /\ IsFree(k)
                       /\ held' = held \cup {Stack[k]}
                       /\ \A i \in Tag : IsFree(i)' <=> IsFree(i) /\ i # k
  BY GetFree
<1>3. Stack' = Stack /\ Top' = Top - 1 /\ Stack[k] \notin held
  BY <1>2 DEF Tag_GetOne, FreeNotHeld
<1>4. TagsCounted'
  BY <1>2, <1>3, FS_AddElement, SizeAssumption DEF TagsCounted, PoolTypeOK
<1>5. FreeNotHeld'
  BY <1>2, <1>3 DEF FreeNotHeld, FreeDistinct
<1>6. FreeDistinct'
  BY <1>2, <1>3 DEF FreeDistinct
<1>7. NoTagLost'
  BY <1>2, <1>3 DEF NoTagLost
<1> QED
  BY <1>1, <1>4, <1>5, <1>6, <1>7

\* Returning a tag moves it from the held ones to the free part.
LEMMA ReleaseTagInv ==
    ASSUME TagInv, NEW tag \in Tag, Tag_ReleaseOne(tag)
    PROVE  TagInv'
<1> USE DEF TagInv, Partition
<1>1. tag \in held /\ held' = held \ {tag} /\ Top' = Top + 1
  BY DEF Tag_ReleaseOne
<1>2. Top < Size
  BY <1>1, RoomToRelease
<1>3. PoolTypeOK' /\ \A i \in Tag : IsFree(i)' <=> IsFree(i) \/ i = ReleaseIndex
  BY <1>2, ReleaseFree
<1>4. ReleaseIndex \in Tag /\ ~IsFree(ReleaseIndex)
  BY <1>2, ReleaseIndexUnused
<1>5. \A i \in Tag : Stack'[i] = IF i = ReleaseIndex THEN tag ELSE Stack[i]
  BY <1>4 DEF Tag_ReleaseOne, PoolTypeOK
<1>6. TagsCounted'
  BY <1>1, FS_RemoveElement, SizeAssumption DEF TagsCounted, PoolTypeOK
<1>7. FreeNotHeld'
  BY <1>1, <1>3, <1>5 DEF FreeNotHeld
<1>8. FreeDistinct'
  BY <1>1, <1>3, <1>4, <1>5 DEF FreeDistinct, FreeNotHeld
<1>9. NoTagLost'
  BY <1>1, <1>3, <1>4, <1>5 DEF NoTagLost
<1> QED
  BY <1>3, <1>6, <1>7, <1>8, <1>9

\* The strengthened invariant holds in every reachable state.
LEMMA TagInvHolds == PoolSpec => []TagInv
<1>1. TagInv /\ [PoolNext]_poolVars => TagInv'
  <2> SUFFICES ASSUME TagInv, [PoolNext]_poolVars PROVE TagInv'
    OBVIOUS
  <2>1. CASE Tag_GetOne
    BY <2>1, GetTagInv
  <2>2. CASE \E tag \in Tag : Tag_ReleaseOne(tag)
    BY <2>2, ReleaseTagInv
  <2>3. CASE UNCHANGED poolVars
    BY <2>3 DEF poolVars, TagInv, PoolTypeOK, TagsCounted, Partition, FreeNotHeld,
                FreeDistinct, NoTagLost, IsFree
  <2> QED
    BY <2>1, <2>2, <2>3 DEF PoolNext
<1> QED
  BY InitTagInv, <1>1, PTL DEF PoolSpec

\* The indices and the counter of the array never leave their ranges; in
\* particular Top never exceeds Size, so no return writes past the array.
THEOREM PoolTypeCorrect == PoolSpec => []PoolTypeOK
<1>1. TagInv => PoolTypeOK
  BY DEF TagInv
<1> QED
  BY TagInvHolds, <1>1, PTL

\* No tag is ever owned twice and none is ever lost, for any number of tags.
THEOREM PoolPartition == PoolSpec => []Partition
<1>1. TagInv => Partition
  BY DEF TagInv
<1> QED
  BY TagInvHolds, <1>1, PTL

-----------------------------------------------------------------------------
(***************************************************************************)
(* The array implements the waiting line: its free part, read from PtrOut  *)
(* on or from the bottom, is a sequence that loses its first or its last   *)
(* element and grows at its end.                                           *)
(***************************************************************************)

\* Where the k-th element of the waiting line is stored.
FreeIndex(k) == IF FIFO THEN (PtrOut + k - 1) % Size ELSE k - 1

\* The k-th place of the ring after PtrOut, for FIFO pools.
LEMMA RingPlace ==
    ASSUME NEW p \in Tag, NEW j \in 0..Size-1
    PROVE  (p + j) % Size = IF p + j < Size THEN p + j ELSE p + j - Size
<1>1. PICK x \in Nat : x = p + j
  BY SizeAssumption DEF Tag
<1>2. x < 2 * Size
  BY <1>1, SizeAssumption DEF Tag
<1>3. x % Size = IF x < Size THEN x ELSE x - Size
  BY <1>2, ModOnce
<1>4. (p + j) % Size = IF x < Size THEN x ELSE x - Size
  BY <1>1, <1>3, Zenon
<1>5. (IF x < Size THEN x ELSE x - Size) = IF p + j < Size THEN p + j ELSE p + j - Size
  <2>1. p \in Int /\ j \in Int /\ Size \in Int
    BY SizeAssumption DEF Tag
  <2> QED BY <1>1, <2>1
<1> QED BY <1>4, <1>5, Zenon

IndexInRange ==
    \A k \in 1..Top :
        /\ FreeIndex(k) \in Tag
        /\ IsFree(FreeIndex(k))
        /\ FIFO => FreeIndex(k) = IF PtrOut + k - 1 < Size THEN PtrOut + k - 1
                                                          ELSE PtrOut + k - 1 - Size

LEMMA FreeIndexRange == PoolTypeOK => IndexInRange
<1> SUFFICES ASSUME PoolTypeOK, NEW k \in 1..Top
             PROVE  /\ FreeIndex(k) \in Tag
                    /\ IsFree(FreeIndex(k))
                    /\ FIFO => FreeIndex(k) = IF PtrOut + k - 1 < Size THEN PtrOut + k - 1
                                                                      ELSE PtrOut + k - 1 - Size
  BY DEF IndexInRange
<1> USE SizeAssumption DEF Tag
<1>1. CASE FIFO
  <2>1. PICK j \in 0..Size-1 : j = k - 1
    BY DEF PoolTypeOK
  <2>2. PtrOut \in Tag /\ PtrOut + k - 1 = PtrOut + j
    BY <2>1 DEF PoolTypeOK
  <2>3. (PtrOut + j) % Size = IF PtrOut + j < Size THEN PtrOut + j ELSE PtrOut + j - Size
    BY <2>2, RingPlace
  <2>4. FreeIndex(k) = IF PtrOut + j < Size THEN PtrOut + j ELSE PtrOut + j - Size
    BY <1>1, <2>2, <2>3 DEF FreeIndex
  <2> QED BY <1>1, <2>1, <2>2, <2>4 DEF IsFree, PoolTypeOK
<1>2. CASE ~FIFO
  BY <1>2 DEF FreeIndex, IsFree, PoolTypeOK
<1> QED BY <1>1, <1>2

FreeSeqHas ==
    /\ FreeSeq \in Seq(Tag) /\ Len(FreeSeq) = Top
    /\ \A k \in 1..Top : FreeSeq[k] = Stack[FreeIndex(k)]

LEMMA FreeSeqType == PoolTypeOK => FreeSeqHas
<1> SUFFICES ASSUME PoolTypeOK PROVE FreeSeqHas
  OBVIOUS
<1>1. Top \in Nat
  BY SizeAssumption DEF PoolTypeOK
<1>2. FreeSeq = [k \in 1..Top |-> Stack[FreeIndex(k)]]
  BY DEF FreeSeq, FreeIndex
<1>3. \A k \in 1..Top : Stack[FreeIndex(k)] \in Tag
  BY FreeIndexRange DEF PoolTypeOK, IndexInRange
<1>4. FreeSeq \in [1..Top -> Tag]
  BY <1>2, <1>3
<1> QED BY <1>1, <1>2, <1>4 DEF FreeSeqHas

\* The same after a step.
LEMMA FreeAfter == PoolTypeOK' => IndexInRange' /\ FreeSeqHas'
  BY FreeIndexRange, FreeSeqType, PTL

LEMMA PoolInitMaps == PoolInit => Abstract!Init
<1> SUFFICES ASSUME PoolInit PROVE Abstract!Init
  OBVIOUS
<1>1. PoolTypeOK /\ Top = Size /\ PtrOut = 0 /\ held = {}
  BY InitTagInv DEF TagInv, PoolInit
<1>2. ASSUME NEW k \in 1..Size
      PROVE  Stack[IF FIFO THEN (PtrOut + k - 1) % Size ELSE k - 1]
               = IF FIFO THEN k - 1 ELSE Size - k
  <2>1. FreeIndex(k) = k - 1
    BY <1>1, FreeIndexRange, SizeAssumption DEF FreeIndex, IndexInRange
  <2>2. Stack[k - 1] = IF FIFO THEN k - 1 ELSE Size - k
    BY SizeAssumption DEF PoolInit, Tag
  <2> QED BY <2>1, <2>2 DEF FreeIndex
<1>3. FreeSeq = [k \in 1..Size |-> IF FIFO THEN k - 1 ELSE Size - k]
  BY <1>1, <1>2 DEF FreeSeq
<1> QED BY <1>1, <1>3 DEF Abstract!Init

\* Tag_GetOne takes the end of the line that the kind of the pool says.
LEMMA GetMaps == ASSUME PoolTypeOK, Tag_GetOne PROVE Abstract!GetOne
<1>1. PoolTypeOK' /\ Top' = Top - 1 /\ Stack' = Stack /\ Top \in 1..Size
  BY GetFree, SizeAssumption DEF Tag_GetOne, Tag_IsEmpty, PoolTypeOK
<1>2. /\ FreeSeq \in Seq(Tag) /\ Len(FreeSeq) = Top
      /\ \A k \in 1..Top : FreeSeq[k] = Stack[FreeIndex(k)]
  BY FreeSeqType DEF FreeSeqHas
<1>3. /\ FreeSeq' \in Seq(Tag) /\ Len(FreeSeq') = Top - 1
      /\ \A k \in 1..Top-1 : FreeSeq'[k] = Stack[FreeIndex(k)']
  BY <1>1, FreeAfter DEF FreeSeqHas
<1>4. FreeSeq # <<>>
  BY <1>1, <1>2
<1>5. CASE FIFO
  <2>1. PtrOut' = (IF PtrOut + 1 >= Size THEN 0 ELSE PtrOut + 1) /\ PtrOut \in Tag
    BY <1>5 DEF Tag_GetOne, Advance, PoolTypeOK
  <2>2. ASSUME NEW k \in 1..Top-1 PROVE FreeIndex(k)' = FreeIndex(k + 1)
    <3>1. k \in 1..Top' /\ k + 1 \in 1..Top
      BY <1>1, <2>2
    <3>2. FreeIndex(k)' = IF PtrOut' + k - 1 < Size THEN PtrOut' + k - 1 ELSE PtrOut' + k - 1 - Size
      BY <1>1, <1>5, <3>1, FreeAfter DEF IndexInRange
    <3>3. FreeIndex(k + 1) = IF PtrOut + (k + 1) - 1 < Size THEN PtrOut + (k + 1) - 1
                                                          ELSE PtrOut + (k + 1) - 1 - Size
      BY <1>5, <3>1, FreeIndexRange DEF IndexInRange
    <3> QED BY <1>1, <2>1, <3>2, <3>3, SizeAssumption DEF Tag
  <2>3. FreeIndex(1) = PtrOut
    BY <1>1, <1>5, <2>1, FreeIndexRange, SizeAssumption DEF Tag, IndexInRange
  <2>4. Head(FreeSeq) = Stack[PtrOut]
    BY <1>1, <1>2, <1>4, <2>3
  <2>5. /\ Tail(FreeSeq) \in Seq(Tag) /\ Len(Tail(FreeSeq)) = Top - 1
        /\ \A k \in 1..Top-1 : Tail(FreeSeq)[k] = FreeSeq[k + 1]
    BY <1>1, <1>2, <1>4, HeadTailProperties
  <2>6. \A k \in 1..Top-1 : FreeSeq'[k] = Tail(FreeSeq)[k]
    BY <1>1, <1>2, <1>3, <2>2, <2>5
  <2>7. FreeSeq' = Tail(FreeSeq)
    BY <1>3, <2>5, <2>6, SeqEqual
  <2>8. held' = held \cup {Head(FreeSeq)}
    BY <1>5, <2>4 DEF Tag_GetOne
  <2> QED BY <1>4, <1>5, <2>7, <2>8 DEF Abstract!GetOne
<1>6. CASE ~FIFO
  <2>1. /\ FreeIndex(Top) = Top - 1
        /\ \A k \in 1..Top-1 : FreeIndex(k)' = FreeIndex(k)
    BY <1>6 DEF FreeIndex
  <2>2. Abstract!Last(FreeSeq) = Stack[Top - 1]
    BY <1>1, <1>2, <2>1 DEF Abstract!Last
  <2>3. /\ Abstract!Front(FreeSeq) \in Seq(Tag) /\ Len(Abstract!Front(FreeSeq)) = Top - 1
        /\ \A k \in 1..Top-1 : Abstract!Front(FreeSeq)[k] = FreeSeq[k]
    <3>1. \A k \in 1..Top-1 : FreeSeq[k] \in Tag
      BY <1>1, <1>2, ElementOfSeq
    <3> QED BY <1>1, <1>2, <3>1, SubSeqProperties DEF Abstract!Front
  <2>4. \A k \in 1..Top-1 : FreeSeq'[k] = Abstract!Front(FreeSeq)[k]
    BY <1>1, <1>2, <1>3, <2>1, <2>3
  <2>5. FreeSeq' = Abstract!Front(FreeSeq)
    BY <1>3, <2>3, <2>4, SeqEqual
  <2>6. held' = held \cup {Abstract!Last(FreeSeq)}
    BY <1>6, <2>2 DEF Tag_GetOne
  <2> QED BY <1>4, <1>6, <2>5, <2>6 DEF Abstract!GetOne
<1> QED BY <1>5, <1>6

\* A returned tag goes to the end of the line.
LEMMA ReleaseMaps ==
    ASSUME TagInv, NEW tag \in Tag, Tag_ReleaseOne(tag)
    PROVE  Abstract!ReleaseOne(tag)
<1>1. PoolTypeOK /\ tag \in held /\ held' = held \ {tag} /\ Top' = Top + 1 /\ PtrOut' = PtrOut
  BY DEF TagInv, Tag_ReleaseOne
<1>2. Top < Size
  BY <1>1, RoomToRelease
<1>3. PoolTypeOK'
  BY <1>1, <1>2, ReleaseFree
<1>4. /\ FreeSeq \in Seq(Tag) /\ Len(FreeSeq) = Top
      /\ \A k \in 1..Top : FreeSeq[k] = Stack[FreeIndex(k)]
  BY <1>1, FreeSeqType DEF FreeSeqHas
<1>5. /\ FreeSeq' \in Seq(Tag) /\ Len(FreeSeq') = Top + 1
      /\ \A k \in 1..Top+1 : FreeSeq'[k] = Stack'[FreeIndex(k)']
  BY <1>1, <1>3, FreeAfter DEF FreeSeqHas
<1>6. ReleaseIndex \in Tag /\ ~IsFree(ReleaseIndex)
  BY <1>1, <1>2, ReleaseIndexUnused
<1>7. Stack' = [Stack EXCEPT ![ReleaseIndex] = tag]
  BY DEF Tag_ReleaseOne
<1>8. Top \in Nat
  BY <1>1, SizeAssumption DEF PoolTypeOK
<1>9. \A k \in 1..Top+1 : FreeIndex(k)' = FreeIndex(k)
  BY <1>1 DEF FreeIndex
<1>10. FreeIndex(Top + 1) = ReleaseIndex
  <2>1. Top + 1 - 1 = Top /\ PtrOut + (Top + 1) - 1 = PtrOut + Top
    BY <1>1, <1>8, SizeAssumption DEF PoolTypeOK, Tag
  <2>2. CASE FIFO
    BY <2>1, <2>2, Zenon DEF FreeIndex, ReleaseIndex
  <2>3. CASE ~FIFO
    <3>1. FreeIndex(Top + 1) = Top + 1 - 1
      BY <1>8, <2>3 DEF FreeIndex
    <3>2. ReleaseIndex = Top
      BY <2>3, Zenon DEF ReleaseIndex
    <3> QED BY <1>8, <3>1, <3>2
  <2> QED BY <2>2, <2>3
<1>11. FreeSeq'[Top + 1] = tag
  BY <1>1, <1>5, <1>6, <1>7, <1>8, <1>9, <1>10 DEF PoolTypeOK
<1>12. ASSUME NEW k \in 1..Top PROVE FreeSeq'[k] = FreeSeq[k]
  <2>1. FreeIndex(k) # ReleaseIndex /\ FreeIndex(k) \in Tag
    BY <1>1, <1>6, FreeIndexRange DEF IndexInRange
  <2>2. FreeSeq'[k] = Stack'[FreeIndex(k)]
    BY <1>5, <1>8, <1>9
  <2> QED BY <1>1, <1>4, <1>7, <2>1, <2>2 DEF PoolTypeOK
<1>13. /\ Append(FreeSeq, tag) \in Seq(Tag) /\ Len(Append(FreeSeq, tag)) = Top + 1
       /\ \A k \in 1..Top+1 : Append(FreeSeq, tag)[k] = IF k = Top + 1 THEN tag ELSE FreeSeq[k]
  BY <1>4, <1>8
<1>14. \A k \in 1..Top+1 : FreeSeq'[k] = Append(FreeSeq, tag)[k]
  BY <1>8, <1>11, <1>12, <1>13
<1>15. FreeSeq' = Append(FreeSeq, tag)
  BY <1>5, <1>13, <1>14, SeqEqual
<1> QED BY <1>1, <1>15 DEF Abstract!ReleaseOne

LEMMA PoolStepMaps == TagInv /\ [PoolNext]_poolVars => [Abstract!Next]_Abstract!vars
<1> SUFFICES ASSUME TagInv, [PoolNext]_poolVars PROVE [Abstract!Next]_Abstract!vars
  OBVIOUS
<1>1. CASE Tag_GetOne
  BY <1>1, GetMaps DEF TagInv, Abstract!Next
<1>2. ASSUME NEW tag \in Tag, Tag_ReleaseOne(tag) PROVE Abstract!Next
  BY <1>2, ReleaseMaps DEF Abstract!Next, Tag
<1>3. CASE UNCHANGED poolVars
  BY <1>3 DEF poolVars, FreeSeq, Abstract!vars
<1> QED BY <1>1, <1>2, <1>3 DEF PoolNext

\* A pool of any size hands out its tags in the order the kind of the pool
\* promises: the ring of com_tag.c:95-130 is a queue, the stack a stack.
THEOREM ImplementsQueue == PoolSpec => ImplementsTagQueue
<1> QED BY TagInvHolds, PoolInitMaps, PoolStepMaps, PTL DEF PoolSpec, ImplementsTagQueue, Abstract!Spec

-----------------------------------------------------------------------------
(***************************************************************************)
(* Part 2: RunningReq.                                                     *)
(***************************************************************************)

NoneTwice(q) == \A i, j \in 1..Len(q) : q[i] = q[j] => i = j

\* A sender has taken slot s and not yet put its request there.
InHand(s) == \E p \in Sender : sender[p].at = "register" /\ sender[p].slot = s

SlotTypes ==
    /\ slot_pool \in Seq(Slot)
    /\ running_req \in [Slot -> Request \cup {None}]
    /\ sent_req_list \subseteq Request
    /\ outstanding_req \in [Device -> Nat]
    /\ active \in [Slot -> Request \cup {None}]
    /\ cmpl_q \in Seq(Slot) /\ finished \subseteq Request
    /\ place \in [Request -> {"upper", "waiting", "sending", "running", "error"}]
    /\ sender \in [Sender -> [at : {"idle", "register", "issue"},
                              req : Request \cup {None}, slot : Slot \cup {None}]]

PoolExact ==
    /\ NoneTwice(slot_pool)
    /\ \A s \in Slot : s \in ToSet(slot_pool) <=> running_req[s] = None /\ ~InHand(s)

\* What a sender that is not idle has: a request of its own and a slot of its own.
SenderHas(p) ==
    /\ sender[p].req \in Request /\ sender[p].slot \in Slot
    /\ place[sender[p].req] = "sending"
    /\ sender[p].at = "register" => running_req[sender[p].slot] = None
    /\ sender[p].at = "issue" => running_req[sender[p].slot] = sender[p].req

Senders ==
    /\ \A p \in Sender : sender[p] # Idle => sender[p].at # "idle" /\ SenderHas(p)
    /\ \A p, q \in Sender : sender[p].at # "idle" /\ sender[q].at # "idle" /\ p # q =>
          sender[p].req # sender[q].req /\ sender[p].slot # sender[q].slot

Placed ==
    \A r \in Request :
       /\ place[r] = "sending" => \E p \in Sender : sender[p].at # "idle" /\ sender[p].req = r
       /\ place[r] = "running" => \E s \in Slot : running_req[s] = r
       /\ r \in sent_req_list <=> place[r] = "running"

Occupied ==
    /\ \A s \in Slot : running_req[s] # None =>
          \/ place[running_req[s]] = "running"
          \/ \E p \in Sender : sender[p].at = "issue" /\ sender[p].slot = s
    /\ \A s, t \in Slot : running_req[s] # None /\ running_req[s] = running_req[t] => s = t

\* The requests of device d that have been let in.
On(d) == {r \in Request : DeviceOf[r] = d /\ place[r] \in {"sending", "running"}}

Counted == \A d \in Device : IsFiniteSet(On(d)) /\ outstanding_req[d] = Cardinality(On(d))

SlotInv == SlotTypes /\ PoolExact /\ Senders /\ Placed /\ Occupied /\ Counted

\* The hardware works on a slot's present command, and only until that is on the
\* ring; what is to be sent is not there yet.
Hardware ==
    /\ \A s \in Slot : active[s] # None =>
          running_req[s] = active[s] /\ place[active[s]] = "running" /\ active[s] \notin finished
    /\ \A p \in Sender : sender[p].at # "idle" => sender[p].req \notin finished

\* While a port is aborted nobody sends.
RecoveryInv ==
    /\ recovery \in [at : {"idle", "abort port", "reset slot"},
                     base : Device \cup {None},
                     picked : (Slot \X Request) \cup {None}, left : SUBSET Slot]
    /\ recovery.at = "idle" => recovery = NoRecovery
    /\ recovery.at # "idle" => \A p \in Sender : sender[p] = Idle
    /\ recovery.at = "reset slot" =>
          \E s \in Slot, r \in Request : recovery.picked = <<s, r>>

\* What holds after any lapse.
Typed ==
    /\ SlotTypes /\ RecoveryInv
    /\ lapses \subseteq {"early", "unsent", "intruded"}
    /\ \A p \in Sender : sender[p].at # "idle" =>
          sender[p].req \in Request /\ sender[p].slot \in Slot

IInv == Typed /\ (InOrder => SlotInv) /\ (lapses = {} => Hardware)

-----------------------------------------------------------------------------
(***************************************************************************)
(* The pool.                                                               *)
(***************************************************************************)

LEMMA PoolHead ==
    ASSUME NEW S, NEW q \in Seq(S), q # <<>>, NoneTwice(q)
    PROVE  /\ Head(q) \in S /\ Head(q) \in ToSet(q)
           /\ Tail(q) \in Seq(S) /\ NoneTwice(Tail(q))
           /\ ToSet(Tail(q)) = ToSet(q) \ {Head(q)}
<1> DEFINE n == Len(q)
           t == Tail(q)
<1>1. /\ n \in Nat \ {0} /\ DOMAIN q = 1..n /\ Head(q) = q[1] /\ Head(q) \in S
  BY EmptySeq, LenProperties, HeadTailProperties
<1>2. /\ t \in Seq(S) /\ Len(t) = n - 1 /\ DOMAIN t = 1..n-1
      /\ \A i \in 1..n-1 : t[i] = q[i+1]
  BY HeadTailProperties, LenProperties
<1>3. \A i, j \in 1..n : q[i] = q[j] => i = j
  BY DEF NoneTwice
<1> HIDE DEF n, t
<1>4. NoneTwice(t)
  <2> SUFFICES ASSUME NEW i \in 1..n-1, NEW j \in 1..n-1, t[i] = t[j] PROVE i = j
    BY <1>2 DEF NoneTwice
  <2>1. i + 1 \in 1..n /\ j + 1 \in 1..n /\ q[i+1] = q[j+1]
    BY <1>1, <1>2
  <2>2. i + 1 = j + 1
    BY <1>3, <2>1
  <2>3. i \in Int /\ j \in Int
    BY <1>1
  <2> QED BY <2>2, <2>3
<1>5. ToSet(t) = ToSet(q) \ {Head(q)}
  <2>1. ASSUME NEW i \in 1..n-1 PROVE t[i] \in ToSet(q) /\ t[i] # Head(q)
    <3>1. i + 1 \in 1..n /\ 1 \in 1..n /\ i + 1 # 1 /\ t[i] = q[i+1]
      BY <1>1, <1>2
    <3>2. q[i+1] # q[1]
      BY <1>3, <3>1
    <3> QED BY <1>1, <3>1, <3>2 DEF ToSet
  <2>2. ASSUME NEW i \in 1..n, q[i] # Head(q) PROVE q[i] \in ToSet(t)
    <3>1. i - 1 \in 1..n-1 /\ t[i-1] = q[i]
      BY <1>1, <1>2, <2>2
    <3> QED BY <1>2, <3>1 DEF ToSet
  <2>3. \A x \in ToSet(t) : \E i \in 1..n-1 : x = t[i]
    BY <1>2 DEF ToSet
  <2>4. \A x \in ToSet(q) : \E i \in 1..n : x = q[i]
    BY <1>1 DEF ToSet
  <2> QED BY <2>1, <2>2, <2>3, <2>4
<1>6. Head(q) \in ToSet(q)
  BY <1>1 DEF ToSet
<1> QED BY <1>1, <1>2, <1>4, <1>5, <1>6 DEF t

LEMMA PoolConcat ==
    ASSUME NEW S, NEW q \in Seq(S), NEW o \in Seq(S), NoneTwice(q), NoneTwice(o),
           ToSet(q) \cap ToSet(o) = {}
    PROVE  /\ q \o o \in Seq(S) /\ NoneTwice(q \o o)
           /\ ToSet(q \o o) = ToSet(q) \cup ToSet(o)
<1> DEFINE m == Len(q)
           n == Len(o)
           t == q \o o
<1>1. m \in Nat /\ n \in Nat /\ DOMAIN q = 1..m /\ DOMAIN o = 1..n
  BY LenProperties
<1>2. /\ t \in Seq(S) /\ Len(t) = m + n
      /\ \A i \in 1..m+n : t[i] = IF i <= m THEN q[i] ELSE o[i - m]
  BY ConcatProperties
<1>3. DOMAIN t = 1..m+n
  BY <1>2, LenProperties
<1>4. /\ \A i, j \in 1..m : q[i] = q[j] => i = j
      /\ \A i, j \in 1..n : o[i] = o[j] => i = j
      /\ \A i \in 1..m, j \in 1..n : q[i] # o[j]
  BY <1>1 DEF NoneTwice, ToSet
<1> HIDE DEF m, n, t
<1>5. NoneTwice(t)
  <2> SUFFICES ASSUME NEW i \in 1..m+n, NEW j \in 1..m+n, t[i] = t[j] PROVE i = j
    BY <1>2 DEF NoneTwice
  <2>1. CASE i <= m /\ j <= m
    BY <1>1, <1>2, <1>4, <2>1
  <2>2. CASE i <= m /\ ~(j <= m)
    BY <1>1, <1>2, <1>4, <2>2
  <2>3. CASE ~(i <= m) /\ j <= m
    BY <1>1, <1>2, <1>4, <2>3
  <2>4. CASE ~(i <= m) /\ ~(j <= m)
    <3>1. i - m \in 1..n /\ j - m \in 1..n /\ o[i - m] = o[j - m]
      BY <1>1, <1>2, <2>4
    <3>2. i - m = j - m
      BY <1>4, <3>1
    <3> QED BY <1>1, <3>2
  <2> QED BY <2>1, <2>2, <2>3, <2>4
<1>6. ToSet(t) = ToSet(q) \cup ToSet(o)
  <2>1. ASSUME NEW i \in 1..m+n PROVE t[i] \in ToSet(q) \cup ToSet(o)
    <3>1. CASE i <= m
      <4>1. i \in 1..m /\ t[i] = q[i]
        BY <1>1, <1>2, <3>1
      <4> QED BY <1>1, <4>1 DEF ToSet
    <3>2. CASE ~(i <= m)
      <4>1. i - m \in 1..n /\ t[i] = o[i - m]
        BY <1>1, <1>2, <3>2
      <4> QED BY <1>1, <4>1 DEF ToSet
    <3> QED BY <3>1, <3>2
  <2>2. ASSUME NEW i \in 1..m PROVE q[i] \in ToSet(t)
    <3>1. i \in 1..m+n /\ t[i] = q[i]
      BY <1>1, <1>2
    <3> QED BY <1>3, <3>1 DEF ToSet
  <2>3. ASSUME NEW i \in 1..n PROVE o[i] \in ToSet(t)
    <3>1. m + i \in 1..m+n /\ t[m + i] = o[i]
      BY <1>1, <1>2
    <3> QED BY <1>3, <3>1 DEF ToSet
  <2>4. \A x \in ToSet(t) : \E i \in 1..m+n : x = t[i]
    BY <1>3 DEF ToSet
  <2>5. \A x \in ToSet(q) : \E i \in 1..m : x = q[i]
    BY <1>1 DEF ToSet
  <2>6. \A x \in ToSet(o) : \E i \in 1..n : x = o[i]
    BY <1>1 DEF ToSet
  <2> QED BY <2>1, <2>2, <2>3, <2>4, <2>5, <2>6
<1> QED BY <1>2, <1>5, <1>6 DEF t

LEMMA PoolAppend ==
    ASSUME NEW S, NEW q \in Seq(S), NEW s \in S, NoneTwice(q), s \notin ToSet(q)
    PROVE  /\ Append(q, s) \in Seq(S) /\ NoneTwice(Append(q, s))
           /\ ToSet(Append(q, s)) = ToSet(q) \cup {s}
<1> DEFINE o == <<s>>
<1>1. o \in Seq(S) /\ Append(q, s) = q \o o
  BY AppendIsConcat
<1>2. NoneTwice(o) /\ ToSet(o) = {s}
  BY DEF NoneTwice, ToSet
<1> HIDE DEF o
<1>3. ToSet(q) \cap ToSet(o) = {}
  BY <1>2
<1> QED BY <1>1, <1>2, <1>3, PoolConcat

\* Any order of a finite set is a sequence with each member once.
LEMMA Ordered ==
    ASSUME NEW S, NEW T \in SUBSET S, IsFiniteSet(T), NEW o \in SetToSeqs(T)
    PROVE  o \in Seq(S) /\ NoneTwice(o) /\ ToSet(o) = T
<1> DEFINE n == Cardinality(T)
<1>1. n \in Nat
  BY FS_CardinalityType
<1>2. o \in [1..n -> T] /\ \A i, j \in 1..n : i # j => o[i] # o[j]
  BY DEF SetToSeqs
<1>3. IsFiniteSet(1..n) /\ Cardinality(1..n) = n
  BY <1>1, FS_Interval
<1>4. o \in Injection(1..n, T)
  BY <1>2 DEF Injection, IsInjective
<1>5. o \in Surjection(1..n, T)
  BY <1>3, <1>4, FS_Injection
<1>6. o \in Seq(S) /\ Len(o) = n
  BY <1>1, <1>2, IsASeq, LenProperties
<1> HIDE DEF n
<1>7. NoneTwice(o)
  BY <1>2, <1>6 DEF NoneTwice
<1>8. ToSet(o) = T
  BY <1>2, <1>5 DEF ToSet, Surjection
<1> QED BY <1>6, <1>7, <1>8

-----------------------------------------------------------------------------
(***************************************************************************)
(* Each action keeps the invariant.                                        *)
(***************************************************************************)

LEMMA IdleAt == \A p \in Sender : sender[p] = Idle => sender[p].at = "idle"
  BY DEF Idle

LEMMA InitInv == Init => IInv
<1> SUFFICES ASSUME Init PROVE IInv
  OBVIOUS
<1>1. /\ slot_pool \in Seq(Slot) /\ NoneTwice(slot_pool) /\ ToSet(slot_pool) = Slot
  <2> DEFINE n == Cardinality(Slot)
             B == {f \in [1..n -> Slot] : IsInjective(f)}
  <2>1. n \in Nat /\ ExistsBijection(1..n, Slot)
    BY SlotAssumption, FS_CardinalityType
  <2>2. \E f \in [1..n -> Slot] : IsInjective(f)
    BY <2>1 DEF ExistsBijection, Bijection, Injection
  <2>3. slot_pool \in [1..n -> Slot] /\ IsInjective(slot_pool)
    BY <2>2 DEF Init, SetToSeq
  <2>4. slot_pool \in SetToSeqs(Slot)
    BY <2>3 DEF SetToSeqs, IsInjective
  <2> QED BY <2>4, SlotAssumption, Ordered
<1>2. SlotTypes
  BY <1>1 DEF Init, SlotTypes, Idle
<1>3. PoolExact
  BY <1>1 DEF Init, PoolExact, InHand, Idle
<1>4. Senders /\ Placed /\ Occupied /\ Hardware
  BY DEF Init, Senders, Placed, Occupied, Hardware, Idle
<1>5. Counted
  <2>1. \A d \in Device : On(d) = {}
    BY DEF Init, On
  <2> QED BY <2>1, FS_EmptySet DEF Init, Counted
<1>6. Typed
  BY <1>2 DEF Init, Typed, RecoveryInv, NoRecovery, Idle
<1> QED BY <1>2, <1>3, <1>4, <1>5, <1>6 DEF SlotInv, IInv

\* A request that is neither let in nor on its way moves to another such place.
LEMMA MoveKeeps ==
    ASSUME SlotInv, SlotTypes', NEW r \in Request, place[r] \in {"upper", "waiting", "error"},
           NEW there \in {"upper", "waiting", "error"},
           place' = [place EXCEPT ![r] = there], UNCHANGED <<slotVars, hwVars, sender>>
    PROVE  SlotInv' /\ (Hardware => Hardware')
<1>1. /\ place'[r] = there /\ \A q \in Request \ {r} : place'[q] = place[q]
      /\ place' \in [Request -> {"upper", "waiting", "sending", "running", "error"}]
  BY DEF SlotInv, SlotTypes
<1>2. UNCHANGED <<slot_pool, running_req, sent_req_list, outstanding_req, active, cmpl_q,
                  finished, sender>>
  BY DEF slotVars, hwVars
<1>4. PoolExact'
  BY <1>2 DEF SlotInv, PoolExact, InHand, NoneTwice
<1>5. Senders'
  BY <1>1, <1>2 DEF SlotInv, Senders, SenderHas
<1>6. Placed'
  BY <1>1, <1>2 DEF SlotInv, Placed
<1>7. Occupied'
  BY <1>1, <1>2 DEF SlotInv, Occupied, SlotTypes
<1>8. Hardware => Hardware'
  BY <1>1, <1>2 DEF SlotInv, Hardware, SlotTypes
<1>9. Counted'
  <2>1. \A d \in Device : On(d)' = On(d)
    BY <1>1 DEF On
  <2> QED BY <1>2, <2>1 DEF SlotInv, Counted
<1> QED BY <1>4, <1>5, <1>6, <1>7, <1>8, <1>9 DEF SlotInv

LEMMA AdmitKeeps ==
    ASSUME SlotInv, SlotTypes', NEW p \in Sender, NEW r \in Request, Admit(p, r)
    PROVE  SlotInv' /\ (Hardware => Hardware')
<1> DEFINE s == Head(slot_pool)
<1>1. /\ s \in Slot /\ s \in ToSet(slot_pool)
      /\ slot_pool' \in Seq(Slot) /\ NoneTwice(slot_pool')
      /\ ToSet(slot_pool') = ToSet(slot_pool) \ {s}
  BY PoolHead DEF Admit, SlotInv, SlotTypes, PoolExact
<1>2. /\ sender'[p] = [at |-> "register", req |-> r, slot |-> s]
      /\ \A q \in Sender \ {p} : sender'[q] = sender[q]
      /\ sender[p].at = "idle" /\ place[r] = "waiting"
      /\ place'[r] = "sending" /\ \A q \in Request \ {r} : place'[q] = place[q]
      /\ finished' = finished \ {r}
      /\ UNCHANGED <<running_req, sent_req_list, active>>
  BY DEF Admit, SlotInv, SlotTypes, Idle
<1>3. running_req[s] = None /\ ~InHand(s)
  BY <1>1 DEF SlotInv, PoolExact
<1> HIDE DEF s
<1>4. \A q \in Sender : sender[q].at # "idle" => sender[q].slot # s /\ sender[q].req # r
  <2> SUFFICES ASSUME NEW q \in Sender, sender[q].at # "idle"
               PROVE  sender[q].slot # s /\ sender[q].req # r
    OBVIOUS
  <2>1. SenderHas(q)
    BY IdleAt DEF SlotInv, Senders
  <2>2. sender[q].at \in {"register", "issue"}
    BY DEF SlotInv, SlotTypes
  <2> QED BY <1>2, <1>3, <2>1, <2>2, SlotAssumption DEF SenderHas, InHand
<1>6. PoolExact'
  <2>1. \A t \in Slot : InHand(t)' <=> InHand(t) \/ t = s
    BY <1>2 DEF InHand
  <2> QED BY <1>1, <1>2, <1>3, <2>1 DEF SlotInv, PoolExact
<1>7. Senders'
  <2>1. SenderHas(p)'
    BY <1>1, <1>2, <1>3 DEF SenderHas
  <2>2. ASSUME NEW q \in Sender \ {p}, sender[q] # Idle PROVE sender[q].at # "idle" /\ SenderHas(q)'
    <3>1. sender[q].at # "idle" /\ SenderHas(q) /\ sender[q].req # r
      BY <1>4, <2>2 DEF SlotInv, Senders
    <3> QED BY <1>2, <3>1 DEF SenderHas
  <2> QED BY <1>2, <1>4, <2>1, <2>2 DEF SlotInv, Senders
<1>8. Placed'
  BY <1>2 DEF SlotInv, Placed
<1>9. Occupied'
  <2>1. ASSUME NEW t \in Slot, running_req[t] # None, place[running_req[t]] = "running"
        PROVE  place'[running_req[t]] = "running"
    BY <1>2, <2>1 DEF SlotInv, SlotTypes
  <2>2. ASSUME NEW t \in Slot, NEW q \in Sender, sender[q].at = "issue" /\ sender[q].slot = t
        PROVE  sender'[q].at = "issue" /\ sender'[q].slot = t
    BY <1>2, <2>2
  <2> QED BY <1>2, <2>1, <2>2 DEF SlotInv, Occupied
<1>10. Hardware => Hardware'
  <2> SUFFICES ASSUME Hardware PROVE Hardware'
    OBVIOUS
  <2>1. ASSUME NEW t \in Slot, active[t] # None
        PROVE  place'[active[t]] = "running" /\ running_req[t] = active[t]
               /\ active[t] \notin finished
    BY <1>2, <2>1 DEF Hardware, SlotTypes, SlotInv
  <2>2. ASSUME NEW q \in Sender, sender'[q].at # "idle" PROVE sender'[q].req \notin finished'
    <3>1. CASE q = p
      BY <1>2, <3>1
    <3>2. CASE q # p
      BY <1>2, <2>2, <3>2 DEF Hardware
    <3> QED BY <3>1, <3>2
  <2> QED BY <1>2, <2>1, <2>2 DEF Hardware
<1>11. Counted'
  <2> DEFINE e == DeviceOf[r]
  <2>1. e \in Device /\ outstanding_req' = [outstanding_req EXCEPT ![e] = @ + 1]
    BY RequestAssumption DEF Admit
  <2>2. On(e)' = On(e) \cup {r} /\ r \notin On(e)
    BY <1>2 DEF On
  <2>3. \A d \in Device \ {e} : On(d)' = On(d)
    BY <1>2 DEF On
  <2>4. IsFiniteSet(On(e)) /\ outstanding_req[e] = Cardinality(On(e))
    BY <2>1 DEF SlotInv, Counted
  <2>5. IsFiniteSet(On(e)') /\ Cardinality(On(e)') = Cardinality(On(e)) + 1
    BY <2>2, <2>4, FS_AddElement
  <2>6. outstanding_req'[e] = outstanding_req[e] + 1
        /\ \A d \in Device \ {e} : outstanding_req'[d] = outstanding_req[d]
    BY <2>1 DEF SlotInv, SlotTypes
  <2> HIDE DEF e
  <2> SUFFICES ASSUME NEW d \in Device
               PROVE  IsFiniteSet(On(d)') /\ outstanding_req'[d] = Cardinality(On(d)')
    BY DEF Counted
  <2>7. CASE d = e
    BY <2>4, <2>5, <2>6, <2>7
  <2>8. CASE d # e
    BY <2>3, <2>6, <2>8 DEF SlotInv, Counted
  <2> QED BY <2>7, <2>8
<1> QED BY <1>6, <1>7, <1>8, <1>9, <1>10, <1>11 DEF SlotInv

\* What a sender that is not idle is doing.
LEMMA BusyHas ==
    ASSUME SlotInv, NEW p \in Sender, sender[p].at # "idle"
    PROVE  SenderHas(p) /\ sender[p].at \in {"register", "issue"}
  BY IdleAt DEF SlotInv, SlotTypes, Senders

LEMMA RegisterKeeps ==
    ASSUME SlotInv, SlotTypes', NEW p \in Sender, Register(p)
    PROVE  SlotInv' /\ (Hardware => Hardware')
<1> DEFINE s == sender[p].slot
           r == sender[p].req
<1>1. /\ s \in Slot /\ r \in Request /\ place[r] = "sending" /\ running_req[s] = None
      /\ sender[p].at = "register" /\ r # None
  BY BusyHas, SlotAssumption DEF Register, SenderHas
<1>2. /\ sender'[p].at = "issue" /\ sender'[p].slot = s /\ sender'[p].req = r
      /\ \A q \in Sender \ {p} : sender'[q] = sender[q]
      /\ running_req'[s] = r /\ \A t \in Slot \ {s} : running_req'[t] = running_req[t]
      /\ UNCHANGED <<slot_pool, sent_req_list, outstanding_req, active, cmpl_q, finished,
                     place>>
  BY <1>1 DEF Register, SlotInv, SlotTypes, hwVars
<1>3. \A q \in Sender \ {p} : sender[q].at # "idle" => sender[q].slot # s /\ sender[q].req # r
  BY <1>1 DEF SlotInv, Senders
<1> HIDE DEF s, r
<1>5. PoolExact'
  <2>1. InHand(s) /\ ~InHand(s)'
    BY <1>1, <1>2, <1>3 DEF InHand, s
  <2>2. \A t \in Slot \ {s} : InHand(t)' <=> InHand(t)
    BY <1>2 DEF InHand, s
  <2>3. running_req'[s] # None
    BY <1>1, <1>2, SlotAssumption
  <2>4. ASSUME NEW t \in Slot
        PROVE  t \in ToSet(slot_pool') <=> running_req'[t] = None /\ ~InHand(t)'
    BY <1>2, <2>1, <2>2, <2>3, <2>4 DEF SlotInv, PoolExact
  <2> QED BY <1>2, <2>4 DEF SlotInv, PoolExact, NoneTwice
<1>6. Senders'
  <2>1. SenderHas(p)'
    BY <1>1, <1>2 DEF SenderHas
  <2>2. ASSUME NEW q \in Sender \ {p}, sender[q] # Idle PROVE sender[q].at # "idle" /\ SenderHas(q)'
    <3>1. sender[q].at # "idle" /\ SenderHas(q) /\ sender[q].slot # s
      BY <1>3, <2>2 DEF SlotInv, Senders
    <3> QED BY <1>2, <3>1 DEF SenderHas
  <2> QED BY <1>2, <1>3, <2>1, <2>2 DEF SlotInv, Senders
<1>7. Placed'
  <2>1. ASSUME NEW q \in Request, place[q] = "sending"
        PROVE  \E o \in Sender : sender'[o].at # "idle" /\ sender'[o].req = q
    <3>1. PICK o \in Sender : sender[o].at # "idle" /\ sender[o].req = q
      BY <2>1 DEF SlotInv, Placed
    <3> QED BY <1>2, <3>1 DEF r
  <2>2. ASSUME NEW q \in Request, place[q] = "running"
        PROVE  \E t \in Slot : running_req'[t] = q
    <3>1. PICK t \in Slot : running_req[t] = q
      BY <2>2 DEF SlotInv, Placed
    <3> QED BY <1>1, <1>2, <3>1, SlotAssumption
  <2> QED BY <1>2, <2>1, <2>2 DEF SlotInv, Placed
\* Nobody else's slot carries r: a slot's request runs or is its sender's.
<1>8. \A t \in Slot : running_req[t] # r
  <2> SUFFICES ASSUME NEW t \in Slot, running_req[t] = r PROVE FALSE
    OBVIOUS
  <2>1. r # None
    BY <1>1, SlotAssumption
  <2>2. PICK q \in Sender : sender[q].at = "issue" /\ sender[q].slot = t
    BY <1>1, <2>1 DEF SlotInv, Occupied
  <2>3. sender[q].req = r /\ q # p
    BY <1>1, <2>2, BusyHas DEF SenderHas
  <2> QED BY <1>3, <2>2, <2>3
<1>9. Occupied'
  <2>1. ASSUME NEW t \in Slot, running_req'[t] # None
        PROVE  \/ place'[running_req'[t]] = "running"
               \/ \E q \in Sender : sender'[q].at = "issue" /\ sender'[q].slot = t
    <3>1. CASE t = s
      BY <1>2, <3>1
    <3>2. CASE t # s
      <4>1. CASE place[running_req[t]] = "running"
        BY <1>2, <3>2, <4>1
      <4>2. CASE \E q \in Sender : sender[q].at = "issue" /\ sender[q].slot = t
        BY <1>1, <1>2, <3>2, <4>2
      <4> QED BY <1>2, <2>1, <3>2, <4>1, <4>2 DEF SlotInv, Occupied
    <3> QED BY <3>1, <3>2
  <2>2. ASSUME NEW t \in Slot, NEW u \in Slot, running_req'[t] # None,
               running_req'[t] = running_req'[u]
        PROVE  t = u
    BY <1>2, <1>8, <2>2 DEF SlotInv, Occupied
  <2> QED BY <2>1, <2>2 DEF Occupied
<1>10. Hardware => Hardware'
  <2> SUFFICES ASSUME Hardware PROVE Hardware'
    OBVIOUS
  <2>1. active[s] = None
    BY <1>1 DEF Hardware, SlotInv, SlotTypes
  <2>2. \A q \in Sender : sender'[q].at # "idle" => sender'[q].req \notin finished
    BY <1>1, <1>2 DEF Hardware, r
  <2> QED BY <1>2, <2>1, <2>2 DEF Hardware
<1>11. Counted'
  BY <1>2 DEF SlotInv, Counted, On
<1> QED BY <1>5, <1>6, <1>7, <1>9, <1>10, <1>11 DEF SlotInv

LEMMA IssueKeeps ==
    ASSUME SlotInv, SlotTypes', NEW p \in Sender, Issue(p)
    PROVE  SlotInv' /\ (Hardware => Hardware')
<1> DEFINE s == sender[p].slot
           r == sender[p].req
<1>1. /\ s \in Slot /\ r \in Request /\ place[r] = "sending" /\ running_req[s] = r
      /\ sender[p].at = "issue" /\ r # None
  BY BusyHas, SlotAssumption DEF Issue, SenderHas
<1>2. /\ sender'[p] = Idle
      /\ \A q \in Sender \ {p} : sender'[q] = sender[q]
      /\ active'[s] = r /\ \A t \in Slot \ {s} : active'[t] = active[t]
      /\ place'[r] = "running" /\ \A q \in Request \ {r} : place'[q] = place[q]
      /\ sent_req_list' = sent_req_list \cup {r}
      /\ UNCHANGED <<slot_pool, running_req, outstanding_req, finished>>
  BY <1>1 DEF Issue, SlotInv, SlotTypes
<1>3. \A q \in Sender \ {p} : sender[q].at # "idle" => sender[q].slot # s /\ sender[q].req # r
  BY <1>1 DEF SlotInv, Senders
<1>5. sender'[p].at = "idle"
  BY <1>2 DEF Idle
<1> HIDE DEF s, r
<1>6. PoolExact'
  <2>1. \A t \in Slot : InHand(t)' <=> InHand(t)
    BY <1>1, <1>2, <1>5 DEF InHand
  <2> QED BY <1>2, <2>1 DEF SlotInv, PoolExact, NoneTwice
<1>7. Senders'
  <2>1. ASSUME NEW q \in Sender \ {p}, sender[q] # Idle PROVE sender[q].at # "idle" /\ SenderHas(q)'
    <3>1. sender[q].at # "idle" /\ SenderHas(q) /\ sender[q].req # r
      BY <1>3, <2>1 DEF SlotInv, Senders
    <3> QED BY <1>2, <3>1 DEF SenderHas
  <2> QED BY <1>2, <1>5, <2>1 DEF SlotInv, Senders
<1>8. Placed'
  <2>1. ASSUME NEW q \in Request, place'[q] = "sending"
        PROVE  \E o \in Sender : sender'[o].at # "idle" /\ sender'[o].req = q
    <3>1. q # r /\ place[q] = "sending"
      BY <1>2, <2>1
    <3>2. PICK o \in Sender : sender[o].at # "idle" /\ sender[o].req = q
      BY <3>1 DEF SlotInv, Placed
    <3> QED BY <1>2, <3>1, <3>2 DEF r
  <2> QED BY <1>1, <1>2, <2>1 DEF SlotInv, Placed
<1>9. Occupied'
  <2>1. ASSUME NEW t \in Slot, running_req[t] # None
        PROVE  \/ place'[running_req[t]] = "running"
               \/ \E q \in Sender : sender'[q].at = "issue" /\ sender'[q].slot = t
    <3>1. CASE running_req[t] = r
      BY <1>2, <3>1
    <3>2. CASE running_req[t] # r
      <4>1. running_req[t] \in Request
        BY <2>1 DEF SlotInv, SlotTypes
      <4>2. CASE place[running_req[t]] = "running"
        BY <1>2, <3>2, <4>1, <4>2
      <4>3. CASE \E q \in Sender : sender[q].at = "issue" /\ sender[q].slot = t
        BY <1>1, <1>2, <3>2, <4>3 DEF s
      <4> QED BY <2>1, <4>2, <4>3 DEF SlotInv, Occupied
    <3> QED BY <3>1, <3>2
  <2> QED BY <1>2, <2>1 DEF SlotInv, Occupied
<1>10. Hardware => Hardware'
  <2> SUFFICES ASSUME Hardware PROVE Hardware'
    OBVIOUS
  <2>1. ASSUME NEW t \in Slot, active'[t] # None
        PROVE  running_req[t] = active'[t] /\ place'[active'[t]] = "running"
               /\ active'[t] \notin finished
    <3>1. CASE t = s
      BY <1>1, <1>2, <3>1 DEF Hardware, r
    <3>2. CASE t # s
      <4>1. active'[t] = active[t] /\ active[t] \in Request
        BY <1>2, <2>1, <3>2 DEF SlotInv, SlotTypes
      <4>2. running_req[t] = active[t] /\ place[active[t]] = "running" /\ active[t] \notin finished
        BY <2>1, <4>1 DEF Hardware
      <4> QED BY <1>1, <1>2, <4>1, <4>2
    <3> QED BY <3>1, <3>2
  <2>2. \A q \in Sender : sender'[q].at # "idle" => sender'[q].req \notin finished
    BY <1>2, <1>5 DEF Hardware
  <2> QED BY <1>2, <2>1, <2>2 DEF Hardware
<1>11. Counted'
  <2>1. \A d \in Device : On(d)' = On(d)
    BY <1>1, <1>2 DEF On
  <2> QED BY <1>2, <2>1 DEF SlotInv, Counted
<1> QED BY <1>6, <1>7, <1>8, <1>9, <1>10, <1>11 DEF SlotInv

\* What leaves the books alone leaves them right.
LEMMA SameBooks ==
    ASSUME SlotInv, SlotTypes',
           UNCHANGED <<slot_pool, running_req, sent_req_list, outstanding_req, place, sender>>
    PROVE  SlotInv'
<1>1. \A d \in Device : On(d)' = On(d)
  BY DEF On
<1>2. \A p \in Sender : SenderHas(p)' = SenderHas(p)
  BY DEF SenderHas
<1>3. \A s \in Slot : InHand(s)' = InHand(s)
  BY DEF InHand
<1>4. Placed' /\ Occupied'
  BY DEF SlotInv, Placed, Occupied
<1>5. PoolExact' /\ Senders' /\ Counted'
  BY <1>1, <1>2, <1>3 DEF SlotInv, PoolExact, NoneTwice, Senders, Counted
<1> QED BY <1>4, <1>5 DEF SlotInv

LEMMA FinishKeeps ==
    ASSUME SlotInv, SlotTypes', NEW s \in Slot, Finish(s)
    PROVE  SlotInv' /\ (Hardware => Hardware')
<1> DEFINE r == active[s]
<1>1. r \in Request
  BY DEF Finish, SlotInv, SlotTypes
<1>2. /\ active'[s] = None /\ \A t \in Slot \ {s} : active'[t] = active[t]
      /\ finished' = finished \cup {r}
      /\ UNCHANGED <<slot_pool, running_req, sent_req_list, outstanding_req, place, sender>>
  BY DEF Finish, SlotInv, SlotTypes, slotVars
<1>3. SlotInv'
  BY <1>2, SameBooks
<1>4. ASSUME Hardware PROVE Hardware'
  <2>1. running_req[s] = r /\ place[r] = "running" /\ r # None
    BY <1>4 DEF Finish, Hardware
  <2>2. ASSUME NEW t \in Slot, active'[t] # None
        PROVE  running_req[t] = active'[t] /\ place[active'[t]] = "running"
               /\ active'[t] \notin finished'
    <3>1. t # s /\ active'[t] = active[t]
      BY <1>2, <2>2
    <3>2. running_req[t] = active[t] /\ place[active[t]] = "running" /\ active[t] \notin finished
      BY <1>4, <2>2, <3>1 DEF Hardware
    <3>3. active[t] # r
      BY <2>1, <3>1, <3>2 DEF SlotInv, Occupied
    <3> QED BY <1>2, <3>1, <3>2, <3>3
  <2>3. ASSUME NEW p \in Sender, sender[p].at # "idle" PROVE sender[p].req \notin finished'
    <3>1. sender[p].req \notin finished /\ place[sender[p].req] = "sending"
      BY <1>4, <2>3, BusyHas DEF Hardware, SenderHas
    <3> QED BY <1>2, <2>1, <3>1
  <2> QED BY <1>2, <2>2, <2>3 DEF Hardware
<1> QED BY <1>3, <1>4

\* A request is taken off its slot, whoever does it: the interrupt, a timeout,
\* or the abort of its port.
LEMMA CleanKeeps ==
    ASSUME SlotInv, SlotTypes', NEW s \in Slot, NEW r \in Request,
           running_req[s] = r, place[r] = "running", prot_clean_slot(s, r),
           NEW there \in {"upper", "waiting", "error"}, place' = [place EXCEPT ![r] = there],
           sender' = sender
    PROVE  SlotInv'
<1>1. /\ r # None
      /\ running_req'[s] = None /\ \A t \in Slot \ {s} : running_req'[t] = running_req[t]
      /\ place'[r] = there /\ \A q \in Request \ {r} : place'[q] = place[q]
      /\ sent_req_list' = sent_req_list \ {r}
  BY SlotAssumption DEF prot_clean_slot, SlotInv, SlotTypes
<1>2. \A q \in Sender : sender[q].at # "idle" =>
         sender[q].slot # s /\ sender[q].req # r /\ sender[q].at \in {"register", "issue"}
  BY <1>1, BusyHas DEF SenderHas
<1>3. ~InHand(s) /\ \A t \in Slot : InHand(t)' <=> InHand(t)
  BY <1>2 DEF InHand
<1>4. \A t \in Slot \ {s} : running_req[t] # r
  BY <1>1 DEF SlotInv, Occupied
<1>5. /\ slot_pool' \in Seq(Slot) /\ NoneTwice(slot_pool')
      /\ ToSet(slot_pool') = ToSet(slot_pool) \cup {s}
  <2>1. s \notin ToSet(slot_pool)
    BY <1>1 DEF SlotInv, PoolExact
  <2> QED BY <2>1, PoolAppend DEF prot_clean_slot, SlotInv, SlotTypes, PoolExact
<1>6. DeviceOf[r] \in Device /\ outstanding_req \in [Device -> Nat]
  BY RequestAssumption DEF SlotInv, SlotTypes
<1>8. PoolExact'
  BY <1>1, <1>3, <1>5 DEF SlotInv, PoolExact
<1>9. Senders'
  <2>1. ASSUME NEW q \in Sender, sender[q] # Idle PROVE sender[q].at # "idle" /\ SenderHas(q)'
    <3>1. sender[q].at # "idle" /\ SenderHas(q) /\ sender[q].slot # s /\ sender[q].req # r
      BY <1>2, <2>1 DEF SlotInv, Senders
    <3> QED BY <1>1, <3>1 DEF SenderHas
  <2> QED BY <2>1 DEF SlotInv, Senders
<1>10. Placed'
  <2> SUFFICES ASSUME NEW q \in Request
               PROVE  /\ place'[q] = "sending" =>
                           \E p \in Sender : sender'[p].at # "idle" /\ sender'[p].req = q
                      /\ place'[q] = "running" => \E t \in Slot : running_req'[t] = q
                      /\ q \in sent_req_list' <=> place'[q] = "running"
    BY DEF Placed
  <2>1. CASE q = r
    BY <1>1, <2>1
  <2>2. CASE q # r
    BY <1>1, <2>2 DEF SlotInv, Placed
  <2> QED BY <2>1, <2>2
<1>11. Occupied'
  <2>1. ASSUME NEW t \in Slot, running_req'[t] # None
        PROVE  \/ place'[running_req'[t]] = "running"
               \/ \E q \in Sender : sender'[q].at = "issue" /\ sender'[q].slot = t
    <3>1. t # s /\ running_req'[t] = running_req[t] /\ running_req[t] \in Request \ {r}
      BY <1>1, <1>4, <2>1 DEF SlotInv, SlotTypes
    <3> QED BY <1>1, <2>1, <3>1 DEF SlotInv, Occupied
  <2>2. ASSUME NEW t \in Slot, NEW u \in Slot, running_req'[t] # None,
               running_req'[t] = running_req'[u]
        PROVE  t = u
    BY <1>1, <2>2 DEF SlotInv, Occupied
  <2> QED BY <2>1, <2>2 DEF Occupied
<1>13. Counted'
  <2> DEFINE e == DeviceOf[r]
  <2>1. On(e)' = On(e) \ {r} /\ r \in On(e)
    BY <1>1 DEF On
  <2>2. \A d \in Device \ {e} : On(d)' = On(d)
    BY <1>1 DEF On
  <2>3. IsFiniteSet(On(e)) /\ outstanding_req[e] = Cardinality(On(e))
    BY <1>6 DEF SlotInv, Counted
  <2>4. /\ IsFiniteSet(On(e)') /\ Cardinality(On(e)') = Cardinality(On(e)) - 1
        /\ Cardinality(On(e)') \in Nat /\ Cardinality(On(e)) \in Nat
    BY <2>1, <2>3, FS_RemoveElement, FS_CardinalityType
  <2>5. /\ outstanding_req'[e] = IF outstanding_req[e] > 0 THEN outstanding_req[e] - 1 ELSE 0
        /\ \A d \in Device \ {e} : outstanding_req'[d] = outstanding_req[d]
    BY <1>6 DEF prot_clean_slot
  <2> HIDE DEF e
  <2> SUFFICES ASSUME NEW d \in Device
               PROVE  IsFiniteSet(On(d)') /\ outstanding_req'[d] = Cardinality(On(d)')
    BY DEF Counted
  <2>6. CASE d = e
    BY <2>3, <2>4, <2>5, <2>6
  <2>7. CASE d # e
    BY <2>2, <2>5, <2>7 DEF SlotInv, Counted
  <2> QED BY <2>6, <2>7
<1> QED BY <1>8, <1>9, <1>10, <1>11, <1>13 DEF SlotInv

\* The hardware knows no more of a request that was taken off its slot.
LEMMA CleanHardware ==
    ASSUME SlotInv, Hardware, NEW s \in Slot, NEW r \in Request,
           running_req[s] = r, place[r] = "running", prot_clean_slot(s, r),
           NEW there \in {"upper", "waiting", "error"}, place' = [place EXCEPT ![r] = there],
           active' \in [Slot -> Request \cup {None}], active'[s] = None,
           \A t \in Slot \ {s} : active'[t] = active[t],
           sender' = sender, finished' \subseteq finished
    PROVE  Hardware'
<1>1. /\ r # None
      /\ \A t \in Slot \ {s} : running_req'[t] = running_req[t] /\ running_req[t] # r
      /\ \A q \in Request \ {r} : place'[q] = place[q]
  BY SlotAssumption DEF prot_clean_slot, SlotInv, SlotTypes, Occupied
<1>2. ASSUME NEW t \in Slot, active'[t] # None
      PROVE  running_req'[t] = active'[t] /\ place'[active'[t]] = "running"
             /\ active'[t] \notin finished'
  <2>1. t # s /\ active'[t] = active[t] /\ active[t] \in Request
    BY <1>2
  <2>2. running_req[t] = active[t] /\ place[active[t]] = "running" /\ active[t] \notin finished
    BY <1>2, <2>1 DEF Hardware
  <2> QED BY <1>1, <2>1, <2>2
<1>3. \A p \in Sender : sender'[p].at # "idle" => sender'[p].req \notin finished'
  BY DEF Hardware
<1> QED BY <1>2, <1>3 DEF Hardware

\* A request that is on a slot and with no sender runs.
LEMMA OnSlotRuns ==
    ASSUME SlotInv, NEW s \in Slot, running_req[s] # None,
           \A p \in Sender : sender[p].at = "issue" => sender[p].slot # s
    PROVE  running_req[s] \in Request /\ place[running_req[s]] = "running"
  BY DEF SlotInv, SlotTypes, Occupied

\* An entry that is not of the slot's present command is passed over, or a lapse.
LEMMA CmplEntryKeeps ==
    ASSUME SlotInv, Typed', CmplEntry, InOrder'
    PROVE  SlotInv' /\ (Hardware /\ lapses' = {} => Hardware')
<1> DEFINE s == Head(cmpl_q)
           r == running_req[s]
<1>1. s \in Slot /\ active' = active /\ sender' = sender /\ SlotTypes'
  BY HeadTailProperties DEF CmplEntry, SlotInv, SlotTypes, Typed
<1>2. CASE r = None
  <2>1. UNCHANGED <<slot_pool, running_req, sent_req_list, outstanding_req, place, finished>>
    BY <1>2 DEF CmplEntry, slotVars
  <2>2. SlotInv'
    BY <1>1, <2>1, SameBooks
  <2>3. Hardware => Hardware'
    BY <1>1, <2>1 DEF Hardware
  <2> QED BY <2>2, <2>3
<1>3. CASE r # None
  <2>1. /\ prot_clean_slot(s, r) /\ finished' = finished \ {r}
        /\ lapses' = lapses \cup EarlyLapses(r)
    BY <1>3 DEF CmplEntry
  <2>2. PICK there \in {"upper", "error"} : place' = [place EXCEPT ![r] = there]
    BY <1>3 DEF CmplEntry
  <2>3. r \in Request /\ place[r] = "running"
    <3>1. r \in Request /\ place[r] # "sending"
      BY <1>1, <1>3, <2>1 DEF EarlyLapses, InOrder, SlotInv, SlotTypes
    <3>2. \A p \in Sender : sender[p].at = "issue" => sender[p].slot # s
      BY <1>1, <3>1, BusyHas DEF SenderHas
    <3> QED BY <1>1, <1>3, <3>2, OnSlotRuns
  <2>4. SlotInv'
    BY <1>1, <2>1, <2>2, <2>3, CleanKeeps
  <2>5. ASSUME Hardware, lapses' = {} PROVE Hardware'
    <3>1. r \in finished
      BY <2>1, <2>5 DEF EarlyLapses
    <3>2. active[s] = None
      BY <1>1, <2>5, <3>1 DEF Hardware
    <3>3. active' \in [Slot -> Request \cup {None}] /\ finished' \subseteq finished
      BY <1>1, <2>1 DEF SlotInv, SlotTypes
    <3> QED BY <1>1, <2>1, <2>2, <2>3, <2>5, <3>2, <3>3, CleanHardware
  <2> QED BY <2>4, <2>5
<1> QED BY <1>2, <1>3

\* The command of a slot that is reset is no longer active.
LEMMA ResetSlotKeeps ==
    ASSUME SlotInv, SlotTypes', NEW s \in Slot, NEW r \in Request,
           running_req[s] = r, place[r] = "running", prot_reset_slot(s, r),
           NEW there \in {"waiting", "error"}, place' = [place EXCEPT ![r] = there],
           sender' = sender, finished' = finished
    PROVE  SlotInv' /\ (Hardware => Hardware')
<1>1. /\ prot_clean_slot(s, r) /\ active' \in [Slot -> Request \cup {None}]
      /\ active'[s] = None /\ \A t \in Slot \ {s} : active'[t] = active[t]
  BY DEF prot_reset_slot, SlotInv, SlotTypes
<1>2. SlotInv'
  BY <1>1, CleanKeeps
<1>3. Hardware => Hardware'
  BY <1>1, CleanHardware
<1> QED BY <1>2, <1>3

LEMMA TimeoutKeeps ==
    ASSUME SlotInv, SlotTypes', NEW s \in Slot, core_req_timeout(s)
    PROVE  SlotInv' /\ (Hardware => Hardware')
<1> DEFINE r == running_req[s]
<1>1. /\ r \in Request /\ place[r] = "running"
      /\ prot_reset_slot(s, r) /\ place' = [place EXCEPT ![r] = "error"]
      /\ UNCHANGED <<finished, sender>>
  BY DEF core_req_timeout, SlotInv, SlotTypes, Placed
<1> QED BY <1>1, ResetSlotKeeps

LEMMA AbortDeviceKeeps ==
    ASSUME SlotInv, SlotTypes', NEW d \in Device, pal_abort_device_running_req(d)
    PROVE  SlotInv' /\ (Hardware => Hardware')
<1> DEFINE S == SlotsOf(d)
           aborted == {running_req[s] : s \in S}
<1>1. /\ \A p \in Sender : sender[p] = Idle /\ sender[p].at = "idle"
      /\ \A s \in Slot : active'[s] = IF s \in S THEN None ELSE active[s]
      /\ \A s \in Slot : running_req'[s] = IF s \in S THEN None ELSE running_req[s]
      /\ active' \in [Slot -> Request \cup {None}]
      /\ running_req' \in [Slot -> Request \cup {None}]
      /\ sent_req_list' = sent_req_list \ aborted
      /\ \A r \in Request : place'[r] = IF r \in aborted THEN "waiting" ELSE place[r]
      /\ place' \in [Request -> {"upper", "waiting", "sending", "running", "error"}]
      /\ UNCHANGED <<finished, sender>>
  BY IdleAt DEF pal_abort_device_running_req, CanRecover, SlotInv, SlotTypes
<1>2. S \subseteq Slot /\ \A s \in Slot : s \in S <=> running_req[s] # None /\ DeviceOf[running_req[s]] = d
  BY DEF SlotsOf
<1>3. /\ slot_pool' \in Seq(Slot) /\ NoneTwice(slot_pool')
      /\ ToSet(slot_pool') = ToSet(slot_pool) \cup S
  <2>1. PICK o \in SetToSeqs(S) : slot_pool' = slot_pool \o o
    BY DEF pal_abort_device_running_req
  <2>2. IsFiniteSet(S)
    BY <1>2, SlotAssumption, FS_Subset
  <2>3. o \in Seq(Slot) /\ NoneTwice(o) /\ ToSet(o) = S
    BY <1>2, <2>2, Ordered
  <2>4. ToSet(slot_pool) \cap S = {}
    BY <1>2 DEF SlotInv, PoolExact
  <2> HIDE DEF S
  <2> QED BY <2>1, <2>3, <2>4, PoolConcat DEF SlotInv, SlotTypes, PoolExact
<1>4. aborted = On(d)
  <2>1. ASSUME NEW s \in S PROVE running_req[s] \in On(d)
    BY <1>1, <1>2, OnSlotRuns DEF On
  <2>2. ASSUME NEW r \in On(d) PROVE r \in aborted
    <3>1. r \in Request /\ DeviceOf[r] = d /\ place[r] = "running" /\ r # None
      BY <1>1, SlotAssumption DEF On, SlotInv, Placed
    <3>2. PICK s \in Slot : running_req[s] = r
      BY <3>1 DEF SlotInv, Placed
    <3> QED BY <1>2, <3>1, <3>2
  <2> QED BY <2>1, <2>2
<1>5. \A s \in Slot : s \notin S /\ running_req[s] # None =>
         running_req[s] \in Request \ aborted /\ place[running_req[s]] = "running"
  BY <1>1, <1>2, <1>4, OnSlotRuns DEF On
<1>6. \A r \in aborted : r \in Request /\ DeviceOf[r] = d
  BY <1>4 DEF On
<1>7. outstanding_req'[d] = 0
      /\ \A e \in Device \ {d} : outstanding_req'[e] = outstanding_req[e]
  <2> DEFINE n == outstanding_req[d]
  <2>1. n = Cardinality(aborted) /\ n \in Nat /\ outstanding_req \in [Device -> Nat]
    BY <1>4, FS_CardinalityType DEF SlotInv, Counted, SlotTypes
  <2>2. outstanding_req' = [outstanding_req EXCEPT ![d] =
          IF n > Cardinality(aborted) THEN n - Cardinality(aborted) ELSE 0]
    BY DEF pal_abort_device_running_req
  <2> HIDE DEF n, aborted
  <2>3. (IF n > Cardinality(aborted) THEN n - Cardinality(aborted) ELSE 0) = 0
    BY <2>1
  <2>4. outstanding_req' = [outstanding_req EXCEPT ![d] = 0]
    BY <2>2, <2>3
  <2> QED BY <2>1, <2>4
<1> HIDE DEF S, aborted
<1>9. PoolExact'
  BY <1>1, <1>2, <1>3 DEF SlotInv, PoolExact, InHand
<1>10. Senders'
  BY <1>1 DEF Senders
<1>11. Placed'
  <2> SUFFICES ASSUME NEW q \in Request
               PROVE  /\ place'[q] # "sending"
                      /\ place'[q] = "running" => \E t \in Slot : running_req'[t] = q
                      /\ q \in sent_req_list' <=> place'[q] = "running"
    BY DEF Placed
  <2>1. CASE q \in aborted
    BY <1>1, <2>1
  <2>2. CASE q \notin aborted
    <3>2. ASSUME place[q] = "running" PROVE \E t \in Slot : running_req'[t] = q
      <4>1. PICK t \in Slot : running_req[t] = q
        BY <3>2 DEF SlotInv, Placed
      <4>2. t \notin S
        BY <2>2, <4>1 DEF aborted
      <4> QED BY <1>1, <4>1, <4>2
    <3>3. place'[q] = place[q] /\ place[q] # "sending"
      BY <1>1, <2>2 DEF SlotInv, Placed
    <3>4. q \in sent_req_list' <=> place[q] = "running"
      BY <1>1, <2>2 DEF SlotInv, Placed
    <3> QED BY <3>2, <3>3, <3>4
  <2> QED BY <2>1, <2>2
<1>12. Occupied'
  <2>1. ASSUME NEW t \in Slot, running_req'[t] # None
        PROVE  place'[running_req'[t]] = "running"
    BY <1>1, <1>5, <2>1
  <2>2. ASSUME NEW t \in Slot, NEW u \in Slot, running_req'[t] # None,
               running_req'[t] = running_req'[u]
        PROVE  t = u
    BY <1>1, <2>2 DEF SlotInv, Occupied
  <2> QED BY <2>1, <2>2 DEF Occupied
<1>13. Hardware => Hardware'
  <2> SUFFICES ASSUME Hardware PROVE Hardware'
    OBVIOUS
  <2>1. ASSUME NEW t \in Slot, active'[t] # None
        PROVE  running_req'[t] = active'[t] /\ place'[active'[t]] = "running"
               /\ active'[t] \notin finished
    <3>1. t \notin S /\ active'[t] = active[t] /\ running_req[t] = active[t]
          /\ place[active[t]] = "running" /\ active[t] \notin finished
      BY <1>1, <2>1 DEF Hardware
    <3>2. active[t] \in Request \ aborted /\ running_req[t] # None
      BY <1>5, <2>1, <3>1
    <3> QED BY <1>1, <3>1, <3>2
  <2>2. \A p \in Sender : sender'[p].at = "idle"
    BY <1>1
  <2> QED BY <1>1, <2>1, <2>2 DEF Hardware
<1>14. Counted'
  <2>1. On(d)' = {}
    BY <1>1, <1>4 DEF On
  <2>2. \A e \in Device \ {d} : On(e)' = On(e)
    BY <1>1, <1>6 DEF On
  <2> SUFFICES ASSUME NEW e \in Device
               PROVE  IsFiniteSet(On(e)') /\ outstanding_req'[e] = Cardinality(On(e)')
    BY DEF Counted
  <2>3. CASE e = d
    BY <1>7, <2>1, <2>3, FS_EmptySet
  <2>4. CASE e # d
    BY <1>7, <2>2, <2>4 DEF SlotInv, Counted
  <2> QED BY <2>3, <2>4
<1> QED BY <1>9, <1>10, <1>11, <1>12, <1>13, <1>14 DEF SlotInv

\* The rest of the steps, of a port's abort and of recovery's end, take nothing off.
LEMMA SameKeeps ==
    ASSUME SlotInv, SlotTypes', UNCHANGED <<slotVars, hwVars, place, sender>>
    PROVE  SlotInv' /\ (Hardware => Hardware')
<1>1. SlotInv'
  BY SameBooks DEF slotVars
<1>2. Hardware => Hardware'
  BY DEF slotVars, hwVars, Hardware
<1> QED BY <1>1, <1>2

\* A picked request that is still on its slot runs, as nobody sends.
LEMMA ResetKeeps ==
    ASSUME Typed, SlotInv, SlotTypes', ResetPicked, InOrder'
    PROVE  SlotInv' /\ (Hardware => Hardware')
<1>1. PICK s \in Slot, r \in Request : recovery.picked = <<s, r>>
  BY DEF ResetPicked, Typed, RecoveryInv
<1>2. recovery.picked[1] = s /\ recovery.picked[2] = r
  <2>1. <<s, r>>[1] = s /\ <<s, r>>[2] = r
    OBVIOUS
  <2> QED BY <1>1, <2>1, Zenon
<1>3. /\ prot_reset_slot(s, r) /\ place' = [place EXCEPT ![r] = "waiting"]
      /\ lapses' = IF running_req[s] = r THEN lapses ELSE lapses \cup {"intruded"}
      /\ UNCHANGED <<finished, sender>> /\ recovery.at = "reset slot"
  BY <1>2 DEF ResetPicked
<1>4. running_req[s] = r
  BY <1>3 DEF InOrder
<1>5. \A p \in Sender : sender[p].at # "issue"
  BY <1>3, IdleAt DEF Typed, RecoveryInv
<1>6. place[r] = "running"
  BY <1>4, <1>5, SlotAssumption, OnSlotRuns
<1> QED BY <1>3, <1>4, <1>6, ResetSlotKeeps

-----------------------------------------------------------------------------
(***************************************************************************)
(* Types, after any lapse.                                                 *)
(***************************************************************************)

\* A count is not taken below zero.
LEMMA HeldAtZero ==
    ASSUME NEW c \in [Device -> Nat], NEW d \in Device, NEW k \in Nat
    PROVE  [c EXCEPT ![d] = IF @ > k THEN @ - k ELSE 0] \in [Device -> Nat]
<1> DEFINE n == c[d]
           m == IF n > k THEN n - k ELSE 0
<1>1. n \in Nat /\ m \in Nat
  OBVIOUS
<1>2. [c EXCEPT ![d] = IF @ > k THEN @ - k ELSE 0] = [c EXCEPT ![d] = m]
  OBVIOUS
<1> HIDE DEF m, n
<1> QED BY <1>1, <1>2

LEMMA CleanTypes ==
    ASSUME SlotTypes, NEW s \in Slot, NEW r \in Request, prot_clean_slot(s, r)
    PROVE  /\ slot_pool' \in Seq(Slot) /\ running_req' \in [Slot -> Request \cup {None}]
           /\ sent_req_list' \subseteq Request /\ outstanding_req' \in [Device -> Nat]
<1>1. DeviceOf[r] \in Device /\ outstanding_req \in [Device -> Nat]
  BY RequestAssumption DEF SlotTypes
<1>2. outstanding_req' = [outstanding_req EXCEPT ![DeviceOf[r]] = IF @ > 0 THEN @ - 1 ELSE 0]
  BY DEF prot_clean_slot
<1>3. outstanding_req' \in [Device -> Nat]
  <2> DEFINE n == outstanding_req[DeviceOf[r]]
  <2>1. n \in Nat /\ (IF n > 0 THEN n - 1 ELSE 0) \in Nat
    BY <1>1
  <2>2. outstanding_req' = [outstanding_req EXCEPT ![DeviceOf[r]] = IF n > 0 THEN n - 1 ELSE 0]
    BY <1>2
  <2> HIDE DEF n
  <2> QED BY <1>1, <2>1, <2>2
<1>4. slot_pool' \in Seq(Slot)
  BY AppendProperties DEF prot_clean_slot, SlotTypes
<1> QED BY <1>3, <1>4 DEF prot_clean_slot, SlotTypes

LEMMA SendTyped ==
    ASSUME Typed, NEW p \in Sender, Send(p)
    PROVE  Typed'
<1>1. CASE Register(p)
  <2>1. sender[p].req \in Request /\ sender[p].slot \in Slot
    BY <1>1 DEF Register, Typed
  <2>2. SlotTypes'
    BY <1>1, <2>1 DEF Register, Typed, SlotTypes, hwVars
  <2>3. \A q \in Sender : sender'[q].at # "idle" =>
           sender'[q].req \in Request /\ sender'[q].slot \in Slot
    BY <1>1, <2>1 DEF Register, Typed, SlotTypes
  <2>4. recovery.at = "idle"
    BY <1>1, IdleAt DEF Register, Typed, RecoveryInv
  <2> QED BY <1>1, <2>2, <2>3, <2>4 DEF Register, Typed, RecoveryInv
<1>2. CASE Issue(p)
  <2>1. sender[p].req \in Request /\ sender[p].slot \in Slot
    BY <1>2 DEF Issue, Typed
  <2>2. SlotTypes'
    BY <1>2, <2>1 DEF Issue, Typed, SlotTypes, Idle
  <2>3. \A q \in Sender : sender'[q].at # "idle" =>
           sender'[q].req \in Request /\ sender'[q].slot \in Slot
    BY <1>2, IdleAt DEF Issue, Typed, SlotTypes, Idle
  <2>4. recovery.at = "idle"
    BY <1>2, IdleAt DEF Issue, Typed, RecoveryInv
  <2> QED BY <1>2, <2>2, <2>3, <2>4 DEF Issue, Typed, RecoveryInv
<1>3. CASE \E r \in Request : Admit(p, r)
  <2>1. PICK r \in Request : Admit(p, r)
    BY <1>3
  <2>2. Head(slot_pool) \in Slot /\ Tail(slot_pool) \in Seq(Slot)
    BY <2>1, HeadTailProperties DEF Admit, Typed, SlotTypes
  <2>3. outstanding_req' \in [Device -> Nat]
    <3>1. DeviceOf[r] \in Device /\ outstanding_req \in [Device -> Nat]
      BY RequestAssumption DEF Typed, SlotTypes
    <3>2. outstanding_req' = [outstanding_req EXCEPT ![DeviceOf[r]] = outstanding_req[DeviceOf[r]] + 1]
      BY <2>1 DEF Admit
    <3> QED BY <3>1, <3>2
  <2>4. sender' = [sender EXCEPT ![p] = [at |-> "register", req |-> r, slot |-> Head(slot_pool)]]
    BY <2>1 DEF Admit
  <2>5. SlotTypes'
    BY <2>1, <2>2, <2>3, <2>4 DEF Admit, Typed, SlotTypes
  <2>6. \A q \in Sender : sender'[q].at # "idle" =>
           sender'[q].req \in Request /\ sender'[q].slot \in Slot
    BY <2>2, <2>4 DEF Typed, SlotTypes
  <2> QED BY <2>1, <2>5, <2>6 DEF Admit, Typed, RecoveryInv
<1> QED BY <1>1, <1>2, <1>3 DEF Send

LEMMA CompleteTyped ==
    ASSUME Typed, CmplEntry \/ \E s \in Slot : Finish(s)
    PROVE  Typed'
<1>1. CASE CmplEntry
  <2> DEFINE s == Head(cmpl_q)
             r == running_req[s]
  <2>1. s \in Slot /\ cmpl_q' \in Seq(Slot) /\ UNCHANGED <<active, sender, recovery>>
    BY <1>1, HeadTailProperties DEF CmplEntry, Typed, SlotTypes
  <2>2. SlotTypes' /\ lapses' \subseteq {"early", "unsent", "intruded"}
    <3>1. CASE r = None
      BY <1>1, <2>1, <3>1 DEF CmplEntry, Typed, SlotTypes, slotVars
    <3>2. CASE r # None
      <4>1. /\ r \in Request /\ prot_clean_slot(s, r) /\ finished' = finished \ {r}
            /\ lapses' = lapses \cup EarlyLapses(r)
            /\ \E there \in {"upper", "error"} : place' = [place EXCEPT ![r] = there]
        BY <1>1, <2>1, <3>2 DEF CmplEntry, Typed, SlotTypes
      <4>2. lapses' \subseteq {"early", "unsent", "intruded"}
        BY <4>1 DEF EarlyLapses, Typed
      <4> HIDE DEF r, s
      <4>3. /\ slot_pool' \in Seq(Slot) /\ running_req' \in [Slot -> Request \cup {None}]
            /\ sent_req_list' \subseteq Request /\ outstanding_req' \in [Device -> Nat]
        BY <2>1, <4>1, CleanTypes DEF Typed
      <4>4. place' \in [Request -> {"upper", "waiting", "sending", "running", "error"}]
        BY <4>1 DEF Typed, SlotTypes
      <4> QED BY <2>1, <4>1, <4>2, <4>3, <4>4 DEF Typed, SlotTypes
    <3> QED BY <3>1, <3>2
  <2> QED BY <2>1, <2>2 DEF Typed, RecoveryInv
<1>2. CASE \E s \in Slot : Finish(s)
  <2>1. PICK s \in Slot : Finish(s)
    BY <1>2
  <2>2. /\ active' \in [Slot -> Request \cup {None}] /\ finished' \subseteq Request
        /\ cmpl_q' \in Seq(Slot)
    BY <2>1, AppendProperties DEF Finish, Typed, SlotTypes
  <2>3. UNCHANGED <<slot_pool, running_req, sent_req_list, outstanding_req, place, sender,
                    recovery, lapses>>
    BY <2>1 DEF Finish, slotVars
  <2> QED BY <2>2, <2>3 DEF Typed, SlotTypes, RecoveryInv
<1> QED BY <1>1, <1>2

LEMMA ResetTyped ==
    ASSUME Typed, ResetPicked \/ \E s \in Slot : core_req_timeout(s)
    PROVE  Typed'
<1>1. PICK s \in Slot, r \in Request, there \in {"waiting", "error"} :
         /\ prot_reset_slot(s, r) /\ place' = [place EXCEPT ![r] = there]
         /\ UNCHANGED <<cmpl_q, finished, sender>>
         /\ lapses' \in {lapses, lapses \cup {"intruded"}}
         /\ recovery' \in {recovery, [recovery EXCEPT !.at = "abort port", !.picked = None]}
         /\ \A p \in Sender : sender[p] = Idle
  <2>1. CASE ResetPicked
    <3>1. PICK s \in Slot, r \in Request : recovery.picked = <<s, r>>
      BY <2>1 DEF ResetPicked, Typed, RecoveryInv
    <3>2. recovery.picked[1] = s /\ recovery.picked[2] = r
      <4>1. <<s, r>>[1] = s /\ <<s, r>>[2] = r
        OBVIOUS
      <4> QED BY <3>1, <4>1, Zenon
    <3> QED BY <2>1, <3>2 DEF ResetPicked, Typed, RecoveryInv
  <2>2. CASE \E s \in Slot : core_req_timeout(s)
    <3>1. PICK s \in Slot : core_req_timeout(s)
      BY <2>2
    <3>2. running_req[s] \in Request
      BY <3>1 DEF core_req_timeout, Typed, SlotTypes
    <3> QED BY <3>1, <3>2 DEF core_req_timeout, CanRecover
  <2> QED BY <2>1, <2>2
<1>2. prot_clean_slot(s, r) /\ active' \in [Slot -> Request \cup {None}]
  BY <1>1 DEF prot_reset_slot, Typed, SlotTypes
<1>3. /\ slot_pool' \in Seq(Slot) /\ running_req' \in [Slot -> Request \cup {None}]
      /\ sent_req_list' \subseteq Request /\ outstanding_req' \in [Device -> Nat]
  BY <1>2, CleanTypes DEF Typed
<1>4. place' \in [Request -> {"upper", "waiting", "sending", "running", "error"}]
  BY <1>1 DEF Typed, SlotTypes
<1>5. SlotTypes'
  BY <1>1, <1>2, <1>3, <1>4 DEF Typed, SlotTypes
<1>6. RecoveryInv'
  BY <1>1 DEF Typed, RecoveryInv
<1> QED BY <1>1, <1>5, <1>6 DEF Typed

LEMMA AbortTyped ==
    ASSUME Typed, NEW d \in Device, pal_abort_device_running_req(d)
    PROVE  Typed'
<1> DEFINE S == SlotsOf(d)
           aborted == {running_req[s] : s \in S}
           k == Cardinality(aborted)
<1>1. S \subseteq Slot /\ IsFiniteSet(S) /\ k \in Nat
  <2>1. S \subseteq Slot
    BY DEF SlotsOf
  <2>2. IsFiniteSet(S)
    BY <2>1, SlotAssumption, FS_Subset
  <2> DEFINE f == [s \in S |-> running_req[s]]
  <2> HIDE DEF S
  <2>3. f \in Surjection(S, aborted)
    BY DEF Surjection
  <2>4. IsFiniteSet(aborted)
    BY <2>2, <2>3, FS_Surjection
  <2> QED BY <2>1, <2>2, <2>4, FS_CardinalityType
<1>2. slot_pool' \in Seq(Slot)
  <2>1. PICK o \in SetToSeqs(S) : slot_pool' = slot_pool \o o
    BY DEF pal_abort_device_running_req
  <2>2. o \in Seq(Slot)
    BY <1>1, Ordered
  <2> QED BY <2>1, <2>2, ConcatProperties DEF Typed, SlotTypes
<1>3. outstanding_req' = [outstanding_req EXCEPT ![d] = IF @ > k THEN @ - k ELSE 0]
  BY DEF pal_abort_device_running_req
<1>4. outstanding_req' \in [Device -> Nat]
  <2> HIDE DEF k
  <2> QED BY <1>1, <1>3, HeldAtZero DEF Typed, SlotTypes
<1>5. /\ active' \in [Slot -> Request \cup {None}]
      /\ running_req' \in [Slot -> Request \cup {None}]
      /\ sent_req_list' \subseteq Request
      /\ place' \in [Request -> {"upper", "waiting", "sending", "running", "error"}]
      /\ UNCHANGED <<cmpl_q, finished, sender, recovery, lapses>>
  BY DEF pal_abort_device_running_req, Typed, SlotTypes
<1> QED BY <1>2, <1>4, <1>5 DEF Typed, SlotTypes, RecoveryInv

LEMMA PortTyped ==
    ASSUME Typed,
           LeavePort \/ (\E d \in Device : AbortPort(d)) \/ (\E s \in Slot : PickRequest(s))
    PROVE  Typed'
<1>1. /\ UNCHANGED <<slot_pool, running_req, sent_req_list, outstanding_req, active, cmpl_q,
                     finished, place, sender, lapses>>
  BY DEF LeavePort, AbortPort, PickRequest, slotVars, hwVars
<1>2. RecoveryInv'
  <2>1. CASE LeavePort
    BY <1>1, <2>1 DEF LeavePort, NoRecovery, Typed, RecoveryInv
  <2>2. CASE \E d \in Device : AbortPort(d)
    <3>1. PICK d \in Device : AbortPort(d)
      BY <2>2
    <3>2. /\ recovery' = [at |-> "abort port", base |-> d, picked |-> None, left |-> Slot]
          /\ \A p \in Sender : sender'[p] = Idle
      BY <1>1, <3>1 DEF AbortPort, CanRecover
    <3> QED BY <3>2 DEF RecoveryInv
  <2>3. CASE \E s \in Slot : PickRequest(s)
    <3>1. PICK s \in Slot : PickRequest(s)
      BY <2>3
    <3>2. s \in SlotsOf(recovery.base) => running_req[s] \in Request
      BY DEF SlotsOf, Typed, SlotTypes
    <3>3. /\ recovery' \in [at : {"idle", "abort port", "reset slot"}, base : Device \cup {None},
                            picked : (Slot \X Request) \cup {None}, left : SUBSET Slot]
          /\ recovery.at = "abort port" /\ recovery'.at # "idle"
          /\ recovery'.at = "reset slot" =>
                \E r \in Request : recovery'.picked = <<s, r>>
      BY <3>1, <3>2 DEF PickRequest, Typed, RecoveryInv
    <3> QED BY <1>1, <3>3 DEF Typed, RecoveryInv
  <2> QED BY <2>1, <2>2, <2>3
<1> QED BY <1>1, <1>2 DEF Typed, SlotTypes

LEMMA TypedKeeps == ASSUME Typed, [Next]_vars PROVE Typed'
<1>1. CASE \E p \in Sender : Send(p)
  BY <1>1, SendTyped
<1>2. CASE CmplEntry \/ \E s \in Slot : Finish(s)
  BY <1>2, CompleteTyped
<1>3. CASE Recover
  <2>1. CASE \E r \in Request : EndError(r)
    <3>1. PICK r \in Request, there \in {"upper", "waiting"} :
             place' = [place EXCEPT ![r] = there]
      BY <2>1 DEF EndError
    <3>2. UNCHANGED <<slotVars, hwVars, sender, recovery, lapses>>
      BY <2>1 DEF EndError
    <3>3. place' \in [Request -> {"upper", "waiting", "sending", "running", "error"}]
      BY <3>1 DEF Typed, SlotTypes
    <3> QED BY <3>2, <3>3 DEF Typed, SlotTypes, RecoveryInv, slotVars, hwVars
  <2> QED BY <1>3, <2>1, ResetTyped, AbortTyped, PortTyped DEF Recover
<1>4. CASE \E r \in Request : Reuse(r)
  <2>1. PICK r \in Request : place' = [place EXCEPT ![r] = "waiting"]
    BY <1>4 DEF Reuse
  <2>2. UNCHANGED <<slotVars, hwVars, sender, recovery, lapses>>
    BY <1>4 DEF Reuse
  <2>3. place' \in [Request -> {"upper", "waiting", "sending", "running", "error"}]
    BY <2>1 DEF Typed, SlotTypes
  <2> QED BY <2>2, <2>3 DEF Typed, SlotTypes, RecoveryInv, slotVars, hwVars
<1>5. CASE UNCHANGED vars
  BY <1>5 DEF vars, slotVars, hwVars, Typed, SlotTypes, RecoveryInv
<1> QED BY <1>1, <1>2, <1>3, <1>4, <1>5 DEF Next

\* A lapse is not forgotten.
LEMMA LapsesStay == ASSUME Typed, [Next]_vars PROVE lapses \subseteq lapses'
<1>1. CASE \E p \in Sender : Send(p)
  BY <1>1 DEF Send, Admit, Register, Issue
<1>2. CASE CmplEntry
  BY <1>2 DEF CmplEntry
<1>3. CASE \E s \in Slot : Finish(s)
  BY <1>3 DEF Finish
<1>4. CASE Recover
  BY <1>4 DEF Recover, core_req_timeout, PickRequest, ResetPicked, LeavePort,
              pal_abort_device_running_req, AbortPort, EndError
<1>5. CASE \E r \in Request : Reuse(r)
  BY <1>5 DEF Reuse
<1> QED BY <1>1, <1>2, <1>3, <1>4, <1>5 DEF Next, vars

LEMMA NextKeeps ==
    ASSUME Typed, SlotInv, Typed', InOrder', [Next]_vars
    PROVE  SlotInv' /\ (Hardware /\ lapses' = {} => Hardware')
<1>1. CASE \E p \in Sender : Send(p)
  BY <1>1, AdmitKeeps, RegisterKeeps, IssueKeeps DEF Send, Typed
<1>2. CASE \E s \in Slot : Finish(s)
  BY <1>2, FinishKeeps DEF Typed
<1>3. CASE CmplEntry
  BY <1>3, CmplEntryKeeps
<1>4. CASE Recover
  <2>1. CASE \E s \in Slot : core_req_timeout(s)
    BY <2>1, TimeoutKeeps DEF Typed
  <2>2. CASE \E d \in Device : pal_abort_device_running_req(d)
    BY <2>2, AbortDeviceKeeps DEF Typed
  <2>3. CASE ResetPicked
    BY <2>3, ResetKeeps DEF Typed
  <2>4. CASE LeavePort \/ (\E d \in Device : AbortPort(d)) \/ (\E s \in Slot : PickRequest(s))
    BY <2>4, SameKeeps DEF LeavePort, AbortPort, PickRequest, Typed
  <2>5. CASE \E r \in Request : EndError(r)
    <3>1. PICK r \in Request : EndError(r)
      BY <2>5
    <3>2. PICK there \in {"upper", "waiting"} : place' = [place EXCEPT ![r] = there]
      BY <3>1 DEF EndError
    <3> QED BY <3>1, <3>2, MoveKeeps DEF EndError, Typed
  <2> QED BY <1>4, <2>1, <2>2, <2>3, <2>4, <2>5 DEF Recover
<1>5. CASE \E r \in Request : Reuse(r)
  BY <1>5, MoveKeeps DEF Reuse, Typed
<1>6. CASE UNCHANGED vars
  BY <1>6, SameKeeps DEF vars, Typed
<1> QED BY <1>1, <1>2, <1>3, <1>4, <1>5, <1>6 DEF Next

LEMMA Inductive == Spec => []IInv
<1>1. Init => IInv
  BY InitInv
<1>2. IInv /\ [Next]_vars => IInv'
  <2> SUFFICES ASSUME IInv, [Next]_vars PROVE IInv'
    OBVIOUS
  <2>1. Typed' /\ lapses \subseteq lapses'
    BY TypedKeeps, LapsesStay DEF IInv
  <2>2. (InOrder' => InOrder) /\ (lapses' = {} => lapses = {} /\ InOrder /\ InOrder')
    BY <2>1 DEF InOrder
  <2> QED BY <2>1, <2>2, NextKeeps DEF IInv
<1> QED BY <1>1, <1>2, PTL DEF Spec

-----------------------------------------------------------------------------
(***************************************************************************)
(* The theorems.                                                           *)
(***************************************************************************)

\* A pool without repetitions is as long as the set of its slots is large.
LEMMA PoolLength ==
    ASSUME NEW q \in Seq(Slot), NoneTwice(q)
    PROVE  Len(q) = Cardinality(ToSet(q))
<1>1. Len(q) \in Nat /\ DOMAIN q = 1..Len(q) /\ q \in [1..Len(q) -> ToSet(q)]
  BY LenProperties DEF ToSet
<1>2. q \in Bijection(1..Len(q), ToSet(q))
  <2>1. \A i, j \in 1..Len(q) : q[i] = q[j] => i = j
    BY DEF NoneTwice
  <2>2. \A x \in ToSet(q) : \E i \in 1..Len(q) : q[i] = x
    BY <1>1 DEF ToSet
  <2> QED BY <1>1, <2>1, <2>2 DEF Bijection, Injection, Surjection, IsInjective
<1>3. ExistsBijection(1..Len(q), ToSet(q))
  BY <1>2 DEF ExistsBijection
<1> QED BY <1>1, <1>3, FS_CountingElements

LEMMA InvImpliesExact ==
    ASSUME SlotInv
    PROVE  /\ Len(slot_pool) = Cardinality(ToSet(slot_pool))
           /\ \A s \in Slot : s \in ToSet(slot_pool) <=> running_req[s] = None /\ s \notin Taken
           /\ \A r \in Request :
               /\ Cardinality({s \in Slot : running_req[s] = r}) =
                    IF \/ place[r] = "running"
                       \/ \E p \in Sender : sender[p].at = "issue" /\ sender[p].req = r
                    THEN 1 ELSE 0
               /\ r \in sent_req_list <=> place[r] = "running"
<1>2. Len(slot_pool) = Cardinality(ToSet(slot_pool))
  BY PoolLength DEF SlotInv, SlotTypes, PoolExact
<1>3. \A s \in Slot : s \in ToSet(slot_pool) <=> running_req[s] = None /\ s \notin Taken
  BY DEF SlotInv, PoolExact, InHand, Taken
<1>4. ASSUME NEW r \in Request
      PROVE  /\ Cardinality({s \in Slot : running_req[s] = r}) =
                  IF \/ place[r] = "running"
                     \/ \E p \in Sender : sender[p].at = "issue" /\ sender[p].req = r
                  THEN 1 ELSE 0
             /\ r \in sent_req_list <=> place[r] = "running"
  <2> DEFINE S == {s \in Slot : running_req[s] = r}
             runs == \/ place[r] = "running"
                     \/ \E p \in Sender : sender[p].at = "issue" /\ sender[p].req = r
  <2>1. r # None
    BY SlotAssumption
  <2>2. CASE runs
    <3>1. PICK s \in Slot : running_req[s] = r
      <4>1. CASE place[r] = "running"
        BY <4>1 DEF SlotInv, Placed
      <4>2. CASE \E p \in Sender : sender[p].at = "issue" /\ sender[p].req = r
        BY <4>2, BusyHas DEF SenderHas
      <4> QED BY <2>2, <4>1, <4>2
    <3>2. S = {s}
      BY <2>1, <3>1 DEF SlotInv, Occupied
    <3>3. Cardinality(S) = 1
      BY <3>2, FS_Singleton
    <3> QED BY <2>2, <3>3 DEF SlotInv, Placed
  <2>3. CASE ~runs
    <3>1. ASSUME NEW s \in Slot, running_req[s] = r PROVE FALSE
      <4>1. PICK p \in Sender : sender[p].at = "issue" /\ sender[p].slot = s
        BY <2>1, <2>3, <3>1 DEF SlotInv, Occupied
      <4>2. sender[p].req = r
        BY <3>1, <4>1, BusyHas DEF SenderHas
      <4> QED BY <2>3, <4>1, <4>2
    <3>2. S = {}
      BY <3>1
    <3>3. Cardinality(S) = 0
      BY <3>2, FS_EmptySet
    <3> QED BY <2>3, <3>3 DEF SlotInv, Placed
  <2> QED BY <2>2, <2>3
<1> QED BY <1>2, <1>3, <1>4

\* Whoever takes requests off the slots: each slot is in the pool, once, or
\* occupied, or in one sender's hands, and each request on one slot exactly while
\* it runs or is about to.  Entries of aborted commands do not disturb this unless
\* they are read before the request that got the slot is sent (core_error.c:1182), nor
\* completions unless they come between the pick and the reset (core_error.c:1316).
THEOREM SlotsStayExact == Spec => []SlotsExact
<1>1. IInv => SlotsExact
  <2> SUFFICES ASSUME IInv PROVE SlotsExact
    OBVIOUS
  <2>1. TypeOK
    BY DEF IInv, Typed, SlotTypes, RecoveryInv, TypeOK
  <2> QED BY <2>1, InvImpliesExact DEF IInv, SlotsExact
<1> QED BY <1>1, Inductive, PTL

\* A device's count is the number of its requests that have been let in, also
\* when a device's or a port's requests are taken back together, or an entry has
\* completed the wrong one.
THEOREM CountStaysExact == Spec => []OutstandingExact
<1>1. IInv => OutstandingExact
  BY DEF IInv, SlotInv, Counted, On, OutstandingExact
<1> QED BY <1>1, Inductive, PTL

\* What the hardware works on has not been given back or queued again, until an
\* entry of an aborted command completes what has its slot.
THEOREM GivenBackIsInactive == Spec => []NothingActiveGivenBack
<1>1. IInv => NothingActiveGivenBack
  BY DEF IInv, Hardware, NothingActiveGivenBack
<1> QED BY <1>1, Inductive, PTL
=============================================================================
