------------------------------- MODULE TagPool -------------------------------
(***************************************************************************)
(* The tag allocator of lib/common/com_tag.c.  One array, Stack, is a      *)
(* stack for the timer slots (Timer_Initialize: FILO) and a ring for the   *)
(* command slots (prot_init_pl: FIFO).  The clients call Tag_IsEmpty before*)
(* Tag_GetOne and return only tags they hold; "held" records what they     *)
(* hold.                                                                   *)
(***************************************************************************)
EXTENDS Naturals, FiniteSets, Sequences

CONSTANTS
    Size,       \* pTagStack->Size
    FIFO        \* pTagStack->TagStackType = FIFO_TAG

ASSUME SizeAssumption == Size \in Nat \ {0}
ASSUME KindAssumption == FIFO \in BOOLEAN

Tag == 0..Size-1

VARIABLES
    Stack,      \* pTagStack->Stack
    Top,        \* pTagStack->Top: how many tags are free
    PtrOut,     \* pTagStack->PtrOut: where a FIFO pool takes the next tag
    held        \* the tags handed out and not yet returned

poolVars == <<Stack, Top, PtrOut, held>>

-----------------------------------------------------------------------------
\* Tag_Init and Tag_Init_FIFO
PoolInit ==
    /\ Stack = [i \in Tag |-> IF FIFO THEN i ELSE Size - 1 - i]
    /\ Top = Size
    /\ PtrOut = 0
    /\ held = {}

Tag_IsEmpty == Top = 0

\* Faulty variant, for the mutation runs: the read pointer wraps one entry too
\* early.
AdvanceEarly(i) == IF i + 2 >= Size THEN 0 ELSE i + 1

\* The index after i in the ring.
Advance(i) == IF i + 1 >= Size THEN 0 ELSE i + 1

Tag_GetOne ==
    /\ ~Tag_IsEmpty
    /\ Top' = Top - 1
    /\ IF FIFO
       THEN /\ held' = held \cup {Stack[PtrOut]}
            /\ PtrOut' = Advance(PtrOut)
       ELSE /\ held' = held \cup {Stack[Top - 1]}
            /\ UNCHANGED PtrOut
    /\ UNCHANGED Stack

\* Where a returned tag is stored.
ReleaseIndex == IF FIFO THEN (PtrOut + Top) % Size ELSE Top

Tag_ReleaseOne(tag) ==
    /\ tag \in held
    /\ Stack' = [Stack EXCEPT ![ReleaseIndex] = tag]
    /\ Top' = Top + 1
    /\ held' = held \ {tag}
    /\ UNCHANGED PtrOut

PoolNext == Tag_GetOne \/ \E tag \in Tag : Tag_ReleaseOne(tag)

PoolSpec == PoolInit /\ [][PoolNext]_poolVars

-----------------------------------------------------------------------------
(***************************************************************************)
(* Correctness.                                                            *)
(***************************************************************************)

\* Every field stays within the ranges the array accesses rely on.
PoolTypeOK ==
    /\ Stack \in [Tag -> Tag]
    /\ Top \in 0..Size
    /\ PtrOut \in Tag
    /\ held \subseteq Tag

\* Index i of the array is one of the Top free ones.
IsFree(i) ==
    IF FIFO THEN \/ PtrOut <= i /\ i < PtrOut + Top
                 \/ i + Size < PtrOut + Top
            ELSE i < Top

\* A free entry never holds a tag that is in use: a command or a timer would
\* otherwise be given a slot that another one still owns.
FreeNotHeld == \A i \in Tag : IsFree(i) => Stack[i] \notin held

\* No tag is free twice, which would hand it to two clients.
FreeDistinct ==
    \A i, j \in Tag : IsFree(i) /\ IsFree(j) /\ Stack[i] = Stack[j] => i = j

\* No tag is lost: each is free or held.
NoTagLost == \A t \in Tag : t \in held \/ \E i \in Tag : IsFree(i) /\ Stack[i] = t

\* Exactly the tags that are not held can be handed out, each of them once.
Partition == FreeNotHeld /\ FreeDistinct /\ NoTagLost

\* The free part of the array, in the order of the returns.
FreeSeq ==
    [k \in 1..Top |-> Stack[IF FIFO THEN (PtrOut + k - 1) % Size ELSE k - 1]]

\* The array implements the waiting line of TagQueue: a FIFO pool reuses the
\* tag that has been free longest, a FILO pool the one returned last.
Abstract == INSTANCE TagQueue WITH avail <- FreeSeq, held <- held
ImplementsTagQueue == Abstract!Spec
=============================================================================
