------------------------------ MODULE TagQueue ------------------------------
(***************************************************************************)
(* What a tag pool promises its clients: the tags nobody holds wait in a   *)
(* sequence; a FIFO pool hands out the one that has waited longest, a FILO *)
(* pool the one returned last, and a returned tag goes to the end.         *)
(* TagPool, the ring/stack of lib/common/com_tag.c, implements this.       *)
(***************************************************************************)
EXTENDS Naturals, Sequences, SequencesExt

CONSTANTS
    Size,       \* number of tags of the pool
    FIFO        \* TagStackType = FIFO_TAG, otherwise FILO_TAG

VARIABLES
    avail,      \* the tags that can be handed out, in the order of their return
    held        \* the tags the clients hold

vars == <<avail, held>>

Init ==
    /\ avail = [i \in 1..Size |-> IF FIFO THEN i - 1 ELSE Size - i]
    /\ held = {}

GetOne ==
    /\ avail # <<>>
    /\ LET tag == IF FIFO THEN Head(avail) ELSE Last(avail) IN
        /\ avail' = IF FIFO THEN Tail(avail) ELSE Front(avail)
        /\ held' = held \cup {tag}

ReleaseOne(tag) ==
    /\ tag \in held
    /\ avail' = Append(avail, tag)
    /\ held' = held \ {tag}

Next == GetOne \/ \E tag \in 0..Size-1 : ReleaseOne(tag)

Spec == Init /\ [][Next]_vars
=============================================================================
