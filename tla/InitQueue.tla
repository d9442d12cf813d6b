----------------------------- MODULE InitQueue -----------------------------
(***************************************************************************)
(* The initialisation queue.                                               *)
(*                                                                         *)
(* A port, a port multiplier or a disk that is being brought up is an      *)
(* entry of core->init_queue.  core_handle_init_queue takes the first      *)
(* entry off and calls its state machine, which sends a request or arms a  *)
(* timer; the completion or timer routine puts the entry back in front.    *)
(* An entry is counted when it is first queued and until it is done, in    *)
(* core->init_queue_count and in its port's init_count: while init_count   *)
(* is not 0 the port's events and failed requests wait, and until          *)
(* init_queue_count is 0 the core is not started.                          *)
(*                                                                         *)
(* The queue, the counts and the retry counts are one record, and every    *)
(* operation maps a record to a record, so that a handler that does        *)
(* several of them is their composition.                                   *)
(***************************************************************************)
EXTENDS Naturals, Sequences, SequencesExt, FiniteSets

CONSTANTS Port, Part    \* Part: what a port consists of
VARIABLES init, core_state

Base == Port \X Part
PortOf(b) == b[1]

NoInit == [queue |-> <<>>, count |-> 0, port |-> [p \in Port |-> 0],
           retry |-> [b \in Base |-> 0]]

Less(n, by) == IF n <= by THEN 0 ELSE n - by

Queued(i) == ToSet(i.queue)

\* core_queue_init_entry(base, FALSE): back to the front; twice is once.
Requeue(i, b) ==
    IF b \in Queued(i) THEN i ELSE [i EXCEPT !.queue = <<b>> \o @]

\* core_queue_init_entry(base, TRUE): a new entry, at the end, is counted.
Start(i, b) ==
    IF b \in Queued(i) THEN i
    ELSE [i EXCEPT !.queue = Append(@, b), !.count = @ + 1,
                   !.port[PortOf(b)] = @ + 1, !.retry[b] = 0]

\* The new ones of the entries 0 to n - 1 of a port, in this order.
StartNew(i, p, n, new) ==
    LET after[k \in 0 .. n] ==
            IF k = 0 THEN i
            ELSE IF <<p, k - 1>> \in new THEN Start(after[k - 1], <<p, k - 1>>)
            ELSE after[k - 1]
    IN after[n]

\* core_init_entry_done: the counts never go below 0.
Done(i, p) == [i EXCEPT !.count = Less(@, 1), !.port[p] = Less(@, 1)]

\* core_clean_init_queue_entry for entries of a port that are set down: each that is
\* queued leaves the queue and is done.
Clean(i, p, bases) ==
    LET gone == Queued(i) \cap bases
        n == Cardinality(gone)
    IN IF gone = {} THEN i
       ELSE [i EXCEPT !.queue = SelectSeq(@, LAMBDA b : b \notin gone),
                      !.count = Less(@, n), !.port[p] = Less(@, n)]

\* core_handle_init_queue takes the first entry.
Taken(i) == [i EXCEPT !.queue = Tail(@)]

\* core_check_init_done, which every push calls when all queues are empty.
core_check_init_done(outstanding) ==
    /\ core_state = "STARTING"
    /\ init.queue = <<>> /\ init.count = 0 /\ outstanding = {}
    /\ core_state' = "STARTED"
=============================================================================
