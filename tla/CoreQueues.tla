----------------------------- MODULE CoreQueues -----------------------------
(***************************************************************************)
(* The way of a request through the core of one root                       *)
(* (core/core/core_manager.c, core/core/core_protocol.c): submitted        *)
(* (Core_ModuleSendRequest), waiting, sent to the hardware                 *)
(* (core_send_request, prot_send_request), completed                       *)
(* (prot_process_cmpl_req) and given back (core_complete_requests).  Every *)
(* processor may be anywhere in this code at the same time; each step here *)
(* is what one spinlock protects, or one unprotected look at shared data.  *)
(*                                                                         *)
(* An urgent request is one of device initialisation or error handling: it *)
(* waits in the high priority queue and passes devices that are blocked.   *)
(* Devices are present all the time; completions are without error.        *)
(***************************************************************************)
EXTENDS Naturals, Sequences, SequencesExt, FiniteSets, Functions

CONSTANTS
    Processor,
    Timer,          \* the processor the once-a-second timer fires on
    Request,
    Urgent,         \* initialisation and error handling requests
    Small,          \* 4096-byte reads and writes: may be sent without waiting
    Device, DeviceOf,
    queue_depth,    \* base->queue_depth
    Slots,          \* how many slots slot_pool has
    MaxSubmit,      \* bound: how many requests are submitted
    MaxPause,       \* bound: how often the waiting queues are paused
    None

ASSUME RequestAssumption ==
    /\ Urgent \subseteq Request /\ Small \subseteq Request \ Urgent
    /\ DeviceOf \in [Request -> Device]
ASSUME LimitAssumption ==
    queue_depth \in Nat \ {0} /\ Slots \in Nat \ {0} /\ MaxSubmit \in Nat /\ MaxPause \in Nat
ASSUME TimerAssumption == Timer \in Processor
ASSUME NoneAssumption == None \notin Request

VARIABLES
    waiting_queue,          \* of the root
    high_priority_queue,    \* of the core
    complete_queue,         \* of the core, with internal_compl_queue
    running_req,            \* the requests the hardware has
    free_slots,             \* how many tags slot_pool has left
    outstanding_req,        \* per device
    blocked,                \* per device
    pause_waiting_queue,    \* raised by the holder of the global lock
    proc,                   \* what each processor is doing
    upper,                  \* the requests the upper layer has
    submits, pauses         \* counted for the bounds

queueVars == <<waiting_queue, high_priority_queue>>
deviceVars == <<running_req, free_slots, outstanding_req, blocked>>
upperVars == <<upper, submits>>
pauseVars == <<pause_waiting_queue, pauses>>
vars == <<queueVars, complete_queue, deviceVars, pauseVars, proc, upperVars>>

\* What a processor does: the queue it works on ("fast" when it sends a request
\* just submitted), the request in its hands, and its tmp_queue.
Idle == [at |-> "idle", queue |-> None, req |-> None, tmp |-> <<>>]

Init ==
    /\ waiting_queue = <<>> /\ high_priority_queue = <<>>
    /\ complete_queue = <<>>
    /\ running_req = {}
    /\ free_slots = Slots
    /\ outstanding_req = [d \in Device |-> 0]
    /\ blocked = [d \in Device |-> FALSE]
    /\ pause_waiting_queue = FALSE
    /\ proc = [p \in Processor |-> Idle]
    /\ upper = Request
    /\ submits = 0 /\ pauses = 0

Goto(p, place) == proc' = [proc EXCEPT ![p].at = place]

\* The request in p's hands, and its device.
Req(p) == proc[p].req
Dev(p) == DeviceOf[Req(p)]

\* The queue of io_chip_handle_waiting_queue.
QueueOf(p) ==
    IF proc[p].queue = "high" THEN high_priority_queue ELSE waiting_queue

SetQueueOf(p, q) ==
    IF proc[p].queue = "high"
    THEN high_priority_queue' = q /\ UNCHANGED waiting_queue
    ELSE waiting_queue' = q /\ UNCHANGED high_priority_queue

-----------------------------------------------------------------------------
(***************************************************************************)
(* Core_ModuleSendRequest, or core_append_high_priority_request for an     *)
(* urgent request; the caller pushes the queues afterwards.                *)
(***************************************************************************)
Submit(p, r) ==
    /\ proc[p] = Idle
    /\ r \in upper /\ submits < MaxSubmit
    /\ upper' = upper \ {r}
    /\ submits' = submits + 1
    /\ IF r \in Small /\ waiting_queue = <<>>
       THEN /\ proc' = [proc EXCEPT ![p] = [Idle EXCEPT !.at = "gate", !.queue = "fast", !.req = r]]
            /\ UNCHANGED queueVars
       ELSE /\ Goto(p, "push")
            /\ IF r \in Urgent
               THEN /\ high_priority_queue' = Append(high_priority_queue, r)
                    /\ UNCHANGED waiting_queue
               ELSE /\ waiting_queue' = Append(waiting_queue, r)
                    /\ UNCHANGED high_priority_queue
    /\ UNCHANGED <<complete_queue, deviceVars, pauseVars>>

-----------------------------------------------------------------------------
(***************************************************************************)
(* core_send_request and prot_send_request, called with request Req(p).    *)
(***************************************************************************)

\* The look at base->blocked, without the lock.
Gate(p) ==
    /\ proc[p].at = "gate"
    /\ Goto(p, IF blocked[Dev(p)] /\ Req(p) \notin Urgent THEN "BLOCKED" ELSE "admit")
    /\ UNCHANGED <<queueVars, complete_queue, deviceVars, pauseVars, upperVars>>

HasRoom(d) == outstanding_req[d] < queue_depth

\* Some initialisation or error handling goes on: the port is closed to others.
PortBusy(d) == \E r \in Urgent : DeviceOf[r] = d /\ r \notin upper

\* Under outstanding_SpinLock: the request is let in, or the device is full.
Admit(p) ==
    /\ proc[p].at = "admit"
    /\ IF /\ HasRoom(Dev(p))
          /\ Req(p) \in Urgent \/ ~(blocked[Dev(p)] \/ PortBusy(Dev(p)))
       THEN /\ outstanding_req' = [outstanding_req EXCEPT ![Dev(p)] = @ + 1]
            /\ Goto(p, "slot")
       ELSE Goto(p, "FULL") /\ UNCHANGED outstanding_req
    /\ UNCHANGED <<queueVars, complete_queue, running_req, free_slots, blocked,
                   pauseVars, upperVars>>

\* Where a processor goes when it has sent its request.
AfterSend(p) ==
    IF proc[p].queue = "fast" THEN [Idle EXCEPT !.at = "push"]
    ELSE [proc[p] EXCEPT !.at = "take", !.req = None]

\* Under root_SpinLock: a slot, and the request is the hardware's.
TakeSlot(p) ==
    /\ proc[p].at = "slot"
    /\ IF free_slots = 0
       THEN Goto(p, "noslot") /\ UNCHANGED <<free_slots, running_req>>
       ELSE /\ free_slots' = free_slots - 1
            /\ running_req' = running_req \cup {Req(p)}
            /\ proc' = [proc EXCEPT ![p] = AfterSend(p)]
    /\ UNCHANGED <<queueVars, complete_queue, outstanding_req, blocked, pauseVars, upperVars>>

\* Faulty variant: the device keeps counting the request.
NoSlotCounted(p) ==
    /\ proc[p].at = "noslot"
    /\ Goto(p, "NO_RESOURCE")
    /\ UNCHANGED <<queueVars, complete_queue, deviceVars, pauseVars, upperVars>>

\* No slot: outstanding_req is taken back.
NoSlot(p) ==
    /\ proc[p].at = "noslot"
    /\ outstanding_req' = [outstanding_req EXCEPT ![Dev(p)] = @ - 1]
    /\ Goto(p, "NO_RESOURCE")
    /\ UNCHANGED <<queueVars, complete_queue, running_req, free_slots, blocked,
                   pauseVars, upperVars>>

Send(p) == Gate(p) \/ Admit(p) \/ TakeSlot(p) \/ NoSlot(p)

\* Core_ModuleSendRequest could not send at once.
Enqueue(p) ==
    /\ proc[p].at \in {"FULL", "BLOCKED", "NO_RESOURCE"}
    /\ proc[p].queue = "fast"
    /\ waiting_queue' = Append(waiting_queue, Req(p))
    /\ proc' = [proc EXCEPT ![p] = [Idle EXCEPT !.at = "push"]]
    /\ UNCHANGED <<high_priority_queue, complete_queue, deviceVars, pauseVars, upperVars>>

-----------------------------------------------------------------------------
(***************************************************************************)
(* core_push_queues: hand out waiting requests, then give back completed   *)
(* ones.                                                                   *)
(***************************************************************************)

\* There is something to do, and the waiting queues are not paused.
Push(p) ==
    /\ proc[p].at = "push"
    /\ proc' = [proc EXCEPT ![p] =
         IF waiting_queue = <<>> /\ high_priority_queue = <<>> /\ complete_queue = <<>>
         THEN Idle
         ELSE IF pause_waiting_queue THEN [Idle EXCEPT !.at = "giveback"]
         ELSE [Idle EXCEPT !.at = "take", !.queue = "high"]]
    /\ UNCHANGED <<queueVars, complete_queue, deviceVars, pauseVars, upperVars>>

\* io_chip_handle_waiting_queue takes the first request; the normal queue is
\* left alone when there is no slot.
Take(p) ==
    /\ proc[p].at = "take"
    /\ IF QueueOf(p) = <<>> \/ (proc[p].queue = "normal" /\ free_slots = 0)
       THEN Goto(p, "ending") /\ UNCHANGED queueVars
       ELSE /\ proc' = [proc EXCEPT ![p].at = "gate", ![p].req = Head(QueueOf(p))]
            /\ SetQueueOf(p, Tail(QueueOf(p)))
    /\ UNCHANGED <<complete_queue, deviceVars, pauseVars, upperVars>>

\* It could not be sent: it goes to the head of tmp_queue, and a device that is
\* full is blocked for the requests behind it.
PutAside(p) ==
    /\ proc[p].at \in {"FULL", "BLOCKED", "NO_RESOURCE"}
    /\ proc[p].queue # "fast"
    /\ blocked' = IF proc[p].at = "FULL" THEN [blocked EXCEPT ![Dev(p)] = TRUE] ELSE blocked
    /\ proc' = [proc EXCEPT ![p].at = "take", ![p].req = None,
                            ![p].tmp = <<Req(p)>> \o proc[p].tmp]
    /\ UNCHANGED <<queueVars, complete_queue, running_req, free_slots, outstanding_req,
                   pauseVars, upperVars>>

\* The requests put aside return: first the device is unblocked ...
Unblock(p) ==
    /\ proc[p].at = "ending" /\ proc[p].tmp # <<>>
    /\ proc' = [proc EXCEPT ![p].at = "restore", ![p].req = Head(proc[p].tmp),
                            ![p].tmp = Tail(proc[p].tmp)]
    /\ blocked' = [blocked EXCEPT ![DeviceOf[Head(proc[p].tmp)]] = FALSE]
    /\ UNCHANGED <<queueVars, complete_queue, running_req, free_slots, outstanding_req,
                   pauseVars, upperVars>>

\* Faulty variant: the request is dropped from both queues.
RestoreLost(p) ==
    /\ proc[p].at = "restore"
    /\ proc' = [proc EXCEPT ![p].at = "ending", ![p].req = None]
    /\ UNCHANGED <<queueVars, complete_queue, deviceVars, pauseVars, upperVars>>

\* ... then the request is put back at the head of the queue.
Restore(p) ==
    /\ proc[p].at = "restore"
    /\ SetQueueOf(p, <<Req(p)>> \o QueueOf(p))
    /\ proc' = [proc EXCEPT ![p].at = "ending", ![p].req = None]
    /\ UNCHANGED <<complete_queue, deviceVars, pauseVars, upperVars>>

\* The other queue, or on to the completed requests.
NextQueue(p) ==
    /\ proc[p].at = "ending" /\ proc[p].tmp = <<>>
    /\ proc' = [proc EXCEPT ![p] =
         IF @.queue = "high" THEN [Idle EXCEPT !.at = "take", !.queue = "normal"]
         ELSE [Idle EXCEPT !.at = "giveback"]]
    /\ UNCHANGED <<queueVars, complete_queue, deviceVars, pauseVars, upperVars>>

\* core_complete_requests and core_complete_internal_requests: the first
\* completed request goes to the upper layer, until there is none.
GiveBack(p) ==
    /\ proc[p].at \in {"giveback", "irq"}
    /\ IF complete_queue = <<>>
       THEN /\ proc' = [proc EXCEPT ![p] =
                 IF @.at = "irq" THEN [Idle EXCEPT !.at = "push"] ELSE Idle]
            /\ UNCHANGED <<complete_queue, upper>>
       ELSE /\ complete_queue' = Tail(complete_queue)
            /\ upper' = upper \cup {Head(complete_queue)}
            /\ UNCHANGED proc
    /\ UNCHANGED <<queueVars, deviceVars, pauseVars, submits>>

HandOut(p) ==
    Push(p) \/ Take(p) \/ PutAside(p) \/ Unblock(p) \/ Restore(p) \/ NextQueue(p) \/ GiveBack(p)

-----------------------------------------------------------------------------
(***************************************************************************)
(* The interrupt: prot_process_cmpl_req.                                   *)
(***************************************************************************)

\* The hardware is done with r: prot_clean_slot releases its slot ...
Complete(p, r) ==
    /\ proc[p] = Idle
    /\ r \in running_req
    /\ running_req' = running_req \ {r}
    /\ free_slots' = free_slots + 1
    /\ proc' = [proc EXCEPT ![p] = [Idle EXCEPT !.at = "clean", !.req = r]]
    /\ UNCHANGED <<queueVars, complete_queue, outstanding_req, blocked, pauseVars, upperVars>>

\* ... and counts the request out.
Clean(p) ==
    /\ proc[p].at = "clean"
    /\ outstanding_req' = [outstanding_req EXCEPT ![Dev(p)] = @ - 1]
    /\ Goto(p, "queue")
    /\ UNCHANGED <<queueVars, complete_queue, running_req, free_slots, blocked,
                   pauseVars, upperVars>>

\* core_queue_completed_req_lock: small requests are given back at once.
QueueCompleted(p) ==
    /\ proc[p].at = "queue"
    /\ IF Req(p) \in Small
       THEN upper' = upper \cup {Req(p)} /\ UNCHANGED complete_queue
       ELSE complete_queue' = Append(complete_queue, Req(p)) /\ UNCHANGED upper
    /\ proc' = [proc EXCEPT ![p] = [Idle EXCEPT !.at = "irq"]]
    /\ UNCHANGED <<queueVars, deviceVars, pauseVars, submits>>

Interrupt(p) == Clean(p) \/ QueueCompleted(p)

\* Faulty variant: Timer_CheckRequest does not push.
TickNoPush(p) == FALSE /\ UNCHANGED vars

\* Timer_CheckRequest ends with core_push_all_queues.
Tick(p) ==
    /\ proc[p] = Idle /\ p = Timer
    /\ waiting_queue # <<>> \/ high_priority_queue # <<>> \/ complete_queue # <<>>
    /\ Goto(p, "push")
    /\ UNCHANGED <<queueVars, complete_queue, deviceVars, pauseVars, upperVars>>

\* Somebody takes and leaves the global lock; see GlobalLock.
Pause ==
    /\ ~pause_waiting_queue /\ pauses < MaxPause
    /\ pause_waiting_queue' = TRUE
    /\ pauses' = pauses + 1
    /\ UNCHANGED <<queueVars, complete_queue, deviceVars, proc, upperVars>>

Resume ==
    /\ pause_waiting_queue
    /\ pause_waiting_queue' = FALSE
    /\ UNCHANGED <<queueVars, complete_queue, deviceVars, proc, upperVars, pauses>>

Step(p) == Send(p) \/ Enqueue(p) \/ HandOut(p) \/ Interrupt(p)

Next ==
    \/ \E p \in Processor :
         \/ Step(p) \/ Tick(p)
         \/ \E r \in Request : Submit(p, r) \/ Complete(p, r)
    \/ Pause \/ Resume

Spec == Init /\ [][Next]_vars

\* Code that runs runs to its end; the timer fires; the lock is left.  The
\* hardware answers every request: ReqTimer sees to it that a silent one is
\* given up.  The upper layer need not submit anything.
FairSpec ==
    /\ Spec
    /\ \A p \in Processor : WF_vars(Step(p))
    /\ SF_vars(Tick(Timer))
    /\ \A r \in Request : SF_vars(\E p \in Processor : Complete(p, r))
    /\ WF_vars(Resume)

-----------------------------------------------------------------------------
(***************************************************************************)
(* Correctness.                                                            *)
(***************************************************************************)

TypeOK ==
    /\ waiting_queue \in Seq(Request) /\ high_priority_queue \in Seq(Urgent)
    /\ complete_queue \in Seq(Request)
    /\ running_req \subseteq Request
    /\ free_slots \in 0..Slots
    /\ outstanding_req \in [Device -> 0..queue_depth]
    /\ blocked \in [Device -> BOOLEAN]
    /\ proc \in [Processor ->
         [at : {"idle", "gate", "admit", "slot", "noslot", "FULL", "BLOCKED",
                "NO_RESOURCE", "push", "take", "ending", "restore", "giveback",
                "clean", "queue", "irq"},
          queue : {"fast", "high", "normal", None},
          req : Request \cup {None}, tmp : Seq(Request)]]
    /\ upper \subseteq Request
    /\ submits \in 0..MaxSubmit

\* The places all processors share, and what one processor has: the request in
\* its hands and those it has put aside.
Shelf == [upper |-> upper, waiting |-> ToSet(waiting_queue),
          high |-> ToSet(high_priority_queue), complete |-> ToSet(complete_queue),
          running |-> running_req]
Has(p) == ToSet(proc[p].tmp) \cup ({Req(p)} \ {None})

\* A request is in one place, once: with the upper layer, on one of the queues,
\* with one processor, or with the hardware.  So no request is lost, sent twice
\* or given back twice.
InOnePlace ==
    /\ TypeOK
    /\ \A q \in {waiting_queue, high_priority_queue, complete_queue} : IsInjective(q)
    /\ \A p \in Processor : IsInjective(proc[p].tmp) /\ Req(p) \notin ToSet(proc[p].tmp)
    /\ \A r \in Request :
        \/ /\ \E x \in DOMAIN Shelf : \A y \in DOMAIN Shelf : r \in Shelf[y] <=> y = x
           /\ \A p \in Processor : r \notin Has(p)
        \/ /\ \A y \in DOMAIN Shelf : r \notin Shelf[y]
           /\ \E p \in Processor : \A q \in Processor : r \in Has(q) <=> q = p

\* The device counts exactly the requests that are with the hardware or on the
\* way in or out, whichever way sending failed.
OutstandingExact ==
    \A d \in Device :
        outstanding_req[d] =
            Cardinality({r \in running_req : DeviceOf[r] = d}
              \cup {Req(p) : p \in {q \in Processor :
                        proc[q].at \in {"slot", "noslot", "clean"} /\ Dev(q) = d}})

\* Every request submitted is given back, although processors turn away from a
\* queue whose only request is in another one's hands.
NoRequestStuck == \A r \in Request : r \notin upper ~> r \in upper
=============================================================================
