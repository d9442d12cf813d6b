----------------------------- MODULE GlobalLock -----------------------------
(***************************************************************************)
(* How the core keeps its slow path and its fast path apart                *)
(* (core/core/core_util.c, core/core/core_manager.c).                      *)
(*                                                                         *)
(* The slow path - attention interrupts, timeouts, error handling, the     *)
(* event and init queues - runs under OSSW_SPIN_LOCK_GLOBAL: a spinlock,   *)
(* and core_global_lock, which raises pause_waiting_queue and waits until  *)
(* waiting_queue_running is zero.  The fast path hands out waiting requests*)
(* (core_handle_waiting_queue_ex) unless the flag is up, and is counted.   *)
(* The flag and the count are read and written without a common lock.      *)
(* Small requests that Core_ModuleSendRequest sends at once, without having*)
(* them wait, look at neither; they are left out here.                     *)
(*                                                                         *)
(* core_push_core_queues is the slow path's main user.  It turns away any  *)
(* caller that comes while another one is in it; a caller turned away has  *)
(* its work done later, by the push at the end of every Timer_CheckRequest.*)
(***************************************************************************)
EXTENDS Naturals, FiniteSets

CONSTANTS
    Processor,  \* each runs with interrupts off, so it does one thing at a time
    Timer,      \* the processor the once-a-second timer fires on
    MaxWork,    \* bound on work: entries of the event, error and init queues
    Nobody

ASSUME ProcessorAssumption == IsFiniteSet(Processor) /\ Timer \in Processor
ASSUME WorkAssumption == MaxWork \in Nat
ASSUME NobodyAssumption == Nobody \notin Processor

VARIABLES
    pause_waiting_queue,
    waiting_queue_running,
    core_queue_running,
    queue_lock,     \* who holds core_queue_running_SpinLock, over several steps
    global_lock,    \* who holds core_global_SpinLock
    work,           \* entries of event_queue, error_queue and init_queue
    at              \* where each processor is

lockVars == <<pause_waiting_queue, waiting_queue_running, core_queue_running,
          queue_lock, global_lock, work, at>>

\* "count" is in the fast path between the look at the flag and the count,
\* "send" hands out requests; "drain" and "critical" are the slow path outside
\* core_push_core_queues.  "try" has called that function; "push", "push-drain",
\* "push-critical" and "pushed" are inside it.
Places == {"idle", "count", "send", "drain", "critical",
           "try", "push", "push-drain", "push-critical", "pushed"}

LockInit ==
    /\ pause_waiting_queue = FALSE
    /\ waiting_queue_running = 0
    /\ core_queue_running = FALSE
    /\ queue_lock = Nobody
    /\ global_lock = Nobody
    /\ work = 0
    /\ at = [p \in Processor |-> "idle"]

Move(p, from, to) == at[p] = from /\ at' = [at EXCEPT ![p] = to]

holderVars == <<queue_lock, global_lock>>
runningVars == <<waiting_queue_running, core_queue_running>>

-----------------------------------------------------------------------------
(***************************************************************************)
(* core_handle_waiting_queue_ex and its sibling for one root.              *)
(***************************************************************************)

\* Faulty variant, for the mutation runs: the flag is read before the lock is
\* taken, so that several processors may be past it.
CheckPauseUnlocked(p) ==
    /\ ~pause_waiting_queue
    /\ Move(p, "idle", "count")
    /\ UNCHANGED <<pause_waiting_queue, runningVars, holderVars, work>>

\* Faulty variant: the flag is not looked at.
CheckPauseIgnored(p) ==
    /\ queue_lock = Nobody
    /\ queue_lock' = p
    /\ Move(p, "idle", "count")
    /\ UNCHANGED <<pause_waiting_queue, runningVars, global_lock, work>>

\* Take core_queue_running_SpinLock and go on if the flag is down.
CheckPause(p) ==
    /\ queue_lock = Nobody
    /\ ~pause_waiting_queue
    /\ queue_lock' = p
    /\ Move(p, "idle", "count")
    /\ UNCHANGED <<pause_waiting_queue, runningVars, global_lock, work>>

CountIn(p) ==
    /\ Move(p, "count", "send")
    /\ waiting_queue_running' = waiting_queue_running + 1
    /\ queue_lock' = Nobody
    /\ UNCHANGED <<pause_waiting_queue, core_queue_running, global_lock, work>>

CountOut(p) ==
    /\ queue_lock = Nobody
    /\ Move(p, "send", "idle")
    /\ waiting_queue_running' = waiting_queue_running - 1
    /\ UNCHANGED <<pause_waiting_queue, core_queue_running, holderVars, work>>

-----------------------------------------------------------------------------
(***************************************************************************)
(* OSSW_SPIN_LOCK_GLOBAL and OSSW_SPIN_UNLOCK_GLOBAL.                      *)
(***************************************************************************)

\* The spinlock, and the first line of core_global_lock.
LockGlobal(p, from, to) ==
    /\ global_lock = Nobody
    /\ global_lock' = p
    /\ pause_waiting_queue' = TRUE
    /\ Move(p, from, to)
    /\ UNCHANGED <<runningVars, queue_lock>>

\* The busy-wait of core_global_lock is over.
Drain(p, from, to) ==
    /\ waiting_queue_running = 0
    /\ Move(p, from, to)
    /\ UNCHANGED <<pause_waiting_queue, runningVars, holderVars>>

UnlockGlobal(p, from, to) ==
    /\ pause_waiting_queue' = FALSE
    /\ global_lock' = Nobody
    /\ Move(p, from, to)
    /\ UNCHANGED <<runningVars, queue_lock>>

\* A slow path outside core_push_core_queues; it may queue more work.
SlowPath(p) ==
    \/ LockGlobal(p, "idle", "drain") /\ UNCHANGED work
    \/ Drain(p, "drain", "critical") /\ UNCHANGED work
    \/ /\ UnlockGlobal(p, "critical", "idle")
       /\ work' \in work..MaxWork

-----------------------------------------------------------------------------
(***************************************************************************)
(* core_push_core_queues.                                                  *)
(***************************************************************************)

\* core_push_queues calls it when one of the queues is not empty.
CallPush(p) ==
    /\ work > 0
    /\ Move(p, "idle", "try")
    /\ UNCHANGED <<pause_waiting_queue, runningVars, holderVars, work>>

\* Under core_queue_running_SpinLock: go in if nobody is inside and there is
\* still work, or turn away.
EnterPush(p) ==
    /\ queue_lock = Nobody
    /\ IF ~core_queue_running /\ work > 0
       THEN Move(p, "try", "push") /\ core_queue_running' = TRUE
       ELSE Move(p, "try", "idle") /\ UNCHANGED core_queue_running
    /\ UNCHANGED <<pause_waiting_queue, waiting_queue_running, holderVars, work>>

\* The queues are handled; what is handled may be queued again, and a request
\* that waits for its turn stays.
HandleQueues(p) ==
    /\ UnlockGlobal(p, "push-critical", "pushed")
    /\ work' \in 0..work

\* Faulty variant: the way back does not clear core_queue_running.
LeavePushRunning(p) ==
    /\ queue_lock = Nobody
    /\ Move(p, "pushed", "idle")
    /\ UNCHANGED <<pause_waiting_queue, runningVars, holderVars, work>>

LeavePush(p) ==
    /\ queue_lock = Nobody
    /\ core_queue_running' = FALSE
    /\ Move(p, "pushed", "idle")
    /\ UNCHANGED <<pause_waiting_queue, waiting_queue_running, holderVars, work>>

PushCoreQueues(p) ==
    \/ CallPush(p)
    \/ EnterPush(p)
    \/ LockGlobal(p, "push", "push-drain") /\ UNCHANGED work
    \/ Drain(p, "push-drain", "push-critical") /\ UNCHANGED work
    \/ HandleQueues(p)
    \/ LeavePush(p)

\* A completion with an error: prot_process_cmpl_req calls core_queue_error_req
\* under core_queue_running_SpinLock, but without the global lock.
QueueError(p) ==
    /\ at[p] = "idle"
    /\ queue_lock = Nobody
    /\ work < MaxWork
    /\ work' = work + 1
    /\ UNCHANGED <<pause_waiting_queue, runningVars, holderVars, at>>

HandOut(p) == CheckPause(p) \/ CountIn(p) \/ CountOut(p)

LockNext == \E p \in Processor : HandOut(p) \/ SlowPath(p) \/ PushCoreQueues(p) \/ QueueError(p)

LockSpec == LockInit /\ [][LockNext]_lockVars

\* The kernel's spinlocks hand themselves to the waiting processors in turn, so
\* who waits for one gets it; what runs with a lock or in the fast path runs to
\* its end.  The timer fires between other things its processor does.  Nobody
\* else need push.
LockFairness ==
    /\ \A p \in Processor :
         /\ WF_lockVars(CountIn(p)) /\ SF_lockVars(CountOut(p))
         /\ SF_lockVars(SlowPath(p) /\ at[p] # "idle")
         /\ SF_lockVars(PushCoreQueues(p) /\ at[p] # "idle")
    /\ SF_lockVars(CallPush(Timer))

LockFairSpec == LockSpec /\ LockFairness

-----------------------------------------------------------------------------
(***************************************************************************)
(* Correctness.                                                            *)
(***************************************************************************)

LockTypeOK ==
    /\ pause_waiting_queue \in BOOLEAN
    /\ waiting_queue_running \in 0..Cardinality(Processor)
    /\ core_queue_running \in BOOLEAN
    /\ queue_lock \in Processor \cup {Nobody}
    /\ global_lock \in Processor \cup {Nobody}
    /\ work \in 0..MaxWork
    /\ at \in [Processor -> Places]

InCritical(p) == at[p] \in {"critical", "push-critical"}

\* "don't push waiting queues if pause_waiting_queue" (core_manager.c:2425) is
\* not quite kept, as the flag is raised without the lock under which it is read.
\* What the code does keep: core_queue_running_SpinLock, held from the look at
\* the flag to the count, lets at most one processor slip past the global lock,
\* namely the one that had seen the flag down just before it went up.  (Of the
\* processors that hand out requests that have waited.)
OneIntruder ==
    \A p1, p2, q \in Processor :
        InCritical(q) /\ at[p1] = "send" /\ at[p2] = "send" => p1 = p2

\* Whoever raises the flag gets in: new requests are turned away, so that the
\* processors it busy-waits for, interrupts off, go down to none.
GlobalLockEntered ==
    \A p \in Processor : at[p] \in {"drain", "push-drain"} ~> InCritical(p)

\* Work queued while another processor is just leaving core_push_core_queues is
\* not lost, although the caller that queued it was turned away.
QueuesHandled ==
    work > 0 ~> \E p \in Processor : at[p] = "push-critical"
=============================================================================
