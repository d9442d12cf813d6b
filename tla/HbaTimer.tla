------------------------------ MODULE HbaTimer ------------------------------
(***************************************************************************)
(* The software timers of linux/hba_timer.c: an array of timer slots, the  *)
(* FILO tag pool that hands them out, and Timer_CheckRequest, which runs   *)
(* once a second in softirq context and calls the routine of every slot    *)
(* that is due.  Adding, cancelling and the parts of Timer_CheckRequest    *)
(* between two lock operations are atomic (timer_Spinlock); the routine    *)
(* runs with the lock released, and its two arguments are read from the    *)
(* slot after the release.                                                 *)
(*                                                                         *)
(* Time is relative: "left" is the slot's Time_Stamp minus the module's,   *)
(* in the unit of its callers, TIMER_INTERVAL_LARGE_UNIT: half a second. A *)
(* tick, TIMER_INTERVAL_OS, is two of them.  -1 stands for any time past.  *)
(***************************************************************************)
EXTENDS Integers, Sequences, SequencesExt

CONSTANTS
    Timer_Request_Number,   \* how many slots Timer_Initialize allocates
    Contexts1, Contexts2,   \* what the callers pass to their routine
    UnitsPerTick,           \* TIMER_INTERVAL_OS / TIMER_INTERVAL_LARGE_UNIT
    MaxUnits,               \* bound: the longest timer a caller asks for
    None                    \* NO_CURRENT_TIMER, and an argument not yet read

ASSUME NumberAssumption == Timer_Request_Number \in Nat \ {0}
ASSUME UnitsAssumption == UnitsPerTick \in Nat \ {0} /\ MaxUnits \in Nat
ASSUME NoneAssumption ==
    None \notin Contexts1 \cup Contexts2 \cup 0..Timer_Request_Number-1

Slots == 0..Timer_Request_Number-1

VARIABLES
    Tag_Pool,           \* the free slots; the last one is handed out next
    Running_Requests,   \* the slots
    check               \* how far Timer_CheckRequest is

timerVars == <<Tag_Pool, Running_Requests, check>>

\* Timer_CheckRequest is sleeping, looks at slot i, is about to call the
\* routine of slot i, or runs it.
CheckStates == {"asleep", "scan", "due", "called"}

Asleep == [at |-> "asleep", i |-> 0, ctx1 |-> None, ctx2 |-> None]
ScanAt(i) == [Asleep EXCEPT !.at = "scan", !.i = i]

-----------------------------------------------------------------------------
\* Timer_Initialize.  The arguments of a slot never used are zero in the code;
\* nothing reads them before they are set.
Init ==
    /\ Tag_Pool = [k \in 1..Timer_Request_Number |-> Timer_Request_Number - k]
    /\ Running_Requests \in
         [Slots -> {[Valid |-> FALSE, left |-> 0, ctx1 |-> None, ctx2 |-> None]}]
    /\ check = Asleep

\* The slot the next Timer_AddRequest gets.
NextSlot == IF Tag_Pool = <<>> THEN None ELSE Last(Tag_Pool)

\* Timer_AddRequest; it returns NextSlot.  Without a free slot nothing changes.
AddRequest(time_unit, ctx1, ctx2) ==
    /\ IF Tag_Pool = <<>>
       THEN UNCHANGED <<Tag_Pool, Running_Requests>>
       ELSE /\ Tag_Pool' = Front(Tag_Pool)
            /\ Running_Requests' = [Running_Requests EXCEPT ![NextSlot] =
                 [Valid |-> TRUE, left |-> time_unit, ctx1 |-> ctx1, ctx2 |-> ctx2]]
    /\ UNCHANGED check

\* Valid = MV_FALSE and Tag_ReleaseOne; the arguments stay in the slot.
Release(i) ==
    /\ Running_Requests' = [Running_Requests EXCEPT ![i].Valid = FALSE,
                                                    ![i].left = 0]
    /\ Tag_Pool' = Append(Tag_Pool, i)

\* Faulty variant, for the mutation runs: cancelling does not look at Valid.
CancellableAny(i) == i \in Slots /\ Running_Requests[i].left >= 0

\* Whether Timer_CancelRequest finds the timer still running: one whose time is
\* past is left to Timer_CheckRequest.  An odd time is past as soon as it is due.
Cancellable(i) ==
    /\ i \in Slots
    /\ Running_Requests[i].Valid
    /\ Running_Requests[i].left >= 0

CancelRequest(i) ==
    /\ IF Cancellable(i) THEN Release(i)
                         ELSE UNCHANGED <<Tag_Pool, Running_Requests>>
    /\ UNCHANGED check

-----------------------------------------------------------------------------
(***************************************************************************)
(* Timer_CheckRequest.                                                     *)
(***************************************************************************)

\* The kernel timer goes off: the module's Time_Stamp advances by one tick.
Tick ==
    /\ check.at = "asleep"
    /\ check' = ScanAt(0)
    /\ Running_Requests' = [i \in Slots |->
         IF Running_Requests[i].Valid /\ Running_Requests[i].left >= 0
         THEN [Running_Requests[i] EXCEPT !.left =
                 IF @ >= UnitsPerTick THEN @ - UnitsPerTick ELSE -1]
         ELSE Running_Requests[i]]
    /\ UNCHANGED Tag_Pool

\* Faulty variant, for the mutation runs: the loop stops early.
StepPastTooShort(i) ==
    check' = IF i + 2 < Timer_Request_Number THEN ScanAt(i + 1) ELSE Asleep

\* On to the slot after i; behind the last one mod_timer arms the next tick.
StepPast(i) ==
    check' = IF i + 1 < Timer_Request_Number THEN ScanAt(i + 1) ELSE Asleep

IsDue(i) == Running_Requests[i].Valid /\ Running_Requests[i].left <= 0

LookAtSlot ==
    /\ check.at = "scan"
    /\ IF IsDue(check.i) THEN check' = [check EXCEPT !.at = "due"]
                         ELSE StepPast(check.i)
    /\ UNCHANGED <<Tag_Pool, Running_Requests>>

\* The call evaluates its two arguments without the lock, in either order.
ReadContext1 ==
    /\ check.at = "due" /\ check.ctx1 = None
    /\ LET c == Running_Requests[check.i].ctx1 IN
         check' = [check EXCEPT !.ctx1 = c,
                                !.at = IF check.ctx2 = None THEN "due" ELSE "called"]
    /\ UNCHANGED <<Tag_Pool, Running_Requests>>

ReadContext2 ==
    /\ check.at = "due" /\ check.ctx2 = None
    /\ LET c == Running_Requests[check.i].ctx2 IN
         check' = [check EXCEPT !.ctx2 = c,
                                !.at = IF check.ctx1 = None THEN "due" ELSE "called"]
    /\ UNCHANGED <<Tag_Pool, Running_Requests>>

\* The routine is back: whatever timer the slot holds by now is released.
Return ==
    /\ check.at = "called"
    /\ IF Running_Requests[check.i].Valid
       THEN Release(check.i)
       ELSE UNCHANGED <<Tag_Pool, Running_Requests>>
    /\ StepPast(check.i)

CheckRequest == Tick \/ LookAtSlot \/ ReadContext1 \/ ReadContext2 \/ Return

-----------------------------------------------------------------------------
\* Callers on any processor add timers and cancel by index; the index may be
\* one whose timer has been released since.
Next ==
    \/ CheckRequest
    \/ \E n \in 0..MaxUnits, c1 \in Contexts1, c2 \in Contexts2 : AddRequest(n, c1, c2)
    \/ \E i \in Slots \cup {None} : CancelRequest(i)

Spec == Init /\ [][Next]_timerVars

\* The kernel timer is re-armed at the end of every Timer_CheckRequest, and a
\* softirq that has started runs to its end; callers owe nothing.
FairSpec == Spec /\ WF_timerVars(CheckRequest)

-----------------------------------------------------------------------------
(***************************************************************************)
(* Correctness.                                                            *)
(***************************************************************************)

TimerTypeOK ==
    /\ Tag_Pool \in Seq(Slots)
    /\ Running_Requests \in
         [Slots -> [Valid : BOOLEAN, left : -1..MaxUnits,
                    ctx1 : Contexts1 \cup {None}, ctx2 : Contexts2 \cup {None}]]
    /\ check \in [at : CheckStates, i : Slots,
                  ctx1 : Contexts1 \cup {None}, ctx2 : Contexts2 \cup {None}]

\* A slot is in the pool, once, exactly when it carries no timer, although
\* cancelling by a stale index and the release after the routine race for it.
PoolIsFreeSlots ==
    /\ \A j, k \in 1..Len(Tag_Pool) : Tag_Pool[j] = Tag_Pool[k] => j = k
    /\ \A i \in Slots :
         Running_Requests[i].Valid <=> \A k \in 1..Len(Tag_Pool) : Tag_Pool[k] # i

\* Every timer is taken off its slot in the end: it fires or is cancelled.
EveryTimerEnds ==
    \A i \in Slots : Running_Requests[i].Valid ~> ~Running_Requests[i].Valid
=============================================================================
