------------------------------ MODULE ReqTimer ------------------------------
(***************************************************************************)
(* The request timeout of core/core/core_error.c on top of HbaTimer.  Each *)
(* device keeps the requests sent to it in the order of sending and owns   *)
(* one timer, armed for the oldest of them.  Sending (mv_add_timer),       *)
(* completing (mv_renew_timer, called by prot_clean_slot) and timing out   *)
(* (core_req_timeout) hold the device's sent_req_list_SpinLock; completions*)
(* and sends run on any processor while Timer_CheckRequest runs in softirq.*)
(*                                                                         *)
(* A request that left the list may be sent again: the drivers above reuse *)
(* request structures.  Devices are present all the time here.             *)
(***************************************************************************)
EXTENDS Integers, Sequences, SequencesExt, FiniteSets

CONSTANTS
    Timer_Request_Number,
    Device, Request, DeviceOf,
    queue_depth,        \* how many requests a device takes at a time
    Time_Out,           \* Time_Out[r]: the timeout asked for; may be 0.  The code calls
                        \* these numbers seconds, HbaTimer takes them for half seconds
    DefaultSeconds,     \* CORE_REQUEST_TIME_OUT_SECONDS
    EraseRequest,       \* the ATA security erase commands
    EraseSeconds,       \* how much longer they are given each time
    UnitsPerTick, MaxUnits,
    MaxOverlap,         \* bound on overlaps
    None

ASSUME QueueDepthAssumption == queue_depth \in Nat \ {0}
ASSUME TimeOutAssumption ==
    /\ UnitsPerTick \in Nat \ {0} /\ MaxUnits \in Nat
    /\ Time_Out \in [Request -> 0..MaxUnits]
    /\ DefaultSeconds \in 1..MaxUnits
    /\ EraseSeconds \in 1..MaxUnits
\* More of them could use up the slots of Timer_GetRequestCount; see TimerForOldest.
ASSUME OverlapAssumption == MaxOverlap \in 0..Cardinality(Device) + 1
ASSUME RequestAssumption == DeviceOf \in [Request -> Device]
\* Timer_GetRequestCount; it also counts the adapter itself.
ASSUME SlotsAssumption ==
    /\ IsFiniteSet(Device)
    /\ Timer_Request_Number \in Nat
    /\ Timer_Request_Number >= (Cardinality(Device) + 1) * 2
ASSUME NoneAssumption == None \notin Device \cup Request /\ None \notin Nat
ASSUME EraseAssumption == EraseRequest \subseteq Request

VARIABLES
    Tag_Pool, Running_Requests, check,  \* HbaTimer
    sent_req_list,  \* err_ctx.sent_req_list of each device, oldest first
    timer_id,       \* err_ctx.timer_id of each device
    renew,          \* devices in the middle of mv_renew_timer: the Time_Out it uses
    answered,       \* the routine Timer_CheckRequest called has done its work
    overlaps,       \* history: how many requests completed too late, when their
                    \* timer could not be cancelled any more, or between the
                    \* moment a timer was found due and the end of its routine
    late_erase      \* history: a security erase was extended that was not the
                    \* oldest request of its device any more

timerVars == <<Tag_Pool, Running_Requests, check>>
historyVars == <<overlaps, late_erase>>
vars == <<timerVars, sent_req_list, timer_id, renew, answered, historyVars>>

Timer == INSTANCE HbaTimer WITH Contexts1 <- Device, Contexts2 <- Request

Init ==
    /\ Timer!Init
    /\ sent_req_list = [d \in Device |-> <<>>]
    /\ timer_id = [d \in Device |-> None]
    /\ renew = [d \in Device |-> None]
    /\ answered = FALSE
    /\ overlaps = 0 /\ late_erase = FALSE

Outstanding == UNION {ToSet(sent_req_list[d]) : d \in Device}

\* sent_req_list_SpinLock of the device can be taken.
Unlocked(d) == renew[d] = None

MV_MAX(a, b) == IF a >= b THEN a ELSE b

\* How long mv_add_timer waits for a hard disk's request.
FirstSeconds(r) == MV_MAX(Time_Out[r], DefaultSeconds)

\* Faulty variant, for the mutation runs: every send arms a timer.
NeedsTimerAlways(d) == TRUE

\* mv_add_timer arms a timer only if the device has none.
NeedsTimer(d) == timer_id[d] = None

\* prot_send_request up to the send: mv_add_timer.
mv_add_timer(d, r) ==
    /\ Unlocked(d)
    /\ DeviceOf[r] = d
    /\ r \notin Outstanding
    /\ Len(sent_req_list[d]) < queue_depth
    /\ IF NeedsTimer(d)
       THEN /\ Timer!AddRequest(FirstSeconds(r), d, r)
            /\ timer_id' = [timer_id EXCEPT ![d] = Timer!NextSlot]
       ELSE UNCHANGED <<timerVars, timer_id>>
    /\ sent_req_list' = [sent_req_list EXCEPT ![d] = Append(@, r)]
    /\ UNCHANGED <<renew, answered, historyVars>>

\* Faulty variant: the device's timer runs on.
mv_cancel_timer_kept(d) ==
    /\ timer_id' = [timer_id EXCEPT ![d] = None]
    /\ UNCHANGED timerVars

mv_cancel_timer(d) ==
    /\ Timer!CancelRequest(timer_id[d])
    /\ timer_id' = [timer_id EXCEPT ![d] = None]

\* The hardware answered the k-th request of the list: prot_clean_slot calls
\* mv_renew_timer.  For the oldest request the timer is cancelled and, if others
\* wait, the list stays locked until the timer for the new oldest one is armed.
mv_renew_timer(d, k) ==
    /\ Unlocked(d)
    /\ sent_req_list' = [sent_req_list EXCEPT ![d] = RemoveAt(@, k)]
    /\ IF k = 1
       THEN /\ mv_cancel_timer(d)
            /\ renew' = [renew EXCEPT ![d] =
                 IF Len(sent_req_list[d]) > 1 THEN Time_Out[sent_req_list[d][1]] ELSE None]
       ELSE UNCHANGED <<timerVars, timer_id, renew>>
    /\ IF \/ check.at \in {"due", "called"}
          \/ k = 1 /\ ~Timer!Cancellable(timer_id[d])
       THEN overlaps < MaxOverlap /\ overlaps' = overlaps + 1
       ELSE UNCHANGED overlaps
    /\ UNCHANGED <<answered, late_erase>>

\* Faulty variant: the id of the new timer is not kept.
mv_renew_timer_forget(d) ==
    /\ ~Unlocked(d)
    /\ Timer!AddRequest(renew[d], d, Head(sent_req_list[d]))
    /\ renew' = [renew EXCEPT ![d] = None]
    /\ UNCHANGED <<sent_req_list, timer_id, answered, historyVars>>

\* The rest of mv_renew_timer.  It waits as long as the request that has just
\* completed asked for, not the one the timer is for.
mv_renew_timer_arm(d) ==
    /\ ~Unlocked(d)
    /\ Timer!AddRequest(renew[d], d, Head(sent_req_list[d]))
    /\ timer_id' = [timer_id EXCEPT ![d] = Timer!NextSlot]
    /\ renew' = [renew EXCEPT ![d] = None]
    /\ UNCHANGED <<sent_req_list, answered, historyVars>>

-----------------------------------------------------------------------------
(***************************************************************************)
(* core_req_timeout(base = d, err_req = r), called by Timer_CheckRequest   *)
(* with what it read from the slot.                                        *)
(***************************************************************************)
TimedOut(d, r) ==
    /\ check.at = "called" /\ check.ctx1 = d /\ check.ctx2 = r
    /\ ~answered
    /\ answered' = TRUE

\* A security erase is given more time, without a look at the list.
ExtendErase(d, r) ==
    /\ TimedOut(d, r)
    /\ r \in EraseRequest
    /\ Timer!AddRequest(EraseSeconds, d, r)
    /\ timer_id' = [timer_id EXCEPT ![d] = Timer!NextSlot]
    /\ late_erase' = (late_erase \/ sent_req_list[d] = <<>> \/ Head(sent_req_list[d]) # r)
    /\ UNCHANGED <<sent_req_list, renew, overlaps>>

\* Nothing is outstanding: the timer is forgotten.
NothingSent(d, r) ==
    /\ TimedOut(d, r)
    /\ r \notin EraseRequest
    /\ Unlocked(d)
    /\ sent_req_list[d] = <<>>
    /\ timer_id' = [timer_id EXCEPT ![d] = None]
    /\ UNCHANGED <<timerVars, sent_req_list, renew, historyVars>>

\* Another request is the oldest one now: the routine returns.
NotTheOldest(d, r) ==
    /\ TimedOut(d, r)
    /\ r \notin EraseRequest
    /\ Unlocked(d)
    /\ sent_req_list[d] # <<>>
    /\ Head(sent_req_list[d]) # r
    /\ UNCHANGED <<timerVars, timer_id, sent_req_list, renew, historyVars>>

\* Faulty variant: no timer is armed for the next request.
GiveUpUnarmed(d, r) ==
    /\ TimedOut(d, r)
    /\ r \notin EraseRequest
    /\ Unlocked(d)
    /\ sent_req_list[d] # <<>>
    /\ Head(sent_req_list[d]) = r
    /\ sent_req_list' = [sent_req_list EXCEPT ![d] = Tail(@)]
    /\ timer_id' = [timer_id EXCEPT ![d] = None]
    /\ UNCHANGED <<timerVars, renew, historyVars>>

\* The oldest request is given up: its timer is forgotten, not cancelled, since
\* Timer_CheckRequest releases it; prot_reset_slot takes the request off the
\* list and mv_renew_timer arms a timer for the next one.
GiveUp(d, r) ==
    /\ TimedOut(d, r)
    /\ r \notin EraseRequest
    /\ Unlocked(d)
    /\ sent_req_list[d] # <<>>
    /\ Head(sent_req_list[d]) = r
    /\ sent_req_list' = [sent_req_list EXCEPT ![d] = Tail(@)]
    /\ IF Len(sent_req_list[d]) > 1
       THEN /\ Timer!AddRequest(Time_Out[r], d, sent_req_list[d][2])
            /\ timer_id' = [timer_id EXCEPT ![d] = Timer!NextSlot]
       ELSE /\ timer_id' = [timer_id EXCEPT ![d] = None]
            /\ UNCHANGED timerVars
    /\ UNCHANGED <<renew, historyVars>>

core_req_timeout(d, r) ==
    ExtendErase(d, r) \/ NothingSent(d, r) \/ NotTheOldest(d, r) \/ GiveUp(d, r)

\* Timer_CheckRequest between two routines, and its release after one.
Scan ==
    /\ Timer!Tick \/ Timer!LookAtSlot \/ Timer!ReadContext1 \/ Timer!ReadContext2
    /\ UNCHANGED <<sent_req_list, timer_id, renew, answered, historyVars>>

Return ==
    /\ answered
    /\ Timer!Return
    /\ answered' = FALSE
    /\ UNCHANGED <<sent_req_list, timer_id, renew, historyVars>>

Softirq ==
    Scan \/ Return \/ \E d \in Device, r \in Request : core_req_timeout(d, r)

Next ==
    \/ \E d \in Device :
         \/ \E r \in Request : mv_add_timer(d, r)
         \/ \E k \in 1..Len(sent_req_list[d]) : mv_renew_timer(d, k)
         \/ mv_renew_timer_arm(d)
    \/ Softirq

Spec == Init /\ [][Next]_vars

\* The softirq runs to its end and comes back every second; a spinlock is held
\* for a bounded time.  The hardware need not answer.
FairSpec ==
    /\ Spec
    /\ WF_vars(Softirq)
    /\ \A d \in Device : WF_vars(mv_renew_timer_arm(d))

-----------------------------------------------------------------------------
(***************************************************************************)
(* Correctness.                                                            *)
(***************************************************************************)

TypeOK ==
    /\ Timer!TimerTypeOK
    /\ sent_req_list \in [Device -> Seq(Request)]
    /\ timer_id \in [Device -> Timer!Slots \cup {None}]
    /\ renew \in [Device -> 0..MaxUnits \cup {None}]
    /\ answered \in BOOLEAN
    /\ overlaps \in 0..MaxOverlap /\ late_erase \in BOOLEAN

\* The timer that device d relies on is armed, or is the one being handled.
Watched(d) ==
    /\ timer_id[d] # None
    /\ Running_Requests[timer_id[d]].Valid
    /\ Running_Requests[timer_id[d]].ctx1 = d

\* The assertions of mv_add_timer, mv_renew_timer and core_req_timeout on
\* timer_id: with its list unlocked, a device has a timer id exactly when it
\* has outstanding requests, and the timer, if it is still the device's, is for
\* the oldest of them.  It also says that Timer_AddRequest never runs out of
\* slots, "shouldn't happen" in hba_timer.c.  It survives completions at any
\* moment, up to one for each spare slot: the timer of an erase that completed
\* too late is extended for ever and keeps its slot.  Only the extension of an
\* erase that is over writes a stale id.
TimerForOldest ==
    /\ TypeOK
    /\ \A d \in Device : Unlocked(d) /\ ~late_erase =>
        /\ timer_id[d] = None <=> sent_req_list[d] = <<>>
        /\ Watched(d) =>
             Running_Requests[timer_id[d]].ctx2 = Head(sent_req_list[d])

\* What the comment in core_req_timeout is after: a device with outstanding
\* requests always has a running timer of its own, so that none of them can be
\* lost for good.
TimerNeverMissing ==
    \A d \in Device : Unlocked(d) /\ sent_req_list[d] # <<>> => Watched(d)

\* Only a completion that comes too late to cancel its timer, or falls into the
\* handling of a due one, can leave a device unwatched; completions at any other
\* moment, timeouts, re-used slots and extended erases cannot.
WatchedUnlessOverlapped == overlaps = 0 => TimerNeverMissing

\* Nor does a slot carry a timer nobody knows of, short of such a completion.
NoOrphanTimer ==
    overlaps = 0 => \A i \in Timer!Slots :
        Running_Requests[i].Valid =>
            \/ \E d \in Device : timer_id[d] = i
            \/ check.at = "called" /\ answered /\ check.i = i

\* "MV_ASSERT(first_req == err_req)", commented out in core_req_timeout: it is called
\* with the device's present timer and for its oldest request.  So no request is
\* given up or extended because of a timer of its earlier life, before it completed
\* and was sent again: it has had the time it asked for.  Short of a completion
\* that overlaps the firing.
TimesOutOldest ==
    [][\A d \in Device, r \in Request : overlaps = 0 /\ core_req_timeout(d, r) =>
         /\ timer_id[d] = check.i
         /\ sent_req_list[d] # <<>> /\ Head(sent_req_list[d]) = r]_vars

\* An erase is the oldest request of r's device.
BehindErase(r) ==
    \E d \in Device : /\ r \in ToSet(sent_req_list[d])
                      /\ Head(sent_req_list[d]) \in EraseRequest

\* Even if the hardware is silent, every request sent is answered or given up,
\* or gets stuck behind a security erase, which has its time extended for ever;
\* short of a completion that comes too late.
NoRequestStuck ==
    \A r \in Request : r \in Outstanding ~> r \notin Outstanding \/ BehindErase(r) \/ overlaps > 0
=============================================================================
