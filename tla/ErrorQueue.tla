----------------------------- MODULE ErrorQueue -----------------------------
(***************************************************************************)
(* The error queue and the recovery of disks.                              *)
(*                                                                         *)
(* A request that failed or timed out is put on core->error_queue and      *)
(* counted in its device's error_count; while a port has such a request it *)
(* is sent no other.  core_handle_error_queue walks the queue and lets the *)
(* device's error handler start a recovery, a state machine that sends its *)
(* own requests (resets, a retry of the failed command) and goes on in     *)
(* their completion routine or in a timer routine.  In the end the request *)
(* is given back, or the device is frozen or set down.                     *)
(*                                                                         *)
(* The walk, the completion routines of recovery requests, the timer       *)
(* routines and hot plug hold the global lock and exclude each other.  The *)
(* completion of ordinary requests is excluded by the walk only, which     *)
(* holds error_queue_SpinLock.                                             *)
(*                                                                         *)
(* Port multipliers have a recovery of their own, see PmRecovery.          *)
(***************************************************************************)
EXTENDS Naturals, Sequences, SequencesExt, FiniteSets

CONSTANTS
    Request, Device, DeviceOf,
    KindsOf,        \* the instances: functions from Device to kinds
    MaxShort,       \* how often a device lacks an internal request
    LoneShort,      \* whether only one with no other failed request does
    Unplugged,      \* the devices somebody may pull
    QuietUnplug,    \* whether a device is not pulled while its recovery waits
                    \* for an internal request or its timer has just expired
    None

\* sata, atapi, ssp: alone on a port; stp, sspx: SATA and SAS behind an expander
Kind == {"sata", "atapi", "stp", "ssp", "sspx"}

\* The requests of the recovery.
EhRequest == {"port_reset", "phy_reset", "read_log", "sense", "abort_task", "lu_reset",
              "device_reset", "retry"}

ASSUME RequestAssumption == IsFiniteSet(Request) /\ DeviceOf \in [Request -> Device]
ASSUME KindAssumption == KindsOf \subseteq [Device -> Kind]
ASSUME NoneAssumption == None \notin Request \cup EhRequest \cup {"timer", "expired"}
ASSUME BoundAssumption == MaxShort \in Nat /\ LoneShort \in BOOLEAN /\ QuietUnplug \in BOOLEAN

VARIABLES
    kind,           \* per device
    where,          \* per request: waiting, out (sent), error, done
    status,         \* per request: how it failed
    hard_reset_cnt, \* per request
    given,          \* per request: how often it was given back
    error_queue,
    walk,           \* core_handle_error_queue: whether it runs, and old_req
    err_ctx,        \* per device: struct _error_context
    eh,             \* per device: the outstanding recovery request or timer
    device,         \* per device: ok, frozen, gone
    short           \* how often an internal request was missing

reqVars == <<where, status, hard_reset_cnt, given>>
devVars == <<err_ctx, eh, device>>
vars == <<kind, reqVars, error_queue, walk, devVars, short>>

NoError == [state |-> "none", eh_type |-> "none", eh_state |-> "none",
            scsi_status |-> "success", error_req |-> None, error_count |-> 0]

Init ==
    /\ kind \in KindsOf
    /\ where = [r \in Request |-> "waiting"]
    /\ status = [r \in Request |-> "success"]
    /\ hard_reset_cnt = [r \in Request |-> 0]
    /\ given = [r \in Request |-> 0]
    /\ error_queue = <<>>
    /\ walk = [on |-> FALSE, old_req |-> None]
    /\ err_ctx = [d \in Device |-> NoError]
    /\ eh = [d \in Device |-> None]
    /\ device = [d \in Device |-> "ok"]
    /\ short = 0

BehindExp(d) == kind[d] \in {"stp", "sspx"}
SamePort(d, e) == d = e \/ (BehindExp(d) /\ BehindExp(e))
Ssp(d) == kind[d] \in {"ssp", "sspx"}
Of(d) == {r \in Request : DeviceOf[r] = d}
Out(d) == {r \in Of(d) : where[r] = "out"}

-----------------------------------------------------------------------------
(***************************************************************************)
(* The state machines.  What one does in a state, given whether the last   *)
(* recovery request succeeded, is one of                                   *)
(*   Send(q, s)   send recovery request q and go to state s, if there is   *)
(*                an internal request; Abort first takes back what the     *)
(*                device has been sent                                     *)
(*   Wait(s)      a ten second timer, then state s                         *)
(*   End(x)       give the failed request back with status x               *)
(*   Freeze       End("error"), and the device is sent nothing any more    *)
(*   SetDown      End("nodev"), and the device is removed                  *)
(*   Requeue      queue the request again, as one that timed out           *)
(***************************************************************************)
Step(do, arg, next, abort) == [do |-> do, arg |-> arg, next |-> next, abort |-> abort]
Send(q, s) == Step("send", q, s, FALSE)
Abort(step) == [step EXCEPT !.abort = TRUE]
Wait(s) == Step("wait", "success", s, FALSE)
End(x) == Step("end", x, "none", FALSE)
Freeze == Step("freeze", "error", "none", FALSE)
SetDown == Step("down", "nodev", "none", FALSE)
Requeue == Step("requeue", "timeout", "none", FALSE)

ResetOf(d) == IF kind[d] = "stp" THEN "phy_reset" ELSE "port_reset"

\* sata_timeout_state_machine after the hard reset.
SataRetry(ok, n) == IF ok /\ n < 3 THEN Send("retry", "reset") ELSE Freeze

\* Faulty variant: the reset goes out while the device still works.
SataTimeoutBusy(d, st, ok, n) ==
    CASE st = "none" -> Send(ResetOf(d), "reset_wait")
      [] st = "reset_wait" /\ ok -> Wait("reset")
      [] OTHER -> SataRetry(ok, n)
\* sata_timeout_state_machine.  The soft reset states are not entered.
SataTimeout(d, st, ok, n) ==
    CASE st = "none" -> Abort(Send(ResetOf(d), "reset_wait"))
      [] st = "reset_wait" /\ ok -> Wait("reset")
      [] OTHER -> SataRetry(ok, n)

\* sata_media_error_state_machine.
SataMedia(d, st, ok, ncq) ==
    CASE st = "none" ->
            Abort(CASE kind[d] = "stp" -> Send("phy_reset", "reset_wait")
                    [] kind[d] = "sata" /\ ncq -> Send("read_log", "read_log")
                    [] OTHER -> Requeue)
      [] st = "read_log" -> IF ok THEN Send("retry", "retry") ELSE Requeue
      [] st = "reset_wait" -> IF ok THEN Wait("after_reset") ELSE End("error")
      [] st = "after_reset" /\ ok -> Send("retry", "retry")
      [] OTHER -> End("error")

\* atapi_media_error_state_machine.
AtapiMedia(st, ok) ==
    CASE st = "none" -> Send("sense", "sense")
      [] OTHER -> End(IF ok THEN "sense" ELSE "error")

\* Faulty variant: a disk that timed out is set down at once.
SspTimeoutDown(d, st, ok) == SetDown

\* ssp_timeout_state_machine of a direct disk: each step is stronger than the one
\* before, whether its request failed or the retry after it.
SspEscalate(st) ==
    CASE st = "abort_task" -> Send("lu_reset", "lu_reset")
      [] st = "lu_reset" -> Abort(Send("device_reset", "device_reset"))
      [] st = "device_reset" -> Send("port_reset", "port_reset")
SspLast(ok) == IF ok THEN Send("retry", "port_reset") ELSE SetDown

\* ssp_timeout_state_machine.
SspTimeout(d, st, ok) ==
    CASE st = "none" -> IF BehindExp(d) THEN Abort(Send("phy_reset", "reset_wait"))
                                        ELSE Send("abort_task", "abort_task")
      [] st = "reset_wait" -> IF ok THEN Wait("port_reset") ELSE SetDown
      [] st = "port_reset" -> SspLast(ok)
      [] OTHER -> SspEscalate(st)

\* ssp_media_error_state_machine.
SspMedia(d, st, ok) ==
    CASE st = "none" -> IF BehindExp(d) THEN Abort(Send("phy_reset", "reset_wait"))
                                        ELSE Send("retry", "retry")
      [] st = "reset_wait" -> IF ok THEN Wait("after_reset") ELSE End("error")
      [] st = "after_reset" -> Send("retry", "retry")
      [] st = "retry" -> End("error")

\* What sata_error_handler and ssp_error_handler choose between, in context c.
Machine(d, c, ok) ==
    IF Ssp(d)
    THEN IF c.eh_type = "timeout" THEN SspTimeout(d, c.eh_state, ok)
                                  ELSE SspMedia(d, c.eh_state, ok)
    ELSE IF c.eh_type = "timeout"
    THEN SataTimeout(d, c.eh_state, ok, hard_reset_cnt[c.error_req])
    ELSE IF kind[d] = "atapi" THEN AtapiMedia(c.eh_state, ok)
    ELSE SataMedia(d, c.eh_state, ok, status[c.error_req] = "ncq")

-----------------------------------------------------------------------------
(***************************************************************************)
(* What the machines call.                                                 *)
(***************************************************************************)
GiveBack(R) ==
    /\ where' = [r \in Request |-> IF r \in R THEN "done" ELSE where[r]]
    /\ given' = [r \in Request |-> given[r] + (IF r \in R THEN 1 ELSE 0)]

\* What core_complete_error_req makes of the error context.
completed(c, x) ==
    [c EXCEPT !.eh_type = "none", !.eh_state = "none", !.error_req = None,
              !.error_count = @ - 1,
              !.state = IF x = "success" /\ @ = "handling" THEN "handled" ELSE "none"]

\* core_complete_error_req; eh_timer is cancelled.
core_complete_error_req(d, c, x, queue) ==
    /\ GiveBack({c.error_req})
    /\ err_ctx' = [err_ctx EXCEPT ![d] = completed(c, x)]
    /\ eh' = [eh EXCEPT ![d] = None]
    /\ error_queue' = queue
    /\ UNCHANGED <<status, hard_reset_cnt, device, short>>

\* Faulty variant: the request under recovery is completed by hand although its
\* recovery request has.
pal_set_down_disk_twice(d, c, queue) ==
    /\ GiveBack(Of(d))
    /\ error_queue' = SelectSeq(queue, LAMBDA r : r \notin Of(d))
    /\ err_ctx' = [err_ctx EXCEPT ![d] = NoError]
    /\ eh' = [eh EXCEPT ![d] = None]
    /\ device' = [device EXCEPT ![d] = "gone"]
    /\ UNCHANGED <<status, hard_reset_cnt, short>>

\* core_complete_device_waiting_queue: how often it gives r back with NO_DEVICE.  What
\* was sent or waits, the error queue, and the request under recovery, by its
\* recovery request or else by core_complete_error_req; that is called too when the
\* request is on the error queue and has just been given back.
core_complete_device_waiting_queue(r, c, queue) ==
    IF where[r] = "done" THEN 0
    ELSE IF r = c.error_req /\ r \in ToSet(queue) THEN 2 ELSE 1

\* pal_complete_device_error_queue looks at each entry once: d's are given back, the
\* others go round to the tail.
pal_complete_device_error_queue(d, queue) ==
    LET left[i \in 0..Len(queue)] ==
            IF i = 0 THEN <<>>
            ELSE IF DeviceOf[queue[i]] = d THEN left[i - 1]
            ELSE Append(left[i - 1], queue[i])
    IN  left[Len(queue)]

\* pal_set_disk_offline and pal_set_down_disk, which also removes the device.
pal_set_down_disk(d, c, queue) ==
    /\ where' = [r \in Request |-> IF r \in Of(d) THEN "done" ELSE where[r]]
    /\ given' = [r \in Request |-> given[r] +
            (IF r \in Of(d) THEN core_complete_device_waiting_queue(r, c, queue) ELSE 0)]
    /\ error_queue' = pal_complete_device_error_queue(d, queue)
    /\ err_ctx' = [err_ctx EXCEPT ![d] = NoError]
    /\ eh' = [eh EXCEPT ![d] = IF @ = "expired" THEN @ ELSE None]
    /\ device' = [device EXCEPT ![d] = "gone"]
    /\ UNCHANGED <<status, hard_reset_cnt, short>>

\* pal_abort_device_running_req: core_push_running_request_back puts each request at
\* the head of the waiting queue.
pal_abort_device_running_req(d) ==
    where' = [r \in Request |-> IF r \in Out(d) THEN "waiting" ELSE where[r]]

\* One step of d's machine, in context c, with the error queue as given.  Without an
\* internal request (get_intl_req_resource) the context and the queue become those
\* of the last two arguments.
Run(d, c, ok, queue, short_ctx, short_queue) ==
    LET m == Machine(d, c, ok)
        r == c.error_req
        Aborted == IF m.abort THEN pal_abort_device_running_req(d) ELSE UNCHANGED where
    IN  \/ /\ m.do = "send"
           /\ Aborted
           /\ err_ctx' = [err_ctx EXCEPT ![d] = [c EXCEPT !.eh_state = m.next]]
           /\ eh' = [eh EXCEPT ![d] = m.arg]
           /\ hard_reset_cnt' =
                IF m.arg = "retry" /\ m.next = "reset"
                THEN [hard_reset_cnt EXCEPT ![r] = @ + 1] ELSE hard_reset_cnt
           /\ error_queue' = queue
           /\ UNCHANGED <<status, given, device, short>>
        \/ /\ m.do = "send" /\ short < MaxShort
           /\ LoneShort => c.error_count = 1
           /\ Aborted
           /\ short' = short + 1
           /\ err_ctx' = [err_ctx EXCEPT ![d] = short_ctx]
           /\ error_queue' = short_queue
           /\ eh' = [eh EXCEPT ![d] = None]
           /\ UNCHANGED <<status, hard_reset_cnt, given, device>>
        \/ /\ m.do = "wait"
           /\ err_ctx' = [err_ctx EXCEPT ![d] = [c EXCEPT !.eh_state = m.next]]
           /\ eh' = [eh EXCEPT ![d] = "timer"]
           /\ error_queue' = queue
           /\ UNCHANGED <<reqVars, device, short>>
        \/ m.do = "end" /\ core_complete_error_req(d, c, m.arg, queue)
        \/ /\ m.do = "freeze"
           /\ GiveBack({r})
           /\ err_ctx' = [err_ctx EXCEPT ![d] = completed(c, m.arg)]
           /\ eh' = [eh EXCEPT ![d] = None]
           /\ device' = [device EXCEPT ![d] = "frozen"]
           /\ error_queue' = queue
           /\ UNCHANGED <<status, hard_reset_cnt, short>>
        \/ m.do = "down" /\ pal_set_down_disk(d, c, queue)
        \/ /\ m.do = "requeue"
           /\ Aborted
           /\ status' = [status EXCEPT ![r] = "timeout"]
           /\ err_ctx' = [err_ctx EXCEPT ![d] =
                            [NoError EXCEPT !.scsi_status = "timeout", !.error_count = c.error_count]]
           /\ eh' = [eh EXCEPT ![d] = None]
           /\ error_queue' = <<r>> \o queue
           /\ UNCHANGED <<hard_reset_cnt, given, device, short>>

-----------------------------------------------------------------------------
(***************************************************************************)
(* Ordinary requests.                                                      *)
(***************************************************************************)

\* port_has_error_req.
port_has_error_req(d) == \E e \in Device : SamePort(d, e) /\ err_ctx[e].error_count > 0

\* prot_send_request: a request is let in while its port has no error.  An ATAPI
\* device is sent one at a time.  A frozen or removed device is sent nothing.
prot_send_request(r) ==
    LET d == DeviceOf[r] IN
    /\ ~walk.on /\ where[r] = "waiting"
    /\ \/ /\ device[d] = "ok" /\ ~port_has_error_req(d)
          /\ kind[d] = "atapi" => Out(d) = {}
          /\ where' = [where EXCEPT ![r] = "out"]
          /\ UNCHANGED given
       \/ /\ device[d] = "gone" \/ (device[d] = "frozen" /\ ~port_has_error_req(d))
          /\ GiveBack({r})
    /\ UNCHANGED <<kind, status, hard_reset_cnt, error_queue, walk, devVars, short>>

Succeed(r) ==
    /\ where[r] = "out"
    /\ GiveBack({r})
    /\ UNCHANGED <<kind, status, hard_reset_cnt, error_queue, walk, devVars, short>>

\* prot_process_cmpl_req, core_req_timeout: core_queue_error_req of a new error.
core_queue_error_req(r, x) ==
    LET d == DeviceOf[r] IN
    /\ ~walk.on /\ where[r] = "out"
    /\ x = "ncq" => kind[d] = "sata"
    /\ where' = [where EXCEPT ![r] = "error"]
    /\ status' = [status EXCEPT ![r] = x]
    /\ err_ctx' = [err_ctx EXCEPT ![d].error_count = @ + 1]
    /\ error_queue' = Append(error_queue, r)
    /\ UNCHANGED <<kind, hard_reset_cnt, given, walk, eh, device, short>>

-----------------------------------------------------------------------------
(***************************************************************************)
(* core_handle_error_queue.                                                *)
(***************************************************************************)
WalkBegin ==
    /\ ~walk.on /\ error_queue # <<>>
    /\ walk' = [on |-> TRUE, old_req |-> None]
    /\ UNCHANGED <<kind, reqVars, error_queue, devVars, short>>

\* port_is_running_error_handling.
port_is_running_error_handling(d) ==
    \E e \in Device : SamePort(d, e) /\ err_ctx[e].state = "handling"

Marked(r) == [walk EXCEPT !.old_req = IF @ = None THEN r ELSE @]

\* The request is left for a later walk: its port is busy, or its SAS disk still
\* has ordinary requests to finish.
PassOver(r, d) ==
    /\ \/ port_is_running_error_handling(d)
       \/ err_ctx[d].state # "handled" /\ Ssp(d) /\ Out(d) # {}
    /\ error_queue' = Append(Tail(error_queue), r)
    /\ walk' = Marked(r)
    /\ UNCHANGED <<reqVars, devVars, short>>

\* The device has been recovered for another request: this one is sent again.
SendAgain(r, d) ==
    /\ ~port_is_running_error_handling(d) /\ err_ctx[d].state = "handled"
    /\ where' = [where EXCEPT ![r] = "waiting"]
    /\ error_queue' = Tail(error_queue)
    /\ err_ctx' = [err_ctx EXCEPT ![d].error_count = @ - 1,
                        ![d].state = IF err_ctx[d].error_count = 1 THEN "none" ELSE @]
    /\ UNCHANGED <<status, hard_reset_cnt, given, eh, device, walk, short>>

\* The context the error handler starts or resumes with.  ssp_error_handler does
\* not note the status of a new request.
Begun(r, d) ==
    LET c == err_ctx[d] IN
    IF c.eh_type # "none" THEN [c EXCEPT !.state = "handling"]
    ELSE [c EXCEPT !.state = "handling", !.error_req = r, !.eh_state = "none",
                   !.eh_type = IF status[r] = "timeout" THEN "timeout" ELSE "media",
                   !.scsi_status = IF Ssp(d) THEN @ ELSE status[r]]

Resumed(d) == err_ctx[d].eh_type # "none" /\ err_ctx[d].scsi_status = "success"

NoResource(r, d) == [Begun(r, d) EXCEPT !.state = "none"]

Recover(r, d) ==
    /\ ~port_is_running_error_handling(d) /\ err_ctx[d].state # "handled"
    /\ ~(Ssp(d) /\ Out(d) # {})
    /\ Run(d, Begun(r, d), Resumed(d), Tail(error_queue),
           NoResource(r, d), Append(Tail(error_queue), r))
    /\ walk' = IF short' = short THEN walk ELSE Marked(r)

WalkStep ==
    /\ walk.on /\ UNCHANGED kind
    /\ IF error_queue = <<>> \/ Head(error_queue) = walk.old_req
       THEN /\ walk' = [on |-> FALSE, old_req |-> None]
            /\ UNCHANGED <<reqVars, error_queue, devVars, short>>
       ELSE LET r == Head(error_queue) d == DeviceOf[r] IN
            PassOver(r, d) \/ SendAgain(r, d) \/ Recover(r, d)

-----------------------------------------------------------------------------
(***************************************************************************)
(* Completion routines and timers.                                         *)
(***************************************************************************)
\* Faulty variant: the recovery is not marked as stopped (as the SAS routines do).
PushedBack_stuck(d, c, x) == [c EXCEPT !.scsi_status = x]
\* What is left in the context of a recovery that lacks an internal request: the
\* SATA routines clear the state, the SAS ones do not.
PushedBack(d, c, x) ==
    IF Ssp(d) THEN [c EXCEPT !.scsi_status = x]
    ELSE [c EXCEPT !.scsi_status = x, !.state = "none"]

\* Faulty variant: the request is not put on the queue again.
Continue_lost(d, c, x) ==
    Run(d, c, x = "success", error_queue, PushedBack(d, c, x), error_queue)
\* core_queue_error_req of an error that is not new: the request goes to the head.
Continue(d, c, x) ==
    Run(d, c, x = "success", error_queue, PushedBack(d, c, x),
        IF Machine(d, c, x = "success").do = "send"
        THEN <<c.error_req>> \o error_queue ELSE error_queue)

\* A timeout in the media machine starts the timeout machine.
TimedOut(c, x) == IF x = "timeout" /\ c.eh_type = "media"
                  THEN [c EXCEPT !.eh_type = "timeout", !.eh_state = "none"] ELSE c

\* What the completion routine decides before it runs the machine.
Ends(d, q, x) ==
    \/ x = "nodev"
    \/ q = "read_log" /\ x = "success"
    \/ q = "retry" /\ x = "success"
    \/ q = "retry" /\ x = "sense" /\ (Ssp(d) \/ err_ctx[d].eh_type = "timeout")

EndsWith(q, x) == IF q = "read_log" THEN (IF x = "nodev" THEN x ELSE "sense") ELSE x

\* sata_error_handling_callback, ssp_error_handling_callback: recovery request eh[d]
\* comes back with status x; "gone" is a port reset after which the phy is not ready.
error_handling_callback(d, x) ==
    LET c == err_ctx[d] q == eh[d] IN
    /\ ~walk.on /\ q \in EhRequest
    /\ x = "sense" => q = "retry"
    /\ x = "gone" => q = "port_reset"
    /\ IF x = "gone" THEN pal_set_down_disk(d, c, error_queue)
       ELSE IF Ends(d, q, x) THEN core_complete_error_req(d, c, EndsWith(q, x), error_queue)
       ELSE Continue(d, TimedOut(c, x), x)
    /\ UNCHANGED <<kind, walk>>

\* Timer_CheckRequest has seen that the timer is due and calls the routine, which
\* waits for the global lock.
Expire(d) ==
    /\ eh[d] = "timer"
    /\ eh' = [eh EXCEPT ![d] = "expired"]
    /\ UNCHANGED <<kind, reqVars, error_queue, walk, err_ctx, device, short>>

\* sata_wait_hard_reset, ssp_wait_hard_reset.
wait_hard_reset(d) ==
    /\ ~walk.on /\ eh[d] = "expired"
    /\ err_ctx[d].eh_type # "none"
    /\ Continue(d, err_ctx[d], "success")
    /\ UNCHANGED <<kind, walk>>

\* A direct disk is pulled, or its expander reports it gone.
Unplug(d) ==
    /\ ~walk.on /\ d \in Unplugged /\ device[d] # "gone"
    /\ QuietUnplug => err_ctx[d].error_req \notin ToSet(error_queue) /\ eh[d] # "expired"
    /\ pal_set_down_disk(d, err_ctx[d], error_queue)
    /\ UNCHANGED <<kind, walk>>

Next ==
    \/ WalkBegin \/ WalkStep
    \/ \E r \in Request : \/ prot_send_request(r) \/ Succeed(r)
                          \/ \E x \in {"timeout", "error", "ncq"} : core_queue_error_req(r, x)
    \/ \E d \in Device :
        \/ \E x \in {"success", "error", "sense", "timeout", "nodev", "gone"} :
                error_handling_callback(d, x)
        \/ Expire(d) \/ wait_hard_reset(d) \/ Unplug(d)

\* The queues are pushed again and again and the walk goes on; a recovery request is
\* answered or times out; timers expire.  Who waits for the global lock gets it.
Fairness ==
    /\ WF_vars(WalkBegin) /\ WF_vars(WalkStep)
    /\ \A r \in Request :
        WF_vars(Succeed(r) \/ \E x \in {"timeout", "error", "ncq"} : core_queue_error_req(r, x))
    /\ \A d \in Device :
        /\ SF_vars(\E x \in {"success", "error", "sense", "timeout", "nodev", "gone"} :
                        error_handling_callback(d, x))
        /\ WF_vars(Expire(d)) /\ SF_vars(wait_hard_reset(d))

Spec == Init /\ [][Next]_vars /\ Fairness

-----------------------------------------------------------------------------
(***************************************************************************)
(* Properties.                                                             *)
(***************************************************************************)

\* The variables have their types.
TypeOK ==
    /\ kind \in KindsOf
    /\ where \in [Request -> {"waiting", "out", "error", "done"}]
    /\ status \in [Request -> {"success", "timeout", "error", "ncq"}]
    /\ given \in [Request -> 0..2]
    /\ \A d \in Device :
        /\ err_ctx[d].error_count \in 0..Cardinality(Of(d))
        /\ err_ctx[d].state \in {"none", "handling", "handled"}
        /\ err_ctx[d].eh_type \in {"none", "timeout", "media"}
        /\ err_ctx[d].error_req \in Request \cup {None}
        /\ eh[d] \in EhRequest \cup {"timer", "expired", None}
        /\ device[d] \in {"ok", "frozen", "gone"}
    /\ short \in 0..MaxShort

Recovering(d) == eh[d] # None

\* No failed request is lost or recovered twice at a time: it is on the error queue
\* once, or it is the one its device's outstanding recovery request or timer is for,
\* and a recovery has such a request.  error_count, which holds ordinary requests back,
\* counts those not given back or sent again; in particular it never wraps.
NoErrorLost ==
    /\ TypeOK
    /\ \A r \in Request : where[r] = "error" <=>
        (r \in ToSet(error_queue)) # (Recovering(DeviceOf[r]) /\ err_ctx[DeviceOf[r]].error_req = r)
    /\ IsInjective(error_queue)
    /\ \A d \in Device :
        /\ Recovering(d) => err_ctx[d].error_req # None
        /\ err_ctx[d].error_count = Cardinality({r \in Of(d) : where[r] = "error"})

\* The devices of a port are recovered one after the other, and while a device is
\* reset or a request retried, the device works on nothing else.
RecoversAlone ==
    \A d \in Device : Recovering(d) =>
        /\ Out(d) = {}
        /\ \A e \in Device \ {d} : SamePort(d, e) => ~Recovering(e)

\* Each request is given back once, however its recovery ends and whoever pulls the
\* device in the meantime.
GivenBackOnce == \A r \in Request : given[r] = IF where[r] = "done" THEN 1 ELSE 0

\* The walk removes no device: that would take error_queue_SpinLock, which it holds.
NoSetDownInWalk ==
    [][walk.on => \A d \in Device : device'[d] = "gone" => device[d] = "gone"]_vars

\* A SAS device whose recovery lacked an internal request half way.  Its failed request
\* is on the error queue again, but the routines above leave the state HANDLING, and
\* the walk passes over the whole port for good.
Abandoned(d) == Ssp(d) /\ err_ctx[d].state = "handling" /\ eh[d] = None

\* Each failed request is given back or sent again; again and again none is left.  In
\* particular the walk ends, although it puts back what it cannot handle, and every
\* recovery of a SATA or ATAPI device that lacks an internal request is resumed.  That
\* of a SAS device is resumed if it lacks the first one; later it is abandoned, and
\* the failed requests of its port, of that port alone, stay where they are.
EveryErrorEnds ==
    []<>(\A r \in Request : where[r] = "error" =>
            \E d \in Device : SamePort(d, DeviceOf[r]) /\ Abandoned(d))

=============================================================================
