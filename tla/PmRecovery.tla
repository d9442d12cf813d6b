----------------------------- MODULE PmRecovery -----------------------------
(***************************************************************************)
(* Recovery of a disk behind a port multiplier (PM).                       *)
(*                                                                         *)
(* A request that timed out starts a machine of two levels.  The machine   *)
(* of the disk resets it by soft reset, then by its PM port, then resets   *)
(* the whole PM and brings its ports up again; after each it retries the   *)
(* request, and at the end sets disk or PM down.  The two middle steps run *)
(* the machine of the PM, whose requests are PM register accesses and soft *)
(* resets of any of the disks.  Only one disk of a PM can be in recovery;  *)
(* the PM's error context says which.                                      *)
(*                                                                         *)
(* The queue and its walk are ErrorQueue's; here a step of the walk takes  *)
(* the head of the queue when no disk of the port is being handled.        *)
(***************************************************************************)
EXTENDS Naturals, Sequences, SequencesExt, FiniteSets

CONSTANTS
    NumPorts, Disk,
    MaxShort,       \* how often an internal request is missing
    MaxPull         \* how many disks are pulled while a recovery goes on

\* core_pm.c:213: no more than CORE_MAX_DEVICE_PER_PM.
ASSUME PortAssumption == NumPorts \in 1 .. 5 /\ Disk \subseteq 0 .. NumPorts - 1
ASSUME BoundAssumption == MaxShort \in Nat /\ MaxPull \in Nat

VARIABLES
    disks,          \* pm->devices: the ports with a disk
    pm_up,          \* whether the PM has not been set down
    where,          \* per disk, its request: waiting, out, error, done
    error_queue,    \* the disks whose request is on the error queue
    err_ctx,        \* per disk
    pm_ctx,         \* the error context of the PM
    eh,             \* the outstanding recovery request or timer
    sig,            \* ports whose signature has arrived since the phy was looked at
    asynotify,      \* whether the PM reports changes of its ports
    looked,         \* ports looked at since the PM was reset
    short, pulled,  \* counts
    lapses          \* "pushed": a request was pushed back; "saved": pm_eh_wait, lacking an
                    \* internal request, has saved a failure as a success

diskVars == <<disks, pm_up, where>>
ctxVars == <<err_ctx, pm_ctx, eh>>
vars == <<diskVars, error_queue, ctxVars, sig, asynotify, looked, short, pulled, lapses>>

Port == 0 .. NumPorts - 1
NoPort == 255
Idle == "idle"      \* an eh_type of EH_TYPE_NONE

NoError == [state |-> "none", eh_state |-> Idle, ok |-> FALSE, error_count |-> 0]
PmFree == [state |-> "none", eh_state |-> "none", error_port |-> NoPort, active |-> NoPort]
Nothing == [do |-> "none", at |-> NoPort]

Init ==
    /\ disks = Disk /\ pm_up = TRUE
    /\ where = [d \in Disk |-> "waiting"]
    /\ error_queue = <<>>
    /\ err_ctx = [d \in Disk |-> NoError]
    /\ pm_ctx = PmFree
    /\ eh = Nothing
    /\ sig = {} /\ asynotify = "on" /\ looked = Port
    /\ short = 0 /\ pulled = 0 /\ lapses = {}

Recovering(d) == err_ctx[d].eh_state # Idle
Handling == {d \in disks : err_ctx[d].state = "handling"}

-----------------------------------------------------------------------------
(***************************************************************************)
(* The machines.  A step sends a request or starts a timer ("do", for port *)
(* "at"), or does neither ("again": the failed request goes back to the    *)
(* error queue, which resumes the machine), or ends the recovery.  It      *)
(* leaves the disk's machine in eh, the PM's in pm and the port worked on  *)
(* in active; a disk found gone is in lost, what is aborted first in       *)
(* abort.  Without an internal request the disk's machine stays in here.   *)
(***************************************************************************)
Step(do, at, e, p, a) ==
    [do |-> do, at |-> at, eh |-> e, pm |-> p, active |-> a, lost |-> {}, abort |-> {}, here |-> e]

\* pm_eh_make_init_ports_reqs, ports brought up one after the other: the next one.
NextPort(e, a) ==
    IF a + 1 >= NumPorts THEN Step("again", NoPort, e, "enable_asynotify", NoPort)
                         ELSE Step("again", NoPort, e, "check_phy_rdy", a + 1)

\* The register writes to each port in turn, then to state next.
EachPort(e, state, next, a) ==
    IF a + 1 = NumPorts THEN Step("reg", NoPort, e, next, 0) ELSE Step("reg", NoPort, e, state, a + 1)

\* PM_EH_CHECK_PHY_RDY_DONE.  reset: one disk's port is reset, not all of them.
PhyChecked(d, e, a, reset, ready) ==
    IF ready THEN Step("reg", NoPort, e, "soft_reset_1", a)
    ELSE IF reset THEN Step("again", NoPort, e, "enable_asynotify", a)
    ELSE [NextPort(e, a) EXCEPT !.lost = ({a} \cap disks) \ {d}]

\* PM_EH_SIG_DONE, which runs into PM_EH_ENABLE_ASYNOTIFY whatever it decided.
SigDone(e, a, reset) ==
    Step("asynotify", NoPort, e, "done", IF reset THEN a ELSE NextPort(e, a).active)

\* Faulty variant: asynchronous notification is left off.
pm_eh_make_init_ports_reqs_silent(d, e, reset, ready) ==
    LET start == pm_ctx.eh_state = "none"
        a == IF ~start THEN pm_ctx.active ELSE IF reset THEN d ELSE 0
    IN  IF start THEN Step("features", NoPort, e, "check_phy_rdy", a)
        ELSE IF pm_ctx.eh_state = "check_phy_rdy" THEN Step("read", a, e, "check_phy_rdy_done", a)
        ELSE Step("reg", NoPort, e, "done", a)
pm_eh_make_init_ports_reqs(d, e, reset, ready) ==
    LET start == pm_ctx.eh_state = "none"
        state == IF ~start THEN pm_ctx.eh_state
                 ELSE IF reset THEN "disable_asynotify" ELSE "qriga_workaround"
        a == IF ~start THEN pm_ctx.active ELSE IF reset THEN d ELSE 0
        Reg(next) == Step("reg", NoPort, e, next, a)
    IN  CASE state = "qriga_workaround" -> Reg("enable_features")
          [] state = "enable_features" -> Step("features", NoPort, e, "clear_error_info", a)
          [] state = "disable_asynotify" -> Step("features", NoPort, e, "enable_pm_port_1", a)
          [] state = "clear_error_info" -> Reg("spin_up_all_ports")
          [] state = "spin_up_all_ports" -> EachPort(e, state, "spin_up_done", a)
          [] state = "spin_up_done" -> EachPort(e, state, "check_phy_rdy", a)
          [] state = "enable_pm_port_1" -> Reg("enable_pm_port_0")
          [] state = "enable_pm_port_0" -> Reg("check_phy_rdy")
          [] state = "check_phy_rdy" -> Step("read", a, e, "check_phy_rdy_done", a)
          [] state = "check_phy_rdy_done" -> PhyChecked(d, e, a, reset, ready)
          [] state = "soft_reset_1" -> Step("srst", a, e, "soft_reset_0", a)
          [] state = "soft_reset_0" -> Step("srst", a, e, "wait_sig", a)
          [] state = "wait_sig" /\ a \notin sig -> Step("pm_timer", a, e, "wait_sig", a)
          [] state = "wait_sig" /\ a \in sig -> SigDone(e, a, reset)
          [] state = "enable_asynotify" -> Step("asynotify", NoPort, e, "done", a)

\* sata_timeout_state_machine_behind_pm, in steps; PM and Retry keep the PM's state.
KeepPm(do, at, e, here) ==
    [Step(do, at, e, pm_ctx.eh_state, pm_ctx.active) EXCEPT !.here = here]
Retry(d, e, p) == [KeepPm("retry", d, e, e) EXCEPT !.pm = p]

\* Faulty variant: a failed retry starts over instead of resetting the PM.
HardResetDone_over(d, ok, p) ==
    IF ok THEN Retry(d, "hard_reset_done", p)
    ELSE [KeepPm("srst", d, "soft_reset_1", "hard_reset_done") EXCEPT !.pm = p]
\* SATA_EH_TIMEOUT_STATE_DEV_HARD_RESET_DONE.
HardResetDone(d, ok, p) ==
    IF ok THEN Retry(d, "hard_reset_done", p)
    ELSE [KeepPm("port_reset", NoPort, "pm_reset_wait", "hard_reset_done")
            EXCEPT !.abort = disks, !.pm = p]

DevHardReset(d, ok, ready) ==
    IF ~ok THEN HardResetDone(d, FALSE, "none")
    ELSE LET s == pm_eh_make_init_ports_reqs(d, "dev_hard_reset", TRUE, ready)
         IN  IF s.pm = "done" THEN [s EXCEPT !.pm = "none", !.eh = "hard_reset_done"] ELSE s

SetDownPm == KeepPm("pm_down", NoPort, Idle, Idle)

PmReinit(d, ok, ready) ==
    IF ~ok THEN SetDownPm
    ELSE LET s == pm_eh_make_init_ports_reqs(d, "pm_reinit", FALSE, ready)
         IN  IF s.pm = "done" THEN [s EXCEPT !.eh = "retry_org_req"] ELSE s

\* SATA_EH_TIMEOUT_STATE_PM_RESET_WAIT to PM_SRST_WAIT: the whole PM is reset.
PmReset(d, st, ok) ==
    CASE st = "pm_reset_wait" /\ ok -> KeepPm("dev_timer", NoPort, "pm_srst_1", st)
      [] st = "pm_srst_1" \/ (st = "pm_reset_wait" /\ ~ok) ->
            KeepPm("pm_srst", NoPort, "pm_srst_0", "pm_srst_1")
      [] st = "pm_srst_0" -> KeepPm("pm_srst", NoPort, "pm_srst_wait", st)
      [] st = "pm_srst_wait" /\ ok -> KeepPm("dev_timer", NoPort, "pm_reinit", st)
      [] st = "pm_srst_wait" /\ ~ok -> SetDownPm

\* SATA_EH_TIMEOUT_STATE_RETRY_ORG_REQ.
RetryOrgReq(d, ok) ==
    IF ok THEN Retry(d, "retry_org_req", pm_ctx.eh_state) ELSE KeepPm("disk_down", d, Idle, Idle)

sata_timeout_state_machine_behind_pm(d, st, ok, ready) ==
    CASE st = "none" -> [KeepPm("srst", d, "soft_reset_1", st)
                            EXCEPT !.abort = {d}, !.pm = "none", !.active = 0]
      [] st = "soft_reset_1" -> KeepPm("srst", d, "soft_reset_wait", st)
      [] st = "soft_reset_wait" /\ ok -> KeepPm("dev_timer", NoPort, "soft_reset_0", st)
      [] st = "soft_reset_0" /\ ok -> Retry(d, st, pm_ctx.eh_state)
      [] st \in {"soft_reset_wait", "soft_reset_0"} /\ ~ok -> DevHardReset(d, TRUE, ready)
      [] st = "dev_hard_reset" -> DevHardReset(d, ok, ready)
      [] st = "hard_reset_done" -> HardResetDone(d, ok, pm_ctx.eh_state)
      [] st = "pm_reinit" -> PmReinit(d, ok, ready)
      [] st = "retry_org_req" -> RetryOrgReq(d, ok)
      [] OTHER -> PmReset(d, st, ok)

-----------------------------------------------------------------------------
(***************************************************************************)
(* What the machines do to the port.                                       *)
(***************************************************************************)
\* pal_complete_device_error_queue.  D is one disk at most, and a disk has one request.
Without(queue, D) ==
    LET At == {i \in 1..Len(queue) : queue[i] \in D}
    IN  IF At = {} THEN queue ELSE RemoveAt(queue, CHOOSE i \in At : TRUE)

\* core_push_running_request_back and pal_set_down_disk, of sets of disks.
Requests(aborted, down) ==
    /\ where' = [d \in Disk |-> IF d \in down THEN "done"
                                ELSE IF d \in aborted /\ where[d] = "out" THEN "waiting" ELSE where[d]]
    /\ disks' = disks \ down

Contexts(down, d, c) ==
    err_ctx' = [e \in Disk |-> IF e \in down THEN NoError ELSE IF e = d THEN c ELSE err_ctx[e]]

\* The request is given back after a successful retry, and the PM is free.
core_complete_error_req(d, x) ==
    /\ where' = [where EXCEPT ![d] = "done"]
    /\ err_ctx' = [err_ctx EXCEPT ![d] = [NoError EXCEPT !.state = x]]
    /\ pm_ctx' = PmFree
    /\ eh' = Nothing
    /\ UNCHANGED <<disks, pm_up>>

\* pal_set_down_pm.
pal_set_down_pm ==
    /\ disks' = {} /\ pm_up' = FALSE
    /\ where' = [d \in Disk |-> "done"]
    /\ error_queue' = <<>>
    /\ err_ctx' = [d \in Disk |-> NoError]
    /\ pm_ctx' = PmFree
    /\ eh' = Nothing
    /\ UNCHANGED <<sig, looked, short>>

\* One step of the recovery of d.  rest is the error queue without d, saved the
\* status that is kept for a resumption, walk whether the walk makes the step.
Run(d, s, rest, saved, walk) ==
    LET c(state, st) == [state |-> state, eh_state |-> st, ok |-> saved, error_count |-> 1]
        Pm == pm_ctx' = [state |-> "handling", eh_state |-> s.pm, error_port |-> d, active |-> s.active]
    IN  \/ /\ s.do \notin {"again", "pm_down", "disk_down"}
           /\ Requests(s.abort, {}) /\ Contexts({}, d, c("handling", s.eh)) /\ Pm
           /\ eh' = [do |-> s.do, at |-> s.at]
           /\ error_queue' = rest
           /\ sig' = IF s.do = "read" THEN sig \ {s.at} ELSE sig
           /\ looked' = CASE s.do = "port_reset" -> {}
                          [] s.do = "read" -> looked \union {s.at}
                          [] OTHER -> looked
           /\ UNCHANGED <<pm_up, short>>
        \/ /\ s.do \in {"srst", "pm_srst", "port_reset", "retry"} /\ short < MaxShort
           /\ s.here \notin {"dev_hard_reset", "pm_reinit"}
           /\ short' = short + 1
           /\ Requests(s.abort, {}) /\ Contexts({}, d, c("none", s.here)) /\ Pm
           /\ eh' = Nothing
           /\ error_queue' = IF walk THEN Append(rest, d) ELSE <<d>> \o rest
           /\ UNCHANGED <<pm_up, sig, looked>>
        \/ /\ s.do = "again"
           /\ Requests({}, s.lost) /\ Contexts(s.lost, d, c("none", s.eh)) /\ Pm
           /\ eh' = Nothing
           /\ error_queue' = <<d>> \o Without(rest, s.lost)
           /\ UNCHANGED <<pm_up, sig, looked, short>>
        \/ s.do = "pm_down" /\ pal_set_down_pm
        \/ /\ s.do = "disk_down"
           /\ Requests({}, {d}) /\ Contexts({d}, d, NoError)
           /\ pm_ctx' = PmFree /\ eh' = Nothing
           /\ error_queue' = rest
           /\ UNCHANGED <<pm_up, sig, looked, short>>

-----------------------------------------------------------------------------
(***************************************************************************)
(* Requests, the walk, completion routines, timers, hot plug.              *)
(***************************************************************************)
port_has_error_req == \E d \in disks : err_ctx[d].error_count > 0

Send(d) ==
    /\ d \in disks /\ where[d] = "waiting" /\ ~port_has_error_req
    /\ where' = [where EXCEPT ![d] = "out"]
    /\ UNCHANGED <<disks, pm_up, error_queue, ctxVars, sig, asynotify, looked, short, pulled, lapses>>

Succeed(d) ==
    /\ where[d] = "out"
    /\ where' = [where EXCEPT ![d] = "done"]
    /\ UNCHANGED <<disks, pm_up, error_queue, ctxVars, sig, asynotify, looked, short, pulled, lapses>>

\* The SCSI layer sends another request.
Renew(d) ==
    /\ d \in disks /\ where[d] = "done"
    /\ where' = [where EXCEPT ![d] = "waiting"]
    /\ UNCHANGED <<disks, pm_up, error_queue, ctxVars, sig, asynotify, looked, short, pulled, lapses>>

\* core_req_timeout: core_queue_error_req of a new error.
TimeOut(d) ==
    /\ where[d] = "out"
    /\ where' = [where EXCEPT ![d] = "error"]
    /\ err_ctx' = [err_ctx EXCEPT ![d].error_count = @ + 1]
    /\ error_queue' = Append(error_queue, d)
    /\ UNCHANGED <<disks, pm_up, pm_ctx, eh, sig, asynotify, looked, short, pulled, lapses>>

\* Faulty variant: the PM's context is not looked at.
PmBusyFor_never(d) == FALSE
\* sata_error_handler: the PM is in a recovery another disk has started.
PmBusyFor(d) == pm_ctx.state = "handling" /\ pm_ctx.error_port # d

\* sata_error_handler pushes the request back; the walk has set the device's state.
PushBack(d) ==
    /\ where' = [where EXCEPT ![d] = "waiting"]
    /\ err_ctx' = [err_ctx EXCEPT ![d].state = "handling"]
    /\ error_queue' = Tail(error_queue)
    /\ lapses' = lapses \union {"pushed"}
    /\ UNCHANGED <<disks, pm_up, pm_ctx, eh, sig, asynotify, looked, short, pulled>>

\* core_handle_error_queue: a request of a device that has just recovered.
SendAgain(d) ==
    /\ where' = [where EXCEPT ![d] = "waiting"]
    /\ err_ctx' = [err_ctx EXCEPT ![d] = NoError]
    /\ error_queue' = Tail(error_queue)
    /\ UNCHANGED <<disks, pm_up, pm_ctx, eh, sig, asynotify, looked, short, pulled, lapses>>

\* core_handle_error_queue and sata_error_handler, for the head of the queue.
Walk ==
    /\ error_queue # <<>> /\ Handling = {}
    /\ LET d == Head(error_queue)
           c == err_ctx[d]
       IN  \/ c.state = "handled" /\ SendAgain(d)
           \/ c.state = "none" /\ ~Recovering(d) /\ PmBusyFor(d) /\ PushBack(d)
           \/ /\ c.state = "none" /\ ~Recovering(d) /\ ~PmBusyFor(d)
              /\ Run(d, sata_timeout_state_machine_behind_pm(d, "none", FALSE, FALSE), Tail(error_queue), FALSE, TRUE)
              /\ UNCHANGED <<asynotify, pulled, lapses>>
           \/ /\ c.state = "none" /\ Recovering(d)
              /\ Run(d, sata_timeout_state_machine_behind_pm(d, c.eh_state, c.ok, FALSE), Tail(error_queue), c.ok, TRUE)
              /\ UNCHANGED <<asynotify, pulled, lapses>>

Timer == {"dev_timer", "pm_timer"}
Written(ok) ==
    asynotify' = CASE eh.do = "features" /\ ok -> "off"
                   [] eh.do = "asynotify" -> IF ok THEN "on" ELSE "failed"
                   [] OTHER -> asynotify

\* pm_error_handling_callback: the request of the recovery succeeds, or not.
pm_error_handling_callback(ok, ready) ==
    LET d == pm_ctx.error_port
        good == ok \/ (eh.do = "srst" /\ eh.at # d)
    IN  /\ eh # Nothing /\ eh.do \notin Timer
        /\ eh.do = "port_reset" => ok
        /\ ready => eh.do = "read" /\ ok /\ eh.at \in disks
        /\ Written(ok)
        /\ \/ /\ d \notin disks
              /\ pm_ctx' = PmFree /\ eh' = Nothing
              /\ UNCHANGED <<diskVars, error_queue, err_ctx, sig, looked, short>>
           \/ /\ d \in disks /\ eh.do = "retry" /\ ok
              /\ core_complete_error_req(d, "handled")
              /\ UNCHANGED <<error_queue, sig, looked, short>>
           \/ /\ d \in disks /\ ~(eh.do = "retry" /\ ok)
              /\ Run(d, sata_timeout_state_machine_behind_pm(d, err_ctx[d].eh_state, good, ready),
                     error_queue, good, FALSE)
        /\ UNCHANGED <<pulled, lapses>>

\* sata_wait_hard_reset.
sata_wait_hard_reset ==
    LET d == pm_ctx.error_port IN
    /\ eh.do = "dev_timer"
    /\ Run(d, sata_timeout_state_machine_behind_pm(d, err_ctx[d].eh_state, TRUE, FALSE), error_queue, TRUE, FALSE)
    /\ UNCHANGED <<asynotify, pulled, lapses>>

\* pm_eh_wait.
pm_eh_wait ==
    LET d == pm_ctx.error_port IN
    /\ eh.do = "pm_timer"
    /\ \/ /\ d \notin disks
          /\ eh' = Nothing
          /\ UNCHANGED <<diskVars, error_queue, err_ctx, pm_ctx, sig, looked, short>>
       \/ /\ d \in disks
          /\ Run(d, sata_timeout_state_machine_behind_pm(d, err_ctx[d].eh_state, pm_ctx.active \in sig, FALSE),
                 error_queue, TRUE, FALSE)
    /\ lapses' = IF d \in disks /\ short' > short /\ pm_ctx.active \notin sig
                 THEN lapses \union {"saved"} ELSE lapses
    /\ UNCHANGED <<asynotify, pulled>>

\* The signature of the disk that has been reset arrives.
Signature ==
    /\ pm_ctx.eh_state \in {"soft_reset_0", "wait_sig"} /\ pm_ctx.active \in disks
    /\ sig' = sig \union {pm_ctx.active}
    /\ UNCHANGED <<diskVars, error_queue, ctxVars, asynotify, looked, short, pulled, lapses>>

\* sata_pm_disk_unplug.  What was sent to the disk, or waits, comes back with
\* NO_DEVICE, also the recovery's request; its timer is cancelled.  Not a disk that
\* is being soft reset on behalf of another: there the code follows a null pointer.
sata_pm_disk_unplug(d) ==
    /\ d \in disks /\ pulled < MaxPull
    /\ ~(eh.do = "srst" /\ eh.at # pm_ctx.error_port)
    /\ ~(pm_ctx.eh_state \in {"soft_reset_1", "soft_reset_0", "wait_sig"} /\ d = pm_ctx.active /\ d # pm_ctx.error_port)
    /\ pulled' = pulled + 1
    /\ Requests({}, {d}) /\ Contexts({d}, d, NoError)
    /\ error_queue' = Without(error_queue, {d})
    /\ LET mine == d = pm_ctx.error_port
           answered == mine /\ eh.do \in {"srst", "retry"}
       IN  /\ pm_ctx' = IF answered THEN PmFree ELSE pm_ctx
           /\ eh' = IF answered \/ (mine /\ eh.do = "dev_timer") THEN Nothing ELSE eh
    /\ UNCHANGED <<pm_up, sig, asynotify, looked, short, lapses>>

Next ==
    \/ \E d \in Disk : Send(d) \/ Succeed(d) \/ Renew(d) \/ TimeOut(d) \/ sata_pm_disk_unplug(d)
    \/ Walk \/ sata_wait_hard_reset \/ pm_eh_wait \/ Signature
    \/ \E ok, ready \in BOOLEAN : pm_error_handling_callback(ok, ready)

\* Timers run out, and a recovery's request is answered or times out in two seconds;
\* the queue is pushed once a second.
Fairness ==
    /\ WF_vars(Walk) /\ WF_vars(sata_wait_hard_reset) /\ WF_vars(pm_eh_wait)
    /\ WF_vars(\E ok, ready \in BOOLEAN : pm_error_handling_callback(ok, ready))

Spec == Init /\ [][Next]_vars
FairSpec == Spec /\ Fairness

-----------------------------------------------------------------------------
TypeOK ==
    /\ disks \subseteq Disk /\ pm_up \in BOOLEAN
    /\ where \in [Disk -> {"waiting", "out", "error", "done"}]
    /\ error_queue \in Seq(Disk)
    /\ \A d \in Disk : /\ err_ctx[d].state \in {"none", "handling", "handled"}
                       /\ err_ctx[d].error_count \in 0 .. 1
    /\ pm_ctx.state \in {"none", "handling"}
    /\ pm_ctx.error_port \in Disk \union {NoPort} /\ pm_ctx.active \in Port \union {NoPort}
    /\ sig \subseteq Disk /\ asynotify \in {"on", "off", "failed"}

\* A failed request is on the error queue once, or the machine has it, or it was
\* pushed back; no disk is counted as in error without one.
FailedIsHeld ==
    \A d \in disks :
        /\ Cardinality({i \in DOMAIN error_queue : error_queue[i] = d}) <= 1
        /\ err_ctx[d].error_count > 0 =>
              \/ (where[d] = "error" /\ (d \in ToSet(error_queue)) # (err_ctx[d].state = "handling"))
              \/ "pushed" \in lapses
        /\ where[d] = "error" => err_ctx[d].error_count = 1

\* sata_error_handler, "If PM is doing error handling initiated by different drive":
\* one disk of a PM at a time is in recovery, the one the PM's context names, and as
\* long as nobody pulls a disk the PM's context is taken only while one is.
OneDiskRecovers ==
    /\ TypeOK /\ FailedIsHeld
    /\ \A d \in disks : Recovering(d) => pm_ctx.state = "handling" /\ pm_ctx.error_port = d
    /\ pulled = 0 /\ pm_ctx.state = "handling" => \E d \in disks : Recovering(d)

\* Recovery turns asynchronous notification off while it resets ports.  As long as
\* nobody pulls a disk and no failure is saved as a success it is on again when the
\* recovery is over, unless the very write has failed: without it no hot plug behind the PM is ever noticed.
AsyNotifyRestored ==
    pm_up /\ pm_ctx.state = "none" /\ pulled = 0 /\ "saved" \notin lapses => asynotify # "off"

\* Every recovery ends: again and again nothing has failed, or a request was pushed
\* back (see PushBack: the walk has marked the disk as being handled, and nothing
\* takes the mark away).
EveryErrorEnds == ([]<>(~port_has_error_req)) \/ <>("pushed" \in lapses)
=============================================================================
