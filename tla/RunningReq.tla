----------------------------- MODULE RunningReq -----------------------------
(***************************************************************************)
(* The slots of one root and who may take a request off them.              *)
(*                                                                         *)
(* A sender puts a request into running_req[slot] and then, on the list of *)
(* sent requests, hands it to the hardware (prot_send_request).  The       *)
(* interrupt takes completion entries, which name slots, off the ring      *)
(* (io_chip_handle_cmpl_queue).  The recovery code takes requests back     *)
(* that the hardware has not finished: a timeout, all requests of a device *)
(* (pal_abort_device_running_req) or of a port (pal_abort_port_running_req)*)
(*                                                                         *)
(* Interrupt, timeout and device abort hold the ring's handle_cmpl_SpinLock*)
(* and exclude each other.  The port abort picks a request without that    *)
(* lock and takes it only to reset the slot.  The ring is not read before  *)
(* an abort, so entries of slots that were reset are still on it.  What    *)
(* may come of these two is part of the model, and recorded in lapses.     *)
(*                                                                         *)
(* Recovery runs under the global lock; senders are counted, and it waits  *)
(* for them (see GlobalLock for what becomes of that).  One completion     *)
(* ring; one device per port.                                              *)
(***************************************************************************)
EXTENDS Naturals, Sequences, SequencesExt, FiniteSets

CONSTANTS
    Sender,
    Request, Device, DeviceOf,
    Slot,
    None

ASSUME RequestAssumption == DeviceOf \in [Request -> Device]
ASSUME SlotAssumption == IsFiniteSet(Slot) /\ Slot # {} /\ None \notin Slot \cup Request

VARIABLES
    slot_pool,      \* the free slots, longest free first
    running_req,    \* per slot
    sent_req_list,  \* the requests on the lists of their devices; see ReqTimer
    outstanding_req,\* per device
    active,         \* per slot: the request whose command the hardware works on
    cmpl_q,         \* slots of finished commands, not yet read
    place,          \* per request: where else it is
    sender,         \* per sender: its step, request and slot
    recovery,       \* what the holder of the global lock is doing
    finished,       \* history: the requests whose command is on cmpl_q since they were let in
    lapses          \* history: what the code does not prevent; the properties name those
                    \* they except:
                    \*   early     the entry of an aborted command completed the request
                    \*             that had the slot next, which was still being worked on
                    \*   unsent    or not even sent
                    \*   intruded  a request picked by the port abort was completed before
                    \*             its slot was reset

slotVars == <<slot_pool, running_req, sent_req_list, outstanding_req>>
hwVars == <<active, cmpl_q, finished>>
vars == <<slotVars, hwVars, place, sender, recovery, lapses>>

Idle == [at |-> "idle", req |-> None, slot |-> None]
NoRecovery == [at |-> "idle", base |-> None, picked |-> None, left |-> {}]

Init ==
    /\ slot_pool = SetToSeq(Slot)
    /\ running_req = [s \in Slot |-> None]
    /\ sent_req_list = {}
    /\ outstanding_req = [d \in Device |-> 0]
    /\ active = [s \in Slot |-> None]
    /\ cmpl_q = <<>> /\ finished = {}
    /\ place = [r \in Request |-> "waiting"]
    /\ sender = [p \in Sender |-> Idle]
    /\ recovery = NoRecovery
    /\ lapses = {}

\* The books are right: no slot has been given back twice, none that was not sent.
InOrder == lapses \cap {"unsent", "intruded"} = {}

\* The size of the ring (Athena).  A full one has one entry unused.
cmpl_q_size == Max({Cardinality(Slot) + 1, 4})

-----------------------------------------------------------------------------
(***************************************************************************)
(* prot_send_request.                                                      *)
(***************************************************************************)

\* port_has_error_req: an error of the device is waiting or being handled.
HasError(d) == \E r \in Request : DeviceOf[r] = d /\ place[r] = "error"

\* A waiting request is let in (outstanding_SpinLock) and gets a slot
\* (root_SpinLock); one that is not stays where it is.  See CoreQueues.  Bound:
\* nothing is claimed, and so nothing let in, once the books are not InOrder.
Admit(p, r) ==
    /\ InOrder
    /\ recovery.at = "idle"
    /\ sender[p] = Idle
    /\ place[r] = "waiting" /\ ~HasError(DeviceOf[r])
    /\ slot_pool # <<>>
    /\ outstanding_req' = [outstanding_req EXCEPT ![DeviceOf[r]] = @ + 1]
    /\ slot_pool' = Tail(slot_pool)
    /\ sender' = [sender EXCEPT ![p] = [at |-> "register", req |-> r, slot |-> Head(slot_pool)]]
    /\ place' = [place EXCEPT ![r] = "sending"]
    /\ finished' = finished \ {r}
    /\ UNCHANGED <<running_req, sent_req_list, active, cmpl_q, recovery, lapses>>

Register(p) ==
    /\ sender[p].at = "register"
    /\ running_req' = [running_req EXCEPT ![sender[p].slot] = sender[p].req]
    /\ sender' = [sender EXCEPT ![p].at = "issue"]
    /\ UNCHANGED <<slot_pool, sent_req_list, outstanding_req, hwVars, place, recovery, lapses>>

\* mv_add_timer and send_command, under queue_SpinLock.
Issue(p) ==
    /\ sender[p].at = "issue"
    /\ sent_req_list' = sent_req_list \cup {sender[p].req}
    /\ active' = [active EXCEPT ![sender[p].slot] = sender[p].req]
    /\ place' = [place EXCEPT ![sender[p].req] = "running"]
    /\ sender' = [sender EXCEPT ![p] = Idle]
    /\ UNCHANGED <<slot_pool, running_req, outstanding_req, cmpl_q, finished, recovery, lapses>>

Send(p) == Register(p) \/ Issue(p) \/ \E r \in Request : Admit(p, r)

-----------------------------------------------------------------------------
\* The hardware is done with a command and writes a completion entry.
Finish(s) ==
    /\ active[s] # None
    /\ Len(cmpl_q) + 1 < cmpl_q_size
    /\ active' = [active EXCEPT ![s] = None]
    /\ cmpl_q' = Append(cmpl_q, s)
    /\ finished' = finished \cup {active[s]}
    /\ UNCHANGED <<slotVars, place, sender, recovery, lapses>>

\* Faulty variants: the slot is not given back, or the request not counted out.
prot_clean_slot_leak(s, r) ==
    /\ running_req' = [running_req EXCEPT ![s] = None]
    /\ sent_req_list' = sent_req_list \ {r}
    /\ outstanding_req' = [outstanding_req EXCEPT ![DeviceOf[r]] = IF @ > 0 THEN @ - 1 ELSE 0]
    /\ UNCHANGED slot_pool
prot_clean_slot_uncounted(s, r) ==
    /\ running_req' = [running_req EXCEPT ![s] = None]
    /\ slot_pool' = Append(slot_pool, s)
    /\ sent_req_list' = sent_req_list \ {r}
    /\ UNCHANGED outstanding_req

\* r is off the list and slot s is free.
prot_clean_slot(s, r) ==
    /\ running_req' = [running_req EXCEPT ![s] = None]
    /\ slot_pool' = Append(slot_pool, s)
    /\ sent_req_list' = sent_req_list \ {r}
    /\ outstanding_req' = [outstanding_req EXCEPT ![DeviceOf[r]] = IF @ > 0 THEN @ - 1 ELSE 0]

\* The entry just read may be of an earlier command than r's.
EarlyLapses(r) ==
    (IF r \notin finished THEN {"early"} ELSE {})
      \cup (IF place[r] = "sending" THEN {"unsent"} ELSE {})

\* io_chip_handle_cmpl_queue, one entry: the entry of a slot that has been reset
\* is passed over, otherwise the request in the slot, whichever it is by now, is
\* given back or has an error.
CmplEntry ==
    /\ cmpl_q # <<>>
    /\ cmpl_q' = Tail(cmpl_q)
    /\ LET s == Head(cmpl_q)
           r == running_req[s]
       IN  IF r = None
           THEN UNCHANGED <<slotVars, place, finished, lapses>>
           ELSE /\ prot_clean_slot(s, r)
                /\ \E there \in {"upper", "error"} : place' = [place EXCEPT ![r] = there]
                /\ finished' = finished \ {r}
                /\ lapses' = lapses \cup EarlyLapses(r)
    /\ UNCHANGED <<active, sender, recovery>>

-----------------------------------------------------------------------------
(***************************************************************************)
(* Recovery.                                                               *)
(***************************************************************************)

\* The global lock can be taken: the senders have been waited for.
CanRecover == recovery = NoRecovery /\ \A p \in Sender : sender[p] = Idle

\* Faulty variant: the hardware's command stays active.
prot_reset_slot_active(s, r) ==
    /\ UNCHANGED active
    /\ prot_clean_slot(s, r)

\* The command is no longer active, whatever the hardware has done with it.
prot_reset_slot(s, r) ==
    /\ active' = [active EXCEPT ![s] = None]
    /\ prot_clean_slot(s, r)

\* core_req_timeout gives up a request on the list and queues it as an error.
core_req_timeout(s) ==
    /\ CanRecover
    /\ running_req[s] \in sent_req_list
    /\ prot_reset_slot(s, running_req[s])
    /\ place' = [place EXCEPT ![running_req[s]] = "error"]
    /\ UNCHANGED <<cmpl_q, finished, sender, recovery, lapses>>

\* The slots with requests of device d.
SlotsOf(d) == {s \in Slot : running_req[s] # None /\ DeviceOf[running_req[s]] = d}

\* pal_abort_device_running_req, for an error of the device or its removal:
\* each of its slots is reset and the request goes back to the waiting queue.
pal_abort_device_running_req(d) ==
    LET aborted == {running_req[s] : s \in SlotsOf(d)}
    IN  /\ CanRecover
        /\ active' = [s \in Slot |-> IF s \in SlotsOf(d) THEN None ELSE active[s]]
        /\ running_req' = [s \in Slot |-> IF s \in SlotsOf(d) THEN None ELSE running_req[s]]
        /\ \E order \in SetToSeqs(SlotsOf(d)) : slot_pool' = slot_pool \o order
        /\ sent_req_list' = sent_req_list \ aborted
        /\ outstanding_req' = [outstanding_req EXCEPT ![d] =
             IF @ > Cardinality(aborted) THEN @ - Cardinality(aborted) ELSE 0]
        /\ place' = [r \in Request |-> IF r \in aborted THEN "waiting" ELSE place[r]]
        /\ UNCHANGED <<cmpl_q, finished, sender, recovery, lapses>>

\* A port is reset, or its device has gone: abort its requests, slot by slot.
AbortPort(d) ==
    /\ CanRecover
    /\ recovery' = [at |-> "abort port", base |-> d, picked |-> None, left |-> Slot]
    /\ UNCHANGED <<slotVars, hwVars, place, sender, lapses>>

\* Look at one slot under root_SpinLock, and pick its request.
PickRequest(s) ==
    /\ recovery.at = "abort port" /\ s \in recovery.left
    /\ recovery' = [recovery EXCEPT !.left = @ \ {s},
         !.at = IF s \in SlotsOf(recovery.base) THEN "reset slot" ELSE "abort port",
         !.picked = IF s \in SlotsOf(recovery.base) THEN <<s, running_req[s]>> ELSE None]
    /\ UNCHANGED <<slotVars, hwVars, place, sender, lapses>>

\* Reset it under handle_cmpl_SpinLock, without looking whether it is still there.
ResetPicked ==
    /\ recovery.at = "reset slot"
    /\ LET s == recovery.picked[1]
           r == recovery.picked[2]
       IN  /\ prot_reset_slot(s, r)
           /\ place' = [place EXCEPT ![r] = "waiting"]
           /\ lapses' = IF running_req[s] = r THEN lapses ELSE lapses \cup {"intruded"}
    /\ recovery' = [recovery EXCEPT !.at = "abort port", !.picked = None]
    /\ UNCHANGED <<cmpl_q, finished, sender>>

LeavePort ==
    /\ recovery.at = "abort port" /\ recovery.left = {}
    /\ recovery' = NoRecovery
    /\ UNCHANGED <<slotVars, hwVars, place, sender, lapses>>

\* The error is handled: the request is retried or given back.
EndError(r) ==
    /\ recovery.at = "idle"
    /\ place[r] = "error"
    /\ \E there \in {"upper", "waiting"} : place' = [place EXCEPT ![r] = there]
    /\ UNCHANGED <<slotVars, hwVars, sender, recovery, lapses>>

Recover ==
    \/ \E s \in Slot : core_req_timeout(s) \/ PickRequest(s)
    \/ ResetPicked \/ LeavePort
    \/ \E d \in Device : pal_abort_device_running_req(d) \/ AbortPort(d)
    \/ \E r \in Request : EndError(r)

\* The upper layer uses the request again.
Reuse(r) ==
    /\ place[r] = "upper"
    /\ place' = [place EXCEPT ![r] = "waiting"]
    /\ UNCHANGED <<slotVars, hwVars, sender, recovery, lapses>>

Next ==
    \/ \E p \in Sender : Send(p)
    \/ \E s \in Slot : Finish(s)
    \/ CmplEntry
    \/ Recover
    \/ \E r \in Request : Reuse(r)

Spec == Init /\ [][Next]_vars

-----------------------------------------------------------------------------
(***************************************************************************)
(* Correctness.                                                            *)
(***************************************************************************)

TypeOK ==
    /\ slot_pool \in Seq(Slot)
    /\ running_req \in [Slot -> Request \cup {None}]
    /\ sent_req_list \subseteq Request
    /\ outstanding_req \in [Device -> Nat]
    /\ active \in [Slot -> Request \cup {None}]
    /\ cmpl_q \in Seq(Slot) /\ finished \subseteq Request
    /\ place \in [Request -> {"upper", "waiting", "sending", "running", "error"}]
    /\ sender \in [Sender -> [at : {"idle", "register", "issue"},
                              req : Request \cup {None}, slot : Slot \cup {None}]]
    /\ recovery \in [at : {"idle", "abort port", "reset slot"},
                     base : Device \cup {None},
                     picked : (Slot \X Request) \cup {None}, left : SUBSET Slot]
    /\ lapses \subseteq {"early", "unsent", "intruded"}

\* The slots that senders have taken and not yet occupied.
Taken == {sender[p].slot : p \in {q \in Sender : sender[q].at = "register"}}

\* Whoever takes requests off the slots, each slot is in the pool, once, or
\* occupied, or in the hands of one sender.  A request occupies one slot while
\* it is sent, none while it is anywhere else; and it is on the list of its
\* device once the hardware has it (the comment in mv_renew_timer, "this request
\* is not removed from the queue yet").  An entry that completes the wrong request
\* does not disturb this, but for the lapses of InOrder.
SlotsExact ==
    /\ TypeOK
    /\ InOrder =>
        /\ Len(slot_pool) = Cardinality(ToSet(slot_pool))
        /\ \A s \in Slot : s \in ToSet(slot_pool) <=> running_req[s] = None /\ s \notin Taken
        /\ \A r \in Request :
            /\ Cardinality({s \in Slot : running_req[s] = r}) =
                 IF \/ place[r] = "running"
                    \/ \E p \in Sender : sender[p].at = "issue" /\ sender[p].req = r
                 THEN 1 ELSE 0
            /\ r \in sent_req_list <=> place[r] = "running"

\* The device counts the requests that have been let in, and no others, but for
\* the lapses of InOrder.
OutstandingExact ==
    InOrder => \A d \in Device :
        outstanding_req[d] = Cardinality({r \in Request :
                                DeviceOf[r] = d /\ place[r] \in {"sending", "running"}})

\* The hardware works on no command whose request has been given back, or queued
\* to be sent again: it would write into buffers that are others' by then, and its
\* entry would complete whatever has the slot.  An early entry is the exception.
NothingActiveGivenBack ==
    lapses = {} => \A s \in Slot : active[s] # None =>
        running_req[s] = active[s] /\ place[active[s]] = "running"
=============================================================================
