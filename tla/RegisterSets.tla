---------------------------- MODULE RegisterSets ----------------------------
(***************************************************************************)
(* What a SATA disk needs besides a slot: one of the register sets that    *)
(* the disks of a root share, and, for a queued (NCQ) command, a tag.      *)
(*                                                                         *)
(* sata_verify_command takes a set for a disk that has none and keeps      *)
(* queued and other commands apart: a command that is not queued runs      *)
(* alone, and holds queued ones off until it has run (STOP_RUN_NCQ).       *)
(* prepare_command takes the tag, send_command names the disk's set to the *)
(* hardware, prot_clean_slot returns both.                                 *)
(*                                                                         *)
(* A small read or write is sent by the processor that brings it, without  *)
(* regard to the global lock.  Recovery, which waits for all the others,   *)
(* may find it half sent; the variable overtaken records that.             *)
(*                                                                         *)
(* The slots themselves, lists and timers are RunningReq's, CoreQueues'    *)
(* and ReqTimer's; what recovery sends is one request here, which goes by  *)
(* the name of its disk.  One disk to a port.                              *)
(***************************************************************************)
EXTENDS Naturals, FiniteSets, FiniteSetsExt

CONSTANTS
    Device,
    Request, DeviceOf,
    Ncq,            \* the requests that are sent as queued commands
    Small,          \* those of them that are sent at once when nothing waits
    Sets,           \* the number of register sets
    queue_depth,
    MaxFailures,    \* how many requests fail
    MaxShort,       \* how often there is no slot or scatter-gather buffer
    NO_REGISTER_SET

All == Request \cup Device
Set == 0 .. Sets - 1
Tag == 0 .. 31

ASSUME RequestAssumption ==
    /\ DeviceOf \in [Request -> Device] /\ Request \cap Device = {}
    /\ Small \subseteq Ncq /\ Ncq \subseteq Request
    /\ IsFiniteSet(Request) /\ IsFiniteSet(Device)
ASSUME NumberAssumption ==
    Sets \in Nat \ {0} /\ queue_depth \in 1 .. 32 /\ MaxFailures \in Nat /\ MaxShort \in Nat
ASSUME NoSetAssumption == NO_REGISTER_SET \notin Set

VARIABLES
    stage,          \* per request: how far it has come
    direct,         \* the small requests that are being sent at once
    ncq_tag,        \* per request: the tag it had last
    command,        \* per request: the register set its command names
    outstanding_req, register_set, ncq_tags,    \* per device
    ncq_running, stop_run_ncq,  \* the devices with NCQ_RUNNING, STOP_RUN_NCQ
    sata_reg_set,   \* the sets taken
    recovery,       \* per device: the step of its recovery
    gone,           \* the devices set down
    stray,          \* requests taken back from a sender that goes on with them
    overtaken,      \* the requests a recovery has found half sent
    failures, short

sets == <<register_set, sata_reg_set>>
ncq == <<ncq_tag, ncq_tags, ncq_running, stop_run_ncq>>
history == <<stray, overtaken, failures, short>>
vars == <<stage, direct, command, outstanding_req, sets, ncq, recovery, gone, history>>

Dev(r) == IF r \in Device THEN r ELSE DeviceOf[r]
Of(d, stages) == {r \in All : Dev(r) = d /\ stage[r] \in stages}
HalfSent == {"counted", "registered"}

Init ==
    /\ stage = [r \in All |-> "idle"] /\ direct = {}
    /\ ncq_tag = [r \in All |-> 0] /\ command = [r \in All |-> NO_REGISTER_SET]
    /\ outstanding_req = [d \in Device |-> 0]
    /\ register_set = [d \in Device |-> NO_REGISTER_SET]
    /\ ncq_tags = [d \in Device |-> {}]
    /\ ncq_running = {} /\ stop_run_ncq = {} /\ sata_reg_set = {}
    /\ recovery = [d \in Device |-> "none"] /\ gone = {}
    /\ stray = {} /\ overtaken = {} /\ failures = 0 /\ short = 0

-----------------------------------------------------------------------------
(***************************************************************************)
(* prot_send_request up to the count, under outstanding_SpinLock.          *)
(***************************************************************************)

\* core_get_register_set: the first clear bit.
core_get_register_set(d) ==
    /\ register_set' = [register_set EXCEPT ![d] = Min(Set \ sata_reg_set)]
    /\ sata_reg_set' = sata_reg_set \cup {Min(Set \ sata_reg_set)}

Refused(r) ==
    /\ stage' = [stage EXCEPT ![r] = "waiting"]
    /\ direct' = direct \ {r}
    /\ UNCHANGED outstanding_req

\* The device takes no more, has an error that is not the request's own
\* business, or there is no register set for it.
Full(r) ==
    LET d == Dev(r) IN
    \/ outstanding_req[d] >= queue_depth
    \/ recovery[d] # "none" /\ r \notin Device
    \/ d \notin gone /\ register_set[d] = NO_REGISTER_SET /\ sata_reg_set = Set

\* Faulty variants of Joins: a queued command joins whatever runs, or does not
\* heed STOP_RUN_NCQ.
JoinsAny(r) == r \in Ncq => Dev(r) \notin stop_run_ncq
JoinsStopped(r) ==
    LET d == Dev(r) IN
    outstanding_req[d] = 0 \/ (r \in Ncq /\ d \in ncq_running)

\* Whether a command may join those outstanding.
Joins(r) ==
    LET d == Dev(r) IN
    IF r \in Ncq THEN d \notin stop_run_ncq /\ (outstanding_req[d] = 0 \/ d \in ncq_running)
                 ELSE outstanding_req[d] = 0

\* The marks that keep queued and other commands apart.
Marks(r) ==
    LET d == Dev(r) IN
    CASE r \in Ncq /\ Joins(r) -> ncq_running' = ncq_running \cup {d} /\ UNCHANGED stop_run_ncq
      [] r \in Ncq /\ ~Joins(r) -> UNCHANGED <<ncq_running, stop_run_ncq>>
      [] r \notin Ncq /\ Joins(r) -> /\ ncq_running' = ncq_running \ {d}
                                     /\ stop_run_ncq' = stop_run_ncq \ {d}
      [] OTHER -> stop_run_ncq' = stop_run_ncq \cup {d} /\ UNCHANGED ncq_running

sata_verify_command(r) ==
    LET d == Dev(r) IN
    /\ IF register_set[d] = NO_REGISTER_SET THEN core_get_register_set(d) ELSE UNCHANGED sets
    /\ Marks(r)

prot_send_request(r) ==
    LET d == Dev(r) IN
    \/ /\ Full(r) /\ Refused(r)
       /\ UNCHANGED <<sets, ncq_running, stop_run_ncq>>
    \/ /\ ~Full(r) /\ d \notin gone
       /\ sata_verify_command(r)
       /\ IF Joins(r)
          THEN /\ outstanding_req' = [outstanding_req EXCEPT ![d] = @ + 1]
               /\ stage' = [stage EXCEPT ![r] = "counted"]
               /\ UNCHANGED direct
          ELSE Refused(r)
    \/ /\ ~Full(r) /\ d \in gone
       /\ stage' = [stage EXCEPT ![r] = "idle"] /\ direct' = direct \ {r}
       /\ UNCHANGED <<outstanding_req, sets, ncq_running, stop_run_ncq>>

\* The SCSI layer brings a request.  One for a disk that is gone is answered.
Submit(r) ==
    /\ stage[r] = "idle" /\ r \in Request /\ Dev(r) \notin gone
    /\ IF r \in Small /\ \A q \in All : stage[q] # "waiting"
       THEN direct' = direct \cup {r} /\ stage' = [stage EXCEPT ![r] = "direct"]
       ELSE stage' = [stage EXCEPT ![r] = "waiting"] /\ UNCHANGED direct
    /\ UNCHANGED <<command, outstanding_req, sets, ncq, recovery, gone, history>>

\* Recovery at work under the global lock, where no waiting request is sent.
Paused == \E d \in Device : recovery[d] \in {"free", "down"}

\* A request is sent at once, or one that waits is tried (again).
Try(r) ==
    /\ stage[r] = "direct" \/ (stage[r] = "waiting" /\ ~Paused)
    /\ prot_send_request(r)
    /\ UNCHANGED <<command, ncq_tag, ncq_tags, recovery, gone, history>>

\* A slot and a buffer; without them the register set stays with the device.
TakeSlot(r) ==
    /\ stage[r] = "counted"
    /\ stage' = [stage EXCEPT ![r] = "registered"]
    /\ UNCHANGED <<direct, command, outstanding_req, sets, ncq, recovery, gone, history>>

NoResource(r) ==
    /\ stage[r] = "counted" /\ short < MaxShort
    /\ short' = short + 1
    /\ stage' = [stage EXCEPT ![r] = "waiting"]
    /\ direct' = direct \ {r}
    /\ outstanding_req' = [outstanding_req EXCEPT ![Dev(r)] = @ - 1]
    /\ UNCHANGED <<command, sets, ncq, recovery, gone, stray, overtaken, failures>>

\* The first clear bit; without one, -1, which the MV_U8 keeps as 255 and which
\* stands for no bit of ncq_tags.
NoTag == 255
FirstFree(tags) == IF Tag \subseteq tags THEN NoTag ELSE Min(Tag \ tags)

sata_get_ncq_tag(r) ==
    LET tag == FirstFree(ncq_tags[Dev(r)]) IN
    /\ ncq_tag' = [ncq_tag EXCEPT ![r] = tag]
    /\ ncq_tags' = [ncq_tags EXCEPT ![Dev(r)] = @ \cup ({tag} \cap Tag)]

\* prepare_command, the timer and send_command, one right after the other.  The
\* command goes to the hardware with the set the disk has at that moment.
Issue(r) ==
    /\ stage[r] = "registered"
    /\ stage' = [stage EXCEPT ![r] = "issued"]
    /\ direct' = direct \ {r}
    /\ IF r \in Ncq THEN sata_get_ncq_tag(r) ELSE UNCHANGED <<ncq_tag, ncq_tags>>
    /\ command' = [command EXCEPT ![r] = register_set[Dev(r)]]
    /\ UNCHANGED <<outstanding_req, sets, ncq_running, stop_run_ncq, recovery, gone, history>>

\* A sender goes on with a request that was taken back: it takes a tag, which
\* nobody returns, and issues a command for a slot that is no longer its own.
StrayGoesOn(r) ==
    /\ stray' = stray \ {r}
    /\ IF r \in Ncq THEN sata_get_ncq_tag(r) ELSE UNCHANGED <<ncq_tag, ncq_tags>>
    /\ UNCHANGED <<stage, direct, command, outstanding_req, sets, ncq_running, stop_run_ncq, recovery, gone,
                   overtaken, failures, short>>

-----------------------------------------------------------------------------
(***************************************************************************)
(* Completion.                                                             *)
(***************************************************************************)

\* Faulty variant: the disk goes on to use the set it has returned.
core_free_register_set_stale(d) ==
    /\ sata_reg_set' = sata_reg_set \ {register_set[d]}
    /\ UNCHANGED register_set

\* core_free_register_set, and the disk forgets the set.
core_free_register_set(d) ==
    /\ register_set' = [register_set EXCEPT ![d] = NO_REGISTER_SET]
    /\ sata_reg_set' = sata_reg_set \ {register_set[d]}

\* Faulty variants of prot_clean_slot: the set goes with any request, or is
\* kept because the count is looked at before it is taken down.
prot_clean_slot_any(d, R) ==
    /\ outstanding_req' = [outstanding_req EXCEPT ![d] = @ - Cardinality(R)]
    /\ ncq_tags' = [ncq_tags EXCEPT ![d] = @ \ {ncq_tag[r] : r \in R \cap Ncq}]
    /\ IF R # {} THEN core_free_register_set(d) ELSE UNCHANGED sets
prot_clean_slot_kept(d, R) ==
    /\ outstanding_req' = [outstanding_req EXCEPT ![d] = @ - Cardinality(R)]
    /\ ncq_tags' = [ncq_tags EXCEPT ![d] = @ \ {ncq_tag[r] : r \in R \cap Ncq}]
    /\ IF R # {} /\ outstanding_req[d] = 0 THEN core_free_register_set(d) ELSE UNCHANGED sets

\* prot_clean_slot for the requests in R, all of one device: tags, count, and
\* the set with the last one.
prot_clean_slot(d, R) ==
    /\ outstanding_req' = [outstanding_req EXCEPT ![d] = @ - Cardinality(R)]
    /\ ncq_tags' = [ncq_tags EXCEPT ![d] = @ \ {ncq_tag[r] : r \in R \cap Ncq}]
    /\ IF R # {} /\ outstanding_req'[d] = 0 THEN core_free_register_set(d) ELSE UNCHANGED sets
\* What the hardware no longer works on.
Without(R) == [r \in All |-> IF r \in R THEN NO_REGISTER_SET ELSE command[r]]

\* A command is done and its request given back.
Complete(r) ==
    /\ stage[r] = "issued" /\ r \in Request
    /\ prot_clean_slot(Dev(r), {r})
    /\ stage' = [stage EXCEPT ![r] = "idle"]
    /\ command' = Without({r})
    /\ UNCHANGED <<direct, ncq_tag, ncq_running, stop_run_ncq, recovery, gone, history>>

\* A request times out or fails: it goes to the error queue.
Fail(r) ==
    /\ stage[r] = "issued" /\ r \in Request /\ failures < MaxFailures /\ Dev(r) \notin gone
    /\ prot_clean_slot(Dev(r), {r})
    /\ stage' = [stage EXCEPT ![r] = "failed"]
    /\ recovery' = [recovery EXCEPT ![Dev(r)] = IF @ = "none" THEN "queued" ELSE @]
    /\ failures' = failures + 1
    /\ command' = Without({r})
    /\ UNCHANGED <<direct, ncq_tag, ncq_running, stop_run_ncq, gone, stray, overtaken, short>>

-----------------------------------------------------------------------------
(***************************************************************************)
(* Recovery of a disk, under the global lock.                              *)
(***************************************************************************)

\* core_global_lock waits for those who send waiting requests, not for those
\* who send at once.
CanRecover == ~Paused /\ \A r \in All : stage[r] \in HalfSent => r \in direct

\* pal_abort_device_running_req: what has a slot is taken back, sent or not.
TakeBack(d) ==
    LET R == Of(d, {"registered", "issued"}) IN
    /\ prot_clean_slot(d, R)
    /\ stage' = [r \in All |-> IF r \in R THEN "waiting" ELSE stage[r]]
    /\ direct' = direct \ R
    /\ command' = Without(R)
    /\ stray' = stray \cup Of(d, {"registered"})
    /\ overtaken' = overtaken \cup Of(d, HalfSent)

Abort(d) ==
    /\ recovery[d] = "queued" /\ CanRecover
    /\ TakeBack(d)
    /\ recovery' = [recovery EXCEPT ![d] = "free"]
    /\ UNCHANGED <<ncq_tag, ncq_running, stop_run_ncq, gone, failures, short>>

\* It takes the set away, without a lock; then the recovery request is sent.
FreeSet(d) ==
    /\ recovery[d] = "free"
    /\ IF register_set[d] # NO_REGISTER_SET THEN core_free_register_set(d) ELSE UNCHANGED sets
    /\ recovery' = [recovery EXCEPT ![d] = "request"]
    /\ stage' = [stage EXCEPT ![d] = "waiting"]
    /\ UNCHANGED <<direct, command, outstanding_req, ncq, gone, history>>

\* The recovery request has been answered: the failed requests are sent again.
Recovered(d) ==
    /\ recovery[d] = "request" /\ stage[d] = "issued"
    /\ prot_clean_slot(d, {d})
    /\ stage' = [r \in All |-> IF r = d THEN "idle" ELSE IF r \in Of(d, {"failed"}) THEN "waiting" ELSE stage[r]]
    /\ recovery' = [recovery EXCEPT ![d] = "none"]
    /\ command' = Without({d})
    /\ UNCHANGED <<direct, ncq_tag, ncq_running, stop_run_ncq, gone, history>>

\* It has failed: pal_set_disk_offline aborts what runs and gives all back.
GiveUp(d) ==
    /\ recovery[d] = "request" /\ stage[d] = "issued" /\ CanRecover
    /\ TakeBack(d)
    /\ recovery' = [recovery EXCEPT ![d] = "down"]
    /\ UNCHANGED <<ncq_tag, ncq_running, stop_run_ncq, gone, failures, short>>

pal_set_disk_offline(d) ==
    /\ recovery[d] = "down"
    /\ IF register_set[d] # NO_REGISTER_SET THEN core_free_register_set(d) ELSE UNCHANGED sets
    /\ stage' = [r \in All |-> IF r \in Of(d, {"waiting", "failed"}) THEN "idle" ELSE stage[r]]
    /\ gone' = gone \cup {d}
    /\ recovery' = [recovery EXCEPT ![d] = "none"]
    /\ UNCHANGED <<direct, command, outstanding_req, ncq, history>>

Send(r) == Try(r) \/ TakeSlot(r) \/ NoResource(r) \/ Issue(r)
Recover(d) == Abort(d) \/ FreeSet(d) \/ Recovered(d) \/ GiveUp(d) \/ pal_set_disk_offline(d)

Next ==
    \/ \E r \in All : Submit(r) \/ Send(r) \/ Complete(r) \/ Fail(r)
    \/ \E d \in Device : Recover(d)
    \/ \E r \in stray : StrayGoesOn(r)

\* Processors go on with what they send, commands end, and the recovery thread
\* runs: core_global_lock holds other senders off while it waits (GlobalLock).
\* Waiting requests are tried again and again, the one that has waited longest
\* first: one that could be let in time and again, or could hold queued ones
\* off, is.  Nothing has to be submitted or to fail.
Tried(r) == Try(r) /\ <<stage, stop_run_ncq>>' # <<stage, stop_run_ncq>>
Fairness ==
    /\ \A r \in Request : SF_vars(Tried(r)) /\ WF_vars(TakeSlot(r) \/ Issue(r) \/ Complete(r))
    /\ \A d \in Device : SF_vars(Recover(d) \/ Send(d))

Spec == Init /\ [][Next]_vars
FairSpec == Spec /\ Fairness

-----------------------------------------------------------------------------
TypeOK ==
    /\ stage \in [All -> {"idle", "direct", "waiting", "failed", "issued"} \cup HalfSent]
    /\ direct \subseteq Small /\ overtaken \subseteq Small
    /\ ncq_tag \in [All -> Tag \cup {NoTag}] /\ command \in [All -> Set \cup {NO_REGISTER_SET}]
    /\ outstanding_req \in [Device -> 0 .. queue_depth]
    /\ register_set \in [Device -> Set \cup {NO_REGISTER_SET}]
    /\ ncq_tags \in [Device -> SUBSET Tag]
    /\ ncq_running \subseteq Device /\ stop_run_ncq \subseteq Device /\ gone \subseteq Device
    /\ sata_reg_set \subseteq Set
    /\ recovery \in [Device -> {"none", "queued", "free", "request", "down"}]
    /\ stray \subseteq Small
    /\ failures \in 0 .. MaxFailures /\ short \in 0 .. MaxShort

Owners == {d \in Device : register_set[d] # NO_REGISTER_SET}

(***************************************************************************)
(* No register set is lost and no two disks have one, however sending      *)
(* fails and whoever takes the last request of a disk away                 *)
(* (prot_release_sata_register_set, pal_abort_device_running_req,          *)
(* pal_set_disk_offline).                                                  *)
(***************************************************************************)
SetsOwned ==
    /\ sata_reg_set = {register_set[d] : d \in Owners}
    /\ \A d, e \in Owners : register_set[d] = register_set[e] => d = e

(***************************************************************************)
(* A disk with nothing to do keeps no register set from the others: not    *)
(* after a request that got a set and then no slot, nor after one that got *)
(* a set and was held off.                                                 *)
(***************************************************************************)
SetsReturned ==
    /\ TypeOK
    /\ \A d \in Owners : Of(d, HalfSent \cup {"direct", "waiting", "failed", "issued"}) # {}

(***************************************************************************)
(* A command the hardware works on names the register set its disk has, as *)
(* the assertion says that there is none when the set is freed             *)
(* (core_error.c:1263).  Not so for a small request that recovery found    *)
(* half sent: its set is freed and may be another disk's when it is used.  *)
(***************************************************************************)
CommandsOnOwnSet ==
    \A r \in All \ overtaken :
        stage[r] = "issued" => command[r] # NO_REGISTER_SET /\ command[r] = register_set[Dev(r)]

(***************************************************************************)
(* What a disk works on is one command, or queued commands with different  *)
(* tags, and its tags are those of the commands that have one: as long as  *)
(* none of its requests was overtaken, whose sender takes a tag for good   *)
(* after another one was returned for it.                                  *)
(***************************************************************************)
QueuedApart ==
    \A d \in Device :
        LET Running == Of(d, {"issued"})
            Tagged == Running \cap Ncq
        IN  (\A r \in overtaken : Dev(r) # d) =>
            /\ Running \subseteq Ncq \/ Cardinality(Running) = 1
            /\ ncq_tags[d] = {ncq_tag[r] : r \in Tagged}
            /\ Cardinality(ncq_tags[d]) = Cardinality(Tagged)

\* What the SCSI layer has brought is on its way.
Pending(r) == r \in Request /\ stage[r] # "idle"

(***************************************************************************)
(* Every request is given back although others are brought all the time: a *)
(* command that is not queued is not kept waiting by queued ones, nor they *)
(* by it, and no set or tag is gone.  The exception is a disk that finds   *)
(* all sets taken for ever: there may be more disks than sets, and a disk  *)
(* that is never idle keeps its set.                                       *)
(***************************************************************************)
NoRequestStarved ==
    \A r \in Request :
        \/ Pending(r) ~> ~Pending(r)
        \/ <>[](register_set[Dev(r)] = NO_REGISTER_SET /\ sata_reg_set = Set)
=============================================================================
