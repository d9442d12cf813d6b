------------------------------ MODULE BringUp ------------------------------
(***************************************************************************)
(* Bringing up SATA ports, at start-up and after a hot plug.               *)
(*                                                                         *)
(* A port waits for the signature of what is attached and resets it; a     *)
(* port multiplier (PM) then looks for disks at its own slots, one after   *)
(* the other, and every disk found is identified and set up.  All of these *)
(* are state machines driven by the initialisation queue (InitQueue).      *)
(* Changes of a phy, and a PM's notification that a slot changed, are      *)
(* events; an event waits until its port has nothing to initialise.        *)
(*                                                                         *)
(* State machines, completion routines, timers and events run under the    *)
(* global lock and exclude each other.  A phy may change at any time.      *)
(* There is no staggered spin-up (spin_up_group = 0), no DIPM.             *)
(***************************************************************************)
EXTENDS InitQueue, FiniteSetsExt

CONSTANTS
    NumSlots,       \* of a port multiplier
    AtBoot,         \* what may be attached when the core starts: records attached, present
    AtPlug,         \* what may be plugged in: records attached, present
    Twin,           \* sets of disks with the same WWN
    RetryLimit,     \* OTHER_INIT_REQUEST_RETRY_COUNT
    RetryCnt,       \* how often a slot's phy is looked at
    MaxFailures,    \* requests that fail although what they are sent to is there
    MaxPlugs, MaxSlotChanges, MaxShort,
    None

Slot == 0 .. NumSlots - 1
Direct == NumSlots          \* the part of a port that is a disk without a PM
Pm == NumSlots + 1
PortPart == NumSlots + 2    \* the port's own entry

ASSUME PartAssumption == NumSlots \in Nat \ {0} /\ Part = 0 .. PortPart

Disk == Port \X (0 .. Direct)

ASSUME NumberAssumption == IsFiniteSet(Port) /\ RetryLimit \in Nat /\ RetryCnt \in Nat
ASSUME TwinAssumption == \A d \in Disk : {d} \notin Twin
ASSUME AttachedAssumption ==
    /\ \A boot \in AtBoot : /\ boot.attached \in [Port -> {"none", "disk", "pm"}]
                            /\ boot.present \in [Port -> SUBSET Slot]
    /\ \A it \in AtPlug : it.attached \in {"disk", "pm"} /\ it.present \in SUBSET Slot

VARIABLES
    attached,       \* per port: none, disk, pm
    present,        \* per port: the slots of its PM that hold a disk
    serror,         \* per port: the slots whose error register says changed
    owes,           \* per port: whether a signature is on its way
    signature,      \* per port: phy->sata_signature
    irq,            \* per port: phy->irq_status, of chng and 1to0
    event_queue,    \* of <<port, event>>
    handling,       \* the phy change being handled: port, irq, step; or None
    port_state, pm, disk,
    sent, timer,    \* the entries with a request, or a timer, outstanding
    failures, plugs, slot_changes, short,   \* counts
    lapses          \* cases in which the code leaves something unfinished; the properties
                    \* name the ones they except:
                    \*   early     something changed before the core was started
                    \*   late      a phy changed while its bits were being cleared
                    \*   swapped   something was put in place of what was pulled, too soon
                    \*   silent    a multiplier's signature did not come in time
                    \*   skipped   a slot with a ready phy was passed over
                    \*   srst      a soft reset failed at start-up
                    \*   dropped   a hot plug ended with other slots' changes unseen
                    \*   cleared   a pulled disk's change was wiped out with older ones
                    \*   twins     a duplicate was set down; nothing looks at it again
                    \*   short     there was no device object

hwVars == <<attached, present, serror, owes>>
eventVars == <<irq, event_queue, handling>>
counts == <<failures, plugs, slot_changes, short>>
vars == <<init, core_state, hwVars, signature, eventVars, port_state,
          pm, disk, sent, timer, counts, lapses>>

NoPm == [up |-> FALSE, state |-> "RESET_DONE", active_port |-> 0, retry_cnt |-> 0,
         srst_retry_cnt |-> 0, hot |-> FALSE, global_serror |-> {}]
NewPm == [NoPm EXCEPT !.up = TRUE]

\* Core_ModuleStart, io_chip_init: every port with something attached is an entry.
Init ==
    /\ \E boot \in AtBoot : attached = boot.attached /\ present = boot.present
    /\ LET at == {p \in Port : attached[p] # "none"} IN
       /\ init = [NoInit EXCEPT !.queue = SetToSeq(at \X {PortPart}), !.count = Cardinality(at),
                                !.port = [p \in Port |-> IF p \in at THEN 1 ELSE 0]]
       /\ pm = [p \in Port |-> IF p \in at THEN NewPm ELSE NoPm]
       /\ owes = [p \in Port |-> p \in at]
    /\ core_state = "STARTING"
    /\ serror = [p \in Port |-> {}]
    /\ signature = [p \in Port |-> "none"]
    /\ irq = [p \in Port |-> {}]
    /\ event_queue = <<>> /\ handling = None
    /\ port_state = [p \in Port |-> "POWER_ON"]
    /\ disk = [d \in Disk |-> "gone"]
    /\ sent = {} /\ timer = {}
    /\ failures = 0 /\ plugs = 0 /\ slot_changes = 0 /\ short = 0
    /\ lapses = {}

-----------------------------------------------------------------------------
(* What can be reached, and what is known. *)

Reachable(b) ==
    CASE b[2] = PortPart -> TRUE
      [] b[2] = Pm -> attached[b[1]] = "pm"
      [] b[2] = Direct -> attached[b[1]] = "disk"
      [] OTHER -> attached[b[1]] = "pm" /\ b[2] \in present[b[1]]

DisksOf(p) == {p} \X (0 .. Direct)
Known(d) == disk[d] # "gone"
HasDevice(p) == pm[p].up \/ \E d \in DisksOf(p) : Known(d)

\* A request to b is answered, or fails.
Answered(b) == Reachable(b) /\ UNCHANGED failures
Failed(b) ==
    \/ ~Reachable(b) /\ UNCHANGED failures
    \/ /\ Reachable(b) /\ failures < MaxFailures
       /\ failures' = failures + 1

Lapse(what) == lapses' = lapses \cup {what}

(* Handlers are kept out while a phy change is handled. *)
Locked == handling = None

AtFront(b) == Locked /\ init.queue # <<>> /\ Head(init.queue) = b
Send(b) == sent' = sent \cup {b} /\ UNCHANGED timer
Arm(b) == timer' = timer \cup {b} /\ UNCHANGED sent
Completes(b) == Locked /\ b \in sent /\ sent' = sent \ {b} /\ UNCHANGED timer
Expires(b) == Locked /\ b \in timer /\ timer' = timer \ {b} /\ UNCHANGED sent

-----------------------------------------------------------------------------
(* Setting down. *)

\* pal_set_down_disk
pal_set_down_disk(d) == disk' = [disk EXCEPT ![d] = "gone"]

\* pal_set_down_port: its disks and its PM; the entry of the port itself stays.
PortCleaned(i, p) == Clean(i, p, DisksOf(p) \cup {<<p, Pm>>})
pal_set_down_port(p) ==
    /\ disk' = [d \in Disk |-> IF d[1] = p THEN "gone" ELSE disk[d]]
    /\ pm' = [pm EXCEPT ![p] = NoPm]

\* core_handle_init_error: tried again, or given up.
core_handle_init_error(b) ==
    LET i == [init EXCEPT !.retry[b] = @ + 1] IN
    IF i.retry[b] <= RetryLimit
    THEN init' = Requeue(i, b) /\ UNCHANGED <<disk, pm>>
    ELSE IF b[2] = Pm
         THEN pal_set_down_port(b[1]) /\ init' = Done(PortCleaned(i, b[1]), b[1])
         ELSE /\ pal_set_down_disk(b) /\ UNCHANGED pm
              /\ init' = Done(Clean(i, b[1], {b}), b[1])

-----------------------------------------------------------------------------
(* The port. *)

\* sata_port_process_new: a PM goes on by itself, anything else is a disk.
sata_port_process_new(p) ==
    LET i == Taken(init) IN
    \/ /\ signature[p] = "pm"
       /\ init' = Done(Start(i, <<p, Pm>>), p)
       /\ UNCHANGED <<pm, disk, short, lapses>>
    \/ /\ signature[p] # "pm"
       /\ pm' = [pm EXCEPT ![p] = NoPm]
       /\ \/ /\ init' = Done(Start(i, <<p, Direct>>), p)
             /\ disk' = [disk EXCEPT ![<<p, Direct>>] = "RESET_DONE"]
             /\ UNCHANGED <<short, lapses>>
          \/ /\ short < MaxShort /\ short' = short + 1    \* no device object
             /\ init' = Done(i, p)
             /\ Lapse("short") /\ UNCHANGED disk

\* sata_port_state_machine
sata_port_state_machine(p) ==
    LET b == <<p, PortPart>>
        heard == signature[p] # "none"
        state == port_state[p]
    IN
    /\ AtFront(b)
    /\ \/ /\ state \in {"POWER_ON", "WAIT_SIG"} /\ ~heard
          /\ Arm(b) /\ init' = Taken(init)
          /\ UNCHANGED <<port_state, owes, pm, disk, short, lapses>>
       \/ /\ (state = "POWER_ON" /\ heard) \/ state = "SOFT_RESET_1"
          /\ port_state' = [port_state EXCEPT ![p] = "SOFT_RESET_1"]
          /\ Send(b) /\ init' = Taken(init)
          /\ UNCHANGED <<owes, pm, disk, short, lapses>>
       \/ /\ state = "SOFT_RESET_0"
          /\ owes' = [owes EXCEPT ![p] = attached[p] # "none"]
          /\ Send(b) /\ init' = Taken(init)
          /\ UNCHANGED <<port_state, pm, disk, short, lapses>>
       \/ /\ (state = "WAIT_SIG" /\ heard) \/ state = "SIG_DONE"
          /\ port_state' = [port_state EXCEPT ![p] = "SIG_DONE"]
          /\ sata_port_process_new(p)
          /\ UNCHANGED <<sent, timer, owes>>
    /\ UNCHANGED <<core_state, attached, present, serror, signature, eventVars,
                   failures, plugs, slot_changes>>

\* sata_port_intl_req_callback: whether the soft reset failed does not matter.
sata_port_intl_req_callback(p) ==
    LET b == <<p, PortPart>> IN
    /\ Completes(b)
    /\ IF port_state[p] = "SOFT_RESET_1"
       THEN /\ signature' = [signature EXCEPT ![p] = "none"]
            /\ port_state' = [port_state EXCEPT ![p] = "SOFT_RESET_0"]
       ELSE /\ port_state' = [port_state EXCEPT ![p] = "WAIT_SIG"]
            /\ UNCHANGED signature
    /\ init' = Requeue(init, b)
    /\ UNCHANGED <<core_state, hwVars, eventVars, pm, disk, counts, lapses>>

\* _sata_sig_time_out
SigDone(p) ==
    /\ port_state' = [port_state EXCEPT ![p] =
                        IF @ = "POWER_ON" THEN "SOFT_RESET_1" ELSE "SIG_DONE"]
    /\ init' = Requeue(init, <<p, PortPart>>)

sata_sig_time_out(p) ==
    /\ Expires(<<p, PortPart>>)
    /\ SigDone(p)
    /\ IF port_state[p] = "WAIT_SIG" /\ attached[p] = "pm" THEN Lapse("silent")
       ELSE UNCHANGED lapses
    /\ UNCHANGED <<core_state, hwVars, signature, eventVars, pm, disk,
                   counts>>

\* sata_port_notify_event: a signature arrives; the timer's routine goes on at once.
sata_port_notify_event(p) ==
    /\ Locked /\ owes[p] /\ attached[p] # "none"
    /\ owes' = [owes EXCEPT ![p] = FALSE]
    /\ IF port_state[p] = "SIG_DONE" THEN UNCHANGED <<signature, init, port_state, timer>>
       ELSE /\ signature' = [signature EXCEPT ![p] = attached[p]]
            /\ IF <<p, PortPart>> \in timer
               THEN timer' = timer \ {<<p, PortPart>>} /\ SigDone(p)
               ELSE UNCHANGED <<init, port_state, timer>>
    /\ UNCHANGED <<core_state, attached, present, serror, eventVars, pm, disk,
                   sent, counts, lapses>>

-----------------------------------------------------------------------------
(* A disk. *)

Identified(d) == disk[d] \notin {"gone", "IDLE", "RESET_DONE"}
core_check_duplicate_device(d) == \E e \in Disk \ {d} : {d, e} \in Twin /\ Identified(e)

NextSetup == [RESET_DONE |-> "IDENTIFY_DONE", ENABLE_DIPM_DONE |-> "SET_PIO_DONE",
              SET_PIO_DONE |-> "SET_UDMA_DONE",
              SET_UDMA_DONE |-> "ENABLE_WRITE_CACHE_DONE",
              ENABLE_WRITE_CACHE_DONE |-> "ENABLE_READ_AHEAD_DONE"]

\* What is left to be sent; a disk without write cache or read ahead skips them.
SetupSent(d) ==
    CASE disk[d] = "RESET_DONE" -> {"RESET_DONE"}
      [] disk[d] \in {"IDENTIFY_DONE", "ENABLE_DIPM_DONE"} -> {"ENABLE_DIPM_DONE"}
      [] disk[d] = "SET_PIO_DONE" -> {"SET_PIO_DONE"}
      [] disk[d] = "SET_UDMA_DONE" ->
            {"SET_UDMA_DONE", "ENABLE_WRITE_CACHE_DONE", "INIT_DONE"}
      [] disk[d] = "ENABLE_WRITE_CACHE_DONE" -> {"ENABLE_WRITE_CACHE_DONE", "INIT_DONE"}
      [] disk[d] = "ENABLE_READ_AHEAD_DONE" -> {"INIT_DONE"}
      [] OTHER -> {}

\* sata_device_state_machine, and what core_handle_init_queue does with a duplicate.
sata_device_state_machine(d) ==
    LET twin == disk[d] = "IDENTIFY_DONE" /\ core_check_duplicate_device(d) IN
    /\ AtFront(d)
    /\ \/ /\ disk[d] = "IDLE"       \* returns FALSE: stays in front
          /\ disk' = [disk EXCEPT ![d] = "RESET_DONE"]
          /\ UNCHANGED <<init, sent, timer, lapses>>
       \/ /\ twin
          /\ pal_set_down_disk(d)
          /\ init' = Done(Taken(init), d[1])
          /\ Lapse("twins")
          /\ UNCHANGED <<sent, timer>>
       \/ /\ ~twin
          /\ \E state \in SetupSent(d) :
                /\ disk' = [disk EXCEPT ![d] = state]
                /\ IF state = "INIT_DONE"
                   THEN init' = Done(Taken(init), d[1]) /\ UNCHANGED <<sent, timer>>
                   ELSE init' = Taken(init) /\ Send(d)
          /\ UNCHANGED lapses
    /\ UNCHANGED <<core_state, hwVars, signature, eventVars, port_state, pm, counts>>

sata_device_intl_req_callback(d) ==
    /\ Completes(d)
    /\ \/ /\ Answered(d)
          /\ disk' = [disk EXCEPT ![d] = NextSetup[@]]
          /\ init' = Requeue(init, d)
          /\ UNCHANGED pm
       \/ Failed(d) /\ core_handle_init_error(d)
    /\ UNCHANGED <<core_state, hwVars, signature, eventVars, port_state,
                   plugs, slot_changes, short, lapses>>

-----------------------------------------------------------------------------
(* A port multiplier. *)

LastSlot(x) == x.active_port + 1 >= NumSlots
Looking(x) == [x EXCEPT !.state = "PORT_CHECK_PHY_RDY"]

\* Behind PM_STATE_SIG_DONE: the next slot of the start-up, or of the hot plug.
NextSlot(x) ==
    IF x.hot
    THEN IF x.global_serror = {}
         THEN [x EXCEPT !.active_port = 0, !.state = "DONE", !.hot = FALSE]
         ELSE LET s == Min(x.global_serror) IN
              [x EXCEPT !.active_port = s, !.global_serror = @ \ {s},
                        !.state = "READ_PORT_ERROR"]
    ELSE IF LastSlot(x) THEN [x EXCEPT !.active_port = 0, !.state = "DONE"]
         ELSE Looking([x EXCEPT !.active_port = @ + 1])

IdleDisks_last(p) == {d \in {p} \X Slot : disk[d] = "IDLE" /\ d[2] = NumSlots - 1}
IdleDisks(p) == {d \in {p} \X Slot : disk[d] = "IDLE"}

\* pm_state_machine: autoload of a PM's registers is left out.
pm_state_machine(p) ==
    LET b == <<p, Pm>>
        state == pm[p].state
    IN
    /\ AtFront(b)
    /\ \/ /\ state \notin {"WAIT_SIG", "SIG_DONE", "DONE"}
          /\ pm' = [pm EXCEPT ![p].state = IF @ = "AKUPA_WORKAROUND" THEN "READ_ID_DONE" ELSE @]
          /\ init' = Taken(init) /\ Send(b)
          /\ UNCHANGED disk
       \/ /\ state = "WAIT_SIG"     \* no signature was seen during the soft reset
          /\ init' = Taken(init) /\ Arm(b)
          /\ UNCHANGED <<pm, disk>>
       \/ /\ state \in {"WAIT_SIG", "SIG_DONE"}
          /\ pm' = [pm EXCEPT ![p] = NextSlot(@)]
          /\ UNCHANGED <<init, sent, timer, disk>>
       \/ /\ state = "DONE"
          /\ disk' = [d \in Disk |-> IF d \in IdleDisks(p) THEN "RESET_DONE" ELSE disk[d]]
          /\ init' = Done(StartNew(Taken(init), p, NumSlots, IdleDisks(p)), p)
          /\ UNCHANGED <<pm, sent, timer>>
    /\ UNCHANGED <<core_state, hwVars, signature, eventVars, port_state, counts, lapses>>

NextSetupOfPm ==
    [RESET_DONE |-> "READ_INFO_DONE", READ_INFO_DONE |-> "AKUPA_WORKAROUND",
     READ_ID_DONE |-> "READ_REV_DONE", READ_REV_DONE |-> "ENABLE_FEATURES",
     ENABLE_FEATURES |-> "CLEAR_ERROR_INFO", CLEAR_ERROR_INFO |-> "SPIN_UP_ALL_PORTS",
     ENABLE_PM_PORT_1 |-> "ENABLE_PM_PORT_0", ENABLE_PM_PORT_0 |-> "PORT_CHECK_PHY_RDY",
     CLEAR_PORT_ERROR |-> "PORT_CHECK_PHY_RDY",
     ISSUE_SOFT_RESET_1 |-> "ISSUE_SOFT_RESET_0", ISSUE_SOFT_RESET_0 |-> "WAIT_SIG"]

SoftReset(x) == x.state \in {"ISSUE_SOFT_RESET_1", "ISSUE_SOFT_RESET_0"}
\* What the request sent for a PM goes to.
Asked(p) == IF SoftReset(pm[p]) THEN <<p, pm[p].active_port>> ELSE <<p, Pm>>

\* PM_STATE_PORT_CHECK_PHY_RDY at start-up.
LookedAt(x, ready) ==
    IF x.srst_retry_cnt > 0 /\ ready THEN [x EXCEPT !.state = "CLEAR_X_BIT"]
    ELSE IF x.retry_cnt > 0 THEN [x EXCEPT !.retry_cnt = @ - 1]
    ELSE IF x.srst_retry_cnt > 0
         THEN [x EXCEPT !.srst_retry_cnt = @ - 1, !.state = "ENABLE_PM_PORT_1"]
    ELSE IF LastSlot(x) THEN [x EXCEPT !.active_port = 0, !.state = "DONE"]
    ELSE [x EXCEPT !.active_port = @ + 1]

PmGoes(p, x) ==
    /\ pm' = [pm EXCEPT ![p] = x]
    /\ init' = Requeue(init, <<p, Pm>>)

\* A change is taken note of by clearing the slot's error register.
ErrorCleared(p, s) == serror' = [serror EXCEPT ![p] = @ \ {s}]

\* PM_STATE_CLEAR_X_BIT: a disk is set up where none was known.
XBitCleared(p) ==
    LET x == [pm[p] EXCEPT !.state = "ISSUE_SOFT_RESET_1"]
        d == <<p, x.active_port>>
    IN
    /\ ErrorCleared(p, x.active_port)
    /\ \/ /\ Known(d)
          /\ PmGoes(p, x)
          /\ IF x.active_port \in present[p] THEN UNCHANGED lapses
             ELSE Lapse("cleared")  \* pulled since it was looked at: lost
          /\ UNCHANGED <<disk, short>>
       \/ /\ ~Known(d)
          /\ disk' = [disk EXCEPT ![d] = "IDLE"]
          /\ pm' = [pm EXCEPT ![p] = x]
          /\ init' = [Requeue(init, <<p, Pm>>) EXCEPT !.retry[d] = 0]
          /\ UNCHANGED <<short, lapses>>
       \/ /\ ~Known(d)              \* no device object
          /\ short < MaxShort /\ short' = short + 1
          /\ pm' = [pm EXCEPT ![p] = x]
          /\ Lapse("short")
          /\ UNCHANGED <<init, disk>>

\* pm_init_req_callback
PmSetUp(p) ==
    LET x == pm[p]
        ready == x.active_port \in present[p]
    IN
    \/ /\ x.state \in DOMAIN NextSetupOfPm
       /\ PmGoes(p, [x EXCEPT !.state = NextSetupOfPm[@]])
       /\ IF x.state = "CLEAR_PORT_ERROR" THEN ErrorCleared(p, x.active_port)
          ELSE UNCHANGED serror
       /\ UNCHANGED <<timer, disk, short, lapses>>
    \/ /\ x.state = "SPIN_UP_ALL_PORTS"
       /\ IF LastSlot(x)
          THEN /\ pm' = [pm EXCEPT ![p].active_port = 0]
               /\ timer' = timer \cup {<<p, Pm>>} /\ UNCHANGED init
          ELSE PmGoes(p, [x EXCEPT !.active_port = @ + 1]) /\ UNCHANGED timer
       /\ UNCHANGED <<serror, disk, short, lapses>>
    \/ /\ x.state = "SPIN_UP_DONE"
       /\ PmGoes(p, IF LastSlot(x)
                    THEN Looking([x EXCEPT !.active_port = 0, !.retry_cnt = RetryCnt,
                                           !.srst_retry_cnt = 1])
                    ELSE [x EXCEPT !.active_port = @ + 1])
       /\ UNCHANGED <<serror, timer, disk, short, lapses>>
    \/ /\ x.state = "PORT_CHECK_PHY_RDY" /\ ~x.hot
       /\ PmGoes(p, LookedAt(x, ready))
       /\ IF ready /\ x.retry_cnt = 0 /\ x.srst_retry_cnt = 0 THEN Lapse("skipped")
          ELSE UNCHANGED lapses
       /\ UNCHANGED <<serror, timer, disk, short>>
    \/ /\ x.state = "CLEAR_X_BIT"
       /\ XBitCleared(p)
       /\ UNCHANGED timer

\* pm_hot_plug_req_callback
HotDone(p, x) ==
    /\ pm' = [pm EXCEPT ![p] = [x EXCEPT !.state = "DONE"]]
    /\ init' = Done(init, p)

GlobalErrorRead(p, bits) ==
    LET x == pm[p] IN
    IF bits = {} THEN HotDone(p, [x EXCEPT !.global_serror = {}])
    ELSE PmGoes(p, [x EXCEPT !.active_port = Min(bits), !.global_serror = bits \ {Min(bits)},
                             !.state = "READ_PORT_ERROR"])

PmHotPlug(p) ==
    LET x == pm[p]
        d == <<p, x.active_port>>
        ready == x.active_port \in present[p]
        over == [x EXCEPT !.state = "SIG_DONE"]
    IN
    \/ /\ x.state = "READ_GLOBAL_ERROR"
       /\ \/ GlobalErrorRead(p, serror[p]) /\ UNCHANGED <<failures, lapses>>
          \/ /\ failures < MaxFailures      \* a slot with an error of another kind
             /\ failures' = failures + 1
             /\ \E s \in Slot \ serror[p] : GlobalErrorRead(p, serror[p] \cup {s})
             /\ UNCHANGED lapses
       /\ UNCHANGED disk
    \/ /\ x.state = "READ_PORT_ERROR"
       /\ IF x.active_port \in serror[p]
          THEN PmGoes(p, [x EXCEPT !.state = "CLEAR_PORT_ERROR"]) /\ UNCHANGED lapses
          ELSE /\ HotDone(p, x)
               /\ IF x.global_serror = {} /\ IdleDisks(p) = {} THEN UNCHANGED lapses
                  ELSE Lapse("dropped")
       /\ UNCHANGED <<failures, disk>>
    \/ /\ x.state = "PORT_CHECK_PHY_RDY" /\ x.hot
       /\ \/ /\ ready
             /\ PmGoes(p, [x EXCEPT !.state = "CLEAR_X_BIT"])
             /\ UNCHANGED disk
          \/ /\ ~ready /\ ~Known(d)
             /\ PmGoes(p, IF x.retry_cnt > 0 THEN [x EXCEPT !.retry_cnt = @ - 1] ELSE over)
             /\ UNCHANGED disk
          \/ /\ ~ready /\ Known(d)      \* sata_pm_disk_unplug
             /\ pal_set_down_disk(d)
             /\ pm' = [pm EXCEPT ![p] = over]
             /\ init' = Requeue(Clean(init, p, {d}), <<p, Pm>>)
       /\ UNCHANGED <<failures, lapses>>

PmFailed_lost(p) ==
    IF SoftReset(pm[p]) THEN UNCHANGED <<init, disk, pm, lapses>>
    ELSE core_handle_init_error(<<p, Pm>>) /\ UNCHANGED lapses
PmFailed(p) ==
    IF SoftReset(pm[p])
    THEN IF pm[p].hot
         THEN PmGoes(p, [pm[p] EXCEPT !.state = "SIG_DONE"]) /\ UNCHANGED <<disk, lapses>>
         ELSE core_handle_init_error(<<p, pm[p].active_port>>) /\ Lapse("srst")
    ELSE core_handle_init_error(<<p, Pm>>) /\ UNCHANGED lapses

pm_req_callback(p) ==
    /\ Locked /\ <<p, Pm>> \in sent
    /\ sent' = sent \ {<<p, Pm>>}
    /\ \/ Answered(Asked(p)) /\ PmSetUp(p)
       \/ /\ Reachable(<<p, Pm>>) /\ PmHotPlug(p)
          /\ UNCHANGED <<serror, timer, short>>
       \/ /\ Failed(Asked(p)) /\ PmFailed(p)
          /\ UNCHANGED <<serror, timer, short>>
    /\ UNCHANGED <<core_state, attached, present, owes, signature, eventVars,
                   port_state, plugs, slot_changes>>

\* pm_wait_for_spinup, pm_sig_time_out
pm_time_out(p) ==
    /\ Expires(<<p, Pm>>)
    /\ PmGoes(p, [pm[p] EXCEPT !.state = IF @ = "WAIT_SIG" THEN "SIG_DONE" ELSE "SPIN_UP_DONE"])
    /\ UNCHANGED <<core_state, hwVars, signature, eventVars, port_state, disk,
                   counts, lapses>>

-----------------------------------------------------------------------------
(* Events. *)

\* pal_notify_event: nothing is noted before the core is started, nothing twice.
pal_notify_event(p, event) ==
    event_queue' = IF core_state = "STARTED" /\ <<p, event>> \notin ToSet(event_queue)
                   THEN Append(event_queue, <<p, event>>) ELSE event_queue

\* An event waits while its port has anything to initialise.
Waits_never(p) == FALSE
Waits(p) == init.port[p] > 0
FirstEvent == LET free == {i \in DOMAIN event_queue : ~Waits(event_queue[i][1])} IN
              IF free = {} THEN 0 ELSE Min(free)

\* core_handle_event_queue, pal_event_handling, pm_hot_plug
core_handle_event_queue ==
    LET p == event_queue[FirstEvent][1] IN
    /\ Locked /\ FirstEvent # 0
    /\ event_queue' = RemoveAt(event_queue, FirstEvent)
    /\ \/ /\ event_queue[FirstEvent][2] = "async"
          /\ IF pm[p].up
             THEN /\ pm' = [pm EXCEPT ![p].state = "READ_GLOBAL_ERROR", ![p].hot = TRUE]
                  /\ init' = Start(init, <<p, Pm>>)
             ELSE UNCHANGED <<pm, init>>
          /\ UNCHANGED handling
       \/ /\ event_queue[FirstEvent][2] = "phy"
          /\ handling' = IF "chng" \in irq[p]
                         THEN [port |-> p, irq |-> irq[p], step |-> "settle"] ELSE None
          /\ UNCHANGED <<pm, init>>
    /\ UNCHANGED <<core_state, hwVars, signature, irq, port_state, disk, sent, timer,
                   counts, lapses>>

\* pl_handle_plugin, sata_init_port
pl_handle_plugin_state(i, p) ==
    /\ pm' = [pm EXCEPT ![p] = NewPm]
    /\ owes' = [owes EXCEPT ![p] = TRUE]
    /\ signature' = [signature EXCEPT ![p] = "none"]
    /\ init' = Start(i, <<p, PortPart>>) /\ UNCHANGED port_state
pl_handle_plugin(i, p) ==
    /\ pm' = [pm EXCEPT ![p] = NewPm]
    /\ owes' = [owes EXCEPT ![p] = TRUE]
    /\ signature' = [signature EXCEPT ![p] = "none"]
    /\ port_state' = [port_state EXCEPT ![p] = "POWER_ON"]
    /\ init' = Start(i, <<p, PortPart>>)

\* pl_handle_hotplug_event, once the phy has settled.
pl_handle_hotplug_event ==
    LET p == handling.port
        lost == "1to0" \in handling.irq
        ready == attached[p] # "none"
    IN
    /\ handling # None /\ handling.step = "settle"
    /\ handling' = [handling EXCEPT !.step = "clear"]
    /\ \/ /\ ~ready /\ ~lost
          /\ UNCHANGED <<init, pm, disk, owes, signature, port_state, lapses>>
       \/ /\ ~ready /\ lost             \* pl_handle_unplug
          /\ pal_set_down_port(p)
          /\ init' = PortCleaned(init, p)
          /\ UNCHANGED <<owes, signature, port_state, lapses>>
       \/ /\ ready /\ lost /\ HasDevice(p)
          /\ Lapse("swapped")
          /\ UNCHANGED <<init, pm, disk, owes, signature, port_state>>
       \/ /\ ready /\ (lost => ~HasDevice(p))
          /\ disk' = [d \in Disk |-> IF d[1] = p THEN "gone" ELSE disk[d]]
          /\ pl_handle_plugin(PortCleaned(init, p), p)
          /\ UNCHANGED lapses
    /\ UNCHANGED <<core_state, attached, present, serror, irq, event_queue, sent, timer,
                   counts>>

IrqCleared ==
    /\ handling # None /\ handling.step = "clear"
    /\ irq' = [irq EXCEPT ![handling.port] = {}]
    /\ handling' = None
    /\ UNCHANGED <<init, core_state, hwVars, signature, event_queue, port_state, pm, disk,
                   sent, timer, counts, lapses>>

-----------------------------------------------------------------------------
(* What happens outside. *)

Missed(p) ==
    lapses' = lapses
        \cup (IF core_state # "STARTED" THEN {"early"} ELSE {})
        \cup (IF handling # None /\ handling.port = p /\ handling.step = "clear"
              THEN {"late"} ELSE {})

PhyChanges(p, bits) ==
    /\ plugs < MaxPlugs /\ plugs' = plugs + 1
    /\ irq' = [irq EXCEPT ![p] = @ \cup bits]
    /\ pal_notify_event(p, "phy")
    /\ Missed(p)
    /\ UNCHANGED <<init, core_state, signature, handling, port_state, pm, disk, sent, timer,
                   failures, slot_changes, short>>

Plug(p) ==
    /\ attached[p] = "none"
    /\ \E it \in AtPlug :
          /\ attached' = [attached EXCEPT ![p] = it.attached]
          /\ present' = [present EXCEPT ![p] = it.present]
    /\ PhyChanges(p, {"chng"})
    /\ UNCHANGED <<serror, owes>>

Pull(p) ==
    /\ attached[p] # "none"
    /\ attached' = [attached EXCEPT ![p] = "none"]
    /\ present' = [present EXCEPT ![p] = {}]
    /\ serror' = [serror EXCEPT ![p] = {}]
    /\ owes' = [owes EXCEPT ![p] = FALSE]
    /\ PhyChanges(p, {"chng", "1to0"})

\* A PM reports changes once PM_GSCR_FEATURES_ENABLE is written.
Reports(p) == pm[p].up /\ pm[p].state \notin
    {"RESET_DONE", "READ_INFO_DONE", "AKUPA_WORKAROUND", "READ_ID_DONE", "READ_REV_DONE",
     "ENABLE_FEATURES"}

SlotChanges(p, s) ==
    /\ attached[p] = "pm"
    /\ slot_changes < MaxSlotChanges /\ slot_changes' = slot_changes + 1
    /\ present' = [present EXCEPT ![p] = (@ \cup {s}) \ (@ \cap {s})]
    /\ serror' = [serror EXCEPT ![p] = @ \cup {s}]
    /\ IF Reports(p) THEN pal_notify_event(p, "async") ELSE UNCHANGED event_queue
    /\ lapses' = lapses \cup IF core_state # "STARTED" THEN {"early"} ELSE {}
    /\ UNCHANGED <<init, core_state, attached, owes, signature, irq, handling, port_state, pm,
                   disk, sent, timer, failures, plugs, short>>

Started ==
    /\ Locked /\ core_check_init_done(sent)
    /\ UNCHANGED <<init, hwVars, signature, eventVars, port_state, pm, disk, sent, timer,
                   counts, lapses>>

-----------------------------------------------------------------------------
InitStep == \/ \E p \in Port : sata_port_state_machine(p) \/ pm_state_machine(p)
            \/ \E d \in Disk : sata_device_state_machine(d)
PortStep(p) == sata_port_intl_req_callback(p) \/ sata_sig_time_out(p)
PmStep(p) == pm_req_callback(p) \/ pm_time_out(p)
EventStep == core_handle_event_queue \/ pl_handle_hotplug_event \/ IrqCleared

Next ==
    \/ InitStep \/ EventStep \/ Started
    \/ \E p \in Port : \/ PortStep(p) \/ PmStep(p) \/ sata_port_notify_event(p)
                       \/ Plug(p) \/ Pull(p)
                       \/ \E s \in Slot : SlotChanges(p, s)
    \/ \E d \in Disk : sata_device_intl_req_callback(d)

Fairness ==
    /\ WF_vars(InitStep) /\ WF_vars(EventStep) /\ WF_vars(Started)
    /\ \A p \in Port : WF_vars(PortStep(p)) /\ WF_vars(PmStep(p))
    /\ \A d \in Disk : WF_vars(sata_device_intl_req_callback(d))

Spec == Init /\ [][Next]_vars /\ Fairness

-----------------------------------------------------------------------------
(* Properties. *)

Pending == Queued(init) \cup sent \cup timer

PmState == {"RESET_DONE", "READ_INFO_DONE", "AKUPA_WORKAROUND", "READ_ID_DONE",
    "READ_REV_DONE", "ENABLE_FEATURES", "CLEAR_ERROR_INFO", "SPIN_UP_ALL_PORTS",
    "SPIN_UP_DONE", "PORT_CHECK_PHY_RDY", "ENABLE_PM_PORT_1", "ENABLE_PM_PORT_0",
    "CLEAR_X_BIT", "ISSUE_SOFT_RESET_1", "ISSUE_SOFT_RESET_0", "WAIT_SIG", "SIG_DONE",
    "READ_GLOBAL_ERROR", "READ_PORT_ERROR", "CLEAR_PORT_ERROR", "DONE"}
DiskState == DOMAIN NextSetup \cup {"gone", "IDLE", "IDENTIFY_DONE",
                                    "ENABLE_READ_AHEAD_DONE", "INIT_DONE"}

\* Every machine is in a state its code knows, and a multiplier looks at a slot it has.
TypeOK ==
    /\ init.queue \in Seq(Base) /\ init.count \in Nat
    /\ init.port \in [Port -> Nat] /\ init.retry \in [Base -> 0 .. RetryLimit + 1]
    /\ core_state \in {"STARTING", "STARTED"}
    /\ attached \in [Port -> {"none", "disk", "pm"}]
    /\ present \in [Port -> SUBSET Slot] /\ serror \in [Port -> SUBSET Slot]
    /\ signature \in [Port -> {"none", "disk", "pm"}] /\ owes \in [Port -> BOOLEAN]
    /\ port_state \in [Port -> {"POWER_ON", "SOFT_RESET_1", "SOFT_RESET_0", "WAIT_SIG", "SIG_DONE"}]
    /\ disk \in [Disk -> DiskState]
    /\ \A p \in Port : pm[p].state \in PmState /\ pm[p].active_port \in Slot
    /\ sent \in SUBSET Base /\ timer \in SUBSET Base
    /\ \A e \in ToSet(event_queue) : e[1] \in Port /\ e[2] \in {"async", "phy"}

\* init_queue_count and a port's init_count count exactly the entries that are queued,
\* or wait for a request or a timer; each is in one of the three (core_util.c:168, 389).
InitCountExact ==
    /\ sent \cap timer = {} /\ Queued(init) \cap (sent \cup timer) = {}
    /\ "short" \notin lapses =>
          /\ init.count = Cardinality(Pending)
          /\ \A p \in Port : init.port[p] = Cardinality({b \in Pending : PortOf(b) = p})

\* A port, its multiplier and the disks behind it are brought up one after the other:
\* a multiplier resets nothing while a disk of its port is being set up
\* (core_event.c:218, core_pm.c:785).
MachinesTakeTurns ==
    /\ TypeOK /\ InitCountExact
    /\ \A b \in Pending : b[2] \in {Pm, PortPart} =>
        \A c \in Pending \ {b} : PortOf(c) # PortOf(b)

\* Two disks with one name are never both in use (core_check_duplicate_device).
TwinsApart == \A d, e \in Disk : {d, e} \in Twin => ~(disk[d] = "INIT_DONE" /\ disk[e] = "INIT_DONE")

\* When nothing of a port is being initialised, no multiplier has stopped half way and
\* no disk that was found was forgotten (core_pm.c:754-791), but for the lapses; and at
\* no time are two disks of one name in use.
NothingForgotten ==
    /\ TwinsApart
    /\ \A p \in Port : init.port[p] = 0 /\ lapses \cap {"short", "srst", "dropped"} = {} =>
          /\ pm[p].up => pm[p].state = "DONE"
          /\ \A d \in DisksOf(p) : disk[d] \in {"gone", "INIT_DONE"}

\* The core starts: failures and signatures that never come end, too (core_manager.c:751).
InitEnds == <>(core_state = "STARTED" \/ "short" \in lapses)

Matches(p) ==
    /\ HasDevice(p) => attached[p] # "none"
    /\ attached[p] = "disk" => disk[<<p, Direct>>] = "INIT_DONE"
    /\ attached[p] = "pm" => /\ pm[p].up
                             /\ \A s \in Slot : IF s \in present[p] THEN disk[<<p, s>>] = "INIT_DONE"
                                               ELSE ~Known(<<p, s>>)

\* Once changes stop, what is in use is what is attached, but for the lapses.
KnownMatchesAttached == <>[](lapses # {} \/ \A p \in Port : Matches(p))

\* "done retrying, phy not ready, move to next port" (core_pm.c:318): the start-up of a
\* multiplier leaves a slot without a reset of what is there only if its phy is not ready.
ReadySlotIsTaken ==
    [][\A p \in Port :
         /\ pm[p].up /\ pm[p].state = "PORT_CHECK_PHY_RDY" /\ ~pm[p].hot
         /\ pm'[p].up /\ pm'[p].state \in {"PORT_CHECK_PHY_RDY", "DONE"}
         /\ pm'[p].state = "DONE" \/ pm'[p].active_port # pm[p].active_port
         => pm[p].active_port \notin present[p]]_vars
=============================================================================
