# A model of the mv14xx driver

The repository is Marvell's Linux driver for the 88SE14xx ("Athena") SAS/SATA
host bus adapters, `mv-6.0.0.1009N_ubuntu/`. Paths below are relative to that
directory. The models follow the build the Makefiles describe: Linux, non-RAID,
Athena, MSI-X, `SUPPORT_ENHANCED_EH`; code that another configuration would
compile is not modelled.

Contents: the system and its parts, the modules and how they correspond to the
code, the runs, the bounds, the fairness, the proofs, what the models leave
out, and the plan.

## The system

A SCSI command enters at `linux/linux_main.c` (`mv_linux_queue_command`),
becomes an `MV_Request`, and goes to the core (`core/core/`). The core keeps it
on waiting queues, translates it (`core/scsi`, `core/sata_base`,
`core/sas_base`), puts it into a slot and hands the slot to the chip. The chip
writes completion entries; an interrupt turns them into completed requests and
gives these back to the Linux layer. Everything that is not a plain success
(errors, timeouts, disks that come and go, initialisation) is the slow path.

Spinlocks separate the parts. Several processors are in the core at once: a
processor sends what the SCSI layer gave it, an interrupt handler on another
one completes, and a timer in softirq context looks for timeouts. Two locks
have a special role: the *global lock* of the slow path
(`OSSW_SPIN_LOCK_GLOBAL`), and `core_queue_running_SpinLock`, which protects
the flags that say who works on which queue.

| Component | State | Operations | Talks to |
|---|---|---|---|
| tag pools `lib/common/com_tag.c` | an array of free tags, `Top`, `PtrOut` | take, return, empty? | timers (FILO), command slots (FIFO) |
| software timers `linux/hba_timer.c` | an array of timer slots, its tag pool | add, cancel, the once-a-second check | calls `core_req_timeout`, then pushes the core's queues |
| request timeouts `core/core/core_error.c` | per device: the list of sent requests and one timer id | arm, renew, cancel, time out | timers; sending and completing call it |
| waiting, sending, completing `core_manager.c`, `core_protocol.c` | waiting, high-priority and completion queues; per device `outstanding_req`, `blocked` | submit, push, send, put aside, complete, give back | slots, global lock, Linux layer |
| slots, completion ring, abort `core_protocol.c`, `core_hal.c`, `core_error.c` | `running_req[slot]`, `slot_pool`, the ring | register, issue, complete, reset a slot, abort a device or a port | hardware, timeouts, error queue |
| global lock and pushing `core_util.c`, `core_manager.c` | `pause_waiting_queue`, `waiting_queue_running`, `core_queue_running` | enter, leave, hand out, push | all of the slow path |
| hot-plug messages `linux/hba_timer.c`, `hba_exp.c` | two lists of messages, `need_rescan`, a work item | insert, handle, rescan | the core's notifications, the SCSI layer |
| error queue, SATA and SAS recovery `core_error.c`, `sata_error.c`, `sas_error.c` | error queue, per device `error_count` and state | queue, walk, per-state steps, give up, set down | sends its own requests; aborts; global lock |
| event queue `core_event.c` | event queue with due times | hot plug, unplug, asynchronous notification | phys, ports, error queue |
| initialisation `core_manager.c`, `core_util.c`, `sas_init.c` | init queue, per port `init_count`, core state | start, discover, spin up, finish, shut down | all of the core |
| resource pools `core_resource.c` | memory carved at start, free lists | allocate, free | every internal request |
| register sets `core_protocol.c`, `core_sata.c` | per device a register set, NCQ tags, the marks that keep queued commands apart | take with the first request, return with the last | sending, aborting |
| Linux layer `linux_main.c`, `hba_mod.c` | request cache and pool, adapters | queue command, complete, probe, remove, suspend | SCSI layer, core |

`PROJECT.json` lists these and the remaining parts (ioctl interface, SCSI to ATA
translation, expanders, port multipliers, enclosures, large requests, flash and
GPIO, code that is not built), each with its status.

### What is hard here

* **Interleavings.** Nearly every queue is looked at without a lock before the
  lock is taken; the pause handshake of the global lock spans two locks;
  `hba_msg_insert` lets go of the lock between picking a message and moving it;
  the port abort picks a request under one lock and resets it under another.
* **Timeouts against late answers.** `Timer_CheckRequest` calls a routine with
  the lock released and with arguments it reads from the slot afterwards, and
  releases the slot whatever it holds by then. Timer ids are re-used.
* **Partial failure.** Sending takes a count, a slot, a register set and a
  scatter-gather buffer one after the other and undoes them on failure.
* **Stale entries.** Aborting does not read the completion ring first, so
  entries of aborted commands are found later, when their slots may be in use.
* **Lost wake-ups.** The queue pusher and the work item turn a caller away when
  somebody else is inside; the caller's work must still be seen.
* **Limits.** Slots, timer slots, messages and the queue depth of a device.
* **Chains of callbacks.** Recovery and start-up are state machines that go on in
  completion and timer routines; a request that cannot be allocated, a device that
  goes away in between, or a second reason to enter one, must not end the chain.

Each is at its line under `hazards` in `PROJECT.json`, with the properties that
cover it, or the reason why none does.

## The modules

State variables and actions carry the names of the code where it has any. `map`
in `PROJECT.json` gives each definition's lines. Definitions named *Faulty
variant* are the mutation runs' and are used by no specification.

* **`TagQueue`** is what a tag pool promises: free tags wait in a line; a FIFO
  pool serves the head, a FILO pool the end.
* **`TagPool`** is `com_tag.c`: `Stack`, `Top`, `PtrOut`; `Tag_GetOne` and
  `Tag_ReleaseOne`, one action each. Callers test `Tag_IsEmpty` first and return
  only what they hold, so `held` is part of the state. It implements `TagQueue`,
  the waiting line being the free part of the array read from `PtrOut` on.
* **`HbaTimer`** is the timer array. A lock section is a step: `AddRequest`,
  `CancelRequest`, and `Timer_CheckRequest` taken apart into `Tick`,
  `LookAtSlot`, the reading of each of the routine's two arguments, and
  `Return`. `left` is a slot's due time minus now. Its callers are arbitrary.
* **`ReqTimer`** is a user of `HbaTimer`, whose operators it takes by `INSTANCE`: per
  device `sent_req_list` and `timer_id`. `mv_renew_timer` is two steps, since it drops the timer lock
  between cancelling and arming while it keeps the list locked (`renew`).
  `core_req_timeout` is one action with four alternatives.
* **`CoreQueues`** follows a request: `Submit`, the fast path for small requests,
  `Take` from the queue, `Gate` (the `blocked` test), `Admit`
  (`outstanding_req` against `queue_depth`), `TakeSlot` / `NoSlot`, `PutAside`
  on the processor's `tmp_queue`, `Restore`, `Unblock`, then `Complete`,
  `Clean`, `QueueCompleted`, `GiveBack`. `proc[p]` is the program counter of a
  processor. A step is one lock section or one unprotected read.
* **`RunningReq`** looks closer at what `CoreQueues` counts: which request is in
  which slot, the hardware (`active`, `cmpl_q`), and the recovery that takes
  requests off slots: timeout, device abort, port abort. The hardware finishes
  a command at any time, and an abort leaves the completion ring unread. `finished`
  and `lapses` are history: whose command is really over, and what has gone wrong
  because of that ring.
* **`RegisterSets`** is what a SATA disk needs besides a slot: one of the register
  sets the disks of a root share, and a tag for a queued (NCQ) command. `Try` is
  `prot_send_request` up to the count, with `sata_verify_command` and the two
  marks (`NCQ_RUNNING`, `STOP_RUN_NCQ`) that keep queued and other commands apart;
  `TakeSlot`, `NoResource`, `Issue`, `Complete`, `Fail` follow; `Abort`, `FreeSet`,
  `Recovered`, `GiveUp` and `pal_set_disk_offline` are a recovery. Small requests
  do not heed the global lock: `overtaken` remembers those a recovery has found
  half sent, `stray` those whose sender goes on with a request no longer its own.
* **`GlobalLock`** is the handshake alone: `pause_waiting_queue`,
  `waiting_queue_running`, `core_queue_running` and the two locks; the queues'
  contents are a number, `work`. The others use the result: `CoreQueues` has only
  the pause flag, `RunningReq` waits for the senders before it recovers, and in
  `ErrorQueue`, `PmRecovery` and `BringUp` what holds the lock is one step.
* **`ErrorQueue`** is recovery: `core_queue_error_req`, the walk of
  `core_handle_error_queue` (`WalkBegin`, `WalkStep`, one request at a step), the
  timeout and media machines of SATA, ATAPI and SAS disks, alone or behind an
  expander (`error_handling_callback`, `wait_hard_reset`, `Expire`), retry, freezing,
  set-down and a device that is pulled meanwhile. `err_ctx` is the error context of
  a device and `eh` the one recovery request or timer that is outstanding.
* **`PmRecovery`** is the machine of two levels behind a port multiplier: a disk's
  (soft reset, reset of its port, reset of the multiplier) and the multiplier's,
  which looks at the ports one after the other and at the end turns its
  notifications on again.
* **`InitQueue`** is the initialisation queue and its counts: an entry counts from
  `core_queue_init_entry` to `core_init_entry_done`, whatever fails in between. Its
  operations map a record to a record, so a handler is their composition.
* **`BringUp`** extends it with what goes through the queue: the state machines of
  SATA ports, of multipliers (`pm_state_machine`, `pm_req_callback`) and of disks,
  the event queue (`core_handle_event_queue`, `pl_handle_hotplug_event`) and the
  hardware: what is plugged in and pulled, signatures that come or not, error
  registers of slots. `core_state` becomes `STARTED` when nothing is pending.
* **`HbaMsgQueue`** is the message queue with both its ends: what the core knows
  (`exist`), what the SCSI layer knows (`sdev`), several adapters that insert at
  the same time and the work item, including a failing `scsi_add_device`.

How they fit together: `TagQueue` <- `TagPool`; `HbaTimer` <- `ReqTimer` by
`INSTANCE`; `InitQueue` <- `BringUp` by `EXTENDS`. A request's life is cut between
`CoreQueues` (lists), `RunningReq` (slots), `RegisterSets` (sets and tags),
`ReqTimer` (timeout) and, when it fails, `ErrorQueue` or `PmRecovery`. A disk's is
`BringUp`'s, then `HbaMsgQueue`'s, which carries its arrival to the SCSI layer.

`MC*` modules instantiate them; one `.cfg` is one run. `*_proofs` modules hold the
theorems of `HbaTimer`, `ReqTimer`, `CoreQueues`, `ErrorQueue`, `PmRecovery` and `BringUp`;
`Slots_proofs` holds those of `TagPool` and `RunningReq`, which number and keep the
slots, `Sharing_proofs` those of `GlobalLock`, `HbaMsgQueue` and `RegisterSets`: what
processors, adapters and disks share.

## The runs

| Run | Question | Result |
|---|---|---|
| `tagpool_fifo` | each tag is free once or held; a ring implements `TagQueue` | holds |
| `hbatimer` | slots and pool agree and all timers end, for callers that cancel by any index | holds |
| `reqtimer_device` | timer ids follow the lists and timers are for the oldest request, wherever completions fall; each device with outstanding requests is watched, no timer orphaned, no request timed out by a timer of its earlier life or stuck, except behind a security erase, until a completion comes too late to cancel its timer | holds, but for `overlaps`, `late_erase` |
| `msgqueue_shared` | two adapters insert at once into lists that overflow: lists intact, no lost wake-up, rescan comes, the SCSI layer ends up with the core's disks | holds; the last but for `reporters`, `disturbed` |
| `globallock_live` | who raises the pause flag gets in; queued work is handled; at most one intruder | holds |
| `corequeues_urgent` | each request is in one place, counted exactly; no device blocked for good; every request is given back | holds |
| `runningreq_aborts` | slots, lists and counts agree whoever takes requests off them, also when an entry of an aborted command completes another; the hardware works on nothing that has been given back | holds, but for `lapses` |
| `regsets_shared` | sets are not lost, shared or kept by an idle disk; what runs names its disk's set; queued and other commands stay apart; neither starves the other | holds, but for `overtaken` |
| `recovery_all` | every failed request is given back once or sent again, no recovery starts twice, every recovery ends, nothing is set down inside the walk | holds, given `LoneShort`, `QuietUnplug`; the end but for `Abandoned` |
| `recovery_pm` | one disk of a multiplier recovers at a time, notifications are on again afterwards, every recovery ends | holds, but for `lapses` |
| `bringup` | entries are counted as long as they live and take turns on a port; the core starts; nothing found is forgotten; in the end what is in use is what is attached | holds, but for `lapses` |
| `bringup_skip` | the start-up of a multiplier leaves a slot alone only if its phy is not ready | **violated** |

Type correctness is a conjunct of the first invariant of each module and is not
listed separately; for the modules with a `TypeCorrect` it is a theorem.

The violated run. `core_pm.c:318` says of the look at a slot "done retrying, phy
not ready, move to next port". The two retry counts are set once per multiplier and
again per slot only under `SUPPORT_QUICK_PM_INIT` (`core_pm.c:320-325`), which this
build does not define. The first empty slot uses them up, and every slot behind it is
passed over at the first look, whether its phy is ready or not. In `bringup` the
lapse `skipped` stands for it.

What the exceptions stand for. They are not assumptions about callers: the code
reaches them, and each separates what is right from what is not. Without the
exception, the property named is violated.

* `overlaps` (`WatchedUnlessOverlapped`, `NoOrphanTimer`, `NoRequestStuck`) counts the
  completions that come too late to cancel their timer. `Timer_CheckRequest` releases
  the slot of the routine it has called whatever it holds by then (`hba_timer.c:693`),
  so a cancelled timer's slot may be another device's when it is released. And since
  times are in half seconds (`TIMER_INTERVAL_LARGE_UNIT`) and looked at every second, an
  odd or zero time is past, no longer due, when its slot is looked at;
  `Timer_CancelRequest` (`hba_timer.c:727`) then leaves it to fire for nobody.
* `late_erase` (`TimerForOldest`): an erase is extended that is not the oldest request.
* `reporters`, `disturbed` (`SdevFollowsExist`): only one adapter is remembered for a
  rescan (`hba_timer.c:456`), and a rescan looks at each disk once while events
  reported meanwhile can be dropped (`hba_timer.c:220`).
* `OneIntruder` says *one* because the pause flag is set and the counter read without
  the lock under which the other side reads the flag and counts itself
  (`core_util.c:1394`, `core_manager.c:2425`).
* A device that returned FULL is unblocked by whichever processor ends its push first
  (`core_manager.c:1407`), so another may overtake a request put aside;
  `CoreQueues` states that nothing is lost or stuck, not the order.
* `intruded` (`RunningReq`): the port abort looks at `running_req` and resets the
  slot under different locks (`core_error.c:1316`); a completion in between makes it
  free the slot twice (`SlotsExact`, `OutstandingExact`).
* `early`, `unsent` (`RunningReq`): the code that would read the completion ring before
  an abort is compiled out (`core_error.c:1180`). The entry of an aborted command stays,
  and completes the next request that gets the slot: while the hardware still works on
  it (`NothingActiveGivenBack`), or before it has been sent, and then its sender
  issues it on a slot that is free (`SlotsExact`, `OutstandingExact`). An entry that comes
  while the next request runs leaves the books right, and the properties say so.
* `overtaken` (`CommandsOnOwnSet`, `QueuedApart`): a small request sent at once is not
  waited for by a recovery (`core_manager.c:1577`).
* `LoneShort`: a device whose recovery lacks an internal request has one failed
  request only. Otherwise the handler is resumed with the other one
  (`core_error.c:1145`), against the assertion at `sata_error.c:1072`.
* `QuietUnplug`: a device is not pulled while its recovery waits for an internal
  request or has just been told to go on (`core_error.c:1865`).
* `Abandoned` (`EveryErrorEnds`): the completion and timer routines of SAS recoveries
  queue the failed request again when an internal request is missing, as the SATA ones
  do, but leave `err_ctx.state` at HANDLING (`sas_error.c:599`, `672`). The walk then
  passes over the port for good, and its failed requests are never given back. The
  property holds for every other port, and for SAS recoveries that lack their first
  internal request (`core_error.c:1144`).
* `saved`, `pushed` (`PmRecovery`): `pm_eh_wait` saves a failure as a success; a request
  pushed back keeps its count (`sata_error.c:2100`, `1028`).
* `lapses` of `BringUp`: `early`, `late`, `swapped`, `silent`, `skipped`, `srst`,
  `dropped`, `cleared`, `twins`, `short`, each explained where it is declared and
  listed with its line under `hazards`.

### Bounds, and why they are enough

* `TagPool`: four tags, so the ring wraps with every number of tags held. Other
  sizes and the FILO kind are the proofs' business.
* `HbaTimer`: three slots and two values of one argument: a slot before, at and
  after the one being scanned. Times are in half seconds (`UnitsPerTick = 2`) up to
  `MaxUnits = 2`: at the next check a timer of two is due, one of less is past.
* `ReqTimer`: one device with the slots `Timer_GetRequestCount` reserves; three
  requests, two at a time, with time-outs of none, one and two half seconds (odd, as
  the default of 15 is, and even), one of them a security erase; `MaxOverlap = 1`
  completion too late for its timer. With two requests two such completions agree;
  after three, timers left over by extended erases have used up all the slots and
  `TimerForOldest` fails. The time-outs are called seconds (`com_type.h:331`) and waited
  for half as long. The race needs one device only; callers that cancel by any stale
  index are in `hbatimer`, and the theorems cover every number of devices.
* `HbaMsgQueue`: two messages so that the list overflows with the third event; two
  adapters, two disks and four events. `MSG_QUEUE_DEPTH` is 2048 in the code, only
  overflow depends on it.
* `GlobalLock`: three processors, one in the slow path and two that could slip
  through; two units of work.
* `CoreQueues`: two processors; a small, a normal and an urgent request; two
  devices of depth one that compete for one slot, so each way sending can fail
  happens; `MaxPause = 1`.
* `RunningReq`: two senders, three requests for two devices, two slots, so requests
  compete for slots and follow each other on them; a ring of four (`cmpl_q_size`, as
  the code sizes it); requests are used again without a bound. Nothing is let in
  any more once the books are out of order (`InOrder`), since nothing is claimed then.
* `RegisterSets`: two disks and one set, so that one always wants what the other has;
  on one disk a small queued, a queued and another request at depth two; one failure,
  one shortage. Two sets and two failures agree (425,000 states), and the theorems
  cover every number.
* `ErrorQueue`: three pairings of kinds (`MCKindsOf`), two requests on one disk and one
  on another; one pull and one shortage, of a device of any kind. The recovery requests have every outcome
  each time, so the machines are walked to their ends.
* `PmRecovery`: three ports of which the last is empty, two disks, one shortage, one
  pull; again every outcome.
* `BringUp`: one port, two slots; a boot with nothing, with one slot filled and with
  both; two plugs or pulls, one change behind the multiplier, one failure, one
  shortage, and two disks of one name. Retry limits are one, since only "again" and
  "no more" differ. With the two slots twins, two disks behind one multiplier are never in use
  together short of the lapse `twins`; without twins (`Twin = {}`, 213,000 states) all
  properties hold as well. Four plugs, three changes of slots and two ports were tried and
  agree (up to 1.1 million states); they take too long to be kept.

Bounded submissions and plugs mean the system may stop: deadlock is not checked in
`CoreQueues`, `HbaMsgQueue`, `ErrorQueue`, `PmRecovery`, `RegisterSets` and `BringUp`;
that nothing stops too early is what their liveness properties say.

### Fairness

* The kernel timer is re-armed by each `Timer_CheckRequest`, and a softirq runs
  to its end: weak fairness of the check (`HbaTimer`, `ReqTimer`).
* Code that holds a spinlock or runs with interrupts off goes on: weak fairness
  of a processor's steps. Who waits for a lock gets it, since the kernel's
  spinlocks queue their waiters: strong fairness of the steps that take one
  (`GlobalLock`).
* Pushing is repeated once a second by the timer and by nobody else: strong
  fairness of the timer's push, as its processor is not always idle when it fires.
* In `CoreQueues` the hardware answers in the end. In `ReqTimer` it need not.
* Recovery requests are answered or time out, and the global lock is given to who
  waits for it: strong fairness of their completion routines (`ErrorQueue`), weak
  where nothing competes (`PmRecovery`, `BringUp`). Timers expire.
* A request that waits is tried again and again and the longest waiting one first:
  strong fairness of an attempt that is not turned away for nothing (`Tried` in
  `RegisterSets`). A recovery there competes with senders who do not wait for it.
* The workqueue runs a scheduled work item (`HbaMsgQueue`). Hot-plug events,
  submissions, failures and cancellations are never owed.

## The proofs

`Slots_proofs`, part 1, for every `Size > 0` and both kinds of pool:

* `PoolTypeCorrect`: `PoolSpec => []PoolTypeOK`; in particular no return writes behind
  the array.
* `PoolPartition`: `PoolSpec => []Partition`; each tag is free exactly once or held.
* `ImplementsQueue`: `PoolSpec => ImplementsTagQueue`, the refinement.

Neither invariant is inductive. That a return finds room needs `TagsCounted`: `Top` is
`Size` minus the number of tags held. The inductive invariant is `TagInv`, the three
together. `GetFree` and `ReleaseFree` say which array entries the two
operations move in and out of the free part; the rest is set reasoning over
them. The one arithmetical difficulty is the ring's modulus (`ModOnce`,
`RingIndex`): below `2 * Size` it is one subtraction. For the refinement the waiting
line is the free part read as a sequence; taking is its `Tail` or `Front`, returning an
`Append`, in a ring by the same arithmetic.

`Sharing_proofs`, part 1, for any number of processors and any `MaxWork`:

* `LockTypeCorrect`: the counter of `core_global_lock` stays between zero and the
  number of processors.
* `IntruderIsAlone`: `LockSpec => []OneIntruder`.

The inductive invariant adds that the counter is the number of processors at
"send", that each of the two locks is with the processor whose place says so,
that the flag is up exactly while the global lock is held, and `OnePast`: while a
processor is in its critical section, at most one other is past the look at the
flag. `DrainLockInv` is the step that matters: a count of zero empties "send", and
only one processor holds `core_queue_running_SpinLock` at "count". The only
assumption used about the processors is that they are finitely many.

`Sharing_proofs`, part 2, for any adapters, disks and callers and any finite number of
messages:

* `ListsStayWhole`: `Spec => []EachOnOneList`; `WakeupNeverLost`: `Spec =>
  []NoLostWakeup`; `RescanAlwaysComes`: `Spec => []RescanComes`. The invariant says of
  a caller's message only that it is one of the array (`InHand`): by the time it is moved
  another caller may have moved it, and the worker may even have freed it. Moving is
  harmless all the same: `List_MoveTail` takes it off whichever list it is on before it is
  put at the tail, so the lists, taken together, lose and repeat nothing. The worker's state is tied to its place
  in the loop; no wake-up is lost because every insertion ends in scheduling.

`HbaTimer_proofs`, for any number of slots, contexts, times and units per tick:

* `TypeCorrect`: `Spec => []TimerTypeOK`.
* `PoolSound`: `Spec => []PoolIsFreeSlots`. Type and pool together are inductive:
  `ReleasePool` says what putting a slot back does, and is used by the cancel
  and by the release after the routine alike; what makes both right is the
  look at `Valid` under the same lock, so it does not matter whose timer the
  slot holds by then. That is also the limit of the theorem: it says that the
  pool survives the race of `overlaps`, not that the timer does.

`ReqTimer_proofs`, for any finite number of devices, any requests and time-outs, and
slots as `Timer_GetRequestCount` reserves them. It instantiates `HbaTimer_proofs`, so
what is proved of the timers is used of the core's steps:

* `TypeCorrect`, and `PoolStaysSound`: `Spec => []Timer!PoolIsFreeSlots`, with
  the types inductive; by what `HbaTimer_proofs` says of each operation.
* `AlwaysWatched`: `Spec => []WatchedUnlessOverlapped`; `NoTimerLeft`: `Spec =>
  []NoOrphanTimer`. The invariant holds while `overlaps = 0`: each device that has sent
  requests owns a valid slot with its own name and its oldest request in it (`Served`),
  each valid slot has an owner or is being handled (`Owned`), and what the check read
  from a slot is what the slot holds (`CheckedSlot`). None goes without the others: the
  routine forgets the timer by the arguments it was called with. That arming finds a
  free slot is a counting argument (`RoomForTimer`): the owners are fewer than the slots.
* `OldestTimesOut`: `Spec => TimesOutOldest`, from the same invariant: the slot being
  handled is the timer id of some device, and by `Served` of the one it names.

* `OldestIsTimed`: `Spec => []TimerForOldest`, after late completions too, up to as many as
  there are spare slots (`OverlapAssumption`). It needs to be known that arming finds a
  free slot, so the second invariant, `Tidy`, counts: the slots whose timer no device goes
  by (`Stray`) are no more than the late completions (`Debt`). A routine can leave the
  timer it replaces to itself; in return the one it was called for goes, unless that was
  cancelled or used again meanwhile, and then a completion has been counted for it that
  no timer has used up (`Slack`). It holds until `late_erase`. `RoomForOne` is the count:
  owners, strays and the slot about to be released never fill the array.

`NoRequestStuck`, liveness, is only checked.

`Sharing_proofs`, part 3, for any finite numbers of disks and requests, any number of
sets, failures and shortages, and queue depths up to 32:

* `EverySetOwned`: `Spec => []SetsOwned`, inductive with the types of the sets: the first
  clear bit is a free set (`FirstClearBit`), and only the owner's is freed.
* `CommandsNameOwnSet`: `Spec => []CommandsOnOwnSet`. A set goes with the *last* request
  of its disk, so the invariant needs the count to be exact, also when an abort takes
  back many at once (`CountOut`); that the recovery request of a disk is on its way
  only in its step (`RecoveryRequest`); and that between the abort and the freeing of
  the set all that runs on the disk was overtaken (`OnlyOvertakenRun`), because nothing
  waiting is sent then. `RunsWithSet` is the property strengthened to requests that are
  counted and not yet issued. `CleanKeeps` is the lemma all completions share.
* `CountIsExact`: the count itself.
* `CommandsApart`: `Spec => []QueuedApart`. `Apart` is about all that is counted, not only
  what the disk has: `NCQ_RUNNING` stands for queued commands only. `TagsExact` ties tags
  to commands one to one; that the next command finds a free tag (`FreeTag`) follows by
  counting: at most 32 are let in and the one being issued has none yet.
* `NoSetKeptIdle`: `Spec => []SetsReturned`. The inductive part is `SetsInUse`: a disk
  that owns a set has a request under way. Every way out of the send path gives the set
  back (`TryInUse`); what ends requests leaves it only if others are under way
  (`EndInUse`, `AbortInUse`).

`CoreQueues_proofs`, for any processors, requests, devices, slots and queue depth:

* `PlacesStayExact`: `Spec => []InOnePlace`; `CountStaysExact`: `Spec =>
  []OutstandingExact`. `Shaped` ties what a processor holds to where it is in the code: a
  request in its hands exactly at the places that have one, requests put aside only in a
  walk, and urgent ones only in a walk through the high priority queue, which is why
  `Restore` gives it back no other. `Apart` is `InOnePlace` two by two; each step moves one
  request (`MoveKeeps`) or none (`GoKeeps`). For the count, `OneMore` and `OneLess` say what
  letting in and counting out do; the slot, taken later and freed earlier, stays inside.

`Slots_proofs`, part 2, for any senders, requests and devices and any finite number of slots:

* `SlotsStayExact`: `Spec => []SlotsExact`; `CountStaysExact`: `Spec => []OutstandingExact`;
  `GivenBackIsInactive`: `Spec => []NothingActiveGivenBack`.

The invariant has three layers. `Typed` always holds, and says of a port abort in
progress that nobody sends and that it has picked some slot and request. `SlotInv` holds
while `InOrder`: it says whose each slot is (the pool's, a sender's, or a running
request's). An entry, of whatever command, takes one request off the slot it is on, so
stale entries do no harm to these books as long as that request is a running one; and
resetting what was picked does none as long as it is still there. `Hardware` holds while
`lapses = {}`: what is active in a slot is its running request and not finished, and what
is about to be sent is not finished either, so that an entry which completes one of them
is noticed as a lapse.

`ErrorQueue_proofs`, for any devices of any kinds, any finite number of requests and of
missing internal requests; `LoneShort` and `QuietUnplug` appear in the theorems, as the
code keeps neither:

* `ErrorsKept`: `Spec => [](LoneShort /\ QuietUnplug => NoErrorLost)`; likewise
  `RecoveriesExclude` for `RecoversAlone` and `AllGivenBackOnce` for `GivenBackOnce`;
  `WalkSetsNoneDown`: under both, `Spec => NoSetDownInWalk`.

The invariant is `Whole`: types, one recovery at a time per port (`Alone`), and `Sound` for
each device: its error context, its outstanding recovery request or timer, its failed
requests and those of them on the queue fit together (`Fits`). Of the failed requests all
but one are queued while a recovery goes on, and the one is in the context; a device in
recovery has nothing else outstanding. A step is about one device; `Elsewhere` is the
frame. Of the five machines only `Allowed` is used: what they send, that they abort
before they send, and that the SAS machines stay in states they know. `OthersLeft`
says that `pal_complete_device_error_queue` takes off the queue all of a device and
nothing else; it is the one induction, over the turns of the loop, made with sets (`Induct`)
because the library's takes an operator.

`PmRecovery_proofs`, for any multiplier of up to `CORE_MAX_DEVICE_PER_PM` ports, any disks
behind it, and any number of missing internal requests and pulled disks:

* `LoneRecovery`: `Spec => []OneDiskRecovers`; `NotificationRestored`: `Spec =>
  []AsyNotifyRestored`.

`OneDiskRecovers` is not inductive: that a machine resumes in step needs to be known of
what it left behind. `Sound` adds that the context of a disk, its request, the queue and
the multiplier's context fit together (`Held`, by `Fits`), and that the two levels of the
machine are in step (`Machines`, by `InStep`): while the disk's machine resets its port or
brings the ports up again, the multiplier's is in the states of that, else in none. Of a
step of the machine only `Allowed` and `KeepsOff` are used (`MachineStep`), so `RunKeeps` is
about what any such step does to the port. For the notification, `OffRule` lists the states
it can be off in: each step that leaves them is the write that turns it on, sets the disk
down only after that, or sets the multiplier down. The one exception is the lapse of
`pm_eh_wait`, for which a resumption continues as after a success: `RunOff` asks for
`saved = ok`, and there the proof fails without `"saved"`.

`BringUp_proofs`, for any finite number of ports, any number of slots behind a
multiplier, any retry limits, and any number of failures, missing device objects, plugs
and changes of slots:

* `TurnsAreTaken`: `Spec => []MachinesTakeTurns`; `NothingIsForgotten`: `Spec =>
  []NothingForgotten`.

Assumed of the constants: the numbers of the parts of a port (`PartAssumption`), limits in
`Nat` (`NumberAssumption`), that no disk is its own twin (`TwinAssumption`), and that what
is plugged in is a disk or a multiplier with disks at slots it has (`AttachedAssumption`).
Neither property is inductive. `Counted` are the books: an entry is queued once or out
with a request or a timer, and the counts are the cardinalities of these sets; after
`short` they are only no less. Each operation of the queue has its lemma (`TakenBooks`,
`RequeueBooks`, `StartBooks`, `DoneBooks`, `SwapBooks`, `LeakBooks`); the loop of
`pm_state_machine` that starts the disks found is an induction over its turns
(`StartNewBooks`), made with sets as in `ErrorQueue_proofs`. `InTurn` is per port: what is
pending of it is disks only, or its multiplier alone, or the port alone, and the machines
are in states from which they can go on. A step moves one port's machines (`PortActs`,
`DiskMoves`, `PmMoves`), and `Elsewhere` is the frame for the others. That a hot plug finds its
port at rest needs `Settled`: between the test in `core_handle_event_queue` and the
handling, which sleeps, nothing of the port is started. `Remembered` holds while nothing
was left unfinished (`short`, `srst`, `dropped`): what is not at rest is pending, and a
disk found but idle has its multiplier pending, which starts it. For the twins, `OnePast`
needs `Past`: only the step that checks for duplicates leads past `IDENTIFY_DONE`.

Only model-checked: all temporal properties but the refinement and step properties above,
that is liveness (`SdevFollowsExist`, `InitEnds` and `KnownMatchesAttached` among it), which is
out of the prover's reach, as are `ENABLED` and inductions over data. Every invariant of a
passing run is a theorem. No module declares a `RECURSIVE` operator.

## What the models leave out

Data (addresses, CDBs, sense data), register access, and the parts `PROJECT.json`
lists as not modelled. In detail:

* `CoreQueues` has one root, devices that are always present, and completions without
  error; `ReqTimer` leaves the timed-out request to error handling.
* `RunningReq` has one completion ring and one device per port, and lets recovery
  wait for every sender; small requests sent at once are `RegisterSets`'.
* `RegisterSets` leaves out the `blocked` flag and the order of the waiting queue,
  has one recovery request per disk, named by the disk, and takes the set and the
  count in one step, since both are under `outstanding_SpinLock`.
* `ErrorQueue` sends an ordinary request in one step, so a small request that is half
  sent when a recovery begins (`core_manager.c:1577`) is not in it; `RegisterSets` has
  it (`overtaken`).
* `ErrorQueue` and `PmRecovery` name a recovery request by what it does. That some ports
  of a multiplier are not set up again after its reset (`sata_error.c:599`) is noted
  here and stated by no property.
* `BringUp`: staggered spin-up, DIPM, `pm_device_phy_reset`, the autoload of registers,
  expanders and wide ports are left out; a port waiting for a missing internal request
  is a stuttering step. A failed initialisation request is tried again or given up
  (`core_handle_init_error`): the second's wait of a disk that is not ready yet is a retry
  like any other (`core_error.c:521`), and so is the answer that the device is gone,
  which the code gives up on at once (`core_error.c:470`). No property depends on which.
* `HbaMsgQueue` starts after the first scan; `GlobalLock` is about requests that have
  waited.

The larger part of the source is not modelled at all and most of it is no subject for a
model checker: the translation of SCSI commands to ATA, the formats of the ioctl
interface, bus protocols for flash, GPIO and I2C, tables of settings, debugging aids and
the code of configurations this build does not have.

## Plan

What is left, most worthwhile first:

1. `LockOrder`: which locks each path nests; deadlock freedom, and the two
   opposite nestings listed under hazards (`core_error.c:1184`).
2. `ResourcePools`: the carving allocators with unsigned sizes, and free lists
   (`core_resource.c:1149`).
3. The completion ring's pointers (`core_handle_cmpl_queue`), which `RunningReq` has as
   a sequence.
4. SAS discovery: expanders, wide ports, broadcasts, as entries of `InitQueue`.
5. Linux layer: request cache and pool, first scan, removal of an adapter, suspend
   and shutdown.

Theorems to add: one walk of a rescan in `HbaMsgQueue` leaves the SCSI layer with the
core's disks (the safe part of `SdevFollowsExist`); what a push of `CoreQueues` sends first.
