---------------------------- MODULE HbaMsgQueue ----------------------------
(***************************************************************************)
(* The hot-plug messages of linux/hba_timer.c.  The core reports that a    *)
(* disk came or went (HBA_ModuleNotification, under the adapter's          *)
(* Events_SpinLock); hba_msg_insert moves a message from the free list to  *)
(* the task list, and one work item, run by the kernel's workqueue, tells  *)
(* the SCSI layer.  The lists are shared by all adapters.                  *)
(*                                                                         *)
(* hba_msg_insert picks the message under the lock but leaves it on the    *)
(* free list, fills it in without the lock, and takes the lock again to    *)
(* move it.  A full task list is answered by a later rescan of all disks.  *)
(***************************************************************************)
EXTENDS Naturals, Sequences, SequencesExt, FiniteSets

CONSTANTS
    Msg,            \* mv_msg_queue.msgs
    Adapter,        \* the adapters (hba extensions)
    Disk,           \* the targets of an adapter
    MaxHotplug,     \* bound: how often disks come and go
    Scanner,        \* hba_scan_host, as a caller of hba_msg_insert
    None

ASSUME MsgAssumption == IsFiniteSet(Msg) /\ Msg # {}
ASSUME HotplugAssumption == MaxHotplug \in Nat
ASSUME ScannerAssumption == Scanner \notin Adapter

Event == [data : Adapter, msg : {"ARRIVAL", "REMOVAL"}, param : Disk]
Caller == Adapter \cup {Scanner}

VARIABLES
    free, tasks,    \* the two lists
    content,        \* what each message holds; None: data is NULL
    queue_state,    \* __msg_queue_state
    need_rescan,    \* with rescan_hba: the adapter to rescan, or None
    scheduled,      \* schedule_work has been called and the work not started
    insert,         \* per caller: where it is in hba_msg_insert
    worker,         \* where the work item is
    exist,          \* per adapter: the disks the core knows (pal_check_disk_exist)
    sdev,           \* per adapter: the disks the SCSI layer knows (lu->sdev)
    hotplugs,       \* how often disks came and went
    reporters,      \* history: the adapters whose disks came or went
    disturbed       \* history: whether something was being reported when a rescan
                    \* started, or was reported during one

listVars == <<free, tasks, content>>
diskVars == <<exist, sdev, hotplugs, reporters>>
msgVars == <<listVars, queue_state, need_rescan, scheduled, insert, worker, diskVars,
          disturbed>>

\* A run of hba_msg_insert: the event, and the message picked for it.
NoInsert == [at |-> "idle", event |-> None, pmsg |-> None]
InsertOf(h, kind, d) ==
    [at |-> "pick", event |-> [data |-> h, msg |-> kind, param |-> d], pmsg |-> None]

\* What is to be told about disk d of h for the SCSI layer to follow the core.
Change(h, d) == InsertOf(h, IF d \in exist[h] THEN "ARRIVAL" ELSE "REMOVAL", d)

WorkerIdle == [at |-> "idle", pmsg |-> None, hba |-> None, left |-> {}]
WorkerAt(place) == [WorkerIdle EXCEPT !.at = place]

\* hba_msg_queue_init and hba_house_keeper_run, the first scan being over.
MsgInit ==
    /\ free = SetToSeq(Msg)
    /\ tasks = <<>>
    /\ content = [m \in Msg |-> None]
    /\ queue_state = "IDLE"
    /\ need_rescan = None
    /\ scheduled = FALSE
    /\ insert = [c \in Caller |-> NoInsert]
    /\ worker = WorkerIdle
    /\ exist = [h \in Adapter |-> {}]
    /\ sdev = [h \in Adapter |-> {}]
    /\ hotplugs = 0 /\ reporters = {}
    /\ disturbed = FALSE

-----------------------------------------------------------------------------
(***************************************************************************)
(* hba_msg_insert, step by step, run by caller c.                          *)
(***************************************************************************)

\* Faulty variant, for the mutation runs: a full list is just ignored.
InsertPickDrop(c) ==
    /\ insert[c].at = "pick"
    /\ insert' = [insert EXCEPT ![c] =
         IF free = <<>> THEN NoInsert ELSE [@ EXCEPT !.at = "fill", !.pmsg = Head(free)]]
    /\ UNCHANGED <<listVars, scheduled, need_rescan>>

\* Look at the first free message, or ask for a rescan.
InsertPick(c) ==
    /\ insert[c].at = "pick"
    /\ IF free = <<>>
       THEN /\ need_rescan' = insert[c].event.data
            /\ insert' = [insert EXCEPT ![c] = NoInsert]
       ELSE /\ insert' = [insert EXCEPT ![c].at = "fill", ![c].pmsg = Head(free)]
            /\ UNCHANGED need_rescan
    /\ UNCHANGED <<listVars, scheduled>>

\* Fill it in, without the lock.
InsertFill(c) ==
    /\ insert[c].at = "fill"
    /\ content' = [content EXCEPT ![insert[c].pmsg] = insert[c].event]
    /\ insert' = [insert EXCEPT ![c].at = "move"]
    /\ UNCHANGED <<free, tasks, scheduled, need_rescan>>

\* Faulty variant: the message is taken for one that is on the free list.
InsertMoveBlind(c) ==
    /\ insert[c].at = "move"
    /\ free' = RemoveFirst(free, insert[c].pmsg)
    /\ tasks' = Append(tasks, insert[c].pmsg)
    /\ insert' = [insert EXCEPT ![c].at = "schedule"]
    /\ UNCHANGED <<content, scheduled, need_rescan>>

\* List_MoveTail takes the message off whichever list it is on.
InsertMove(c) ==
    /\ insert[c].at = "move"
    /\ free' = RemoveFirst(free, insert[c].pmsg)
    /\ tasks' = Append(RemoveFirst(tasks, insert[c].pmsg), insert[c].pmsg)
    /\ insert' = [insert EXCEPT ![c].at = "schedule"]
    /\ UNCHANGED <<content, scheduled, need_rescan>>

InsertSchedule(c) ==
    /\ insert[c].at = "schedule"
    /\ scheduled' = TRUE
    /\ insert' = [insert EXCEPT ![c] = NoInsert]
    /\ UNCHANGED <<listVars, need_rescan>>

hba_msg_insert(c) ==
    /\ InsertPick(c) \/ InsertFill(c) \/ InsertMove(c) \/ InsertSchedule(c)
    /\ UNCHANGED <<queue_state, worker, diskVars, disturbed>>

-----------------------------------------------------------------------------
\* A disk comes or goes.  The core reports it before the next one, since it
\* changes its device list and notifies under its global lock.
Toggle(h, d) ==
    /\ insert[h] = NoInsert
    /\ hotplugs < MaxHotplug
    /\ hotplugs' = hotplugs + 1
    /\ reporters' = reporters \cup {h}
    /\ exist' = [exist EXCEPT ![h] = IF d \in @ THEN @ \ {d} ELSE @ \cup {d}]
    /\ insert' = [insert EXCEPT ![h] =
         InsertOf(h, IF d \in exist[h] THEN "REMOVAL" ELSE "ARRIVAL", d)]

Hotplug(h, d) ==
    /\ Toggle(h, d)
    /\ disturbed' = (disturbed \/ worker.at = "scan")
    /\ UNCHANGED <<listVars, queue_state, need_rescan, scheduled, worker, sdev>>

-----------------------------------------------------------------------------
(***************************************************************************)
(* The work item: mv_wq_handler, mv_proc_queue, hba_proc_msg, hba_scan_host*)
(***************************************************************************)

\* mv_wq_handler starts mv_proc_queue unless it finds nothing to do.
mv_wq_handler ==
    /\ worker.at = "idle" /\ scheduled
    /\ scheduled' = FALSE
    /\ IF tasks # <<>> /\ queue_state = "IDLE"
       THEN queue_state' = "PROC" /\ worker' = WorkerAt("take")
       ELSE UNCHANGED <<queue_state, worker>>
    /\ UNCHANGED <<listVars, need_rescan, insert, diskVars>>

\* Faulty variant: the state stays MSG_QUEUE_PROC when the list is empty.
TakeStuck ==
    /\ worker.at = "take"
    /\ worker' = IF tasks = <<>> THEN WorkerAt("rescan")
                 ELSE [worker EXCEPT !.at = "proc", !.pmsg = Head(tasks)]
    /\ UNCHANGED <<listVars, queue_state, need_rescan, scheduled, insert, diskVars>>

\* Faulty variant: the work item ends without a look at need_rescan.
TakeNoRescan ==
    /\ worker.at = "take"
    /\ IF tasks = <<>>
       THEN queue_state' = "IDLE" /\ worker' = WorkerIdle
       ELSE /\ worker' = [worker EXCEPT !.at = "proc", !.pmsg = Head(tasks)]
            /\ UNCHANGED queue_state
    /\ UNCHANGED <<listVars, need_rescan, scheduled, insert, diskVars>>

\* The next message, which stays on the task list; or the end of the loop.
Take ==
    /\ worker.at = "take"
    /\ IF tasks = <<>>
       THEN queue_state' = "IDLE" /\ worker' = WorkerAt("rescan")
       ELSE /\ worker' = [worker EXCEPT !.at = "proc", !.pmsg = Head(tasks)]
            /\ UNCHANGED queue_state
    /\ UNCHANGED <<listVars, need_rescan, scheduled, insert, diskVars>>

\* hba_proc_msg: no data, a disk already known, or one that is gone again, for
\* which scsi_add_device fails and pal_set_down_disk_from_upper finds nothing.
ProcNothing(e) ==
    /\ \/ e = None
       \/ e # None /\ e.msg = "ARRIVAL" /\ e.param \in sdev[e.data]
       \/ e # None /\ e.msg = "ARRIVAL" /\ e.param \notin exist[e.data]
    /\ worker' = [worker EXCEPT !.at = "clear"]
    /\ UNCHANGED <<diskVars, insert>>

ProcArrival(e) ==
    /\ e # None /\ e.msg = "ARRIVAL"
    /\ e.param \in exist[e.data] \ sdev[e.data]
    /\ sdev' = [sdev EXCEPT ![e.data] = @ \cup {e.param}]
    /\ worker' = [worker EXCEPT !.at = "clear"]
    /\ UNCHANGED <<exist, hotplugs, reporters, insert>>

\* scsi_add_device fails for a disk that exists: it is set down under the global
\* lock, and its removal reported, before the worker goes on.
ProcArrivalFails(e) ==
    /\ e # None /\ e.msg = "ARRIVAL"
    /\ e.param \in exist[e.data] \ sdev[e.data]
    /\ Toggle(e.data, e.param)
    /\ worker' = [worker EXCEPT !.at = "clear", !.hba = e.data]
    /\ UNCHANGED sdev

ProcRemoval(e) ==
    /\ e # None /\ e.msg = "REMOVAL"
    /\ sdev' = [sdev EXCEPT ![e.data] = @ \ {e.param}]
    /\ worker' = [worker EXCEPT !.at = "clear"]
    /\ UNCHANGED <<exist, hotplugs, reporters, insert>>

hba_proc_msg ==
    /\ worker.at = "proc"
    /\ LET e == content[worker.pmsg] IN
         ProcNothing(e) \/ ProcArrival(e) \/ ProcArrivalFails(e) \/ ProcRemoval(e)
    /\ UNCHANGED <<listVars, queue_state, need_rescan, scheduled>>

\* pmsg->data = NULL, without the lock.
Clear ==
    /\ worker.at = "clear"
    /\ worker.hba # None => insert[worker.hba] = NoInsert
    /\ content' = [content EXCEPT ![worker.pmsg] = None]
    /\ worker' = [worker EXCEPT !.at = "free"]
    /\ UNCHANGED <<free, tasks, queue_state, need_rescan, scheduled, insert, diskVars>>

Free ==
    /\ worker.at = "free"
    /\ tasks' = RemoveFirst(tasks, worker.pmsg)
    /\ free' = Append(RemoveFirst(free, worker.pmsg), worker.pmsg)
    /\ worker' = WorkerAt("take")
    /\ UNCHANGED <<content, queue_state, need_rescan, scheduled, insert, diskVars>>

\* hba_scan_host takes up a pending request for a rescan.
Rescan ==
    /\ worker.at = "rescan"
    /\ disturbed' = (\/ disturbed
                     \/ need_rescan # None /\ \E h \in Adapter : insert[h] # NoInsert)
    /\ worker' = IF need_rescan = None THEN WorkerIdle
                 ELSE [WorkerAt("scan") EXCEPT !.hba = need_rescan, !.left = Disk]
    /\ need_rescan' = None
    /\ UNCHANGED <<listVars, queue_state, scheduled, insert, diskVars>>

\* Each target is compared and, where core and SCSI layer differ, reported.
ScanTarget ==
    /\ worker.at = "scan" /\ insert[Scanner] = NoInsert
    /\ \E d \in worker.left :
         /\ worker' = [worker EXCEPT !.left = @ \ {d}]
         /\ insert' = [insert EXCEPT ![Scanner] =
              IF (d \in exist[worker.hba]) = (d \in sdev[worker.hba]) THEN NoInsert
              ELSE Change(worker.hba, d)]
    /\ UNCHANGED <<listVars, queue_state, need_rescan, scheduled, diskVars>>

ScanEnd ==
    /\ worker.at = "scan" /\ insert[Scanner] = NoInsert
    /\ worker.left = {}
    /\ worker' = WorkerIdle
    /\ UNCHANGED <<listVars, queue_state, need_rescan, scheduled, insert, diskVars>>

Worker ==
    \/ /\ mv_wq_handler \/ Take \/ hba_proc_msg \/ Clear \/ Free \/ ScanTarget \/ ScanEnd
       /\ UNCHANGED disturbed
    \/ Rescan

MsgNext ==
    \/ \E h \in Adapter, d \in Disk : Hotplug(h, d)
    \/ \E c \in Caller : hba_msg_insert(c)
    \/ Worker

MsgSpec == MsgInit /\ [][MsgNext]_msgVars

\* The workqueue runs a scheduled work item, and no caller stops in the middle
\* of hba_msg_insert.  Disks need not come or go.
MsgFairSpec ==
    /\ MsgSpec
    /\ WF_msgVars(Worker)
    /\ \A c \in Caller : WF_msgVars(hba_msg_insert(c))

-----------------------------------------------------------------------------
(***************************************************************************)
(* Correctness.                                                            *)
(***************************************************************************)

MsgTypeOK ==
    /\ free \in Seq(Msg) /\ tasks \in Seq(Msg)
    /\ content \in [Msg -> Event \cup {None}]
    /\ queue_state \in {"IDLE", "PROC"}
    /\ need_rescan \in Adapter \cup {None}
    /\ scheduled \in BOOLEAN
    /\ insert \in [Caller -> [at : {"idle", "pick", "fill", "move", "schedule"},
                             event : Event \cup {None}, pmsg : Msg \cup {None}]]
    /\ worker \in [at : {"idle", "take", "proc", "clear", "free", "rescan", "scan"},
                   pmsg : Msg \cup {None}, hba : Adapter \cup {None},
                   left : SUBSET Disk]
    /\ exist \in [Adapter -> SUBSET Disk]
    /\ sdev \in [Adapter -> SUBSET Disk]
    /\ hotplugs \in 0..MaxHotplug /\ reporters \in SUBSET Adapter
    /\ disturbed \in BOOLEAN

\* A message is on one of the two lists, once, whatever the callers of
\* hba_msg_insert and the worker do with it at the same time.
EachOnOneList ==
    /\ MsgTypeOK
    /\ Len(free) + Len(tasks) = Cardinality(Msg)
    /\ ToSet(free) \cup ToSet(tasks) = Msg

\* The worker looks at the list without the lock and gives up if the other one
\* is busy; still, whenever messages wait somebody is about to handle them.
NoLostWakeup ==
    tasks # <<>> =>
        \/ scheduled
        \/ worker.at \in {"take", "proc", "clear", "free"}
        \/ \E c \in Caller : insert[c].at = "schedule"

\* A request for a rescan, made when the list is full, is never left lying: the
\* list is full of messages, and behind the last one the worker rescans.
RescanComes ==
    need_rescan # None =>
        \/ tasks # <<>>
        \/ worker.at \in {"take", "rescan"}

\* Once the disks stay as they are, the SCSI layer ends up with the disks the
\* core has, even if the list overflowed; unless several adapters shared the list
\* (one event may be lost, hba_timer.c:463) or a rescan was disturbed (220).
SdevFollowsExist ==
    <>[](Cardinality(reporters) > 1 \/ disturbed \/ sdev = exist)
=============================================================================
