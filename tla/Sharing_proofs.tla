----------------------------- MODULE Sharing_proofs -----------------------------
(***************************************************************************)
(* What processors, adapters and disks share.                              *)
(*                                                                         *)
(* Part 1, the global lock, for any number of processors and any amount of *)
(* work: the counter and the flags stay in range, and at most one          *)
(* processor hands out waiting requests while another is inside its        *)
(* global-lock section.  Neither is inductive.  The counter is tied to the *)
(* processors that are handing out, each of the two locks to the places of *)
(* its holder, and the flag to the global lock.  From the moment the       *)
(* counter has been found zero, the only processor that can still begin to *)
(* hand out is the one that holds core_queue_running_SpinLock.             *)
(*                                                                         *)
(* Part 2, the hot-plug message queue, for any adapters, disks and callers *)
(* and any finite number of messages: the two lists stay whole although a  *)
(* message is picked, filled in and moved in three steps by callers that   *)
(* know nothing of each other, and neither a message nor the request for a *)
(* rescan is left lying.                                                   *)
(*                                                                         *)
(* Part 3, the register sets, for any number of disks, requests and sets:  *)
(* none is lost and no two disks have the same one, what runs names its    *)
(* disk's set, counts are exact, and queued commands run apart from others *)
(* with a tag each.                                                        *)
(***************************************************************************)
EXTENDS GlobalLock, HbaMsgQueue, RegisterSets, Integers, SequenceTheorems,
        FiniteSetTheorems, WellFoundedInduction, TLAPS

-----------------------------------------------------------------------------
(***************************************************************************)
(* Part 1: the global lock.                                                *)
(***************************************************************************)

Sending == {p \in Processor : at[p] = "send"}
Counted == waiting_queue_running = Cardinality(Sending)

\* The two locks are with the processors whose places say so.
QueueLockHeld == \A p \in Processor : at[p] = "count" <=> queue_lock = p
SlowPlaces == {"drain", "critical", "push-drain", "push-critical"}
GlobalLockHeld == \A p \in Processor : at[p] \in SlowPlaces <=> global_lock = p
FlagFollows == pause_waiting_queue = (global_lock # Nobody)

\* Past the look at the flag.
Past(p) == at[p] \in {"count", "send"}
OnePast ==
    \A p1, p2, q \in Processor : InCritical(q) /\ Past(p1) /\ Past(p2) => p1 = p2

Locks == QueueLockHeld /\ GlobalLockHeld /\ FlagFollows
LockInv == LockTypeOK /\ Counted /\ Locks /\ OnePast

-----------------------------------------------------------------------------
\* A processor that moves is at its new place, and nobody else moves.
LEMMA Moved ==
    ASSUME LockTypeOK, NEW p \in Processor, NEW from, NEW to \in Places, Move(p, from, to)
    PROVE  /\ at[p] = from /\ at'[p] = to
           /\ \A q \in Processor : q # p => at'[q] = at[q]
           /\ at' \in [Processor -> Places]
  BY DEF LockTypeOK, Move

\* The processors that hand out are finitely many.
LEMMA SendingFinite ==
    IsFiniteSet(Sending) /\ Cardinality(Sending) \in 0..Cardinality(Processor)
<1>1. IsFiniteSet(Processor) /\ Sending \subseteq Processor
  BY ProcessorAssumption DEF Sending
<1>2. IsFiniteSet(Sending) /\ Cardinality(Sending) <= Cardinality(Processor)
  BY <1>1, FS_Subset
<1>3. Cardinality(Sending) \in Nat /\ Cardinality(Processor) \in Nat
  BY <1>1, <1>2, FS_CardinalityType
<1> QED
  BY <1>2, <1>3

\* The same in the next state.
LEMMA SendingFiniteNext ==
    IsFiniteSet(Sending') /\ Cardinality(Sending') \in 0..Cardinality(Processor)
<1>1. IsFiniteSet(Processor) /\ Sending' \subseteq Processor
  BY ProcessorAssumption DEF Sending
<1>2. IsFiniteSet(Sending') /\ Cardinality(Sending') <= Cardinality(Processor)
  BY <1>1, FS_Subset
<1>3. Cardinality(Sending') \in Nat /\ Cardinality(Processor) \in Nat
  BY <1>1, <1>2, FS_CardinalityType
<1> QED
  BY <1>2, <1>3

\* While somebody is in its global-lock section, it holds the lock, and so the
\* flag is up.
LEMMA CriticalPaused ==
    ASSUME LockInv, NEW q \in Processor, InCritical(q)
    PROVE  pause_waiting_queue
<1>1. global_lock = q
  BY DEF LockInv, Locks, GlobalLockHeld, SlowPlaces, InCritical
<1>2. global_lock # Nobody
  BY <1>1, NobodyAssumption
<1> QED
  BY <1>2 DEF LockInv, Locks, FlagFollows

-----------------------------------------------------------------------------
\* Nobody is anywhere at first.
LEMMA InitLockInv == LockInit => LockInv
<1> SUFFICES ASSUME LockInit PROVE LockInv
  OBVIOUS
<1>1. Sending = {}
  BY DEF LockInit, Sending
<1>2. Counted
  BY <1>1, FS_EmptySet DEF LockInit, Counted
<1>3. LockTypeOK
  <2>1. waiting_queue_running \in 0..Cardinality(Processor)
    BY <1>2, SendingFinite DEF Counted
  <2>2. at \in [Processor -> Places]
    BY DEF LockInit, Places
  <2>3. work \in 0..MaxWork
    BY WorkAssumption DEF LockInit
  <2> QED
    BY <2>1, <2>2, <2>3, Zenon DEF LockInit, LockTypeOK
<1>4. Locks
  BY NobodyAssumption DEF LockInit, Locks, QueueLockHeld, GlobalLockHeld, FlagFollows, SlowPlaces
<1>5. OnePast
  BY DEF LockInit, OnePast, InCritical
<1> QED
  BY <1>2, <1>3, <1>4, <1>5 DEF LockInv

\* Passing the flag: it is down, so nobody is in a global-lock section.
LEMMA CheckPauseLockInv ==
    ASSUME LockInv, NEW p \in Processor, CheckPause(p)
    PROVE  LockInv'
<1> USE DEF LockInv, CheckPause, runningVars
<1>1. /\ at[p] = "idle" /\ at'[p] = "count"
      /\ \A q \in Processor : q # p => at'[q] = at[q]
      /\ at' \in [Processor -> Places]
  BY Moved DEF Places
<1>2. LockTypeOK'
  BY <1>1 DEF LockTypeOK
<1>3. Sending' = Sending
  BY <1>1 DEF Sending
<1>4. Counted'
  BY <1>3 DEF Counted
<1>5. Locks'
  BY <1>1, NobodyAssumption DEF Locks, QueueLockHeld, GlobalLockHeld, FlagFollows, SlowPlaces
<1>6. OnePast'
  <2>1. \A q \in Processor : ~InCritical(q)
    BY CriticalPaused
  <2>2. \A q \in Processor : ~InCritical(q)'
    BY <1>1, <2>1 DEF InCritical
  <2> QED
    BY <2>2 DEF OnePast
<1> QED
  BY <1>2, <1>4, <1>5, <1>6

\* Counting in: the processor was past the flag already.
LEMMA CountInLockInv ==
    ASSUME LockInv, NEW p \in Processor, CountIn(p)
    PROVE  LockInv'
<1> USE DEF LockInv, CountIn
<1>1. /\ at[p] = "count" /\ at'[p] = "send"
      /\ \A q \in Processor : q # p => at'[q] = at[q]
      /\ at' \in [Processor -> Places]
  BY Moved DEF Places
<1>2. Sending' = Sending \cup {p} /\ p \notin Sending
  BY <1>1 DEF Sending
<1>3. Cardinality(Sending') = Cardinality(Sending) + 1
  BY <1>2, SendingFinite, FS_AddElement
<1>4. Counted'
  BY <1>3 DEF Counted
<1>5. LockTypeOK'
  BY <1>1, <1>4, SendingFiniteNext DEF LockTypeOK, Counted
<1>6. Locks'
  BY <1>1, NobodyAssumption DEF Locks, QueueLockHeld, GlobalLockHeld, FlagFollows, SlowPlaces
<1>7. OnePast'
  BY <1>1 DEF OnePast, Past, InCritical
<1> QED
  BY <1>4, <1>5, <1>6, <1>7

\* Counting out.
LEMMA CountOutLockInv ==
    ASSUME LockInv, NEW p \in Processor, CountOut(p)
    PROVE  LockInv'
<1> USE DEF LockInv, CountOut, holderVars
<1>1. /\ at[p] = "send" /\ at'[p] = "idle"
      /\ \A q \in Processor : q # p => at'[q] = at[q]
      /\ at' \in [Processor -> Places]
  BY Moved DEF Places
<1>2. Sending' = Sending \ {p} /\ p \in Sending
  BY <1>1 DEF Sending
<1>3. Cardinality(Sending') = Cardinality(Sending) - 1
  BY <1>2, SendingFinite, FS_RemoveElement
<1>4. Counted'
  BY <1>3 DEF Counted
<1>5. LockTypeOK'
  BY <1>1, <1>4, SendingFiniteNext DEF LockTypeOK, Counted
<1>6. Locks'
  BY <1>1 DEF Locks, QueueLockHeld, GlobalLockHeld, FlagFollows, SlowPlaces
<1>7. OnePast'
  BY <1>1 DEF OnePast, Past, InCritical
<1> QED
  BY <1>4, <1>5, <1>6, <1>7

-----------------------------------------------------------------------------
\* Raising the flag with the global lock.
LEMMA LockGlobalLockInv ==
    ASSUME LockInv, NEW p \in Processor, NEW from \in {"idle", "push"},
           NEW to \in {"drain", "push-drain"}, LockGlobal(p, from, to), UNCHANGED work
    PROVE  LockInv'
<1> USE DEF LockInv, LockGlobal
<1>1. /\ at[p] = from /\ at'[p] = to
      /\ \A q \in Processor : q # p => at'[q] = at[q]
      /\ at' \in [Processor -> Places]
  BY Moved DEF Places
<1>2. LockTypeOK'
  BY <1>1 DEF LockTypeOK, runningVars
<1>3. Sending' = Sending
  BY <1>1 DEF Sending
<1>4. Counted'
  BY <1>3 DEF Counted, runningVars
<1>5. Locks'
  BY <1>1, NobodyAssumption
     DEF Locks, QueueLockHeld, GlobalLockHeld, FlagFollows, SlowPlaces
<1>6. OnePast'
  BY <1>1 DEF OnePast, Past, InCritical
<1> QED
  BY <1>2, <1>4, <1>5, <1>6

\* The wait is over: nobody hands out, and at most the holder of
\* core_queue_running_SpinLock is past the flag.
LEMMA DrainLockInv ==
    ASSUME LockInv, NEW p \in Processor, NEW from \in {"drain", "push-drain"},
           NEW to \in {"critical", "push-critical"}, Drain(p, from, to), UNCHANGED work
    PROVE  LockInv'
<1> USE DEF LockInv, Drain
<1>1. /\ at[p] = from /\ at'[p] = to
      /\ \A q \in Processor : q # p => at'[q] = at[q]
      /\ at' \in [Processor -> Places]
  BY Moved DEF Places
<1>2. LockTypeOK'
  BY <1>1 DEF LockTypeOK, runningVars, holderVars
<1>3. Sending' = Sending
  BY <1>1 DEF Sending
<1>4. Counted'
  BY <1>3 DEF Counted, runningVars
<1>5. Locks'
  BY <1>1 DEF Locks, holderVars, QueueLockHeld, GlobalLockHeld, FlagFollows, SlowPlaces
<1>6. OnePast'
  <2>1. Sending = {}
    BY SendingFinite, FS_EmptySet DEF Counted
  <2>2. \A q \in Processor : Past(q)' => at[q] = "count"
    BY <1>1, <2>1 DEF Past, Sending
  <2>3. \A q \in Processor : Past(q)' => queue_lock = q
    BY <2>2 DEF Locks, QueueLockHeld
  <2> QED
    BY <2>3 DEF OnePast
<1> QED
  BY <1>2, <1>4, <1>5, <1>6

\* Lowering the flag.
LEMMA UnlockGlobalLockInv ==
    ASSUME LockInv, NEW p \in Processor, NEW from \in {"critical", "push-critical"},
           NEW to \in {"idle", "pushed"}, UnlockGlobal(p, from, to), work' \in 0..MaxWork
    PROVE  LockInv'
<1> USE DEF LockInv, UnlockGlobal
<1>1. /\ at[p] = from /\ at'[p] = to
      /\ \A q \in Processor : q # p => at'[q] = at[q]
      /\ at' \in [Processor -> Places]
  BY Moved DEF Places
<1>2. LockTypeOK'
  BY <1>1 DEF LockTypeOK, runningVars
<1>3. Sending' = Sending
  BY <1>1 DEF Sending
<1>4. Counted'
  BY <1>3 DEF Counted, runningVars
<1>5. Locks'
  <2>1. global_lock = p
    BY <1>1 DEF Locks, GlobalLockHeld, SlowPlaces
  <2> QED
    BY <1>1, <2>1, NobodyAssumption
       DEF Locks, QueueLockHeld, GlobalLockHeld, FlagFollows, SlowPlaces
<1>6. OnePast'
  BY <1>1 DEF OnePast, Past, InCritical
<1> QED
  BY <1>2, <1>4, <1>5, <1>6

\* The steps of core_push_core_queues that touch neither lock nor counter.
LEMMA AsideLockInv ==
    ASSUME LockInv, NEW p \in Processor, NEW from \in {"idle", "try", "pushed"},
           NEW to \in {"idle", "try", "push"}, Move(p, from, to),
           core_queue_running' \in BOOLEAN,
           UNCHANGED <<pause_waiting_queue, waiting_queue_running, holderVars, work>>
    PROVE  LockInv'
<1> USE DEF LockInv
<1>1. /\ at[p] = from /\ at'[p] = to
      /\ \A q \in Processor : q # p => at'[q] = at[q]
      /\ at' \in [Processor -> Places]
  BY Moved DEF Places
<1>2. LockTypeOK'
  BY <1>1 DEF LockTypeOK, holderVars
<1>3. Sending' = Sending
  BY <1>1 DEF Sending
<1>4. Counted'
  BY <1>3 DEF Counted
<1>5. Locks'
  BY <1>1 DEF Locks, holderVars, QueueLockHeld, GlobalLockHeld, FlagFollows, SlowPlaces
<1>6. OnePast'
  BY <1>1 DEF OnePast, Past, InCritical
<1> QED
  BY <1>2, <1>4, <1>5, <1>6

-----------------------------------------------------------------------------
\* Every slow path outside core_push_core_queues keeps the invariant.
LEMMA SlowPathLockInv ==
    ASSUME LockInv, NEW p \in Processor, SlowPath(p)
    PROVE  LockInv'
<1>1. CASE LockGlobal(p, "idle", "drain") /\ UNCHANGED work
  BY <1>1, LockGlobalLockInv
<1>2. CASE Drain(p, "drain", "critical") /\ UNCHANGED work
  BY <1>2, DrainLockInv
<1>3. CASE UnlockGlobal(p, "critical", "idle") /\ work' \in work..MaxWork
  <2>1. work' \in 0..MaxWork
    BY <1>3, WorkAssumption DEF LockInv, LockTypeOK
  <2> QED
    BY <1>3, <2>1, UnlockGlobalLockInv
<1> QED
  BY <1>1, <1>2, <1>3 DEF SlowPath

\* So does every step of core_push_core_queues.
LEMMA PushLockInv ==
    ASSUME LockInv, NEW p \in Processor, PushCoreQueues(p)
    PROVE  LockInv'
<1>0. core_queue_running \in BOOLEAN
  BY DEF LockInv, LockTypeOK
<1>1. CASE CallPush(p)
  BY <1>0, <1>1, AsideLockInv DEF CallPush, runningVars
<1>2. CASE EnterPush(p)
  BY <1>0, <1>2, AsideLockInv DEF EnterPush
<1>3. CASE LockGlobal(p, "push", "push-drain") /\ UNCHANGED work
  BY <1>3, LockGlobalLockInv
<1>4. CASE Drain(p, "push-drain", "push-critical") /\ UNCHANGED work
  BY <1>4, DrainLockInv
<1>5. CASE HandleQueues(p)
  <2>1. work' \in 0..MaxWork
    BY <1>5, WorkAssumption DEF HandleQueues, LockInv, LockTypeOK
  <2> QED
    BY <1>5, <2>1, UnlockGlobalLockInv DEF HandleQueues
<1>6. CASE LeavePush(p)
  BY <1>6, AsideLockInv DEF LeavePush
<1> QED
  BY <1>1, <1>2, <1>3, <1>4, <1>5, <1>6 DEF PushCoreQueues

\* Queueing an error moves nobody.
LEMMA QueueErrorLockInv ==
    ASSUME LockInv, NEW p \in Processor, QueueError(p)
    PROVE  LockInv'
<1> USE DEF LockInv, QueueError, runningVars, holderVars
<1>1. LockTypeOK'
  BY WorkAssumption DEF LockTypeOK
<1>2. Counted'
  BY DEF Counted, Sending
<1>3. Locks'
  BY DEF Locks, QueueLockHeld, GlobalLockHeld, FlagFollows
<1>4. OnePast'
  BY DEF OnePast, Past, InCritical
<1> QED
  BY <1>1, <1>2, <1>3, <1>4

\* The strengthened invariant holds in every reachable state.
LEMMA LockInvHolds == LockSpec => []LockInv
<1>1. LockInv /\ [LockNext]_lockVars => LockInv'
  <2> SUFFICES ASSUME LockInv, [LockNext]_lockVars PROVE LockInv'
    OBVIOUS
  <2>1. CASE LockNext
    <3>1. PICK p \in Processor :
              HandOut(p) \/ SlowPath(p) \/ PushCoreQueues(p) \/ QueueError(p)
      BY <2>1 DEF LockNext
    <3>2. CASE HandOut(p)
      BY <3>2, CheckPauseLockInv, CountInLockInv, CountOutLockInv DEF HandOut
    <3>3. CASE SlowPath(p)
      BY <3>3, SlowPathLockInv
    <3>4. CASE PushCoreQueues(p)
      BY <3>4, PushLockInv
    <3>5. CASE QueueError(p)
      BY <3>5, QueueErrorLockInv
    <3> QED
      BY <3>1, <3>2, <3>3, <3>4, <3>5
  <2>2. CASE UNCHANGED lockVars
    BY <2>2 DEF lockVars, LockInv, LockTypeOK, Counted, Sending, Locks, QueueLockHeld,
                GlobalLockHeld, FlagFollows, OnePast, Past, InCritical
  <2> QED
    BY <2>1, <2>2
<1> QED
  BY InitLockInv, <1>1, PTL DEF LockSpec

\* core_global_lock's counter never goes below zero or above the number of
\* processors, and locks are held by processors.
THEOREM LockTypeCorrect == LockSpec => []LockTypeOK
<1>1. LockInv => LockTypeOK
  BY DEF LockInv
<1> QED
  BY LockInvHolds, <1>1, PTL

\* However many processors there are, at most one of them slips past
\* core_global_lock and hands out requests inside another's critical section.
THEOREM IntruderIsAlone == LockSpec => []OneIntruder
<1>1. LockInv => OneIntruder
  BY DEF LockInv, OnePast, Past, OneIntruder
<1> QED
  BY LockInvHolds, <1>1, PTL

-----------------------------------------------------------------------------
(***************************************************************************)
(* Part 2: the hot-plug message queue.                                     *)
(***************************************************************************)

NoneTwice(q) == \A i, j \in 1..Len(q) : q[i] = q[j] => i = j

Lists ==
    /\ free \in Seq(Msg) /\ tasks \in Seq(Msg)
    /\ NoneTwice(free) /\ NoneTwice(tasks)
    /\ ToSet(free) \cap ToSet(tasks) = {}
    /\ ToSet(free) \cup ToSet(tasks) = Msg

\* Who has a message in hand has one of the array, if another than he thinks.
InHand ==
    /\ \A c \in Caller : /\ insert[c].at \in {"fill", "move"} => insert[c].pmsg \in Msg
                         /\ insert[c].at \in {"pick", "fill", "move"} => insert[c].event \in Event
    /\ worker.at \in {"proc", "clear", "free"} => worker.pmsg \in Msg
    /\ worker.at = "scan" => worker.hba \in Adapter
    /\ queue_state = "PROC" <=> worker.at \in {"take", "proc", "clear", "free"}

Types ==
    /\ content \in [Msg -> Event \cup {None}]
    /\ queue_state \in {"IDLE", "PROC"}
    /\ need_rescan \in Adapter \cup {None}
    /\ scheduled \in BOOLEAN
    /\ insert \in [Caller -> [at : {"idle", "pick", "fill", "move", "schedule"},
                             event : Event \cup {None}, pmsg : Msg \cup {None}]]
    /\ worker \in [at : {"idle", "take", "proc", "clear", "free", "rescan", "scan"},
                   pmsg : Msg \cup {None}, hba : Adapter \cup {None},
                   left : SUBSET Disk]
    /\ exist \in [Adapter -> SUBSET Disk]
    /\ sdev \in [Adapter -> SUBSET Disk]
    /\ hotplugs \in 0..MaxHotplug /\ reporters \in SUBSET Adapter
    /\ disturbed \in BOOLEAN

MsgInv == Lists /\ InHand /\ Types /\ NoLostWakeup /\ RescanComes

-----------------------------------------------------------------------------
(***************************************************************************)
(* The lists.                                                              *)
(***************************************************************************)

\* What a sequence holds, position by position.
LEMMA Positions ==
    ASSUME NEW S, NEW q \in Seq(S)
    PROVE  /\ Len(q) \in Nat
           /\ \A i \in 1..Len(q) : q[i] \in S /\ q[i] \in ToSet(q)
           /\ \A x \in ToSet(q) : x \in S /\ \E i \in 1..Len(q) : q[i] = x
           /\ q # <<>> <=> Len(q) # 0
           /\ q # <<>> <=> ToSet(q) # {}
<1>1. Len(q) \in Nat /\ DOMAIN q = 1..Len(q) /\ \A i \in 1..Len(q) : q[i] \in S
  BY LenProperties, ElementOfSeq
<1>2. q # <<>> <=> Len(q) # 0
  BY EmptySeq
<1>3. /\ \A i \in 1..Len(q) : q[i] \in ToSet(q)
      /\ \A x \in ToSet(q) : \E i \in 1..Len(q) : q[i] = x
  BY <1>1 DEF ToSet
<1>4. Len(q) # 0 => 1 \in 1..Len(q)
  BY <1>1
<1>5. Len(q) = 0 => 1..Len(q) = {}
  BY <1>1
<1> QED BY <1>1, <1>2, <1>3, <1>4, <1>5

\* A member taken out, or none.
LEMMA TakenOut ==
    ASSUME NEW S, NEW q \in Seq(S), NEW m \in S, NoneTwice(q)
    PROVE  /\ RemoveFirst(q, m) \in Seq(S) /\ NoneTwice(RemoveFirst(q, m))
           /\ ToSet(RemoveFirst(q, m)) = ToSet(q) \ {m}
<1> DEFINE n == Len(q)
           o == RemoveFirst(q, m)
<1>1. n \in Nat /\ \A i \in 1..n : q[i] \in S /\ q[i] \in ToSet(q)
  BY Positions
<1>2. \A x \in ToSet(q) : \E i \in 1..n : q[i] = x
  BY Positions
<1>3. \A i, j \in 1..n : q[i] = q[j] => i = j
  BY DEF NoneTwice
<1>4. CASE m \notin ToSet(q)
  <2>1. o = q
    BY <1>1, <1>4 DEF RemoveFirst
  <2> HIDE DEF o
  <2> QED BY <1>4, <2>1 DEF o
<1>5. CASE m \in ToSet(q)
  <2>1. PICK k \in 1..n : q[k] = m
    BY <1>2, <1>5
  <2>2. SelectInSeq(q, LAMBDA v : v = m) = k
    <3>1. {i \in 1..n : q[i] = m} = {k}
      BY <1>3, <2>1
    <3>2. SelectInSeq(q, LAMBDA v : v = m) =
             IF {i \in 1..n : q[i] = m} # {} THEN Min({i \in 1..n : q[i] = m}) ELSE 0
      BY DEF SelectInSeq
    <3>3. Min({k}) = k
      BY DEF Min
    <3> QED BY <3>1, <3>2, <3>3
  <2>3. o = RemoveAt(q, k)
    BY <2>1, <2>2 DEF RemoveFirst
  <2>4. /\ o \in Seq(S) /\ Len(o) = n - 1
        /\ \A i \in 1..n-1 : o[i] = IF i < k THEN q[i] ELSE q[i+1]
    <3> DEFINE a == SubSeq(q, 1, k-1)
               b == SubSeq(q, k+1, n)
    <3>1. a \in Seq(S) /\ Len(a) = k-1 /\ \A i \in 1..k-1 : a[i] = q[i]
      BY <1>1, <2>1, SubSeqProperties
    <3>2. b \in Seq(S) /\ Len(b) = n-k /\ \A i \in 1..n-k : b[i] = q[k+i]
      BY <1>1, <2>1, SubSeqProperties
    <3>3. o = a \o b
      BY <2>3 DEF RemoveAt
    <3> HIDE DEF a, b, o
    <3>4. /\ o \in Seq(S) /\ Len(o) = (k-1) + (n-k)
          /\ \A i \in 1..(k-1)+(n-k) : o[i] = IF i <= k-1 THEN a[i] ELSE b[i-(k-1)]
      <4>1. /\ a \o b \in Seq(S) /\ Len(a \o b) = Len(a) + Len(b)
            /\ \A i \in 1..Len(a)+Len(b) :
                  (a \o b)[i] = IF i <= Len(a) THEN a[i] ELSE b[i-Len(a)]
        BY <3>1, <3>2, ConcatProperties
      <4> QED BY <3>1, <3>2, <3>3, <4>1
    <3>5. (k-1) + (n-k) = n-1
      BY <1>1, <2>1
    <3>6. ASSUME NEW i \in 1..n-1 PROVE o[i] = IF i < k THEN q[i] ELSE q[i+1]
      <4>1. CASE i < k
        <5>1. i \in 1..k-1 /\ i <= k-1
          BY <1>1, <2>1, <4>1
        <5> QED BY <3>1, <3>4, <3>5, <4>1, <5>1
      <4>2. CASE ~(i < k)
        <5>1. i-(k-1) \in 1..n-k /\ k+(i-(k-1)) = i+1 /\ ~(i <= k-1)
          BY <1>1, <2>1, <4>2
        <5> QED BY <3>2, <3>4, <3>5, <4>2, <5>1
      <4> QED BY <4>1, <4>2
    <3> QED BY <3>4, <3>5, <3>6
  <2> HIDE DEF o, n
  <2>5. NoneTwice(o)
    <3> SUFFICES ASSUME NEW i \in 1..n-1, NEW j \in 1..n-1, o[i] = o[j] PROVE i = j
      BY <2>4 DEF NoneTwice
    <3>1. PICK i1 \in 1..n : o[i] = q[i1] /\ i1 = IF i < k THEN i ELSE i+1
      BY <1>1, <2>1, <2>4
    <3>2. PICK j1 \in 1..n : o[j] = q[j1] /\ j1 = IF j < k THEN j ELSE j+1
      BY <1>1, <2>1, <2>4
    <3>3. i1 = j1
      BY <1>3, <3>1, <3>2
    <3> QED BY <1>1, <2>1, <3>1, <3>2, <3>3
  <2>6. ASSUME NEW i \in 1..n-1 PROVE o[i] \in ToSet(q) /\ o[i] # m
    <3>1. PICK i1 \in 1..n : o[i] = q[i1] /\ i1 # k
      BY <1>1, <2>1, <2>4
    <3> QED BY <1>1, <1>3, <2>1, <3>1
  <2>7. ASSUME NEW i \in 1..n, i # k PROVE \E j \in 1..n-1 : o[j] = q[i]
    <3>1. CASE i < k
      <4>1. i \in 1..n-1 /\ o[i] = q[i]
        BY <1>1, <2>1, <2>4, <3>1
      <4> QED BY <4>1
    <3>2. CASE ~(i < k)
      <4>1. i-1 \in 1..n-1 /\ ~(i-1 < k) /\ (i-1)+1 = i
        BY <1>1, <2>1, <2>7, <3>2
      <4>2. o[i-1] = q[i]
        BY <2>4, <4>1
      <4> QED BY <4>1, <4>2
    <3> QED BY <3>1, <3>2
  <2>8. /\ \A i \in 1..n-1 : o[i] \in ToSet(o)
        /\ \A x \in ToSet(o) : \E i \in 1..n-1 : o[i] = x
    BY <2>4, Positions
  <2>9. ToSet(o) = ToSet(q) \ {m}
    BY <1>2, <2>1, <2>6, <2>7, <2>8
  <2> QED BY <2>4, <2>5, <2>9 DEF o
<1> QED BY <1>4, <1>5

LEMMA PutLast ==
    ASSUME NEW S, NEW q \in Seq(S), NEW m \in S, NoneTwice(q), m \notin ToSet(q)
    PROVE  /\ Append(q, m) \in Seq(S) /\ NoneTwice(Append(q, m))
           /\ ToSet(Append(q, m)) = ToSet(q) \cup {m} /\ Append(q, m) # <<>>
<1> DEFINE n == Len(q)
           o == Append(q, m)
<1>1. n \in Nat /\ \A i \in 1..n : q[i] \in ToSet(q)
  BY Positions
<1>2. \A x \in ToSet(q) : \E i \in 1..n : q[i] = x
  BY Positions
<1>3. \A i, j \in 1..n : q[i] = q[j] => i = j
  BY DEF NoneTwice
<1>4. o \in Seq(S) /\ Len(o) = n+1 /\ o[n+1] = m /\ \A i \in 1..n : o[i] = q[i]
  BY AppendProperties
<1> HIDE DEF n, o
<1>5. \A i \in 1..n+1 : i \in 1..n \/ i = n+1
  BY <1>1
<1>6. n+1 \in 1..n+1 /\ 1..n \subseteq 1..n+1
  BY <1>1
<1>7. NoneTwice(o)
  <2> SUFFICES ASSUME NEW i \in 1..n+1, NEW j \in 1..n+1, o[i] = o[j] PROVE i = j
    BY <1>4 DEF NoneTwice
  <2> QED BY <1>1, <1>3, <1>4, <1>5
<1>8. /\ \A i \in 1..n+1 : o[i] \in ToSet(o)
      /\ \A x \in ToSet(o) : \E i \in 1..n+1 : o[i] = x
  BY <1>4, Positions
<1>9. \A x : x \in ToSet(o) <=> x \in ToSet(q) \/ x = m
  BY <1>1, <1>2, <1>4, <1>5, <1>6, <1>8
<1>10. o # <<>>
  BY <1>6, <1>8, <1>4, Positions
<1> QED BY <1>4, <1>7, <1>9, <1>10 DEF o

-----------------------------------------------------------------------------
(***************************************************************************)
(* Each action keeps the invariant.                                        *)
(***************************************************************************)

\* With no message on the free list they are all tasks.
LEMMA FullIsWaiting == ASSUME Lists, free = <<>> PROVE tasks # <<>>
<1>1. ToSet(free) = {}
  BY Positions DEF Lists
<1> QED BY <1>1, MsgAssumption, Positions DEF Lists

\* A step that neither touches the lists nor the worker.
LEMMA SameLists == ASSUME Lists, UNCHANGED <<free, tasks>> PROVE Lists'
  BY DEF Lists, NoneTwice

LEMMA InitInv == MsgInit => MsgInv
<1> SUFFICES ASSUME MsgInit PROVE MsgInv
  OBVIOUS
<1> DEFINE n == Cardinality(Msg)
<1>1. n \in Nat /\ ExistsBijection(1..n, Msg)
  BY MsgAssumption, FS_CardinalityType
<1>2. \E f \in [1..n -> Msg] : IsInjective(f)
  BY <1>1 DEF ExistsBijection, Bijection, Injection
<1>3. free \in [1..n -> Msg] /\ IsInjective(free)
  BY <1>2 DEF MsgInit, SetToSeq
<1>4. IsFiniteSet(1..n) /\ Cardinality(1..n) = n
  BY <1>1, FS_Interval
<1>5. free \in Surjection(1..n, Msg)
  <2>1. free \in Injection(1..n, Msg)
    BY <1>3 DEF Injection
  <2> QED BY <1>4, <2>1, MsgAssumption, FS_Injection
<1>6. free \in Seq(Msg) /\ Len(free) = n /\ DOMAIN free = 1..n
  BY <1>1, <1>3, IsASeq, LenProperties
<1> HIDE DEF n
<1>7. NoneTwice(free) /\ ToSet(free) = Msg
  BY <1>3, <1>5, <1>6 DEF NoneTwice, IsInjective, ToSet, Surjection
<1>8. tasks \in Seq(Msg) /\ NoneTwice(tasks) /\ ToSet(tasks) = {}
  BY EmptySeq DEF MsgInit, NoneTwice, ToSet
<1>9. Lists
  BY <1>6, <1>7, <1>8 DEF Lists
<1>10. InHand
  BY DEF MsgInit, InHand, NoInsert, WorkerIdle
<1>11. Types
  <2>1. hotplugs \in 0..MaxHotplug
    BY HotplugAssumption DEF MsgInit
  <2>2. /\ insert \in [Caller -> [at : {"idle", "pick", "fill", "move", "schedule"},
                                  event : Event \cup {None}, pmsg : Msg \cup {None}]]
        /\ worker \in [at : {"idle", "take", "proc", "clear", "free", "rescan", "scan"},
                       pmsg : Msg \cup {None}, hba : Adapter \cup {None}, left : SUBSET Disk]
    BY DEF MsgInit, NoInsert, WorkerIdle
  <2>3. exist \in [Adapter -> SUBSET Disk] /\ sdev \in [Adapter -> SUBSET Disk]
    BY DEF MsgInit
  <2> QED BY <2>1, <2>2, <2>3 DEF MsgInit, Types
<1>12. NoLostWakeup /\ RescanComes
  BY DEF MsgInit, NoLostWakeup, RescanComes
<1> QED BY <1>9, <1>10, <1>11, <1>12 DEF MsgInv

LEMMA InsertKeeps ==
    ASSUME MsgInv, NEW c \in Caller, hba_msg_insert(c)
    PROVE  MsgInv'
<1>1. /\ Lists /\ InHand /\ Types
      /\ UNCHANGED <<queue_state, worker, exist, sdev, hotplugs, reporters, disturbed>>
  BY DEF hba_msg_insert, diskVars, MsgInv
<1>2. CASE InsertPick(c)
  <2>1. /\ insert[c].at = "pick" /\ insert[c].event \in Event
        /\ \A b \in Caller \ {c} : insert'[b] = insert[b]
        /\ UNCHANGED <<free, tasks, content, scheduled>>
    BY <1>1, <1>2 DEF InsertPick, listVars, InHand, Types
  <2>2. Lists'
    BY <1>1, <2>1, SameLists
  <2>3. CASE free = <<>>
    <3>1. need_rescan' = insert[c].event.data /\ insert'[c] = NoInsert /\ tasks # <<>>
          /\ insert' = [insert EXCEPT ![c] = NoInsert]
      BY <1>1, <1>2, <2>3, FullIsWaiting DEF InsertPick, Types
    <3>2. Types'
      BY <1>1, <2>1, <3>1 DEF Types, NoInsert, Event
    <3>3. InHand'
      BY <1>1, <2>1, <3>1 DEF InHand, NoInsert
    <3>4. NoLostWakeup' /\ RescanComes'
      BY <1>1, <2>1, <3>1 DEF MsgInv, NoLostWakeup, RescanComes
    <3> QED BY <2>2, <3>2, <3>3, <3>4 DEF MsgInv
  <2>4. CASE free # <<>>
    <3>1. /\ insert' = [insert EXCEPT ![c].at = "fill", ![c].pmsg = Head(free)]
          /\ need_rescan' = need_rescan /\ Head(free) \in Msg
      BY <1>1, <1>2, <2>4, HeadTailProperties DEF InsertPick, Lists
    <3>2. insert'[c].at = "fill" /\ insert'[c].pmsg = Head(free)
          /\ insert'[c].event = insert[c].event
      BY <1>1, <3>1 DEF Types
    <3>3. Types'
      <4>1. [insert[c] EXCEPT !.at = "fill", !.pmsg = Head(free)] \in
               [at : {"idle", "pick", "fill", "move", "schedule"},
                event : Event \cup {None}, pmsg : Msg \cup {None}]
        <5>1. insert[c] \in [at : {"idle", "pick", "fill", "move", "schedule"},
                             event : Event \cup {None}, pmsg : Msg \cup {None}]
          BY <1>1 DEF Types
        <5> QED BY <3>1, <5>1
      <4>2. insert' = [insert EXCEPT ![c] = [insert[c] EXCEPT !.at = "fill", !.pmsg = Head(free)]]
        BY <1>1, <3>1 DEF Types
      <4>3. insert' \in [Caller -> [at : {"idle", "pick", "fill", "move", "schedule"},
                                   event : Event \cup {None}, pmsg : Msg \cup {None}]]
        BY <1>1, <4>1, <4>2 DEF Types
      <4> QED BY <1>1, <2>1, <3>1, <4>3 DEF Types
    <3>4. InHand'
      BY <1>1, <2>1, <3>1, <3>2 DEF InHand
    <3>5. NoLostWakeup' /\ RescanComes'
      BY <1>1, <2>1, <3>1 DEF MsgInv, NoLostWakeup, RescanComes
    <3> QED BY <2>2, <3>3, <3>4, <3>5 DEF MsgInv
  <2> QED BY <2>3, <2>4
<1>3. CASE InsertFill(c)
  <2>1. /\ insert[c].at = "fill" /\ insert[c].event \in Event /\ insert[c].pmsg \in Msg
        /\ \A b \in Caller \ {c} : insert'[b] = insert[b]
        /\ insert'[c].at = "move" /\ insert'[c].pmsg = insert[c].pmsg
        /\ insert'[c].event = insert[c].event
        /\ content' = [content EXCEPT ![insert[c].pmsg] = insert[c].event]
        /\ insert' = [insert EXCEPT ![c].at = "move"]
        /\ UNCHANGED <<free, tasks, scheduled, need_rescan>>
    BY <1>1, <1>3 DEF InsertFill, InHand, Types
  <2>2. Lists'
    BY <1>1, <2>1, SameLists
  <2>3. Types'
    BY <1>1, <2>1 DEF Types
  <2>4. InHand'
    BY <1>1, <2>1 DEF InHand
  <2>5. NoLostWakeup' /\ RescanComes'
    BY <1>1, <2>1 DEF MsgInv, NoLostWakeup, RescanComes
  <2> QED BY <2>2, <2>3, <2>4, <2>5 DEF MsgInv
<1>4. CASE InsertMove(c)
  <2> DEFINE m == insert[c].pmsg
  <2>1. /\ insert[c].at = "move" /\ m \in Msg
        /\ \A b \in Caller \ {c} : insert'[b] = insert[b]
        /\ insert'[c].at = "schedule"
        /\ insert' = [insert EXCEPT ![c].at = "schedule"]
        /\ free' = RemoveFirst(free, m) /\ tasks' = Append(RemoveFirst(tasks, m), m)
        /\ UNCHANGED <<content, scheduled, need_rescan>>
    BY <1>1, <1>4 DEF InsertMove, InHand, Types
  <2> HIDE DEF m
  <2>2. /\ free' \in Seq(Msg) /\ NoneTwice(free') /\ ToSet(free') = ToSet(free) \ {m}
    BY <1>1, <2>1, TakenOut DEF Lists
  <2>3. LET o == RemoveFirst(tasks, m)
        IN  o \in Seq(Msg) /\ NoneTwice(o) /\ ToSet(o) = ToSet(tasks) \ {m}
    BY <1>1, <2>1, TakenOut DEF Lists
  <2>4. /\ tasks' \in Seq(Msg) /\ NoneTwice(tasks') /\ tasks' # <<>>
        /\ ToSet(tasks') = (ToSet(tasks) \ {m}) \cup {m}
    <3> DEFINE o == RemoveFirst(tasks, m)
    <3>1. o \in Seq(Msg) /\ NoneTwice(o) /\ ToSet(o) = ToSet(tasks) \ {m} /\ m \notin ToSet(o)
      BY <2>3
    <3>2. tasks' = Append(o, m)
      BY <2>1
    <3> HIDE DEF o
    <3> QED BY <2>1, <3>1, <3>2, PutLast
  <2>5. Lists'
    BY <1>1, <2>1, <2>2, <2>4 DEF Lists
  <2>6. Types'
    <3>1. insert[c] \in [at : {"idle", "pick", "fill", "move", "schedule"},
                         event : Event \cup {None}, pmsg : Msg \cup {None}]
      BY <1>1 DEF Types
    <3>2. [insert[c] EXCEPT !.at = "schedule"] \in
             [at : {"idle", "pick", "fill", "move", "schedule"},
              event : Event \cup {None}, pmsg : Msg \cup {None}]
      BY <3>1
    <3>3. insert' = [insert EXCEPT ![c] = [insert[c] EXCEPT !.at = "schedule"]]
      BY <1>1, <2>1 DEF Types
    <3>4. insert' \in [Caller -> [at : {"idle", "pick", "fill", "move", "schedule"},
                                 event : Event \cup {None}, pmsg : Msg \cup {None}]]
      BY <1>1, <3>2, <3>3 DEF Types
    <3> QED BY <1>1, <2>1, <3>4 DEF Types
  <2>7. InHand'
    BY <1>1, <2>1 DEF InHand
  <2>8. NoLostWakeup' /\ RescanComes'
    BY <1>1, <2>1, <2>4 DEF NoLostWakeup, RescanComes
  <2> QED BY <2>5, <2>6, <2>7, <2>8 DEF MsgInv
<1>5. CASE InsertSchedule(c)
  <2>1. /\ scheduled' = TRUE /\ insert'[c] = NoInsert
        /\ \A b \in Caller \ {c} : insert'[b] = insert[b]
        /\ insert' = [insert EXCEPT ![c] = NoInsert]
        /\ UNCHANGED <<free, tasks, content, need_rescan>>
    BY <1>1, <1>5 DEF InsertSchedule, listVars, Types
  <2>2. Lists'
    BY <1>1, <2>1, SameLists
  <2>3. Types'
    BY <1>1, <2>1 DEF Types, NoInsert
  <2>4. InHand'
    BY <1>1, <2>1 DEF InHand, NoInsert
  <2>5. NoLostWakeup' /\ RescanComes'
    BY <1>1, <2>1 DEF MsgInv, NoLostWakeup, RescanComes
  <2> QED BY <2>2, <2>3, <2>4, <2>5 DEF MsgInv
<1> QED BY <1>2, <1>3, <1>4, <1>5 DEF hba_msg_insert

\* A disk comes or goes: what the lists and the worker are does not matter.
LEMMA ToggleKeeps ==
    ASSUME MsgInv, NEW h \in Adapter, NEW d \in Disk, Toggle(h, d)
    PROVE  /\ insert' \in [Caller -> [at : {"idle", "pick", "fill", "move", "schedule"},
                                      event : Event \cup {None}, pmsg : Msg \cup {None}]]
           /\ exist' \in [Adapter -> SUBSET Disk]
           /\ hotplugs' \in 0..MaxHotplug /\ reporters' \in SUBSET Adapter
           /\ insert[h].at = "idle" /\ insert'[h].at = "pick" /\ insert'[h].event \in Event
           /\ \A c \in Caller \ {h} : insert'[c] = insert[c]
<1>1. Types /\ h \in Caller
  BY DEF MsgInv, Caller
<1>2. \A kind \in {"ARRIVAL", "REMOVAL"} :
         /\ InsertOf(h, kind, d).at = "pick" /\ InsertOf(h, kind, d).event \in Event
         /\ InsertOf(h, kind, d) \in [at : {"idle", "pick", "fill", "move", "schedule"},
                                      event : Event \cup {None}, pmsg : Msg \cup {None}]
  BY DEF InsertOf, Event
<1>3. PICK kind \in {"ARRIVAL", "REMOVAL"} :
         insert' = [insert EXCEPT ![h] = InsertOf(h, kind, d)]
  BY DEF Toggle
<1>4. /\ insert[h].at = "idle" /\ hotplugs' = hotplugs + 1 /\ hotplugs < MaxHotplug
      /\ reporters' = reporters \cup {h}
      /\ exist' = [exist EXCEPT ![h] = IF d \in exist[h] THEN exist[h] \ {d} ELSE exist[h] \cup {d}]
  BY DEF Toggle, NoInsert
<1>5. exist' \in [Adapter -> SUBSET Disk]
  BY <1>1, <1>4 DEF Types
<1>6. hotplugs' \in 0..MaxHotplug /\ reporters' \in SUBSET Adapter
  BY <1>1, <1>4, HotplugAssumption DEF Types
<1>7. insert'[h] = InsertOf(h, kind, d) /\ \A c \in Caller \ {h} : insert'[c] = insert[c]
  BY <1>1, <1>3 DEF Types
<1>8. insert' \in [Caller -> [at : {"idle", "pick", "fill", "move", "schedule"},
                              event : Event \cup {None}, pmsg : Msg \cup {None}]]
  BY <1>1, <1>2, <1>3 DEF Types
<1> QED BY <1>2, <1>4, <1>5, <1>6, <1>7, <1>8

LEMMA HotplugKeeps ==
    ASSUME MsgInv, NEW h \in Adapter, NEW d \in Disk, Hotplug(h, d)
    PROVE  MsgInv'
<1>1. /\ Lists /\ InHand /\ Types /\ NoLostWakeup /\ RescanComes
      /\ UNCHANGED <<free, tasks, content, queue_state, need_rescan, scheduled, worker, sdev>>
      /\ disturbed' \in BOOLEAN /\ Toggle(h, d)
  BY DEF MsgInv, Hotplug, listVars, Types
<1>2. Lists'
  BY <1>1, SameLists
<1>3. Types'
  BY <1>1, ToggleKeeps DEF Types
<1>4. InHand'
  BY <1>1, ToggleKeeps DEF InHand
<1>5. NoLostWakeup' /\ RescanComes'
  BY <1>1, ToggleKeeps DEF NoLostWakeup, RescanComes
<1> QED BY <1>2, <1>3, <1>4, <1>5 DEF MsgInv

\* The worker's steps that leave the lists alone.
LEMMA WorkerLooks ==
    ASSUME MsgInv, mv_wq_handler \/ Take \/ Rescan \/ ScanEnd \/ Clear,
           disturbed' \in BOOLEAN
    PROVE  MsgInv'
<1>1. Lists /\ InHand /\ Types /\ NoLostWakeup /\ RescanComes
  BY DEF MsgInv
<1> DEFINE places == {"idle", "take", "proc", "clear", "free", "rescan", "scan"}
           W == [at : places, pmsg : Msg \cup {None}, hba : Adapter \cup {None},
                 left : SUBSET Disk]
<1>2. \A p \in places : WorkerAt(p) \in W /\ WorkerAt(p).at = p
  BY DEF WorkerAt, WorkerIdle
<1>3. WorkerIdle \in W /\ WorkerIdle.at = "idle"
  BY DEF WorkerIdle
<1>4. CASE mv_wq_handler
  <2>1. /\ UNCHANGED <<free, tasks, content, need_rescan, insert, exist, sdev, hotplugs, reporters>>
        /\ worker.at = "idle" /\ scheduled' = FALSE
    BY <1>4 DEF mv_wq_handler, listVars, diskVars
  <2>2. queue_state = "IDLE"
    BY <1>1, <2>1 DEF InHand, Types
  <2>3. \/ tasks # <<>> /\ queue_state' = "PROC" /\ worker' = WorkerAt("take")
        \/ tasks = <<>> /\ queue_state' = queue_state /\ worker' = worker
    BY <1>4, <2>2 DEF mv_wq_handler
  <2>4. Types' /\ InHand'
    BY <1>1, <1>2, <2>1, <2>2, <2>3 DEF Types, InHand
  <2>5. Lists' /\ NoLostWakeup' /\ RescanComes'
    BY <1>1, <1>2, <2>1, <2>3, SameLists DEF NoLostWakeup, RescanComes
  <2> QED BY <2>4, <2>5 DEF MsgInv
<1>5. CASE Take
  <2>1. /\ UNCHANGED <<free, tasks, content, need_rescan, scheduled, insert, exist, sdev,
                       hotplugs, reporters>>
        /\ worker.at = "take"
    BY <1>5 DEF Take, listVars, diskVars
  <2>2. CASE tasks = <<>>
    <3>1. queue_state' = "IDLE" /\ worker' = WorkerAt("rescan")
      BY <1>5, <2>2 DEF Take
    <3>2. Types' /\ InHand'
      BY <1>1, <1>2, <2>1, <3>1 DEF Types, InHand
    <3>3. Lists' /\ NoLostWakeup' /\ RescanComes'
      BY <1>1, <1>2, <2>1, <2>2, <3>1, SameLists DEF NoLostWakeup, RescanComes
    <3> QED BY <3>2, <3>3 DEF MsgInv
  <2>3. CASE tasks # <<>>
    <3>1. /\ queue_state' = queue_state /\ Head(tasks) \in Msg
          /\ worker' = [worker EXCEPT !.at = "proc", !.pmsg = Head(tasks)]
      BY <1>1, <1>5, <2>3, HeadTailProperties DEF Take, Lists
    <3>2. worker' \in W /\ worker'.at = "proc" /\ worker'.pmsg = Head(tasks)
      BY <1>1, <3>1 DEF Types
    <3>3. Types' /\ InHand'
      BY <1>1, <2>1, <3>1, <3>2 DEF Types, InHand
    <3>4. Lists' /\ NoLostWakeup' /\ RescanComes'
      BY <1>1, <2>1, <2>3, <3>2, SameLists DEF NoLostWakeup, RescanComes
    <3> QED BY <3>3, <3>4 DEF MsgInv
  <2> QED BY <2>2, <2>3
<1>6. CASE Rescan
  <2>1. /\ UNCHANGED <<free, tasks, content, queue_state, scheduled, insert, exist, sdev,
                       hotplugs, reporters>>
        /\ worker.at = "rescan" /\ need_rescan' = None
    BY <1>6 DEF Rescan, listVars, diskVars
  <2>2. worker' \in W /\ (\/ worker'.at = "idle"
                          \/ worker'.at = "scan" /\ worker'.hba \in Adapter)
    <3>1. CASE need_rescan = None
      BY <1>3, <1>6, <3>1 DEF Rescan
    <3>2. CASE need_rescan # None
      <4>1. worker' = [WorkerAt("scan") EXCEPT !.hba = need_rescan, !.left = Disk]
            /\ need_rescan \in Adapter
        BY <1>1, <1>6, <3>2 DEF Rescan, Types
      <4> QED BY <1>2, <4>1
    <3> QED BY <3>1, <3>2
  <2>3. Types' /\ InHand'
    BY <1>1, <2>1, <2>2 DEF Types, InHand
  <2>4. Lists' /\ NoLostWakeup' /\ RescanComes'
    BY <1>1, <2>1, <2>2, SameLists DEF NoLostWakeup, RescanComes
  <2> QED BY <2>3, <2>4 DEF MsgInv
<1>7. CASE ScanEnd
  <2>1. /\ UNCHANGED <<free, tasks, content, queue_state, need_rescan, scheduled, insert,
                       exist, sdev, hotplugs, reporters>>
        /\ worker.at = "scan" /\ worker' = WorkerIdle
    BY <1>7 DEF ScanEnd, listVars, diskVars
  <2>2. Types' /\ InHand'
    BY <1>1, <1>3, <2>1 DEF Types, InHand
  <2>3. Lists' /\ NoLostWakeup' /\ RescanComes'
    BY <1>1, <1>3, <2>1, SameLists DEF NoLostWakeup, RescanComes
  <2> QED BY <2>2, <2>3 DEF MsgInv
<1>8. CASE Clear
  <2>1. /\ UNCHANGED <<free, tasks, queue_state, need_rescan, scheduled, insert,
                       exist, sdev, hotplugs, reporters>>
        /\ worker.at = "clear" /\ worker' = [worker EXCEPT !.at = "free"]
        /\ content' = [content EXCEPT ![worker.pmsg] = None]
    BY <1>8 DEF Clear, diskVars
  <2>2. worker' \in W /\ worker'.at = "free" /\ worker'.pmsg = worker.pmsg
    BY <1>1, <2>1 DEF Types
  <2>3. Types' /\ InHand'
    BY <1>1, <2>1, <2>2 DEF Types, InHand
  <2>4. Lists' /\ NoLostWakeup' /\ RescanComes'
    BY <1>1, <2>1, <2>2, SameLists DEF NoLostWakeup, RescanComes
  <2> QED BY <2>3, <2>4 DEF MsgInv
<1> QED BY <1>4, <1>5, <1>6, <1>7, <1>8

LEMMA FreeKeeps ==
    ASSUME MsgInv, Free, disturbed' = disturbed
    PROVE  MsgInv'
<1> DEFINE m == worker.pmsg
           o == RemoveFirst(free, m)
<1>1. Lists /\ InHand /\ Types /\ NoLostWakeup /\ RescanComes
  BY DEF MsgInv
<1>2. /\ worker.at = "free" /\ m \in Msg /\ worker' = WorkerAt("take")
      /\ tasks' = RemoveFirst(tasks, m) /\ free' = Append(o, m)
      /\ UNCHANGED <<content, queue_state, need_rescan, scheduled, insert, exist, sdev,
                     hotplugs, reporters>>
  BY <1>1 DEF Free, diskVars, InHand
<1>3. o \in Seq(Msg) /\ NoneTwice(o) /\ ToSet(o) = ToSet(free) \ {m} /\ m \notin ToSet(o)
  BY <1>1, <1>2, TakenOut DEF Lists
<1>4. tasks' \in Seq(Msg) /\ NoneTwice(tasks') /\ ToSet(tasks') = ToSet(tasks) \ {m}
  BY <1>1, <1>2, TakenOut DEF Lists
<1> HIDE DEF m, o
<1>5. /\ free' \in Seq(Msg) /\ NoneTwice(free')
      /\ ToSet(free') = (ToSet(free) \ {m}) \cup {m}
  BY <1>2, <1>3, PutLast
<1>6. Lists'
  BY <1>1, <1>2, <1>4, <1>5 DEF Lists
<1>7. worker'.at = "take"
      /\ worker' \in [at : {"idle", "take", "proc", "clear", "free", "rescan", "scan"},
                      pmsg : Msg \cup {None}, hba : Adapter \cup {None}, left : SUBSET Disk]
  BY <1>2 DEF WorkerAt, WorkerIdle
<1>8. Types' /\ InHand'
  BY <1>1, <1>2, <1>7 DEF Types, InHand
<1>9. NoLostWakeup' /\ RescanComes'
  BY <1>7 DEF NoLostWakeup, RescanComes
<1> QED BY <1>6, <1>8, <1>9 DEF MsgInv

LEMMA ProcKeeps ==
    ASSUME MsgInv, hba_proc_msg, disturbed' = disturbed
    PROVE  MsgInv'
<1> DEFINE e == content[worker.pmsg]
<1>1. /\ Lists /\ InHand /\ Types /\ NoLostWakeup /\ RescanComes
      /\ UNCHANGED <<free, tasks, content, queue_state, need_rescan, scheduled>>
      /\ worker.at = "proc" /\ worker.pmsg \in Msg /\ e \in Event \cup {None}
  BY DEF MsgInv, hba_proc_msg, listVars, InHand, Types
<1>2. e # None => e.data \in Adapter /\ e.param \in Disk
  BY <1>1 DEF Event
<1>3. Lists'
  BY <1>1, SameLists
<1>4. CASE ProcNothing(e) \/ ProcArrival(e) \/ ProcRemoval(e)
  <2>1. worker' = [worker EXCEPT !.at = "clear"]
        /\ UNCHANGED <<exist, hotplugs, reporters, insert>>
    BY <1>4 DEF ProcNothing, ProcArrival, ProcRemoval, diskVars
  <2>2. sdev' \in [Adapter -> SUBSET Disk]
    <3>1. CASE ProcNothing(e)
      BY <1>1, <3>1 DEF ProcNothing, diskVars, Types
    <3>2. CASE ProcArrival(e)
      <4>1. e # None /\ sdev' = [sdev EXCEPT ![e.data] = sdev[e.data] \cup {e.param}]
        BY <3>2 DEF ProcArrival
      <4> HIDE DEF e
      <4> QED BY <1>1, <1>2, <4>1 DEF Types
    <3>3. CASE ProcRemoval(e)
      <4>1. e # None /\ sdev' = [sdev EXCEPT ![e.data] = sdev[e.data] \ {e.param}]
        BY <3>3 DEF ProcRemoval
      <4> HIDE DEF e
      <4> QED BY <1>1, <1>2, <4>1 DEF Types
    <3> QED BY <1>4, <3>1, <3>2, <3>3
  <2>3. /\ worker'.at = "clear" /\ worker'.pmsg = worker.pmsg
        /\ worker' \in [at : {"idle", "take", "proc", "clear", "free", "rescan", "scan"},
                        pmsg : Msg \cup {None}, hba : Adapter \cup {None}, left : SUBSET Disk]
    BY <1>1, <2>1 DEF Types
  <2> HIDE DEF e
  <2>4. Types' /\ InHand'
    BY <1>1, <2>1, <2>2, <2>3 DEF Types, InHand
  <2>5. NoLostWakeup' /\ RescanComes'
    BY <1>1, <2>1, <2>3 DEF NoLostWakeup, RescanComes
  <2> QED BY <1>3, <2>4, <2>5 DEF MsgInv
<1>5. CASE ProcArrivalFails(e)
  <2>1. /\ e.data \in Adapter /\ e.param \in Disk /\ Toggle(e.data, e.param)
        /\ worker' = [worker EXCEPT !.at = "clear", !.hba = e.data] /\ sdev' = sdev
    BY <1>2, <1>5 DEF ProcArrivalFails
  <2> DEFINE h == e.data
  <2>2. /\ insert' \in [Caller -> [at : {"idle", "pick", "fill", "move", "schedule"},
                                   event : Event \cup {None}, pmsg : Msg \cup {None}]]
        /\ exist' \in [Adapter -> SUBSET Disk]
        /\ hotplugs' \in 0..MaxHotplug /\ reporters' \in SUBSET Adapter
        /\ insert[h].at = "idle" /\ insert'[h].at = "pick" /\ insert'[h].event \in Event
        /\ \A c \in Caller \ {h} : insert'[c] = insert[c]
    BY <2>1, ToggleKeeps
  <2>3. /\ worker'.at = "clear" /\ worker'.pmsg = worker.pmsg
        /\ worker' \in [at : {"idle", "take", "proc", "clear", "free", "rescan", "scan"},
                        pmsg : Msg \cup {None}, hba : Adapter \cup {None}, left : SUBSET Disk]
    BY <1>1, <2>1 DEF Types
  <2> HIDE DEF e, h
  <2>4. Types'
    BY <1>1, <2>1, <2>2, <2>3 DEF Types
  <2>5. InHand'
    BY <1>1, <2>2, <2>3 DEF InHand
  <2>6. NoLostWakeup' /\ RescanComes'
    BY <1>1, <2>2, <2>3 DEF NoLostWakeup, RescanComes
  <2> QED BY <1>3, <2>4, <2>5, <2>6 DEF MsgInv
<1> QED BY <1>4, <1>5 DEF hba_proc_msg

LEMMA ScanKeeps ==
    ASSUME MsgInv, ScanTarget, disturbed' = disturbed
    PROVE  MsgInv'
<1>1. /\ Lists /\ InHand /\ Types /\ NoLostWakeup /\ RescanComes
      /\ UNCHANGED <<free, tasks, content, queue_state, need_rescan, scheduled, exist, sdev,
                     hotplugs, reporters>>
      /\ worker.at = "scan" /\ worker.hba \in Adapter /\ insert[Scanner] = NoInsert
      /\ Scanner \in Caller
  BY DEF MsgInv, ScanTarget, listVars, diskVars, InHand, Caller
<1>2. PICK d \in worker.left :
         /\ worker' = [worker EXCEPT !.left = worker.left \ {d}]
         /\ insert' = [insert EXCEPT ![Scanner] =
              IF (d \in exist[worker.hba]) = (d \in sdev[worker.hba]) THEN NoInsert
              ELSE Change(worker.hba, d)]
  BY DEF ScanTarget
<1>3. d \in Disk
  BY <1>1 DEF Types
<1>4. /\ Change(worker.hba, d).at = "pick" /\ Change(worker.hba, d).event \in Event
      /\ Change(worker.hba, d) \in [at : {"idle", "pick", "fill", "move", "schedule"},
                                    event : Event \cup {None}, pmsg : Msg \cup {None}]
  BY <1>1, <1>3 DEF Change, InsertOf, Event
<1>5. /\ insert'[Scanner] = NoInsert \/ insert'[Scanner] = Change(worker.hba, d)
      /\ \A c \in Caller \ {Scanner} : insert'[c] = insert[c]
      /\ insert' \in [Caller -> [at : {"idle", "pick", "fill", "move", "schedule"},
                                 event : Event \cup {None}, pmsg : Msg \cup {None}]]
  <2>1. NoInsert \in [at : {"idle", "pick", "fill", "move", "schedule"},
                      event : Event \cup {None}, pmsg : Msg \cup {None}]
    BY DEF NoInsert
  <2> QED BY <1>1, <1>2, <1>4, <2>1 DEF Types
<1>6. /\ worker'.at = "scan" /\ worker'.hba = worker.hba
      /\ worker' \in [at : {"idle", "take", "proc", "clear", "free", "rescan", "scan"},
                      pmsg : Msg \cup {None}, hba : Adapter \cup {None}, left : SUBSET Disk]
  BY <1>1, <1>2 DEF Types
<1>7. NoInsert.at = "idle"
  BY DEF NoInsert
<1>8. Lists'
  BY <1>1, SameLists
<1>9. Types'
  BY <1>1, <1>5, <1>6 DEF Types
<1>10. InHand'
  BY <1>1, <1>4, <1>5, <1>6, <1>7 DEF InHand
<1>11. NoLostWakeup' /\ RescanComes'
  BY <1>1, <1>5, <1>6, <1>7 DEF NoLostWakeup, RescanComes
<1> QED BY <1>8, <1>9, <1>10, <1>11 DEF MsgInv

LEMMA Inductive == MsgSpec => []MsgInv
<1>1. MsgInv /\ [MsgNext]_msgVars => MsgInv'
  <2> SUFFICES ASSUME MsgInv, [MsgNext]_msgVars PROVE MsgInv'
    OBVIOUS
  <2>1. CASE \E h \in Adapter, d \in Disk : Hotplug(h, d)
    BY <2>1, HotplugKeeps
  <2>2. CASE \E c \in Caller : hba_msg_insert(c)
    BY <2>2, InsertKeeps
  <2>3. CASE Worker
    <3>1. disturbed' \in BOOLEAN
      BY <2>3 DEF Worker, Rescan, MsgInv, Types
    <3>2. CASE Rescan
      BY <3>1, <3>2, WorkerLooks
    <3>3. CASE mv_wq_handler \/ Take \/ Clear \/ ScanEnd
      BY <3>1, <3>3, WorkerLooks
    <3>4. CASE ~Rescan /\ (hba_proc_msg \/ Free \/ ScanTarget)
      <4>1. disturbed' = disturbed
        BY <2>3, <3>4 DEF Worker, mv_wq_handler, Take, Clear, ScanEnd, Free, ScanTarget,
                          hba_proc_msg
      <4> QED BY <3>4, <4>1, FreeKeeps, ProcKeeps, ScanKeeps
    <3> QED BY <2>3, <3>2, <3>3, <3>4 DEF Worker
  <2>4. CASE UNCHANGED msgVars
    BY <2>4 DEF msgVars, listVars, diskVars, MsgInv, Lists, NoneTwice, InHand, Types, NoLostWakeup,
                RescanComes
  <2> QED BY <2>1, <2>2, <2>3, <2>4 DEF MsgNext
<1> QED BY <1>1, InitInv, PTL DEF MsgSpec

-----------------------------------------------------------------------------
(***************************************************************************)
(* The theorems.                                                           *)
(***************************************************************************)

\* Each message of the array is on one of the two lists, once, whatever the
\* callers of hba_msg_insert and the worker do with it at the same time.
THEOREM ListsStayWhole == MsgSpec => []EachOnOneList
<1>1. ASSUME NEW q \in Seq(Msg), NoneTwice(q)
      PROVE  IsFiniteSet(ToSet(q)) /\ Len(q) = Cardinality(ToSet(q))
  <2>1. Len(q) \in Nat /\ DOMAIN q = 1..Len(q) /\ q \in [1..Len(q) -> ToSet(q)]
    BY LenProperties DEF ToSet
  <2>2. \A i, j \in 1..Len(q) : q[i] = q[j] => i = j
    BY <1>1 DEF NoneTwice
  <2>3. \A x \in ToSet(q) : \E i \in 1..Len(q) : q[i] = x
    BY Positions
  <2>4. q \in Bijection(1..Len(q), ToSet(q))
    BY <2>1, <2>2, <2>3 DEF Bijection, Injection, Surjection, IsInjective
  <2>5. ExistsBijection(1..Len(q), ToSet(q))
    BY <2>4 DEF ExistsBijection
  <2>6. IsFiniteSet(ToSet(q))
    BY <2>1, <2>5, FS_NatBijection
  <2> QED BY <2>1, <2>5, <2>6, FS_CountingElements
<1>2. MsgInv => EachOnOneList
  <2> SUFFICES ASSUME MsgInv PROVE EachOnOneList
    OBVIOUS
  <2>1. MsgTypeOK
    BY DEF MsgInv, Lists, Types, MsgTypeOK
  <2>2. /\ IsFiniteSet(ToSet(free)) /\ Len(free) = Cardinality(ToSet(free))
        /\ IsFiniteSet(ToSet(tasks)) /\ Len(tasks) = Cardinality(ToSet(tasks))
    BY <1>1 DEF MsgInv, Lists
  <2>3. Cardinality(ToSet(free) \cup ToSet(tasks)) =
           Cardinality(ToSet(free)) + Cardinality(ToSet(tasks))
              - Cardinality(ToSet(free) \cap ToSet(tasks))
    BY <2>2, FS_Union
  <2>4. Cardinality(ToSet(free) \cap ToSet(tasks)) = 0
    BY FS_EmptySet DEF MsgInv, Lists
  <2>5. Len(free) \in Nat /\ Len(tasks) \in Nat
    BY LenProperties DEF MsgInv, Lists
  <2>6. ToSet(free) \cup ToSet(tasks) = Msg
    BY DEF MsgInv, Lists
  <2>7. Len(free) + Len(tasks) = Cardinality(ToSet(free) \cup ToSet(tasks))
    BY <2>2, <2>3, <2>4, <2>5
  <2> QED BY <2>1, <2>6, <2>7 DEF EachOnOneList
<1> QED BY <1>2, Inductive, PTL

\* Although the worker looks without the lock: whenever messages wait, it has
\* been scheduled, is at work, or is about to be scheduled.
THEOREM WakeupNeverLost == MsgSpec => []NoLostWakeup
<1>1. MsgInv => NoLostWakeup
  BY DEF MsgInv
<1> QED BY <1>1, Inductive, PTL

\* A request for a rescan, made because the list was full, is looked at when the
\* worker has emptied it.
THEOREM RescanAlwaysComes == MsgSpec => []RescanComes
<1>1. MsgInv => RescanComes
  BY DEF MsgInv
<1> QED BY <1>1, Inductive, PTL
-----------------------------------------------------------------------------
(***************************************************************************)
(* Part 3: the register sets.                                              *)
(***************************************************************************)

\* The sets and their owners have their types.
SetsTyped ==
    /\ register_set \in [Device -> Set \cup {NO_REGISTER_SET}]
    /\ sata_reg_set \subseteq Set

IInv == SetsTyped /\ SetsOwned

-----------------------------------------------------------------------------
\* The smallest element of a set of numbers is one of them.
LEMMA MinIsElement ==
    ASSUME NEW S, S \subseteq Nat, S # {}
    PROVE  Min(S) \in S
<1> DEFINE Less == {ss \in Nat \X Nat : ss[1] < ss[2]}
<1>1. IsWellFoundedOn(Less, Nat)
  BY NatLessThanWellFounded, Zenon DEF OpToRel
<1>2. PICK s \in S : \A t \in S : <<t, s>> \notin Less
  <2> HIDE DEF Less
  <2> QED BY <1>1, WFMin
<1>3. \A t \in S : ~(t < s)
  BY <1>2
<1>4. \A t \in S : s =< t
  BY <1>3
<1> QED BY <1>4 DEF Min

\* core_get_register_set finds a clear bit when there is one.
LEMMA FirstClearBit ==
    ASSUME sata_reg_set # Set, sata_reg_set \subseteq Set
    PROVE  Min(Set \ sata_reg_set) \in Set \ sata_reg_set
<1> DEFINE ClearBits == Set \ sata_reg_set
<1>1. ClearBits # {}
  BY Zenon
<1>2. Set \subseteq Nat
  BY NumberAssumption DEF Set
<1>3. ClearBits \subseteq Nat
  BY <1>2
<1> HIDE DEF ClearBits
<1>4. Min(ClearBits) \in ClearBits
  BY <1>1, <1>3, MinIsElement
<1> QED BY <1>4 DEF ClearBits

\* The set a disk takes was nobody's.
LEMMA TakingOwned ==
    ASSUME IInv, NEW d \in Device, register_set[d] = NO_REGISTER_SET,
           sata_reg_set # Set, core_get_register_set(d)
    PROVE  IInv'
<1> DEFINE s == Min(Set \ sata_reg_set)
<1>1. s \in Set /\ s \notin sata_reg_set
  BY FirstClearBit DEF IInv, SetsTyped
<1>2. /\ register_set' = [register_set EXCEPT ![d] = s]
      /\ sata_reg_set' = sata_reg_set \cup {s}
  BY DEF core_get_register_set
<1> HIDE DEF s
<1>3. SetsTyped'
  BY <1>1, <1>2 DEF IInv, SetsTyped
<1>4. Owners' = Owners \cup {d}
  BY <1>1, <1>2, NoSetAssumption DEF IInv, SetsTyped, Owners
<1>5. register_set'[d] = s /\ \A e \in Owners : register_set'[e] = register_set[e]
  BY <1>2 DEF IInv, SetsTyped, Owners
<1>6. \A e \in Owners : register_set[e] \in sata_reg_set
  BY DEF IInv, SetsOwned
<1>7. SetsOwned'
  <2>1. sata_reg_set' = {register_set'[e] : e \in Owners'}
    BY <1>2, <1>4, <1>5 DEF IInv, SetsOwned
  <2>2. \A e, f \in Owners' : register_set'[e] = register_set'[f] => e = f
    BY <1>1, <1>4, <1>5, <1>6 DEF IInv, SetsOwned
  <2> QED BY <2>1, <2>2 DEF SetsOwned
<1> QED BY <1>3, <1>7 DEF IInv

\* A disk that returns its set, or has none to return.
LEMMA FreeingOwned ==
    ASSUME IInv, NEW d \in Device, core_free_register_set(d)
    PROVE  IInv'
<1>1. /\ register_set' = [register_set EXCEPT ![d] = NO_REGISTER_SET]
      /\ sata_reg_set' = sata_reg_set \ {register_set[d]}
  BY DEF core_free_register_set
<1>2. SetsTyped'
  BY <1>1 DEF IInv, SetsTyped
<1>3. Owners' = Owners \ {d}
  BY <1>1 DEF IInv, SetsTyped, Owners
<1>4. \A e \in Owners \ {d} : register_set'[e] = register_set[e]
  BY <1>1 DEF IInv, SetsTyped, Owners
<1>5. \A e \in Owners \ {d} : register_set[e] # register_set[d]
  BY DEF IInv, SetsOwned, Owners
<1>6. sata_reg_set' = {register_set'[e] : e \in Owners'}
  BY <1>1, <1>3, <1>4, <1>5 DEF IInv, SetsOwned, Owners
<1>7. SetsOwned'
  BY <1>3, <1>4, <1>6 DEF IInv, SetsOwned
<1> QED BY <1>2, <1>7 DEF IInv

\* Nothing about sets changes.
LEMMA SetsSame == ASSUME IInv, UNCHANGED sets PROVE IInv'
BY DEF IInv, SetsTyped, SetsOwned, Owners, sets

-----------------------------------------------------------------------------
LEMMA InitIInv == Init => IInv
<1> SUFFICES ASSUME Init PROVE IInv
  OBVIOUS
<1>1. SetsTyped
  BY DEF Init, SetsTyped
<1>2. Owners = {}
  BY DEF Init, Owners
<1>3. SetsOwned
  BY <1>2 DEF Init, SetsOwned
<1> QED BY <1>1, <1>3 DEF IInv

LEMMA DevInDevice == ASSUME NEW r \in All PROVE Dev(r) \in Device
BY RequestAssumption DEF All, Dev

\* The attempt to send takes a set only where one is free and the disk has none.
LEMMA TryIInv == ASSUME IInv, NEW r \in All, Try(r) PROVE IInv'
<1> DEFINE d == Dev(r)
<1>1. d \in Device
  BY DevInDevice
<1>2. \/ UNCHANGED sets
      \/ ~Full(r) /\ d \notin gone /\ sata_verify_command(r)
  BY DEF Try, prot_send_request
<1>3. CASE UNCHANGED sets
  BY <1>3, SetsSame
<1>4. CASE ~Full(r) /\ d \notin gone /\ sata_verify_command(r)
  <2>1. \/ UNCHANGED sets
        \/ /\ register_set[d] = NO_REGISTER_SET
           /\ core_get_register_set(d)
    BY <1>4 DEF sata_verify_command
  <2>2. register_set[d] = NO_REGISTER_SET => sata_reg_set # Set
    BY <1>4 DEF Full
  <2> QED BY <1>1, <2>1, <2>2, SetsSame, TakingOwned
<1> QED BY <1>2, <1>3, <1>4

\* Whatever requests are cleaned, the disk keeps its set or returns it.
LEMMA CleanIInv ==
    ASSUME IInv, NEW d \in Device, NEW R, prot_clean_slot(d, R)
    PROVE  IInv'
<1>1. core_free_register_set(d) \/ UNCHANGED sets
  BY DEF prot_clean_slot
<1> QED BY <1>1, FreeingOwned, SetsSame

LEMMA CompleteIInv ==
    ASSUME IInv, NEW r \in All, Complete(r) \/ Fail(r)
    PROVE  IInv'
<1>1. prot_clean_slot(Dev(r), {r})
  BY DEF Complete, Fail
<1> QED BY <1>1, DevInDevice, CleanIInv

LEMMA RecoverIInv == ASSUME IInv, NEW d \in Device, Recover(d) PROVE IInv'
<1>1. CASE Abort(d) \/ GiveUp(d)
  <2>1. prot_clean_slot(d, Of(d, {"registered", "issued"}))
    BY <1>1 DEF Abort, GiveUp, TakeBack
  <2> QED BY <2>1, CleanIInv
<1>2. CASE FreeSet(d) \/ pal_set_disk_offline(d)
  <2>1. core_free_register_set(d) \/ UNCHANGED sets
    BY <1>2 DEF FreeSet, pal_set_disk_offline
  <2> QED BY <2>1, FreeingOwned, SetsSame
<1>3. CASE Recovered(d)
  <2>1. prot_clean_slot(d, {d})
    BY <1>3 DEF Recovered
  <2> QED BY <2>1, CleanIInv
<1> QED BY <1>1, <1>2, <1>3 DEF Recover

LEMMA NextIInv == IInv /\ [Next]_vars => IInv'
<1> SUFFICES ASSUME IInv, [Next]_vars PROVE IInv'
  OBVIOUS
<1>1. CASE UNCHANGED vars
  BY <1>1, SetsSame DEF vars
<1>2. ASSUME NEW r \in All, Submit(r) PROVE IInv'
  BY <1>2, SetsSame DEF Submit
<1>3. ASSUME NEW r \in All, Send(r) PROVE IInv'
  <2>1. CASE Try(r)
    BY <2>1, TryIInv
  <2>2. CASE TakeSlot(r) \/ NoResource(r) \/ Issue(r)
    BY <2>2, SetsSame DEF TakeSlot, NoResource, Issue
  <2> QED BY <1>3, <2>1, <2>2 DEF Send
<1>4. ASSUME NEW r \in All, Complete(r) \/ Fail(r) PROVE IInv'
  BY <1>4, CompleteIInv
<1>5. ASSUME NEW d \in Device, Recover(d) PROVE IInv'
  BY <1>5, RecoverIInv
<1>6. ASSUME NEW r \in stray, StrayGoesOn(r) PROVE IInv'
  BY <1>6, SetsSame DEF StrayGoesOn
<1> QED BY <1>1, <1>2, <1>3, <1>4, <1>5, <1>6 DEF Next

\* No register set is lost and no two disks have one, for any number of disks,
\* sets and requests, however often sending fails and disks recover: what every
\* path that returns a set relies on (prot_release_sata_register_set,
\* pal_abort_device_running_req, pal_set_disk_offline).
THEOREM EverySetOwned == Spec => []SetsOwned
<1>1. IInv => SetsOwned
  BY DEF IInv
<1> QED BY <1>1, InitIInv, NextIInv, PTL DEF Spec

-----------------------------------------------------------------------------
(***************************************************************************)
(* A command names the set its disk has.  That a disk keeps its set while  *)
(* something runs is because outstanding_req counts exactly what runs; and *)
(* recovery frees the set only when all that runs was overtaken.           *)
(***************************************************************************)

RunningStages == HalfSent \cup {"issued"}
Running(d) == Of(d, RunningStages)

StagesTyped ==
    /\ stage \in [All -> {"idle", "direct", "waiting", "failed"} \cup RunningStages]
    /\ command \in [All -> Set \cup {NO_REGISTER_SET}]
    /\ recovery \in [Device -> {"none", "queued", "free", "request", "down"}]

CountsExact ==
    /\ outstanding_req \in [Device -> Nat]
    /\ \A d \in Device : outstanding_req[d] = Cardinality(Running(d))

\* The recovery request of a disk is on its way only during "request".
RecoveryRequest ==
    \A d \in Device :
        /\ stage[d] \in {"idle", "waiting"} \cup RunningStages
        /\ recovery[d] \notin {"request", "down"} => stage[d] = "idle"
        /\ recovery[d] = "down" => stage[d] = "waiting"

\* Between the abort and the freeing of the set nothing starts to run.
OnlyOvertakenRun ==
    \A d \in Device : recovery[d] \in {"free", "down"} => Running(d) \subseteq overtaken

RunsWithSet ==
    \A r \in All \ overtaken :
        /\ stage[r] \in RunningStages => register_set[Dev(r)] # NO_REGISTER_SET
        /\ stage[r] = "issued" => command[r] = register_set[Dev(r)]

CInv == IInv /\ StagesTyped /\ CountsExact /\ RecoveryRequest /\ OnlyOvertakenRun /\ RunsWithSet

-----------------------------------------------------------------------------
(* Counting. *)

LEMMA RunningFinite == \A d \in Device : IsFiniteSet(Running(d))
<1>1. IsFiniteSet(All)
  BY RequestAssumption, FS_Union DEF All
<1> QED BY <1>1, FS_Subset DEF Running, Of

\* A step after which the same requests run, and which counts none.
LEMMA CountKept ==
    ASSUME CountsExact, UNCHANGED outstanding_req,
           \A r \in All : stage'[r] \in RunningStages <=> stage[r] \in RunningStages
    PROVE  CountsExact'
<1>1. \A d \in Device : Running(d)' = Running(d)
  BY DEF Running, Of, Dev
<1> QED BY <1>1 DEF CountsExact

\* One that lets r in.
LEMMA CountedIn ==
    ASSUME CountsExact, StagesTyped, NEW r \in All, stage[r] \notin RunningStages,
           stage' = [stage EXCEPT ![r] = "counted"],
           outstanding_req' = [outstanding_req EXCEPT ![Dev(r)] = @ + 1]
    PROVE  CountsExact'
<1> DEFINE d == Dev(r)
<1>1. d \in Device
  BY DevInDevice
<1>2. Running(d)' = Running(d) \cup {r} /\ r \notin Running(d)
  BY DEF Running, Of, Dev, StagesTyped, RunningStages, HalfSent
<1>3. \A e \in Device \ {d} : Running(e)' = Running(e)
  BY DEF Running, Of, Dev, StagesTyped
<1>4. Cardinality(Running(d)') = Cardinality(Running(d)) + 1
  BY <1>1, <1>2, RunningFinite, FS_AddElement
<1> QED BY <1>1, <1>3, <1>4 DEF CountsExact

\* One that takes back the requests in R of disk d.
LEMMA CountedOut ==
    ASSUME CountsExact, NEW d \in Device, NEW R, R \subseteq Running(d),
           prot_clean_slot(d, R) \/
             outstanding_req' = [outstanding_req EXCEPT ![d] = @ - Cardinality(R)],
           \A r \in All : stage'[r] \in RunningStages
                            <=> stage[r] \in RunningStages /\ r \notin R
    PROVE  /\ CountsExact'
           /\ Running(d)' = Running(d) \ R
           /\ outstanding_req'[d] = 0 => Running(d)' = {}
<1>1. Running(d)' = Running(d) \ R
  BY DEF Running, Of, Dev
<1>2. \A e \in Device \ {d} : Running(e)' = Running(e)
  BY DEF Running, Of, Dev
<1>3. Cardinality(Running(d) \ R) = Cardinality(Running(d)) - Cardinality(R)
  <2>1. Running(d) \cap R = R
    OBVIOUS
  <2> QED BY <2>1, RunningFinite, FS_Difference
<1>4. IsFiniteSet(Running(d) \ R)
  BY RunningFinite, FS_Difference
<1>5. outstanding_req' = [outstanding_req EXCEPT ![d] = @ - Cardinality(R)]
  BY DEF prot_clean_slot
<1>6. Cardinality(Running(d) \ R) \in Nat
  BY <1>4, FS_CardinalityType
<1>7. outstanding_req'[d] = Cardinality(Running(d) \ R)
  BY <1>3, <1>5 DEF CountsExact
<1>8. CountsExact'
  BY <1>1, <1>2, <1>5, <1>6, <1>7 DEF CountsExact
<1>9. outstanding_req'[d] = 0 => Running(d) \ R = {}
  BY <1>4, <1>7, FS_EmptySet
<1> QED BY <1>1, <1>8, <1>9

-----------------------------------------------------------------------------
(* Each action keeps CInv. *)

\* A step that changes neither sets nor recoveries, and after which the same
\* requests run, with the same commands but for those issued by it.
LEMMA StageOnly ==
    ASSUME CInv, StagesTyped', RecoveryRequest', UNCHANGED <<sets, outstanding_req, recovery, overtaken>>,
           \A r \in All : stage'[r] \in RunningStages <=> stage[r] \in RunningStages,
           \A r \in All : stage'[r] = "issued" =>
              \/ stage[r] = "issued" /\ command'[r] = command[r]
              \/ command'[r] = register_set[Dev(r)]
    PROVE  CInv'
<1>1. IInv'
  BY SetsSame DEF CInv
<1>2. CountsExact'
  BY CountKept DEF CInv
<1>3. \A d \in Device : Running(d)' = Running(d)
  BY DEF Running, Of, Dev
<1>4. OnlyOvertakenRun'
  BY <1>3 DEF CInv, OnlyOvertakenRun
<1>5. RunsWithSet'
  BY DEF CInv, RunsWithSet, sets, Dev, RunningStages
<1> QED BY <1>1, <1>2, <1>4, <1>5 DEF CInv

\* An attempt to send takes no set from anybody, and lets a request in only on
\* a disk that has one then, and that no recovery holds.
LEMMA TrySets ==
    ASSUME IInv, NEW r \in All, Try(r)
    PROVE  /\ \A e \in Device : register_set[e] # NO_REGISTER_SET =>
                                   register_set'[e] = register_set[e]
           /\ \/ /\ stage' = [stage EXCEPT ![r] = "counted"]
                 /\ outstanding_req' = [outstanding_req EXCEPT ![Dev(r)] = @ + 1]
                 /\ register_set'[Dev(r)] # NO_REGISTER_SET
                 /\ recovery[Dev(r)] = "none" \/ r \in Device
              \/ /\ \E s \in {"idle", "waiting"} : stage' = [stage EXCEPT ![r] = s]
                 /\ UNCHANGED outstanding_req
<1> DEFINE d == Dev(r)
<1>1. d \in Device
  BY DevInDevice
<1>2. CASE Full(r) /\ Refused(r) /\ UNCHANGED <<sets, ncq_running, stop_run_ncq>>
  BY <1>2 DEF Refused, sets
<1>3. CASE d \in gone /\ ~Full(r)
  <2>1. stage' = [stage EXCEPT ![r] = "idle"] /\ UNCHANGED <<outstanding_req, sets>>
    BY <1>3 DEF Try, prot_send_request
  <2> QED BY <2>1 DEF sets
<1>4. CASE ~Full(r) /\ d \notin gone
  <2>1. /\ sata_verify_command(r)
        /\ IF Joins(r)
           THEN /\ outstanding_req' = [outstanding_req EXCEPT ![d] = @ + 1]
                /\ stage' = [stage EXCEPT ![r] = "counted"]
           ELSE Refused(r)
    BY <1>4 DEF Try, prot_send_request
  <2>2. \/ register_set[d] # NO_REGISTER_SET /\ UNCHANGED sets
        \/ register_set[d] = NO_REGISTER_SET /\ core_get_register_set(d)
    BY <2>1 DEF sata_verify_command
  <2>3. recovery[d] = "none" \/ r \in Device
    BY <1>4 DEF Full
  <2>4. register_set[d] = NO_REGISTER_SET => sata_reg_set # Set
    BY <1>4 DEF Full
  <2>5. /\ register_set'[d] # NO_REGISTER_SET
        /\ \A e \in Device : register_set[e] # NO_REGISTER_SET =>
                                register_set'[e] = register_set[e]
    <3>1. CASE register_set[d] # NO_REGISTER_SET /\ UNCHANGED sets
      BY <3>1 DEF sets
    <3>2. CASE register_set[d] = NO_REGISTER_SET /\ core_get_register_set(d)
      <4>1. Min(Set \ sata_reg_set) \in Set
        BY <2>4, <3>2, FirstClearBit DEF IInv, SetsTyped
      <4>2. register_set' = [register_set EXCEPT ![d] = Min(Set \ sata_reg_set)]
        BY <3>2 DEF core_get_register_set
      <4> QED BY <1>1, <3>2, <4>1, <4>2, NoSetAssumption DEF IInv, SetsTyped
    <3> QED BY <2>2, <3>1, <3>2
  <2>6. CASE Joins(r)
    BY <2>1, <2>3, <2>5, <2>6
  <2>7. CASE ~Joins(r)
    BY <2>1, <2>5, <2>7 DEF Refused
  <2> QED BY <2>6, <2>7
<1> QED BY <1>2, <1>3, <1>4 DEF Try, prot_send_request

LEMMA TryCInv == ASSUME CInv, NEW r \in All, Try(r) PROVE CInv'
<1> DEFINE d == Dev(r)
<1>1. d \in Device
  BY DevInDevice
<1>2. /\ stage[r] = "direct" \/ (stage[r] = "waiting" /\ ~Paused)
      /\ UNCHANGED <<command, recovery, overtaken>>
  BY DEF Try, history
<1>3. IInv' /\ IInv
  BY TryIInv DEF CInv
<1>4. /\ \A e \in Device : register_set[e] # NO_REGISTER_SET =>
                                   register_set'[e] = register_set[e]
      /\ \/ /\ stage' = [stage EXCEPT ![r] = "counted"]
            /\ outstanding_req' = [outstanding_req EXCEPT ![Dev(r)] = @ + 1]
            /\ register_set'[Dev(r)] # NO_REGISTER_SET
            /\ recovery[Dev(r)] = "none" \/ r \in Device
         \/ /\ \E s \in {"idle", "waiting"} : stage' = [stage EXCEPT ![r] = s]
            /\ UNCHANGED outstanding_req
  BY <1>3, TrySets
<1>5. stage[r] \notin RunningStages
  BY <1>2 DEF RunningStages, HalfSent
<1>6. r \in Device => stage[r] = "waiting" /\ recovery[r] = "request" /\ d = r
  BY <1>2 DEF CInv, RecoveryRequest, StagesTyped, RunningStages, HalfSent, Paused, Dev
<1>7. CASE \E s \in {"idle", "waiting"} : /\ stage' = [stage EXCEPT ![r] = s]
                                          /\ UNCHANGED outstanding_req
  <2>0. PICK s \in {"idle", "waiting"} : stage' = [stage EXCEPT ![r] = s]
    BY <1>7
  <2>1. StagesTyped'
    BY <1>2, <2>0 DEF CInv, StagesTyped
  <2>2. \A q \in All : /\ stage'[q] \in RunningStages <=> stage[q] \in RunningStages
                       /\ stage'[q] = "issued" <=> stage[q] = "issued"
    BY <1>5, <2>0 DEF CInv, StagesTyped, RunningStages, HalfSent
  <2>3. CountsExact'
    BY <1>7, <2>2, CountKept DEF CInv
  <2>4. RecoveryRequest'
    BY <1>2, <1>6, <2>0 DEF CInv, StagesTyped, RecoveryRequest, All
  <2>5. \A e \in Device : Running(e)' = Running(e)
    BY <2>2 DEF Running, Of, Dev
  <2>6. OnlyOvertakenRun'
    BY <1>2, <2>5 DEF CInv, OnlyOvertakenRun
  <2>7. RunsWithSet'
    BY <1>2, <1>4, <2>2, DevInDevice DEF CInv, RunsWithSet, Dev, RunningStages
  <2> QED BY <1>3, <2>1, <2>3, <2>4, <2>6, <2>7 DEF CInv
<1>8. CASE /\ stage' = [stage EXCEPT ![r] = "counted"]
           /\ outstanding_req' = [outstanding_req EXCEPT ![d] = @ + 1]
           /\ register_set'[d] # NO_REGISTER_SET
           /\ recovery[d] = "none" \/ r \in Device
  <2>1. StagesTyped'
    BY <1>2, <1>8 DEF CInv, StagesTyped, RunningStages, HalfSent
  <2>2. CountsExact'
    BY <1>5, <1>8, CountedIn DEF CInv
  <2>3. RecoveryRequest'
    BY <1>2, <1>6, <1>8 DEF CInv, StagesTyped, RecoveryRequest, All, RunningStages, HalfSent
  <2>4. recovery[d] \notin {"free", "down"}
    BY <1>6, <1>8
  <2>5. \A e \in Device \ {d} : Running(e)' = Running(e)
    BY <1>8 DEF CInv, StagesTyped, Running, Of, Dev
  <2>6. OnlyOvertakenRun'
    BY <1>2, <2>4, <2>5 DEF CInv, OnlyOvertakenRun
  <2>7. \A q \in All \ {r} : stage'[q] = stage[q]
    BY <1>8 DEF CInv, StagesTyped
  <2>8. stage'[r] = "counted"
    BY <1>8 DEF CInv, StagesTyped
  <2>9. RunsWithSet'
    BY <1>2, <1>4, <1>8, <2>7, <2>8, DevInDevice DEF CInv, RunsWithSet, Dev, RunningStages, HalfSent
  <2> QED BY <1>3, <2>1, <2>2, <2>3, <2>6, <2>9 DEF CInv
<1> QED BY <1>4, <1>7, <1>8

LEMMA SubmitCInv == ASSUME CInv, NEW r \in All, Submit(r) PROVE CInv'
<1>1. /\ stage[r] = "idle" /\ r \in Request
      /\ \E s \in {"direct", "waiting"} : stage' = [stage EXCEPT ![r] = s]
      /\ UNCHANGED <<command, sets, outstanding_req, recovery, overtaken>>
  BY DEF Submit, history
<1>2. PICK s \in {"direct", "waiting"} : stage' = [stage EXCEPT ![r] = s]
  BY <1>1
<1>3. StagesTyped'
  BY <1>1, <1>2 DEF CInv, StagesTyped
<1>4. \A q \in All : /\ stage'[q] \in RunningStages <=> stage[q] \in RunningStages
                     /\ stage'[q] = "issued" <=> stage[q] = "issued"
  BY <1>1, <1>2 DEF CInv, StagesTyped, RunningStages, HalfSent
<1>5. \A d \in Device : stage'[d] = stage[d]
  BY <1>1, <1>2, RequestAssumption DEF CInv, StagesTyped, All
<1>6. RecoveryRequest'
  BY <1>1, <1>5 DEF CInv, RecoveryRequest
<1> QED BY <1>1, <1>3, <1>4, <1>6, StageOnly

LEMMA SlotCInv == ASSUME CInv, NEW r \in All, TakeSlot(r) \/ Issue(r) PROVE CInv'
<1>1. /\ stage[r] \in HalfSent
      /\ \/ /\ stage' = [stage EXCEPT ![r] = "registered"]
            /\ UNCHANGED command
         \/ /\ stage' = [stage EXCEPT ![r] = "issued"]
            /\ command' = [command EXCEPT ![r] = register_set[Dev(r)]]
      /\ UNCHANGED <<sets, outstanding_req, recovery, overtaken>>
  BY DEF TakeSlot, Issue, history, HalfSent
<1>2. StagesTyped'
  BY <1>1, DevInDevice DEF CInv, IInv, SetsTyped, StagesTyped, RunningStages, HalfSent
<1>3. \A q \in All : /\ stage'[q] \in RunningStages <=> stage[q] \in RunningStages
                     /\ stage'[q] = "issued" =>
                          \/ stage[q] = "issued" /\ command'[q] = command[q]
                          \/ command'[q] = register_set[Dev(q)]
  BY <1>1 DEF CInv, StagesTyped, RunningStages, HalfSent
<1>4. RecoveryRequest'
  BY <1>1 DEF CInv, StagesTyped, RecoveryRequest, All, RunningStages, HalfSent
<1> QED BY <1>1, <1>2, <1>3, <1>4, StageOnly

LEMMA NoResourceCInv == ASSUME CInv, NEW r \in All, NoResource(r) PROVE CInv'
<1> DEFINE d == Dev(r)
<1>1. d \in Device
  BY DevInDevice
<1>2. /\ stage[r] = "counted"
      /\ stage' = [stage EXCEPT ![r] = "waiting"]
      /\ outstanding_req' = [outstanding_req EXCEPT ![d] = @ - 1]
      /\ UNCHANGED <<command, sets, recovery, overtaken>>
  BY DEF NoResource
<1>3. IInv'
  BY <1>2, SetsSame DEF CInv
<1>4. StagesTyped'
  BY <1>2 DEF CInv, StagesTyped
<1>5. \A q \in All : /\ stage'[q] \in RunningStages
                          <=> stage[q] \in RunningStages /\ q \notin {r}
                     /\ stage'[q] = "issued" <=> stage[q] = "issued"
  BY <1>2 DEF CInv, StagesTyped, RunningStages, HalfSent
<1>6. {r} \subseteq Running(d)
  BY <1>2 DEF Running, Of, RunningStages, HalfSent
<1>7. Cardinality({r}) = 1
  BY FS_Singleton
<1>8. outstanding_req' = [outstanding_req EXCEPT ![d] = @ - Cardinality({r})]
  BY <1>2, <1>7
<1>9. CountsExact'
  BY <1>1, <1>5, <1>6, <1>8, CountedOut DEF CInv
<1>10. RecoveryRequest'
  BY <1>2 DEF CInv, StagesTyped, RecoveryRequest, All, RunningStages, HalfSent
<1>11. \A e \in Device : Running(e)' \subseteq Running(e)
  BY <1>5 DEF Running, Of, Dev
<1>12. OnlyOvertakenRun'
  BY <1>2, <1>11 DEF CInv, OnlyOvertakenRun
<1>13. RunsWithSet'
  BY <1>2, <1>5 DEF CInv, RunsWithSet, sets, Dev, RunningStages
<1> QED BY <1>3, <1>4, <1>9, <1>10, <1>12, <1>13 DEF CInv

\* The requests in R of disk d end or are taken back: a command that goes on
\* keeps its set, because the set goes with the last one only.
LEMMA CleanKeeps ==
    ASSUME CInv, NEW d \in Device, NEW R, R \subseteq Running(d), prot_clean_slot(d, R),
           \A r \in All : stage'[r] \in RunningStages
                            <=> stage[r] \in RunningStages /\ r \notin R,
           \A r \in All : stage'[r] = "issued" => stage[r] = "issued",
           \A r \in All \ R : command'[r] = command[r],
           overtaken \subseteq overtaken'
    PROVE  /\ IInv' /\ CountsExact' /\ RunsWithSet'
           /\ Running(d)' = Running(d) \ R
           /\ \A e \in Device \ {d} : Running(e)' = Running(e)
<1>1. IInv'
  BY CleanIInv DEF CInv
<1>2. /\ CountsExact'
      /\ Running(d)' = Running(d) \ R
      /\ outstanding_req'[d] = 0 => Running(d)' = {}
  BY CountedOut DEF CInv
<1>3. \A e \in Device \ {d} : Running(e)' = Running(e)
  BY DEF Running, Of, Dev
<1>4. \/ UNCHANGED register_set
      \/ /\ register_set' = [register_set EXCEPT ![d] = NO_REGISTER_SET]
         /\ Running(d)' = {}
  BY <1>2 DEF prot_clean_slot, core_free_register_set, sets
<1>5. ASSUME NEW r \in All, stage'[r] \in RunningStages
      PROVE  register_set'[Dev(r)] = register_set[Dev(r)]
  <2>1. r \in Running(Dev(r))'
    BY <1>5 DEF Running, Of, Dev
  <2> QED BY <1>4, <2>1, DevInDevice DEF CInv, IInv, SetsTyped
<1>6. RunsWithSet'
  <2>1. \A r \in All : stage'[r] \in RunningStages => stage[r] \in RunningStages /\ r \notin R
    OBVIOUS
  <2>2. "issued" \in RunningStages
    BY DEF RunningStages
  <2> QED BY <1>5, <2>1, <2>2 DEF CInv, RunsWithSet, Dev, RunningStages, HalfSent
<1> QED BY <1>1, <1>2, <1>3, <1>6

LEMMA EndCInv == ASSUME CInv, NEW r \in All, Complete(r) \/ Fail(r) PROVE CInv'
<1> DEFINE d == Dev(r)
<1>1. d \in Device
  BY DevInDevice
<1>2. /\ stage[r] = "issued" /\ r \in Request
      /\ prot_clean_slot(d, {r})
      /\ \E s \in {"idle", "failed"} : stage' = [stage EXCEPT ![r] = s]
      /\ command' = Without({r})
      /\ UNCHANGED overtaken
  BY DEF Complete, Fail, history
<1>3. \/ UNCHANGED recovery
      \/ recovery' = [recovery EXCEPT ![d] = IF @ = "none" THEN "queued" ELSE @]
  BY DEF Complete, Fail
<1>4. PICK s \in {"idle", "failed"} : stage' = [stage EXCEPT ![r] = s]
  BY <1>2
<1>5. StagesTyped'
  <2>1. stage' \in [All -> {"idle", "direct", "waiting", "failed"} \cup RunningStages]
    BY <1>4 DEF CInv, StagesTyped
  <2>2. command' \in [All -> Set \cup {NO_REGISTER_SET}]
    BY <1>2 DEF CInv, StagesTyped, Without
  <2>3. recovery' \in [Device -> {"none", "queued", "free", "request", "down"}]
    BY <1>3 DEF CInv, StagesTyped
  <2> QED BY <2>1, <2>2, <2>3 DEF StagesTyped
<1>6. \A q \in All : /\ stage'[q] \in RunningStages
                          <=> stage[q] \in RunningStages /\ q \notin {r}
                     /\ stage'[q] = "issued" => stage[q] = "issued"
  BY <1>4 DEF CInv, StagesTyped, RunningStages, HalfSent
<1>7. \A q \in All \ {r} : command'[q] = command[q]
  BY <1>2 DEF Without
<1>8. {r} \subseteq Running(d)
  BY <1>2 DEF Running, Of, RunningStages
<1>9. /\ IInv' /\ CountsExact' /\ RunsWithSet'
      /\ Running(d)' = Running(d) \ {r}
      /\ \A e \in Device \ {d} : Running(e)' = Running(e)
  BY <1>1, <1>2, <1>6, <1>7, <1>8, CleanKeeps
<1>10. \A e \in Device : /\ recovery'[e] \in {"free", "down"} <=> recovery[e] \in {"free", "down"}
                         /\ recovery'[e] = "down" <=> recovery[e] = "down"
                         /\ recovery'[e] = "request" <=> recovery[e] = "request"
  BY <1>3 DEF CInv, StagesTyped
<1>11. OnlyOvertakenRun'
  BY <1>1, <1>2, <1>9, <1>10 DEF CInv, OnlyOvertakenRun
<1>12. \A e \in Device : stage'[e] = stage[e]
  BY <1>2, <1>4, RequestAssumption DEF CInv, StagesTyped, All
<1>13. RecoveryRequest'
  BY <1>10, <1>12 DEF CInv, RecoveryRequest
<1> QED BY <1>5, <1>9, <1>11, <1>13 DEF CInv

\* The abort at the start of a recovery or at its unsuccessful end.
LEMMA AbortCInv == ASSUME CInv, NEW d \in Device, Abort(d) \/ GiveUp(d) PROVE CInv'
<1> DEFINE R == Of(d, {"registered", "issued"})
           to == IF Abort(d) THEN "free" ELSE "down"
<1>1. /\ prot_clean_slot(d, R)
      /\ stage' = [r \in All |-> IF r \in R THEN "waiting" ELSE stage[r]]
      /\ command' = Without(R)
      /\ overtaken' = overtaken \cup Of(d, HalfSent)
  BY DEF Abort, GiveUp, TakeBack
<1>2. \/ recovery[d] = "queued" /\ recovery' = [recovery EXCEPT ![d] = "free"]
      \/ /\ recovery[d] = "request" /\ stage[d] = "issued"
         /\ recovery' = [recovery EXCEPT ![d] = "down"]
  BY DEF Abort, GiveUp
<1>3. R \subseteq Running(d)
  BY DEF Running, Of, RunningStages, HalfSent
<1>4. StagesTyped'
  <2>1. stage' \in [All -> {"idle", "direct", "waiting", "failed"} \cup RunningStages]
    BY <1>1 DEF CInv, StagesTyped
  <2>2. command' \in [All -> Set \cup {NO_REGISTER_SET}]
    BY <1>1 DEF CInv, StagesTyped, Without
  <2>3. recovery' \in [Device -> {"none", "queued", "free", "request", "down"}]
    BY <1>2 DEF CInv, StagesTyped
  <2> QED BY <2>1, <2>2, <2>3 DEF StagesTyped
<1>5. \A q \in All : /\ stage'[q] \in RunningStages
                          <=> stage[q] \in RunningStages /\ q \notin R
                     /\ stage'[q] = "issued" => stage[q] = "issued"
  BY <1>1 DEF RunningStages, HalfSent
<1>6. \A q \in All \ R : command'[q] = command[q]
  BY <1>1 DEF Without
<1>7. /\ IInv' /\ CountsExact' /\ RunsWithSet'
      /\ Running(d)' = Running(d) \ R
      /\ \A e \in Device \ {d} : Running(e)' = Running(e)
  <2> HIDE DEF R
  <2> QED BY <1>1, <1>3, <1>5, <1>6, CleanKeeps
<1>8. Running(d) \ R \subseteq Of(d, HalfSent)
  BY DEF Running, Of, RunningStages, HalfSent
<1>9. OnlyOvertakenRun'
  <2> HIDE DEF R
  <2> QED BY <1>1, <1>2, <1>7, <1>8 DEF CInv, StagesTyped, OnlyOvertakenRun
<1>10. RecoveryRequest'
  <2>1. \A e \in Device \ {d} : stage'[e] = stage[e]
    BY <1>1 DEF Of, Dev, All
  <2>2. stage'[d] = IF stage[d] \in {"registered", "issued"} THEN "waiting" ELSE stage[d]
    BY <1>1 DEF Of, Dev, All
  <2> QED BY <1>2, <2>1, <2>2 DEF CInv, StagesTyped, RecoveryRequest, RunningStages, HalfSent
<1> QED BY <1>4, <1>7, <1>9, <1>10 DEF CInv

LEMMA FreeCInv ==
    ASSUME CInv, NEW d \in Device, FreeSet(d) \/ pal_set_disk_offline(d)
    PROVE  CInv'
<1>1. /\ core_free_register_set(d) \/ UNCHANGED sets
      /\ UNCHANGED <<command, outstanding_req, overtaken>>
  BY DEF FreeSet, pal_set_disk_offline, history
<1>2. \/ /\ recovery[d] = "free" /\ recovery' = [recovery EXCEPT ![d] = "request"]
         /\ stage' = [stage EXCEPT ![d] = "waiting"]
      \/ /\ recovery[d] = "down" /\ recovery' = [recovery EXCEPT ![d] = "none"]
         /\ stage' = [r \in All |-> IF r \in Of(d, {"waiting", "failed"}) THEN "idle" ELSE stage[r]]
  BY DEF FreeSet, pal_set_disk_offline
<1>3. IInv'
  BY <1>1, FreeingOwned, SetsSame DEF CInv
<1>4. stage[d] \in {"idle", "waiting"} /\ d \in All /\ Dev(d) = d
  BY <1>2 DEF CInv, RecoveryRequest, All, Dev
<1>5. StagesTyped'
  <2>1. stage' \in [All -> {"idle", "direct", "waiting", "failed"} \cup RunningStages]
    BY <1>2 DEF CInv, StagesTyped
  <2>2. recovery' \in [Device -> {"none", "queued", "free", "request", "down"}]
    BY <1>2 DEF CInv, StagesTyped
  <2> QED BY <1>1, <2>1, <2>2 DEF CInv, StagesTyped
<1>6. \A q \in All : /\ stage'[q] \in RunningStages <=> stage[q] \in RunningStages
                     /\ stage'[q] = "issued" <=> stage[q] = "issued"
  BY <1>2, <1>4 DEF CInv, StagesTyped, Of, RunningStages, HalfSent
<1>7. CountsExact'
  BY <1>1, <1>6, CountKept DEF CInv
<1>8. \A e \in Device : Running(e)' = Running(e)
  BY <1>6 DEF Running, Of, Dev
<1>9. OnlyOvertakenRun'
  BY <1>1, <1>2, <1>8 DEF CInv, StagesTyped, OnlyOvertakenRun
<1>10. RecoveryRequest'
  <2>1. \A e \in Device \ {d} : stage'[e] = stage[e] /\ recovery'[e] = recovery[e]
    BY <1>2 DEF CInv, StagesTyped, Of, Dev, All
  <2>2. \/ stage'[d] = "waiting" /\ recovery'[d] = "request"
        \/ stage'[d] = "idle" /\ recovery'[d] = "none"
    BY <1>2, <1>4 DEF CInv, StagesTyped, RecoveryRequest, Of
  <2> QED BY <2>1, <2>2 DEF CInv, RecoveryRequest
<1>11. RunsWithSet'
  <2>1. ASSUME NEW r \in All \ overtaken, stage[r] \in RunningStages
        PROVE  register_set'[Dev(r)] = register_set[Dev(r)]
    <3>1. r \notin Running(d)
      BY <1>2 DEF CInv, OnlyOvertakenRun
    <3>2. Dev(r) # d
      BY <2>1, <3>1 DEF Running, Of
    <3> QED BY <1>1, <3>2, DevInDevice DEF core_free_register_set, sets, CInv, IInv, SetsTyped
  <2>2. "issued" \in RunningStages
    BY DEF RunningStages
  <2> QED BY <1>1, <1>6, <2>1, <2>2 DEF CInv, RunsWithSet, Dev, RunningStages, HalfSent
<1> QED BY <1>3, <1>5, <1>7, <1>9, <1>10, <1>11 DEF CInv

LEMMA RecoveredCInv == ASSUME CInv, NEW d \in Device, Recovered(d) PROVE CInv'
<1>1. /\ recovery[d] = "request" /\ stage[d] = "issued"
      /\ prot_clean_slot(d, {d})
      /\ stage' = [r \in All |-> IF r = d THEN "idle"
                     ELSE IF r \in Of(d, {"failed"}) THEN "waiting" ELSE stage[r]]
      /\ recovery' = [recovery EXCEPT ![d] = "none"]
      /\ command' = Without({d})
      /\ UNCHANGED overtaken
  BY DEF Recovered, history
<1>2. StagesTyped'
  <2>1. stage' \in [All -> {"idle", "direct", "waiting", "failed"} \cup RunningStages]
    BY <1>1 DEF CInv, StagesTyped
  <2>2. command' \in [All -> Set \cup {NO_REGISTER_SET}]
    BY <1>1 DEF CInv, StagesTyped, Without
  <2>3. recovery' \in [Device -> {"none", "queued", "free", "request", "down"}]
    BY <1>1 DEF CInv, StagesTyped
  <2> QED BY <2>1, <2>2, <2>3 DEF StagesTyped
<1>3. \A q \in All : /\ stage'[q] \in RunningStages
                          <=> stage[q] \in RunningStages /\ q \notin {d}
                     /\ stage'[q] = "issued" => stage[q] = "issued"
  BY <1>1 DEF Of, RunningStages, HalfSent
<1>4. \A q \in All \ {d} : command'[q] = command[q]
  BY <1>1 DEF Without
<1>5. {d} \subseteq Running(d)
  BY <1>1 DEF Running, Of, Dev, All, RunningStages
<1>6. /\ IInv' /\ CountsExact' /\ RunsWithSet'
      /\ Running(d)' = Running(d) \ {d}
      /\ \A e \in Device \ {d} : Running(e)' = Running(e)
  BY <1>1, <1>3, <1>4, <1>5, CleanKeeps
<1>7. OnlyOvertakenRun'
  BY <1>1, <1>6 DEF CInv, StagesTyped, OnlyOvertakenRun
<1>8. RecoveryRequest'
  <2>1. \A e \in Device \ {d} : stage'[e] = stage[e] /\ recovery'[e] = recovery[e]
    BY <1>1 DEF CInv, StagesTyped, Of, Dev, All
  <2>2. stage'[d] = "idle" /\ recovery'[d] = "none"
    BY <1>1 DEF CInv, StagesTyped, All
  <2> QED BY <2>1, <2>2 DEF CInv, RecoveryRequest
<1> QED BY <1>2, <1>6, <1>7, <1>8 DEF CInv

\* What a step depends on is left alone.
LEMMA CInvSame ==
    ASSUME CInv, UNCHANGED <<sets, stage, command, recovery, outstanding_req, overtaken>>
    PROVE  CInv'
<1>1. IInv'
  BY SetsSame DEF CInv
<1>2. StagesTyped' /\ RecoveryRequest'
  BY DEF CInv, StagesTyped, RecoveryRequest
<1>3. CountsExact' /\ OnlyOvertakenRun'
  BY DEF CInv, CountsExact, OnlyOvertakenRun, Running, Of, Dev
<1>4. RunsWithSet'
  BY DEF CInv, RunsWithSet, sets, Dev
<1> QED BY <1>1, <1>2, <1>3, <1>4 DEF CInv

LEMMA InitCInv == Init => CInv
<1> SUFFICES ASSUME Init PROVE CInv
  OBVIOUS
<1>1. IInv
  BY InitIInv
<1>2. StagesTyped
  BY DEF Init, StagesTyped
<1>3. \A d \in Device : Running(d) = {}
  BY DEF Init, Running, Of, RunningStages, HalfSent
<1>4. CountsExact
  BY <1>3, FS_EmptySet DEF Init, CountsExact
<1>5. RecoveryRequest
  BY DEF Init, RecoveryRequest, All
<1>6. OnlyOvertakenRun
  BY DEF Init, OnlyOvertakenRun
<1>7. RunsWithSet
  BY DEF Init, RunsWithSet, RunningStages, HalfSent
<1> QED BY <1>1, <1>2, <1>4, <1>5, <1>6, <1>7 DEF CInv

LEMMA NextCInv == CInv /\ [Next]_vars => CInv'
<1> SUFFICES ASSUME CInv, [Next]_vars PROVE CInv'
  OBVIOUS
<1>1. CASE UNCHANGED vars
  BY <1>1, CInvSame DEF vars, history
<1>2. ASSUME NEW r \in All, Submit(r) PROVE CInv'
  BY <1>2, SubmitCInv
<1>3. ASSUME NEW r \in All, Send(r) PROVE CInv'
  BY <1>3, TryCInv, SlotCInv, NoResourceCInv DEF Send
<1>4. ASSUME NEW r \in All, Complete(r) \/ Fail(r) PROVE CInv'
  BY <1>4, EndCInv
<1>5. ASSUME NEW d \in Device, Recover(d) PROVE CInv'
  BY <1>5, AbortCInv, FreeCInv, RecoveredCInv DEF Recover
<1>6. ASSUME NEW r \in stray, StrayGoesOn(r) PROVE CInv'
  BY <1>6, CInvSame DEF StrayGoesOn
<1> QED BY <1>1, <1>2, <1>3, <1>4, <1>5, <1>6 DEF Next

\* What the hardware works on names the set its disk has (core_error.c:1263), for
\* any number of disks, sets and requests and however many fail, but for small
\* requests that a recovery has found half sent.
THEOREM CommandsNameOwnSet == Spec => []CommandsOnOwnSet
<1>1. CInv => CommandsOnOwnSet
  BY DEF CInv, RunsWithSet, CommandsOnOwnSet, RunningStages
<1> QED BY <1>1, InitCInv, NextCInv, PTL DEF Spec

\* A device counts exactly the requests let in and not yet cleaned, although
\* aborts take back several at once, so that its set goes with the last of them
\* (core_protocol.c:761-800, 867-945).
THEOREM CountIsExact == Spec => []CountsExact
<1>1. CInv => CountsExact
  BY DEF CInv
<1> QED BY <1>1, InitCInv, NextCInv, PTL DEF Spec

-----------------------------------------------------------------------------
(***************************************************************************)
(* Queued and other commands stay apart, and tags are used by one command  *)
(* each.  The marks of sata_verify_command do the first, for which the     *)
(* count must be exact; the second needs that no sender goes on with a     *)
(* request that was taken back, and that 32 tags are enough.               *)
(***************************************************************************)

Tagged(d) == Of(d, {"issued"}) \cap Ncq
Undisturbed(d) == \A r \in overtaken : Dev(r) # d

\* NCQ_RUNNING stands for queued commands only, and a command that is not
\* queued is alone.
Apart ==
    \A d \in Device :
        /\ Running(d) \subseteq Ncq \/ \E r \in All : Running(d) = {r}
        /\ d \in ncq_running => Running(d) \subseteq Ncq

TagsExact ==
    /\ DOMAIN ncq_tag = All /\ DOMAIN ncq_tags = Device
    /\ \A d \in Device : Undisturbed(d) =>
        /\ ncq_tags[d] = {ncq_tag[r] : r \in Tagged(d)}
        /\ \A q, r \in Tagged(d) : ncq_tag[q] = ncq_tag[r] => q = r

Limits ==
    /\ \A d \in Device : outstanding_req[d] =< queue_depth
    /\ stray \subseteq overtaken /\ overtaken \subseteq All

TInv == CInv /\ Apart /\ TagsExact /\ Limits

\* Fewer run and fewer marks are set.
LEMMA ApartKept ==
    ASSUME Apart, \A d \in Device : Running(d)' \subseteq Running(d),
           ncq_running' \subseteq ncq_running
    PROVE  Apart'
<1>1. ASSUME NEW d \in Device, NEW r \in All, Running(d) = {r}
      PROVE  Running(d)' \subseteq Ncq \/ \E q \in All : Running(d)' = {q}
  <2>1. Running(d)' = {} \/ Running(d)' = {r}
    BY <1>1
  <2> QED BY <2>1
<1> QED BY <1>1 DEF Apart

\* Neither tags nor tagged commands change.
LEMMA TagsKept ==
    ASSUME TagsExact, UNCHANGED <<ncq_tag, ncq_tags>>, overtaken \subseteq overtaken',
           \A d \in Device : Tagged(d)' = Tagged(d)
    PROVE  TagsExact'
<1>1. \A d \in Device : Undisturbed(d)' => Undisturbed(d)
  BY DEF Undisturbed, Dev
<1> QED BY <1>1 DEF TagsExact

\* Tagged commands end, and their tags with them.
LEMMA TagsFreed ==
    ASSUME TagsExact, NEW d \in Device, NEW R, prot_clean_slot(d, R),
           UNCHANGED ncq_tag, overtaken \subseteq overtaken',
           Undisturbed(d)' => R \subseteq Of(d, {"issued"}),
           Tagged(d)' = Tagged(d) \ R,
           \A e \in Device \ {d} : Tagged(e)' = Tagged(e)
    PROVE  TagsExact'
<1>1. \A e \in Device : Undisturbed(e)' => Undisturbed(e)
  BY DEF Undisturbed, Dev
<1>2. ncq_tags' = [ncq_tags EXCEPT ![d] = @ \ {ncq_tag[r] : r \in R \cap Ncq}]
  BY DEF prot_clean_slot
<1>3. ASSUME Undisturbed(d)'
      PROVE  ncq_tags'[d] = {ncq_tag[r] : r \in Tagged(d)'}
  <2>1. R \cap Ncq \subseteq Tagged(d)
    BY <1>3 DEF Tagged
  <2>2. ncq_tags'[d] = {ncq_tag[r] : r \in Tagged(d)} \ {ncq_tag[r] : r \in R \cap Ncq}
    BY <1>1, <1>2, <1>3 DEF TagsExact
  <2>3. Tagged(d) \ R = Tagged(d) \ (R \cap Ncq)
    BY DEF Tagged
  <2>4. \A q, r \in Tagged(d) : ncq_tag[q] = ncq_tag[r] => q = r
    BY <1>1, <1>3 DEF TagsExact
  <2>5. {ncq_tag[r] : r \in Tagged(d)} \ {ncq_tag[r] : r \in R \cap Ncq}
          = {ncq_tag[r] : r \in Tagged(d) \ (R \cap Ncq)}
    BY <2>1, <2>4
  <2> QED BY <2>2, <2>3, <2>5
<1>4. \A e \in Device \ {d} : ncq_tags'[e] = ncq_tags[e]
  BY <1>2 DEF TagsExact
<1>5. DOMAIN ncq_tag' = All /\ DOMAIN ncq_tags' = Device
  BY <1>2 DEF TagsExact
<1>6. ASSUME NEW e \in Device, Undisturbed(e)'
      PROVE  /\ ncq_tags'[e] = {ncq_tag'[r] : r \in Tagged(e)'}
             /\ \A q, r \in Tagged(e)' : ncq_tag'[q] = ncq_tag'[r] => q = r
  <2>1. CASE e = d
    BY <1>1, <1>3, <1>6, <2>1 DEF TagsExact
  <2>2. CASE e # d
    BY <1>1, <1>4, <1>6, <2>2 DEF TagsExact
  <2> QED BY <2>1, <2>2
<1> QED BY <1>5, <1>6 DEF TagsExact

\* An attempt to send lets a request in next to what it may join, below the
\* limit, and marks the disk for it; or it leaves the marks of the disk.
LEMMA TryMarks ==
    ASSUME NEW r \in All, Try(r)
    PROVE  \/ /\ ~Full(r) /\ Joins(r)
              /\ stage' = [stage EXCEPT ![r] = "counted"]
              /\ outstanding_req' = [outstanding_req EXCEPT ![Dev(r)] = @ + 1]
              /\ ncq_running' = IF r \in Ncq THEN ncq_running \cup {Dev(r)}
                                             ELSE ncq_running \ {Dev(r)}
           \/ /\ \E s \in {"idle", "waiting"} : stage' = [stage EXCEPT ![r] = s]
              /\ UNCHANGED <<outstanding_req, ncq_running>>
<1> DEFINE d == Dev(r)
<1>1. CASE Full(r) /\ Refused(r) /\ UNCHANGED <<sets, ncq_running, stop_run_ncq>>
  BY <1>1 DEF Refused
<1>2. CASE d \in gone /\ ~Full(r)
  BY <1>2 DEF Try, prot_send_request
<1>3. CASE ~Full(r) /\ d \notin gone
  <2>1. /\ Marks(r)
        /\ IF Joins(r)
           THEN /\ outstanding_req' = [outstanding_req EXCEPT ![d] = @ + 1]
                /\ stage' = [stage EXCEPT ![r] = "counted"]
           ELSE Refused(r)
    BY <1>3 DEF Try, prot_send_request, sata_verify_command
  <2>2. CASE Joins(r)
    BY <1>3, <2>1, <2>2 DEF Marks
  <2>3. CASE ~Joins(r)
    BY <2>1, <2>3 DEF Marks, Refused
  <2> QED BY <2>2, <2>3
<1> QED BY <1>1, <1>2, <1>3 DEF Try, prot_send_request

LEMMA TryTInv == ASSUME TInv, NEW r \in All, Try(r) PROVE TInv'
<1> DEFINE d == Dev(r)
<1>1. d \in Device
  BY DevInDevice
<1>2. CInv /\ CInv' /\ Apart /\ TagsExact /\ Limits
  BY TryCInv DEF TInv
<1>3. /\ stage[r] \in {"direct", "waiting"}
      /\ UNCHANGED <<ncq_tag, ncq_tags, overtaken, stray>>
  BY DEF Try, history
<1>4. stage[r] \notin RunningStages
  BY <1>3 DEF RunningStages, HalfSent
<1>5. CASE /\ \E s \in {"idle", "waiting"} : stage' = [stage EXCEPT ![r] = s]
           /\ UNCHANGED <<outstanding_req, ncq_running>>
  <2>1. \A q \in All : /\ stage'[q] \in RunningStages <=> stage[q] \in RunningStages
                       /\ stage'[q] = "issued" <=> stage[q] = "issued"
    BY <1>2, <1>4, <1>5 DEF CInv, StagesTyped, RunningStages, HalfSent
  <2>2. \A e \in Device : Running(e)' = Running(e) /\ Tagged(e)' = Tagged(e)
    BY <2>1 DEF Running, Tagged, Of, Dev
  <2>3. Apart'
    BY <1>2, <1>5, <2>2, ApartKept
  <2>4. TagsExact'
    BY <1>2, <1>3, <2>2, TagsKept
  <2>5. Limits'
    BY <1>2, <1>3, <1>5 DEF Limits
  <2> QED BY <1>2, <2>3, <2>4, <2>5 DEF TInv
<1>6. CASE /\ ~Full(r) /\ Joins(r)
           /\ stage' = [stage EXCEPT ![r] = "counted"]
           /\ outstanding_req' = [outstanding_req EXCEPT ![d] = @ + 1]
           /\ ncq_running' = IF r \in Ncq THEN ncq_running \cup {d} ELSE ncq_running \ {d}
  <2>1. /\ Running(d)' = Running(d) \cup {r}
        /\ \A e \in Device \ {d} : Running(e)' = Running(e)
    BY <1>2, <1>6 DEF CInv, StagesTyped, Running, Of, Dev, RunningStages, HalfSent
  <2>2. \A e \in Device : Tagged(e)' = Tagged(e)
    BY <1>2, <1>3, <1>6 DEF CInv, StagesTyped, Tagged, Of, Dev
  <2>3. outstanding_req[d] = 0 => Running(d) = {}
    BY <1>1, <1>2, RunningFinite, FS_EmptySet DEF CInv, CountsExact
  <2>4. \A e \in Device : /\ Running(e)' \subseteq Ncq \/ \E q \in All : Running(e)' = {q}
                          /\ e \in ncq_running' => Running(e)' \subseteq Ncq
    <3>1. CASE r \in Ncq
      <4>1. Running(d) \subseteq Ncq
        BY <1>1, <1>2, <1>6, <2>3, <3>1 DEF Joins, Apart
      <4> QED BY <1>2, <1>6, <2>1, <3>1, <4>1 DEF Apart
    <3>2. CASE r \notin Ncq
      <4>1. Running(d)' = {r} /\ d \notin ncq_running'
        BY <1>6, <2>1, <2>3, <3>2 DEF Joins
      <4> QED BY <1>2, <1>6, <2>1, <3>2, <4>1 DEF Apart
    <3> QED BY <3>1, <3>2
  <2>5. Apart'
    BY <2>4 DEF Apart
  <2>6. TagsExact'
    BY <1>2, <1>3, <2>2, TagsKept
  <2>7. Limits'
    <3>1. outstanding_req[d] < queue_depth
      BY <1>1, <1>2, <1>6, NumberAssumption DEF Full, CInv, CountsExact
    <3>2. \A e \in Device : outstanding_req'[e] =< queue_depth
      BY <1>2, <1>6, <3>1, NumberAssumption DEF Limits, CInv, CountsExact
    <3> QED BY <1>2, <1>3, <3>2 DEF Limits
  <2> QED BY <1>2, <2>5, <2>6, <2>7 DEF TInv
<1> QED BY <1>5, <1>6, TryMarks

\* Different commands, different tags: as many tags as commands.
LEMMA TagCount ==
    ASSUME NEW S, IsFiniteSet(S), NEW f, \A q, r \in S : f[q] = f[r] => q = r
    PROVE  /\ IsFiniteSet({f[r] : r \in S})
           /\ Cardinality({f[r] : r \in S}) = Cardinality(S)
<1> DEFINE T == {f[r] : r \in S}
           g == [r \in S |-> f[r]]
<1>1. g \in [S -> T] /\ \A r \in S : g[r] = f[r]
  OBVIOUS
<1>2. \A q, r \in S : g[q] = g[r] => q = r
  BY <1>1
<1>3. \A t \in T : \E r \in S : g[r] = t
  BY <1>1
<1>4. g \in Bijection(S, T)
  <2> HIDE DEF g, T
  <2> QED BY <1>1, <1>2, <1>3 DEF Bijection, Injection, Surjection, IsInjective
<1>5. ExistsBijection(S, T)
  BY <1>4 DEF ExistsBijection
<1>6. IsFiniteSet(T) /\ Cardinality(T) = Cardinality(S)
  <2> HIDE DEF T
  <2> QED BY <1>5, FS_Bijection
<1> QED BY <1>6

\* On a disk nobody has disturbed there is a free tag for the next command.
LEMMA FreeTag ==
    ASSUME TInv, NEW d \in Device, Undisturbed(d), NEW r \in Running(d), stage[r] # "issued"
    PROVE  FirstFree(ncq_tags[d]) \in Tag \ ncq_tags[d]
<1>1. IsFiniteSet(Running(d)) /\ IsFiniteSet(Tagged(d))
  <2>1. Tagged(d) \subseteq Running(d)
    BY DEF Tagged, Running, Of, RunningStages
  <2> QED BY <2>1, RunningFinite, FS_Subset
<1>2. Cardinality(Tagged(d)) < Cardinality(Running(d))
  <2>1. Tagged(d) \subseteq Running(d) \ {r}
    BY DEF Tagged, Running, Of, RunningStages
  <2>2. /\ IsFiniteSet(Running(d) \ {r})
        /\ Cardinality(Running(d) \ {r}) = Cardinality(Running(d)) - 1
    BY <1>1, FS_RemoveElement
  <2>3. Cardinality(Tagged(d)) =< Cardinality(Running(d) \ {r})
    BY <2>1, <2>2, FS_Subset
  <2> QED BY <1>1, <2>2, <2>3, FS_CardinalityType
<1>3. Cardinality(Running(d)) =< 32
  BY NumberAssumption, FS_CardinalityType, <1>1 DEF TInv, CInv, CountsExact, Limits
<1>4. /\ IsFiniteSet(ncq_tags[d])
      /\ Cardinality(ncq_tags[d]) = Cardinality(Tagged(d))
  <2>1. /\ ncq_tags[d] = {ncq_tag[q] : q \in Tagged(d)}
        /\ \A p, q \in Tagged(d) : ncq_tag[p] = ncq_tag[q] => p = q
    BY DEF TInv, TagsExact
  <2> QED BY <1>1, <2>1, TagCount
<1>5. Cardinality(Tag) = 32
  <2>1. 0 \in Int /\ 31 \in Int
    OBVIOUS
  <2>2. Cardinality(0 .. 31) = IF 0 > 31 THEN 0 ELSE 31 - 0 + 1
    BY <2>1, FS_Interval, Zenon
  <2>3. Cardinality(Tag) = IF 0 > 31 THEN 0 ELSE 31 - 0 + 1
    BY <2>2, Zenon DEF Tag
  <2> QED BY <2>3
<1>6. ~(Tag \subseteq ncq_tags[d])
  <2>1. Tag \subseteq ncq_tags[d] => Cardinality(Tag) =< Cardinality(ncq_tags[d])
    BY <1>4, FS_Subset
  <2>2. Cardinality(ncq_tags[d]) < 32
    <3>1. Cardinality(Tagged(d)) \in Nat /\ Cardinality(Running(d)) \in Nat
      BY <1>1, FS_CardinalityType
    <3> QED BY <1>2, <1>3, <1>4, <3>1
  <2>3. Cardinality(ncq_tags[d]) \in Nat
    BY <1>4, FS_CardinalityType
  <2> QED BY <1>5, <2>1, <2>2, <2>3
<1>7. Tag \ ncq_tags[d] # {}
  BY <1>6, Zenon
<1>8. Tag \ ncq_tags[d] \subseteq Nat
  BY DEF Tag
<1>9. Min(Tag \ ncq_tags[d]) \in Tag \ ncq_tags[d]
  BY <1>7, <1>8, MinIsElement
<1> QED BY <1>6, <1>9 DEF FirstFree

LEMMA SubmitTInv == ASSUME TInv, NEW r \in All, Submit(r) PROVE TInv'
<1>1. CInv' /\ CInv /\ Apart /\ TagsExact /\ Limits
  BY SubmitCInv DEF TInv
<1>2. /\ stage[r] = "idle"
      /\ \E s \in {"direct", "waiting"} : stage' = [stage EXCEPT ![r] = s]
      /\ UNCHANGED <<outstanding_req, ncq_tag, ncq_tags, ncq_running, stray, overtaken>>
  BY DEF Submit, ncq, history
<1>3. \A q \in All : /\ stage'[q] \in RunningStages <=> stage[q] \in RunningStages
                     /\ stage'[q] = "issued" <=> stage[q] = "issued"
  BY <1>1, <1>2 DEF CInv, StagesTyped, RunningStages, HalfSent
<1>4. \A e \in Device : Running(e)' = Running(e) /\ Tagged(e)' = Tagged(e)
  BY <1>3 DEF Running, Tagged, Of, Dev
<1>5. Apart' /\ TagsExact' /\ Limits'
  BY <1>1, <1>2, <1>4, ApartKept, TagsKept DEF Limits
<1> QED BY <1>1, <1>5 DEF TInv

LEMMA SlotTInv == ASSUME TInv, NEW r \in All, TakeSlot(r) \/ NoResource(r) PROVE TInv'
<1>1. CInv' /\ CInv /\ Apart /\ TagsExact /\ Limits
  BY SlotCInv, NoResourceCInv DEF TInv
<1>2. /\ stage[r] = "counted"
      /\ \E s \in {"registered", "waiting"} : stage' = [stage EXCEPT ![r] = s]
      /\ UNCHANGED <<ncq_tag, ncq_tags, ncq_running, stray, overtaken>>
      /\ \/ UNCHANGED outstanding_req
         \/ outstanding_req' = [outstanding_req EXCEPT ![Dev(r)] = @ - 1]
  BY DEF TakeSlot, NoResource, ncq, history
<1>3. \A q \in All : /\ stage'[q] \in RunningStages => stage[q] \in RunningStages
                     /\ stage'[q] = "issued" <=> stage[q] = "issued"
  BY <1>1, <1>2 DEF CInv, StagesTyped, RunningStages, HalfSent
<1>4. \A e \in Device : Running(e)' \subseteq Running(e) /\ Tagged(e)' = Tagged(e)
  BY <1>3 DEF Running, Tagged, Of, Dev
<1>5. Apart' /\ TagsExact'
  BY <1>1, <1>2, <1>4, ApartKept, TagsKept
<1>6. Limits'
  BY <1>1, <1>2, NumberAssumption DEF Limits, CInv, CountsExact
<1> QED BY <1>1, <1>5, <1>6 DEF TInv

\* The command that is issued takes a tag no other command of the disk has.
LEMMA IssueTInv == ASSUME TInv, NEW r \in All, Issue(r) PROVE TInv'
<1> DEFINE d == Dev(r)
           tag == FirstFree(ncq_tags[d])
<1>1. d \in Device
  BY DevInDevice
<1>2. CInv' /\ CInv /\ Apart /\ TagsExact /\ Limits
  BY SlotCInv DEF TInv
<1>3. /\ stage[r] = "registered" /\ stage' = [stage EXCEPT ![r] = "issued"]
      /\ UNCHANGED <<outstanding_req, ncq_running, stray, overtaken>>
  BY DEF Issue, history
<1>4. IF r \in Ncq THEN /\ ncq_tag' = [ncq_tag EXCEPT ![r] = tag]
                        /\ ncq_tags' = [ncq_tags EXCEPT ![d] = @ \cup ({tag} \cap Tag)]
                   ELSE UNCHANGED <<ncq_tag, ncq_tags>>
  BY DEF Issue, sata_get_ncq_tag
<1>5. \A q \in All : stage'[q] \in RunningStages <=> stage[q] \in RunningStages
  BY <1>2, <1>3 DEF CInv, StagesTyped, RunningStages, HalfSent
<1>6. \A e \in Device : Running(e)' = Running(e)
  BY <1>5 DEF Running, Of, Dev
<1>7. Apart' /\ Limits'
  BY <1>2, <1>3, <1>6, ApartKept DEF Limits
<1>8. /\ \A e \in Device \ {d} : Tagged(e)' = Tagged(e)
      /\ Tagged(d)' = IF r \in Ncq THEN Tagged(d) \cup {r} ELSE Tagged(d)
      /\ r \notin Tagged(d)
  BY <1>2, <1>3 DEF CInv, StagesTyped, Tagged, Of, Dev
<1>9. \A e \in Device : Undisturbed(e)' <=> Undisturbed(e)
  BY <1>3 DEF Undisturbed, Dev
<1>10. DOMAIN ncq_tag' = All /\ DOMAIN ncq_tags' = Device
  BY <1>2, <1>4 DEF TagsExact
<1>11. ASSUME NEW e \in Device, Undisturbed(e)'
       PROVE  /\ ncq_tags'[e] = {ncq_tag'[q] : q \in Tagged(e)'}
              /\ \A p, q \in Tagged(e)' : ncq_tag'[p] = ncq_tag'[q] => p = q
  <2>1. /\ ncq_tags[e] = {ncq_tag[q] : q \in Tagged(e)}
        /\ \A p, q \in Tagged(e) : ncq_tag[p] = ncq_tag[q] => p = q
    BY <1>2, <1>9, <1>11 DEF TagsExact
  <2>2. CASE r \in Ncq /\ e = d
    <3>1. tag \in Tag \ ncq_tags[d]
      <4>1. r \in Running(d) /\ stage[r] # "issued"
        BY <1>3 DEF Running, Of, RunningStages, HalfSent
      <4> QED BY <1>1, <1>9, <1>11, <2>2, <4>1, FreeTag
    <3> HIDE DEF tag
    <3>2. /\ \A q \in Tagged(d) : ncq_tag'[q] = ncq_tag[q]
          /\ ncq_tag'[r] = tag
      BY <1>2, <1>4, <1>8, <2>2 DEF TagsExact, Tagged, Of
    <3>3. /\ Tagged(d)' = Tagged(d) \cup {r}
          /\ ncq_tags'[d] = ncq_tags[d] \cup {tag}
      BY <1>1, <1>2, <1>4, <1>8, <2>2, <3>1 DEF TagsExact
    <3>4. {ncq_tag'[q] : q \in Tagged(d) \cup {r}} = {ncq_tag[q] : q \in Tagged(d)} \cup {tag}
      BY <3>2
    <3>5. \A p, q \in Tagged(d) \cup {r} : ncq_tag'[p] = ncq_tag'[q] => p = q
      BY <2>1, <2>2, <3>1, <3>2
    <3> QED BY <2>1, <2>2, <3>3, <3>4, <3>5
  <2>3. CASE ~(r \in Ncq /\ e = d)
    <3>1. Tagged(e)' = Tagged(e) /\ ncq_tags'[e] = ncq_tags[e]
      BY <1>2, <1>4, <1>8, <2>3 DEF TagsExact
    <3>2. r \in Ncq => r \notin Tagged(e)
      BY <2>3 DEF Tagged, Of
    <3>3. \A q \in Tagged(e) : ncq_tag'[q] = ncq_tag[q]
      BY <1>2, <1>4, <3>2 DEF TagsExact, Tagged, Of
    <3> QED BY <2>1, <3>1, <3>3
  <2> QED BY <2>2, <2>3
<1>12. TagsExact'
  BY <1>10, <1>11 DEF TagsExact
<1> QED BY <1>2, <1>7, <1>12 DEF TInv

\* A sender that goes on with a request taken back disturbs only tags of a
\* disk that is disturbed already.
LEMMA StrayTInv == ASSUME TInv, NEW r \in stray, StrayGoesOn(r) PROVE TInv'
<1> DEFINE d == Dev(r)
           tag == FirstFree(ncq_tags[d])
<1>1. CInv /\ Apart /\ TagsExact /\ Limits
  BY DEF TInv
<1>2. /\ r \in overtaken /\ r \in All
      /\ stray' \subseteq stray
      /\ UNCHANGED <<stage, command, outstanding_req, sets, recovery, ncq_running, overtaken>>
  BY <1>1 DEF StrayGoesOn, Limits
<1>3. \/ /\ ncq_tag' = [ncq_tag EXCEPT ![r] = tag]
         /\ ncq_tags' = [ncq_tags EXCEPT ![d] = @ \cup ({tag} \cap Tag)]
      \/ UNCHANGED <<ncq_tag, ncq_tags>>
  BY DEF StrayGoesOn, sata_get_ncq_tag
<1>4. CInv'
  BY <1>1, <1>2, CInvSame
<1>5. \A e \in Device : Running(e)' = Running(e) /\ Tagged(e)' = Tagged(e)
  BY <1>2 DEF Running, Tagged, Of, Dev
<1>6. Apart' /\ Limits'
  BY <1>1, <1>2, <1>5, ApartKept DEF Limits
<1>7. DOMAIN ncq_tag' = All /\ DOMAIN ncq_tags' = Device
  BY <1>1, <1>3 DEF TagsExact
<1>8. ASSUME NEW e \in Device, Undisturbed(e)'
      PROVE  /\ ncq_tags'[e] = {ncq_tag'[q] : q \in Tagged(e)'}
             /\ \A p, q \in Tagged(e)' : ncq_tag'[p] = ncq_tag'[q] => p = q
  <2>1. Undisturbed(e) /\ e # d
    BY <1>2, <1>8 DEF Undisturbed, Dev
  <2>2. r \notin Tagged(e)
    BY <2>1 DEF Tagged, Of
  <2>3. ncq_tags'[e] = ncq_tags[e] /\ \A q \in Tagged(e) : ncq_tag'[q] = ncq_tag[q]
    BY <1>1, <1>3, <2>1, <2>2 DEF TagsExact, Tagged, Of
  <2> QED BY <1>1, <1>5, <2>1, <2>3 DEF TagsExact
<1>9. TagsExact'
  BY <1>7, <1>8 DEF TagsExact
<1> QED BY <1>4, <1>6, <1>9 DEF TInv

\* Requests of a disk end or are taken back.
LEMMA CleanTInv ==
    ASSUME TInv, CInv', NEW d \in Device, NEW R, R \subseteq Running(d), prot_clean_slot(d, R),
           \A r \in All : stage'[r] = "issued" <=> stage[r] = "issued" /\ r \notin R,
           \A r \in All : stage'[r] \in RunningStages => stage[r] \in RunningStages,
           UNCHANGED <<ncq_tag, ncq_running>>,
           overtaken \subseteq overtaken', overtaken' \subseteq All, stray' \subseteq overtaken',
           Undisturbed(d)' => R \subseteq Of(d, {"issued"})
    PROVE  TInv'
<1>1. CInv /\ Apart /\ TagsExact /\ Limits
  BY DEF TInv
<1>2. /\ Tagged(d)' = Tagged(d) \ R
      /\ \A e \in Device \ {d} : Tagged(e)' = Tagged(e)
  BY DEF Tagged, Running, Of, Dev
<1>3. \A e \in Device : Running(e)' \subseteq Running(e)
  BY DEF Running, Of, Dev
<1>4. Apart'
  BY <1>1, <1>3, ApartKept
<1>5. TagsExact'
  BY <1>1, <1>2, TagsFreed
<1>6. Limits'
  <2>1. \A e \in Device : outstanding_req'[e] =< outstanding_req[e]
    BY <1>1, <1>3, RunningFinite, FS_Subset DEF TInv, CInv, CountsExact
  <2> QED BY <1>1, <2>1, NumberAssumption DEF Limits, TInv, CInv, CountsExact
<1> QED BY <1>4, <1>5, <1>6 DEF TInv

LEMMA EndTInv ==
    ASSUME TInv, NEW r \in All,
           Complete(r) \/ Fail(r) \/ (r \in Device /\ Recovered(r))
    PROVE  TInv'
<1> DEFINE d == Dev(r)
<1>1. d \in Device
  BY DevInDevice
<1>2. CInv /\ CInv' /\ Limits
  BY EndCInv, RecoveredCInv DEF TInv
<1>3. /\ stage[r] = "issued" /\ prot_clean_slot(d, {r})
      /\ UNCHANGED <<ncq_tag, ncq_running, overtaken, stray>>
  BY DEF Complete, Fail, Recovered, history, Dev
<1>4. /\ \A q \in All : stage'[q] = "issued" <=> stage[q] = "issued" /\ q \notin {r}
      /\ \A q \in All : stage'[q] \in RunningStages => stage[q] \in RunningStages
  BY <1>2 DEF Complete, Fail, Recovered, Of, CInv, StagesTyped, RunningStages, HalfSent
<1>5. {r} \subseteq Of(d, {"issued"}) /\ {r} \subseteq Running(d)
  BY <1>3 DEF Running, Of, RunningStages
<1> QED BY <1>1, <1>2, <1>3, <1>4, <1>5, CleanTInv DEF Limits

LEMMA AbortTInv == ASSUME TInv, NEW d \in Device, Abort(d) \/ GiveUp(d) PROVE TInv'
<1> DEFINE R == Of(d, {"registered", "issued"})
<1>1. CInv /\ CInv' /\ Limits
  BY AbortCInv DEF TInv
<1>2. /\ prot_clean_slot(d, R)
      /\ stage' = [r \in All |-> IF r \in R THEN "waiting" ELSE stage[r]]
      /\ stray' = stray \cup Of(d, {"registered"})
      /\ overtaken' = overtaken \cup Of(d, HalfSent)
      /\ UNCHANGED <<ncq_tag, ncq_running>>
  BY DEF Abort, GiveUp, TakeBack
<1>3. /\ \A q \in All : stage'[q] = "issued" <=> stage[q] = "issued" /\ q \notin R
      /\ \A q \in All : stage'[q] \in RunningStages => stage[q] \in RunningStages
  BY <1>2 DEF RunningStages, HalfSent
<1>4. R \subseteq Running(d)
  BY DEF Running, Of, RunningStages, HalfSent
<1>5. Of(d, {"registered"}) \subseteq Of(d, HalfSent) /\ Of(d, HalfSent) \subseteq All
  BY DEF Of, HalfSent
<1>6. ASSUME Undisturbed(d)' PROVE R \subseteq Of(d, {"issued"})
  <2>1. Of(d, HalfSent) = {}
    BY <1>2, <1>6 DEF Undisturbed, Of, Dev
  <2> QED BY <2>1 DEF Of, HalfSent
<1>7. overtaken \subseteq overtaken' /\ overtaken' \subseteq All /\ stray' \subseteq overtaken'
  BY <1>1, <1>2, <1>5 DEF Limits
<1> HIDE DEF R
<1> QED BY <1>1, <1>2, <1>3, <1>4, <1>6, <1>7, CleanTInv

LEMMA FreeTInv ==
    ASSUME TInv, NEW d \in Device, FreeSet(d) \/ pal_set_disk_offline(d)
    PROVE  TInv'
<1>1. CInv /\ CInv' /\ Apart /\ TagsExact /\ Limits
  BY FreeCInv DEF TInv
<1>2. /\ stage[d] \in {"idle", "waiting"}
      /\ UNCHANGED <<outstanding_req, ncq_tag, ncq_tags, ncq_running, stray, overtaken>>
      /\ \/ stage' = [stage EXCEPT ![d] = "waiting"]
         \/ stage' = [r \in All |-> IF r \in Of(d, {"waiting", "failed"}) THEN "idle" ELSE stage[r]]
  BY <1>1 DEF FreeSet, pal_set_disk_offline, CInv, RecoveryRequest, ncq, history
<1>3. \A q \in All : /\ stage'[q] \in RunningStages <=> stage[q] \in RunningStages
                     /\ stage'[q] = "issued" <=> stage[q] = "issued"
  BY <1>1, <1>2 DEF CInv, StagesTyped, Of, RunningStages, HalfSent
<1>4. \A e \in Device : Running(e)' = Running(e) /\ Tagged(e)' = Tagged(e)
  BY <1>3 DEF Running, Tagged, Of, Dev
<1>5. Apart' /\ TagsExact' /\ Limits'
  BY <1>1, <1>2, <1>4, ApartKept, TagsKept DEF Limits
<1> QED BY <1>1, <1>5 DEF TInv

LEMMA InitTInv == Init => TInv
<1> SUFFICES ASSUME Init PROVE TInv
  OBVIOUS
<1>1. \A d \in Device : Running(d) = {} /\ Tagged(d) = {}
  BY DEF Init, Running, Tagged, Of, RunningStages, HalfSent
<1>2. Apart
  BY <1>1 DEF Apart
<1>3. TagsExact
  BY <1>1 DEF Init, TagsExact
<1>4. Limits
  BY NumberAssumption DEF Init, Limits
<1> QED BY <1>2, <1>3, <1>4, InitCInv DEF TInv

LEMMA NextTInv == TInv /\ [Next]_vars => TInv'
<1> SUFFICES ASSUME TInv, [Next]_vars PROVE TInv'
  OBVIOUS
<1>1. CASE UNCHANGED vars
  <2>1. /\ CInv /\ Apart /\ TagsExact /\ Limits
        /\ UNCHANGED <<stage, outstanding_req, ncq_tag, ncq_tags, ncq_running, stray, overtaken>>
    BY <1>1 DEF TInv, vars, ncq, history
  <2>2. CInv'
    BY <1>1, <2>1, CInvSame DEF vars, history
  <2>3. \A e \in Device : Running(e)' = Running(e) /\ Tagged(e)' = Tagged(e)
    BY <2>1 DEF Running, Tagged, Of, Dev
  <2>4. Apart' /\ TagsExact' /\ Limits'
    BY <2>1, <2>3, ApartKept, TagsKept DEF Limits
  <2> QED BY <2>2, <2>4 DEF TInv
<1>2. ASSUME NEW r \in All, Submit(r) PROVE TInv'
  BY <1>2, SubmitTInv
<1>3. ASSUME NEW r \in All, Send(r) PROVE TInv'
  BY <1>3, TryTInv, SlotTInv, IssueTInv DEF Send
<1>4. ASSUME NEW r \in All, Complete(r) \/ Fail(r) PROVE TInv'
  BY <1>4, EndTInv
<1>5. ASSUME NEW d \in Device, Recover(d) PROVE TInv'
  BY <1>5, AbortTInv, FreeTInv, EndTInv DEF Recover, All
<1>6. ASSUME NEW r \in stray, StrayGoesOn(r) PROVE TInv'
  BY <1>6, StrayTInv
<1> QED BY <1>1, <1>2, <1>3, <1>4, <1>5, <1>6 DEF Next

\* A disk works on one command or on queued ones with different tags, and its
\* tags are theirs (sata_verify_command, core_sata.c:2204-2245;
\* sata_get_ncq_tag), whatever fails, as long as recovery found none of its small
\* requests half sent; however many requests, disks and sets there are.
THEOREM CommandsApart == Spec => []QueuedApart
<1>1. TInv => QueuedApart
  <2> SUFFICES ASSUME TInv, NEW d \in Device, Undisturbed(d)
               PROVE  /\ Of(d, {"issued"}) \subseteq Ncq \/ Cardinality(Of(d, {"issued"})) = 1
                      /\ ncq_tags[d] = {ncq_tag[r] : r \in Tagged(d)}
                      /\ Cardinality(ncq_tags[d]) = Cardinality(Tagged(d))
    BY DEF QueuedApart, Undisturbed, Tagged
  <2>1. Of(d, {"issued"}) \subseteq Running(d)
    BY DEF Running, Of, RunningStages
  <2>2. Of(d, {"issued"}) \subseteq Ncq \/ \E r \in All : Of(d, {"issued"}) = {r}
    <3>1. CASE Running(d) \subseteq Ncq
      BY <2>1, <3>1
    <3>2. ASSUME NEW r \in All, Running(d) = {r}
          PROVE  Of(d, {"issued"}) \subseteq Ncq \/ \E q \in All : Of(d, {"issued"}) = {q}
      BY <2>1, <3>2
    <3> QED BY <3>1, <3>2 DEF TInv, Apart
  <2>3. Of(d, {"issued"}) \subseteq Ncq \/ Cardinality(Of(d, {"issued"})) = 1
    BY <2>2, FS_Singleton
  <2>4. /\ ncq_tags[d] = {ncq_tag[r] : r \in Tagged(d)}
        /\ \A q, r \in Tagged(d) : ncq_tag[q] = ncq_tag[r] => q = r
    BY DEF TInv, TagsExact
  <2>5. IsFiniteSet(Tagged(d))
    <3>1. Tagged(d) \subseteq Running(d)
      BY <2>1 DEF Tagged
    <3> QED BY <3>1, RunningFinite, FS_Subset
  <2>6. Cardinality(ncq_tags[d]) = Cardinality(Tagged(d))
    BY <2>4, <2>5, TagCount
  <2> QED BY <2>3, <2>4, <2>6
<1> QED BY <1>1, InitTInv, NextTInv, PTL DEF Spec

-----------------------------------------------------------------------------
(***************************************************************************)
(* Types, and the sets of idle disks.  A set comes with a request that     *)
(* stays with the disk, whether it is let in or held off, and goes with    *)
(* the last request that runs: so a disk that has one has something to do. *)
(***************************************************************************)

\* What is not typed in StagesTyped, SetsTyped, CountsExact and Limits.
RestTyped ==
    /\ direct \subseteq Small /\ overtaken \subseteq Small /\ stray \subseteq Small
    /\ ncq_tag \in [All -> Tag \cup {NoTag}] /\ ncq_tags \in [Device -> SUBSET Tag]
    /\ ncq_running \subseteq Device /\ stop_run_ncq \subseteq Device /\ gone \subseteq Device
    /\ failures \in 0 .. MaxFailures /\ short \in 0 .. MaxShort

\* A disk with a set has a request, and one that is gone has no set.
SetsInUse ==
    /\ \A d \in Owners : \E r \in All : Dev(r) = d /\ stage[r] # "idle"
    /\ \A d \in gone : register_set[d] = NO_REGISTER_SET

RInv == TInv /\ RestTyped /\ SetsInUse

\* The tag a command gets, a free one or none.
LEMMA TagTyped == ASSUME NEW T PROVE FirstFree(T) \in Tag \cup {NoTag}
<1>1. CASE Tag \subseteq T
  BY <1>1 DEF FirstFree
<1>2. CASE ~(Tag \subseteq T)
  <2>1. Tag \ T # {} /\ Tag \ T \subseteq Nat
    BY <1>2 DEF Tag
  <2>2. Min(Tag \ T) \in Tag \ T
    BY <2>1, MinIsElement
  <2> QED BY <1>2, <2>2 DEF FirstFree
<1> QED BY <1>1, <1>2

LEMMA GetTagTyped ==
    ASSUME RestTyped, NEW r \in All, sata_get_ncq_tag(r)
    PROVE  /\ ncq_tag' \in [All -> Tag \cup {NoTag}]
           /\ ncq_tags' \in [Device -> SUBSET Tag]
<1> DEFINE tag == FirstFree(ncq_tags[Dev(r)])
<1>1. tag \in Tag \cup {NoTag}
  BY TagTyped
<1>2. /\ ncq_tag' = [ncq_tag EXCEPT ![r] = tag]
      /\ ncq_tags' = [ncq_tags EXCEPT ![Dev(r)] = @ \cup ({tag} \cap Tag)]
  BY DEF sata_get_ncq_tag
<1> HIDE DEF tag
<1> QED BY <1>1, <1>2 DEF RestTyped

LEMMA CleanTyped ==
    ASSUME RestTyped, NEW d \in Device, NEW R, prot_clean_slot(d, R)
    PROVE  ncq_tags' \in [Device -> SUBSET Tag]
<1>1. ncq_tags' = [ncq_tags EXCEPT ![d] = @ \ {ncq_tag[r] : r \in R \cap Ncq}]
  BY DEF prot_clean_slot
<1> QED BY <1>1 DEF RestTyped

\* What a recovery finds half sent is small: it waits for all other senders.
LEMMA FoundIsSmall ==
    ASSUME RestTyped, CanRecover, NEW d \in Device
    PROVE  Of(d, HalfSent) \subseteq Small /\ Of(d, {"registered"}) \subseteq Small
BY DEF RestTyped, CanRecover, Of, HalfSent

LEMMA MarksTyped ==
    ASSUME RestTyped, NEW r \in All, Marks(r)
    PROVE  ncq_running' \subseteq Device /\ stop_run_ncq' \subseteq Device
<1>1. /\ ncq_running' \subseteq ncq_running \cup {Dev(r)}
      /\ stop_run_ncq' \subseteq stop_run_ncq \cup {Dev(r)}
  BY DEF Marks
<1> QED BY <1>1, DevInDevice DEF RestTyped

LEMMA SendTyped == ASSUME RestTyped, NEW r \in All, Send(r) PROVE RestTyped'
<1>1. CASE Try(r)
  <2>1. /\ direct' \subseteq direct
        /\ UNCHANGED <<overtaken, stray, ncq_tag, ncq_tags, gone, failures, short>>
    BY <1>1 DEF Try, prot_send_request, Refused, history
  <2>2. ncq_running' \subseteq Device /\ stop_run_ncq' \subseteq Device
    <3>1. Marks(r) \/ UNCHANGED <<ncq_running, stop_run_ncq>>
      BY <1>1 DEF Try, prot_send_request, sata_verify_command
    <3> QED BY <3>1, MarksTyped DEF RestTyped
  <2> QED BY <2>1, <2>2 DEF RestTyped
<1>2. CASE TakeSlot(r)
  BY <1>2 DEF TakeSlot, RestTyped, ncq, history
<1>3. CASE NoResource(r)
  BY <1>3, NumberAssumption DEF NoResource, RestTyped, ncq
<1>4. CASE Issue(r)
  <2>1. /\ direct' \subseteq direct
        /\ UNCHANGED <<overtaken, stray, ncq_running, stop_run_ncq, gone, failures, short>>
        /\ sata_get_ncq_tag(r) \/ UNCHANGED <<ncq_tag, ncq_tags>>
    BY <1>4 DEF Issue, history
  <2>2. /\ ncq_tag' \in [All -> Tag \cup {NoTag}]
        /\ ncq_tags' \in [Device -> SUBSET Tag]
    BY <2>1, GetTagTyped DEF RestTyped
  <2> QED BY <2>1, <2>2 DEF RestTyped
<1> QED BY <1>1, <1>2, <1>3, <1>4 DEF Send

LEMMA EndTyped == ASSUME RestTyped, NEW r \in All, Complete(r) \/ Fail(r) PROVE RestTyped'
<1>1. prot_clean_slot(Dev(r), {r})
  BY DEF Complete, Fail
<1>2. ncq_tags' \in [Device -> SUBSET Tag]
  BY <1>1, DevInDevice, CleanTyped
<1>3. /\ UNCHANGED <<direct, overtaken, stray, ncq_tag, ncq_running, stop_run_ncq, gone, short>>
      /\ failures' \in 0 .. MaxFailures
  BY NumberAssumption DEF Complete, Fail, history, RestTyped
<1> QED BY <1>2, <1>3 DEF RestTyped

LEMMA RecoverTyped == ASSUME RestTyped, NEW d \in Device, Recover(d) PROVE RestTyped'
<1>1. CASE Abort(d) \/ GiveUp(d)
  <2>1. /\ CanRecover /\ prot_clean_slot(d, Of(d, {"registered", "issued"}))
        /\ direct' \subseteq direct
        /\ stray' = stray \cup Of(d, {"registered"})
        /\ overtaken' = overtaken \cup Of(d, HalfSent)
        /\ UNCHANGED <<ncq_tag, ncq_running, stop_run_ncq, gone, failures, short>>
    BY <1>1 DEF Abort, GiveUp, TakeBack
  <2>2. ncq_tags' \in [Device -> SUBSET Tag]
    BY <2>1, CleanTyped
  <2>3. stray' \subseteq Small /\ overtaken' \subseteq Small
    BY <2>1, FoundIsSmall DEF RestTyped
  <2> QED BY <2>1, <2>2, <2>3 DEF RestTyped
<1>2. CASE FreeSet(d) \/ pal_set_disk_offline(d)
  BY <1>2 DEF FreeSet, pal_set_disk_offline, RestTyped, ncq, history
<1>3. CASE Recovered(d)
  <2>1. /\ prot_clean_slot(d, {d})
        /\ UNCHANGED <<direct, overtaken, stray, ncq_tag, ncq_running, stop_run_ncq, gone,
                       failures, short>>
    BY <1>3 DEF Recovered, history
  <2>2. ncq_tags' \in [Device -> SUBSET Tag]
    BY <2>1, CleanTyped
  <2> QED BY <2>1, <2>2 DEF RestTyped
<1> QED BY <1>1, <1>2, <1>3 DEF Recover

LEMMA NextTyped == RestTyped /\ [Next]_vars => RestTyped'
<1> SUFFICES ASSUME RestTyped, [Next]_vars PROVE RestTyped'
  OBVIOUS
<1>1. CASE UNCHANGED vars
  BY <1>1 DEF vars, ncq, history, RestTyped
<1>2. ASSUME NEW r \in All, Submit(r) PROVE RestTyped'
  <2>1. /\ direct' \subseteq direct \cup (Small \cap {r})
        /\ UNCHANGED <<ncq, gone, history>>
    BY <1>2 DEF Submit
  <2> QED BY <2>1 DEF RestTyped, ncq, history
<1>3. ASSUME NEW r \in All, Send(r) PROVE RestTyped'
  BY <1>3, SendTyped
<1>4. ASSUME NEW r \in All, Complete(r) \/ Fail(r) PROVE RestTyped'
  BY <1>4, EndTyped
<1>5. ASSUME NEW d \in Device, Recover(d) PROVE RestTyped'
  BY <1>5, RecoverTyped
<1>6. ASSUME NEW r \in stray, StrayGoesOn(r) PROVE RestTyped'
  <2>1. r \in All
    BY RequestAssumption DEF RestTyped, All
  <2>2. /\ stray' \subseteq stray
        /\ UNCHANGED <<direct, overtaken, ncq_running, stop_run_ncq, gone, failures, short>>
        /\ sata_get_ncq_tag(r) \/ UNCHANGED <<ncq_tag, ncq_tags>>
    BY <1>6 DEF StrayGoesOn
  <2>3. /\ ncq_tag' \in [All -> Tag \cup {NoTag}]
        /\ ncq_tags' \in [Device -> SUBSET Tag]
    BY <2>1, <2>2, GetTagTyped DEF RestTyped
  <2> QED BY <2>2, <2>3 DEF RestTyped
<1> QED BY <1>1, <1>2, <1>3, <1>4, <1>5, <1>6 DEF Next

\* A step that concerns disk d only: it leaves the other disks their sets and
\* sends none of their requests home, and if d has a set then, d has a request
\* and is not gone.
LEMMA InUseKept ==
    ASSUME SetsInUse, RestTyped, NEW d \in Device,
           \A e \in Device \ {d} : register_set'[e] = register_set[e],
           \A q \in All : Dev(q) # d /\ stage[q] # "idle" => stage'[q] # "idle",
           gone' \subseteq gone \cup {d},
           register_set'[d] # NO_REGISTER_SET =>
               d \notin gone' /\ \E q \in All : Dev(q) = d /\ stage'[q] # "idle"
    PROVE  SetsInUse'
<1>1. \A q \in All : Dev(q)' = Dev(q)
  BY DEF Dev
<1>2. ASSUME NEW e \in Owners'
      PROVE  \E r \in All : Dev(r)' = e /\ stage'[r] # "idle"
  <2>1. CASE e = d
    BY <1>1, <1>2, <2>1 DEF Owners
  <2>2. CASE e # d
    <3>1. e \in Owners
      BY <1>2, <2>2 DEF Owners
    <3>2. PICK r \in All : Dev(r) = e /\ stage[r] # "idle"
      BY <3>1 DEF SetsInUse
    <3> QED BY <1>1, <2>2, <3>2
  <2> QED BY <2>1, <2>2
<1>3. \A e \in gone' : register_set'[e] = NO_REGISTER_SET
  BY DEF SetsInUse, RestTyped
<1> QED BY <1>2, <1>3 DEF SetsInUse

\* A step that leaves the sets alone and sends no request home.
LEMMA InUseSame ==
    ASSUME SetsInUse, UNCHANGED <<register_set, gone>>,
           \A q \in All : stage[q] # "idle" => stage'[q] # "idle"
    PROVE  SetsInUse'
<1>1. Owners' = Owners /\ \A q \in All : Dev(q)' = Dev(q)
  BY DEF Owners, Dev
<1> QED BY <1>1 DEF SetsInUse

\* An attempt to send gives a set to no other disk, and to its own only if that
\* is there and the request stays.
LEMMA TryInUse == ASSUME RInv, NEW r \in All, Try(r) PROVE SetsInUse'
<1> DEFINE d == Dev(r)
<1>1. d \in Device
  BY DevInDevice
<1>2. /\ IInv /\ StagesTyped /\ SetsInUse /\ RestTyped
  BY DEF RInv, TInv, CInv
<1>3. UNCHANGED gone
  BY DEF Try
<1>4. \A e \in Device \ {d} : register_set'[e] = register_set[e]
  <2>1. UNCHANGED register_set \/ core_get_register_set(d)
    BY DEF Try, prot_send_request, sata_verify_command, sets
  <2> QED BY <1>2, <2>1 DEF core_get_register_set, IInv, SetsTyped
<1>5. \/ /\ d \notin gone \/ UNCHANGED register_set
         /\ \E s \in {"waiting", "counted"} : stage' = [stage EXCEPT ![r] = s]
      \/ /\ d \in gone /\ UNCHANGED register_set
         /\ stage' = [stage EXCEPT ![r] = "idle"]
  BY DEF Try, prot_send_request, Refused, sets
<1>6. \A q \in All : Dev(q) # d => stage'[q] = stage[q]
  BY <1>2, <1>5 DEF StagesTyped
<1>7. ASSUME register_set'[d] # NO_REGISTER_SET
      PROVE  d \notin gone /\ stage'[r] # "idle"
  <2>1. d \notin gone
    BY <1>2, <1>5, <1>7 DEF SetsInUse
  <2> QED BY <1>2, <1>5, <2>1 DEF StagesTyped
<1> QED BY <1>1, <1>2, <1>3, <1>4, <1>6, <1>7, InUseKept

\* A disk that keeps its set when requests end has another one that runs.
LEMMA CleanInUse ==
    ASSUME RInv, CInv', NEW d \in Device, NEW R, R # {}, prot_clean_slot(d, R),
           UNCHANGED gone,
           \A q \in All : Dev(q) # d => stage'[q] = stage[q]
    PROVE  SetsInUse'
<1>1. /\ IInv /\ SetsInUse /\ RestTyped
  BY DEF RInv, TInv, CInv
<1>2. \/ outstanding_req'[d] = 0 /\ register_set' = [register_set EXCEPT ![d] = NO_REGISTER_SET]
      \/ outstanding_req'[d] # 0 /\ UNCHANGED register_set
  BY DEF prot_clean_slot, core_free_register_set, sets
<1>3. \A e \in Device \ {d} : register_set'[e] = register_set[e]
  BY <1>1, <1>2 DEF IInv, SetsTyped
<1>4. ASSUME register_set'[d] # NO_REGISTER_SET
      PROVE  d \notin gone /\ \E q \in All : Dev(q) = d /\ stage'[q] # "idle"
  <2>1. outstanding_req'[d] # 0 /\ UNCHANGED register_set
    BY <1>1, <1>2, <1>4 DEF IInv, SetsTyped
  <2>2. outstanding_req'[d] = Cardinality(Running(d)')
    BY DEF CInv, CountsExact
  <2>3. Running(d)' # {}
    BY <2>1, <2>2, FS_EmptySet
  <2>4. PICK q \in All : Dev(q) = d /\ stage'[q] \in RunningStages
    BY <2>3 DEF Running, Of, Dev
  <2> QED BY <1>1, <1>4, <2>1, <2>4 DEF SetsInUse, RunningStages, HalfSent
<1> QED BY <1>1, <1>3, <1>4, InUseKept

LEMMA EndInUse ==
    ASSUME RInv, NEW r \in All,
           Complete(r) \/ Fail(r) \/ (r \in Device /\ Recovered(r))
    PROVE  SetsInUse'
<1> DEFINE d == Dev(r)
<1>1. d \in Device /\ CInv /\ CInv'
  BY DevInDevice, EndCInv, RecoveredCInv DEF RInv, TInv
<1>2. prot_clean_slot(d, {r}) /\ UNCHANGED gone
  BY DEF Complete, Fail, Recovered, Dev, history
<1>3. \A q \in All : Dev(q) # d => stage'[q] = stage[q]
  BY <1>1 DEF Complete, Fail, Recovered, Of, Dev, CInv, StagesTyped
<1> QED BY <1>1, <1>2, <1>3, CleanInUse

\* An abort sends no request home, and gives no set away.
LEMMA AbortInUse == ASSUME RInv, NEW d \in Device, Abort(d) \/ GiveUp(d) PROVE SetsInUse'
<1> DEFINE R == Of(d, {"registered", "issued"})
<1>1. /\ IInv /\ SetsInUse /\ RestTyped
  BY DEF RInv, TInv, CInv
<1>2. /\ prot_clean_slot(d, R)
      /\ stage' = [r \in All |-> IF r \in R THEN "waiting" ELSE stage[r]]
      /\ UNCHANGED gone
  BY DEF Abort, GiveUp, TakeBack
<1>3. \/ register_set' = [register_set EXCEPT ![d] = NO_REGISTER_SET]
      \/ UNCHANGED register_set
  BY <1>2 DEF prot_clean_slot, core_free_register_set, sets
<1>4. \A q \in All : stage[q] # "idle" => stage'[q] # "idle"
  BY <1>2
<1>5. \A e \in Device \ {d} : register_set'[e] = register_set[e]
  BY <1>1, <1>3 DEF IInv, SetsTyped
<1>6. CASE register_set'[d] = NO_REGISTER_SET
  BY <1>1, <1>2, <1>4, <1>5, <1>6, InUseKept
<1>7. CASE register_set'[d] # NO_REGISTER_SET
  <2>1. UNCHANGED register_set
    BY <1>1, <1>3, <1>7 DEF IInv, SetsTyped
  <2> QED BY <1>1, <1>2, <1>4, <2>1, InUseSame
<1> QED BY <1>6, <1>7

LEMMA FreeInUse ==
    ASSUME RInv, NEW d \in Device, FreeSet(d) \/ pal_set_disk_offline(d)
    PROVE  SetsInUse'
<1>1. /\ IInv /\ StagesTyped /\ SetsInUse /\ RestTyped
  BY DEF RInv, TInv, CInv
<1>2. register_set' = [register_set EXCEPT ![d] = NO_REGISTER_SET]
  <2>1. \/ core_free_register_set(d)
        \/ register_set[d] = NO_REGISTER_SET /\ UNCHANGED register_set
    BY DEF FreeSet, pal_set_disk_offline, sets
  <2> QED BY <1>1, <2>1 DEF core_free_register_set, IInv, SetsTyped
<1>3. \A e \in Device : register_set'[e] = IF e = d THEN NO_REGISTER_SET ELSE register_set[e]
  BY <1>1, <1>2 DEF IInv, SetsTyped
<1>4. /\ \A q \in All : Dev(q) # d => stage'[q] = stage[q]
      /\ gone' \subseteq gone \cup {d}
  BY <1>1 DEF FreeSet, pal_set_disk_offline, StagesTyped, Of, Dev
<1> QED BY <1>1, <1>3, <1>4, InUseKept

LEMMA InitRInv == Init => RInv
<1> SUFFICES ASSUME Init PROVE RInv
  OBVIOUS
<1>1. RestTyped
  BY NumberAssumption DEF Init, RestTyped, Tag
<1>2. SetsInUse
  BY DEF Init, SetsInUse, Owners
<1> QED BY <1>1, <1>2, InitTInv DEF RInv

LEMMA NextRInv == RInv /\ [Next]_vars => RInv'
<1> SUFFICES ASSUME RInv, [Next]_vars PROVE SetsInUse'
  BY NextTInv, NextTyped DEF RInv
<1> USE DEF RInv
<1>0. StagesTyped
  BY DEF TInv, CInv
<1>1. CASE UNCHANGED vars
  BY <1>1, InUseSame DEF vars, sets
<1>2. ASSUME NEW r \in All, Submit(r) PROVE SetsInUse'
  <2>1. /\ UNCHANGED <<register_set, gone>>
        /\ \E s \in {"direct", "waiting"} : stage' = [stage EXCEPT ![r] = s]
    BY <1>2 DEF Submit, sets
  <2>2. \A q \in All : stage[q] # "idle" => stage'[q] # "idle"
    BY <1>0, <2>1 DEF StagesTyped
  <2> QED BY <2>1, <2>2, InUseSame
<1>3. ASSUME NEW r \in All, TakeSlot(r) \/ NoResource(r) \/ Issue(r) PROVE SetsInUse'
  <2>1. /\ UNCHANGED <<register_set, gone>>
        /\ \E s \in {"registered", "waiting", "issued"} : stage' = [stage EXCEPT ![r] = s]
    BY <1>3 DEF TakeSlot, NoResource, Issue, sets
  <2>2. \A q \in All : stage[q] # "idle" => stage'[q] # "idle"
    BY <1>0, <2>1 DEF StagesTyped
  <2> QED BY <2>1, <2>2, InUseSame
<1>4. ASSUME NEW r \in All, Complete(r) \/ Fail(r) PROVE SetsInUse'
  BY <1>4, EndInUse
<1>5. ASSUME NEW d \in Device, Recover(d) PROVE SetsInUse'
  BY <1>5, AbortInUse, FreeInUse, EndInUse DEF Recover, All
<1>6. ASSUME NEW r \in stray, StrayGoesOn(r) PROVE SetsInUse'
  BY <1>6, InUseSame DEF StrayGoesOn, sets
<1> QED BY <1>1, <1>2, <1>3, <1>4, <1>5, <1>6, TryInUse DEF Next, Send

\* The variables have their types, and a disk with nothing to do keeps no set
\* from the others (prot_release_sata_register_set, core_protocol.c:761-800): not
\* after a request that got a set and was held off or found no slot, nor when the
\* last one is taken back, for any number of disks, sets and requests.
THEOREM NoSetKeptIdle == Spec => []SetsReturned
<1>1. RInv => TypeOK
  <2> SUFFICES ASSUME RInv PROVE TypeOK
    OBVIOUS
  <2>1. outstanding_req \in [Device -> 0 .. queue_depth]
    BY NumberAssumption DEF RInv, TInv, CInv, CountsExact, Limits
  <2> QED BY <2>1 DEF RInv, TInv, CInv, IInv, SetsTyped, StagesTyped, RestTyped,
                      RunningStages, TypeOK
<1>2. RInv => \A d \in Owners : Of(d, HalfSent \cup {"direct", "waiting", "failed", "issued"}) # {}
  <2> SUFFICES ASSUME RInv, NEW d \in Owners
               PROVE  \E r \in All : /\ Dev(r) = d
                                     /\ stage[r] \in HalfSent \cup {"direct", "waiting", "failed", "issued"}
    BY DEF Of
  <2>1. PICK r \in All : Dev(r) = d /\ stage[r] # "idle"
    BY DEF RInv, SetsInUse
  <2> QED BY <2>1 DEF RInv, TInv, CInv, StagesTyped, RunningStages
<1>3. RInv => SetsReturned
  BY <1>1, <1>2 DEF SetsReturned
<1> QED BY <1>3, InitRInv, NextRInv, PTL DEF Spec
=============================================================================
