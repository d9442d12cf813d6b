---------------------------- MODULE HbaTimer_proofs ----------------------------
(***************************************************************************)
(* For any number of timer slots and any callers: the fields stay in range,*)
(* and a slot is in the tag pool, once, exactly when it carries no timer.  *)
(* In particular Tag_ReleaseOne never overfills the pool and no slot is    *)
(* given to two callers, although a cancel by a stale index and the release*)
(* at the end of Timer_CheckRequest race for it: both look at Valid first. *)
(***************************************************************************)
EXTENDS HbaTimer, SequenceTheorems, TLAPS

IInv == TimerTypeOK /\ PoolIsFreeSlots

SlotRecords == [Valid : BOOLEAN, left : -1..MaxUnits,
                ctx1 : Contexts1 \cup {None}, ctx2 : Contexts2 \cup {None}]
CheckRecords == [at : CheckStates, i : Slots,
                 ctx1 : Contexts1 \cup {None}, ctx2 : Contexts2 \cup {None}]

-----------------------------------------------------------------------------
\* Slot numbers are numbers, and NO_CURRENT_TIMER is none of them.
LEMMA SlotNumbers == Slots \subseteq Nat /\ None \notin Slots /\ 0 \in Slots
  BY NumberAssumption, NoneAssumption DEF Slots

\* What the removal of the last tag leaves.
LEMMA FrontOfPool ==
    ASSUME NEW S, NEW s \in Seq(S), s # <<>>
    PROVE  /\ Front(s) \in Seq(S)
           /\ Len(s) \in Nat \ {0} /\ Len(Front(s)) = Len(s) - 1
           /\ Last(s) = s[Len(s)] /\ Last(s) \in S
           /\ \A k \in 1..Len(s)-1 : Front(s)[k] = s[k]
<1>1. Len(s) \in Nat \ {0}
  BY EmptySeq, LenProperties
<1>2. Last(s) = s[Len(s)] /\ Last(s) \in S
  BY <1>1, ElementOfSeq DEF Last
<1>3. Front(s) = SubSeq(s, 1, Len(s) - 1)
  BY DEF Front
<1>4. /\ Front(s) \in Seq(S) /\ Len(Front(s)) = Len(s) - 1
      /\ \A k \in 1..Len(s)-1 : Front(s)[k] = s[k]
  <2>1. \A i \in 1..Len(s)-1 : s[i] \in S
    BY <1>1, ElementOfSeq
  <2>2. 1 \in Int /\ Len(s) - 1 \in Int /\ (Len(s) - 1) - 1 + 1 = Len(s) - 1
    BY <1>1
  <2> DEFINE m == Len(s) - 1
             t == SubSeq(s, 1, m)
  <2>3. /\ t \in Seq(S) /\ Len(t) = IF 1 <= m THEN m - 1 + 1 ELSE 0
        /\ \A i \in 1..m-1+1 : t[i] = s[1+i-1]
    <3> HIDE DEF m
    <3> QED
      BY <2>1, <2>2, SubSeqProperties DEF m
  <2>4. Front(s) = t
    BY <1>3
  <2> HIDE DEF t
  <2> QED
    BY <1>1, <2>3, <2>4
<1> QED
  BY <1>1, <1>2, <1>4

\* Where Timer_CheckRequest goes from a slot.
LEMMA StepPastType ==
    ASSUME NEW i \in Slots, StepPast(i)
    PROVE  check' \in CheckRecords
<1>1. CASE i + 1 < Timer_Request_Number
  <2>1. check' = ScanAt(i + 1) /\ i + 1 \in Slots
    BY <1>1, NumberAssumption DEF StepPast, Slots
  <2> QED
    BY <2>1 DEF ScanAt, Asleep, CheckRecords, CheckStates
<1>2. CASE ~(i + 1 < Timer_Request_Number)
  <2>1. check' = Asleep
    BY <1>2 DEF StepPast
  <2> QED
    BY <2>1, SlotNumbers DEF Asleep, CheckRecords, CheckStates
<1> QED
  BY <1>1, <1>2

-----------------------------------------------------------------------------
\* At first every slot is free.
LEMMA InitIInv == Init => IInv
<1> SUFFICES ASSUME Init PROVE IInv
  OBVIOUS
<1> USE NumberAssumption
<1>1. Len(Tag_Pool) = Timer_Request_Number /\ Tag_Pool \in Seq(Slots)
  BY DEF Init, Slots
<1>2. \A k \in 1..Timer_Request_Number : Tag_Pool[k] = Timer_Request_Number - k
  BY DEF Init
<1>3. \A i \in Slots :
        Running_Requests[i] = [Valid |-> FALSE, left |-> 0, ctx1 |-> None, ctx2 |-> None]
  BY DEF Init
<1>4. Running_Requests \in [Slots -> SlotRecords]
  <2>1. [Valid |-> FALSE, left |-> 0, ctx1 |-> None, ctx2 |-> None] \in SlotRecords
    BY UnitsAssumption DEF SlotRecords
  <2> QED
    BY <2>1 DEF Init
<1>5. check \in CheckRecords
  BY SlotNumbers DEF Init, Asleep, CheckRecords, CheckStates
<1>6. \A j, k \in 1..Len(Tag_Pool) : Tag_Pool[j] = Tag_Pool[k] => j = k
  BY <1>1, <1>2
<1>7. \A i \in Slots : \E k \in 1..Len(Tag_Pool) : Tag_Pool[k] = i
  <2> SUFFICES ASSUME NEW i \in Slots PROVE \E k \in 1..Len(Tag_Pool) : Tag_Pool[k] = i
    OBVIOUS
  <2>1. Timer_Request_Number - i \in 1..Timer_Request_Number
    BY DEF Slots
  <2>2. Tag_Pool[Timer_Request_Number - i] = i
    BY <1>2, <2>1 DEF Slots
  <2> QED
    BY <1>1, <2>1, <2>2
<1>8. PoolIsFreeSlots
  BY <1>3, <1>6, <1>7 DEF PoolIsFreeSlots
<1> QED
  BY <1>1, <1>4, <1>5, <1>8 DEF IInv, TimerTypeOK, SlotRecords, CheckRecords

\* Adding a timer takes the last tag, and makes its slot valid.
LEMMA AddIInv ==
    ASSUME IInv, NEW time_unit \in 0..MaxUnits, NEW c1 \in Contexts1, NEW c2 \in Contexts2,
           AddRequest(time_unit, c1, c2)
    PROVE  IInv'
<1>1. CASE Tag_Pool = <<>>
  BY <1>1 DEF AddRequest, IInv, TimerTypeOK, PoolIsFreeSlots
<1>2. CASE Tag_Pool # <<>>
  <2> DEFINE s == Tag_Pool[Len(Tag_Pool)]
             new == [Valid |-> TRUE, left |-> time_unit, ctx1 |-> c1, ctx2 |-> c2]
  <2>1. Tag_Pool \in Seq(Slots) /\ Running_Requests \in [Slots -> SlotRecords]
    BY DEF IInv, TimerTypeOK, SlotRecords
  <2>2. /\ Tag_Pool' = Front(Tag_Pool)
        /\ Running_Requests' = [Running_Requests EXCEPT ![NextSlot] = new]
        /\ check' = check
    BY <1>2 DEF AddRequest
  <2>3. /\ Tag_Pool' \in Seq(Slots)
        /\ Len(Tag_Pool) \in Nat \ {0} /\ Len(Tag_Pool') = Len(Tag_Pool) - 1
        /\ NextSlot = s /\ s \in Slots
        /\ \A k \in 1..Len(Tag_Pool)-1 : Tag_Pool'[k] = Tag_Pool[k]
    BY <1>2, <2>1, <2>2, FrontOfPool DEF NextSlot
  <2>4. new \in SlotRecords
    BY UnitsAssumption DEF SlotRecords
  <2>5. Running_Requests' \in [Slots -> SlotRecords]
    BY <2>1, <2>2, <2>3, <2>4
  <2>6. \A i \in Slots : Running_Requests'[i] = IF i = s THEN new ELSE Running_Requests[i]
    BY <2>1, <2>2, <2>3
  <2>7. \A i \in Slots :
          Running_Requests'[i].Valid <=> i = s \/ Running_Requests[i].Valid
    BY <2>6
  <2>8. TimerTypeOK'
    BY <2>2, <2>3, <2>5 DEF IInv, TimerTypeOK, SlotRecords
  <2>9. \A j, k \in 1..Len(Tag_Pool) : Tag_Pool[j] = Tag_Pool[k] => j = k
    BY DEF IInv, PoolIsFreeSlots
  <2>10. \A i \in Slots :
           (\A k \in 1..Len(Tag_Pool') : Tag_Pool'[k] # i)
             <=> i = s \/ \A k \in 1..Len(Tag_Pool) : Tag_Pool[k] # i
    <3> DEFINE n == Len(Tag_Pool)
    <3>1. n \in 1..n /\ n \in Nat /\ \A k \in 1..n : k = n \/ k \in 1..n-1
      BY <2>3
    <3>2. \A k \in 1..n-1 : k \in 1..n /\ k # n
      BY <2>3
    <3>3. \A k \in 1..n-1 : Tag_Pool[k] # s
      BY <2>9, <3>1, <3>2
    <3>4. \A k \in 1..n : k = n \/ Tag_Pool[k] = Tag_Pool'[k]
      BY <2>3, <3>1
    <3>5. 1..Len(Tag_Pool') = 1..n-1
      BY <2>3
    <3> HIDE DEF n
    <3>6. Tag_Pool[n] = s
      BY DEF n
    <3> HIDE DEF s
    <3>7. \A k \in 1..n-1 : Tag_Pool'[k] = Tag_Pool[k]
      BY <2>3 DEF n
    <3>8. 1..n = 1..Len(Tag_Pool)
      BY DEF n
    <3> QED BY <3>1, <3>2, <3>3, <3>5, <3>6, <3>7, <3>8
  <2>11. \A j, k \in 1..Len(Tag_Pool') : Tag_Pool'[j] = Tag_Pool'[k] => j = k
    BY <2>3, <2>9
  <2>12. \A i \in Slots :
           Running_Requests[i].Valid <=> \A k \in 1..Len(Tag_Pool) : Tag_Pool[k] # i
    BY DEF IInv, PoolIsFreeSlots
  <2>13. PoolIsFreeSlots'
    BY <2>7, <2>10, <2>11, <2>12, Zenon DEF PoolIsFreeSlots
  <2> QED
    BY <2>8, <2>13 DEF IInv
<1> QED
  BY <1>1, <1>2

\* Releasing the slot of a timer puts it back into the pool.
LEMMA ReleasePool ==
    ASSUME IInv, NEW s \in Slots, Running_Requests[s].Valid, Release(s)
    PROVE  /\ Tag_Pool' \in Seq(Slots)
           /\ Running_Requests' \in [Slots -> SlotRecords]
           /\ PoolIsFreeSlots'
<1>1. Tag_Pool \in Seq(Slots) /\ Running_Requests \in [Slots -> SlotRecords]
  BY DEF IInv, TimerTypeOK, SlotRecords
<1>2. /\ Tag_Pool' \in Seq(Slots) /\ Len(Tag_Pool) \in Nat
      /\ Len(Tag_Pool') = Len(Tag_Pool) + 1 /\ Tag_Pool'[Len(Tag_Pool) + 1] = s
      /\ \A k \in 1..Len(Tag_Pool) : Tag_Pool'[k] = Tag_Pool[k]
  BY <1>1 DEF Release
<1>3. Running_Requests' =
        [Running_Requests EXCEPT ![s] = [Running_Requests[s] EXCEPT !.Valid = FALSE, !.left = 0]]
  <2> DEFINE f == [Running_Requests EXCEPT ![s].Valid = FALSE]
  <2>1. Running_Requests' = [f EXCEPT ![s].left = 0]
    BY DEF Release
  <2>2. f = [Running_Requests EXCEPT ![s] = [Running_Requests[s] EXCEPT !.Valid = FALSE]]
    BY <1>1
  <2>3. Running_Requests' = [f EXCEPT ![s] = [f[s] EXCEPT !.left = 0]]
    BY <1>1, <2>1
  <2>4. f[s] = [Running_Requests[s] EXCEPT !.Valid = FALSE]
    BY <1>1, <2>2
  <2>5. [f[s] EXCEPT !.left = 0] = [Running_Requests[s] EXCEPT !.Valid = FALSE, !.left = 0]
    BY <1>1, <2>4 DEF SlotRecords
  <2> HIDE DEF f
  <2> QED
    BY <1>1, <2>2, <2>3, <2>5
<1>4. [Running_Requests[s] EXCEPT !.Valid = FALSE, !.left = 0] \in SlotRecords
  <2>1. Running_Requests[s] \in SlotRecords /\ 0 \in -1..MaxUnits
    BY <1>1, UnitsAssumption
  <2> QED
    BY <2>1 DEF SlotRecords
<1>5. Running_Requests' \in [Slots -> SlotRecords]
  BY <1>1, <1>3, <1>4
<1>6. \A i \in Slots : i # s => Running_Requests'[i] = Running_Requests[i]
  BY <1>1, <1>3
<1>7. Running_Requests'[s].Valid = FALSE
  <2>1. Running_Requests'[s] = [Running_Requests[s] EXCEPT !.Valid = FALSE, !.left = 0]
    BY <1>1, <1>3
  <2> QED
    BY <1>1, <2>1 DEF SlotRecords
<1>8. /\ \A j, k \in 1..Len(Tag_Pool) : Tag_Pool[j] = Tag_Pool[k] => j = k
      /\ \A i \in Slots :
           Running_Requests[i].Valid <=> \A k \in 1..Len(Tag_Pool) : Tag_Pool[k] # i
  BY DEF IInv, PoolIsFreeSlots
<1>9. \A k \in 1..Len(Tag_Pool) : Tag_Pool[k] # s
  BY <1>8
<1>10. \A j, k \in 1..Len(Tag_Pool') : Tag_Pool'[j] = Tag_Pool'[k] => j = k
  BY <1>2, <1>8, <1>9
<1>11. \A i \in Slots :
         (\A k \in 1..Len(Tag_Pool') : Tag_Pool'[k] # i)
           <=> i # s /\ \A k \in 1..Len(Tag_Pool) : Tag_Pool[k] # i
  BY <1>2
<1>12. \A i \in Slots :
         Running_Requests'[i].Valid <=> i # s /\ Running_Requests[i].Valid
  BY <1>6, <1>7
<1>13. PoolIsFreeSlots'
  BY <1>8, <1>10, <1>11, <1>12, Zenon DEF PoolIsFreeSlots
<1> QED
  BY <1>2, <1>5, <1>13

\* Cancelling releases a slot only if its timer is still running.
LEMMA CancelIInv ==
    ASSUME IInv, NEW i, CancelRequest(i)
    PROVE  IInv'
<1>1. CASE Cancellable(i)
  <2>1. i \in Slots /\ Running_Requests[i].Valid /\ Release(i) /\ check' = check
    BY <1>1 DEF CancelRequest, Cancellable
  <2> QED
    BY <2>1, ReleasePool DEF IInv, TimerTypeOK, SlotRecords
<1>2. CASE ~Cancellable(i)
  BY <1>2 DEF CancelRequest, IInv, TimerTypeOK, PoolIsFreeSlots
<1> QED
  BY <1>1, <1>2

-----------------------------------------------------------------------------
\* A tick lets time pass for the timers that run.
LEMMA TickIInv == IInv /\ Tick => IInv'
<1> SUFFICES ASSUME IInv, Tick PROVE IInv'
  OBVIOUS
<1>1. Running_Requests \in [Slots -> SlotRecords]
  BY DEF IInv, TimerTypeOK, SlotRecords
<1>2. \A i \in Slots :
        Running_Requests'[i] \in SlotRecords
        /\ Running_Requests'[i].Valid = Running_Requests[i].Valid
  <2> SUFFICES ASSUME NEW i \in Slots
               PROVE  Running_Requests'[i] \in SlotRecords
                      /\ Running_Requests'[i].Valid = Running_Requests[i].Valid
    OBVIOUS
  <2>1. CASE Running_Requests[i].Valid /\ Running_Requests[i].left >= 0
    <3>1. Running_Requests'[i] =
            [Running_Requests[i] EXCEPT !.left =
               IF Running_Requests[i].left >= UnitsPerTick
               THEN Running_Requests[i].left - UnitsPerTick ELSE -1]
      BY <2>1 DEF Tick
    <3>2. (IF Running_Requests[i].left >= UnitsPerTick
           THEN Running_Requests[i].left - UnitsPerTick ELSE -1) \in -1..MaxUnits
      BY <1>1, <2>1, UnitsAssumption DEF SlotRecords
    <3> QED
      BY <1>1, <3>1, <3>2 DEF SlotRecords
  <2>2. CASE ~(Running_Requests[i].Valid /\ Running_Requests[i].left >= 0)
    <3>1. Running_Requests'[i] = Running_Requests[i]
      BY <2>2 DEF Tick
    <3> QED
      BY <1>1, <3>1
  <2> QED
    BY <2>1, <2>2
<1>3. Running_Requests' \in [Slots -> SlotRecords]
  BY <1>2 DEF Tick
<1>4. check' \in CheckRecords
  BY SlotNumbers DEF Tick, ScanAt, Asleep, CheckRecords, CheckStates
<1>5. TimerTypeOK'
  BY <1>3, <1>4 DEF Tick, IInv, TimerTypeOK, SlotRecords, CheckRecords
<1>6. PoolIsFreeSlots'
  BY <1>2 DEF Tick, IInv, PoolIsFreeSlots
<1> QED
  BY <1>5, <1>6 DEF IInv

\* Looking at a slot, and reading the arguments of its routine.
LEMMA LookIInv ==
    ASSUME IInv, LookAtSlot \/ ReadContext1 \/ ReadContext2
    PROVE  IInv'
<1>1. check \in CheckRecords /\ check.i \in Slots
  BY DEF IInv, TimerTypeOK, CheckRecords
<1>2. Running_Requests[check.i].ctx1 \in Contexts1 \cup {None}
      /\ Running_Requests[check.i].ctx2 \in Contexts2 \cup {None}
  <2>1. Running_Requests[check.i] \in SlotRecords
    BY <1>1 DEF IInv, TimerTypeOK, SlotRecords
  <2> QED
    BY <2>1 DEF SlotRecords
<1>3. check' \in CheckRecords
  <2>1. CASE LookAtSlot
    <3>1. CASE IsDue(check.i)
      BY <1>1, <2>1, <3>1 DEF LookAtSlot, CheckRecords, CheckStates
    <3>2. CASE ~IsDue(check.i)
      BY <1>1, <2>1, <3>2, StepPastType DEF LookAtSlot
    <3> QED
      BY <3>1, <3>2
  <2>2. CASE ReadContext1
    BY <1>1, <1>2, <2>2 DEF ReadContext1, CheckRecords, CheckStates
  <2>3. CASE ReadContext2
    BY <1>1, <1>2, <2>3 DEF ReadContext2, CheckRecords, CheckStates
  <2> QED
    BY <2>1, <2>2, <2>3
<1>4. UNCHANGED <<Tag_Pool, Running_Requests>>
  BY DEF LookAtSlot, ReadContext1, ReadContext2
<1> QED
  BY <1>3, <1>4 DEF IInv, TimerTypeOK, PoolIsFreeSlots, CheckRecords

\* The release after the routine, of whatever timer the slot holds by then.
LEMMA ReturnIInv == IInv /\ Return => IInv'
<1> SUFFICES ASSUME IInv, Return PROVE IInv'
  OBVIOUS
<1>1. check.i \in Slots
  BY DEF IInv, TimerTypeOK
<1>2. check' \in CheckRecords
  BY <1>1, StepPastType DEF Return
<1>3. CASE Running_Requests[check.i].Valid
  <2>1. Release(check.i)
    BY <1>3 DEF Return
  <2> QED
    BY <1>1, <1>2, <1>3, <2>1, ReleasePool DEF IInv, TimerTypeOK, SlotRecords, CheckRecords
<1>4. CASE ~Running_Requests[check.i].Valid
  <2>1. UNCHANGED <<Tag_Pool, Running_Requests>>
    BY <1>4 DEF Return
  <2> QED
    BY <1>2, <2>1 DEF IInv, TimerTypeOK, PoolIsFreeSlots, CheckRecords
<1> QED
  BY <1>3, <1>4

\* The invariant holds in every reachable state.
LEMMA Inductive == Spec => []IInv
<1>1. IInv /\ [Next]_timerVars => IInv'
  <2> SUFFICES ASSUME IInv, [Next]_timerVars PROVE IInv'
    OBVIOUS
  <2>1. CASE CheckRequest
    BY <2>1, TickIInv, LookIInv, ReturnIInv DEF CheckRequest
  <2>2. CASE \E n \in 0..MaxUnits, c1 \in Contexts1, c2 \in Contexts2 : AddRequest(n, c1, c2)
    BY <2>2, AddIInv
  <2>3. CASE \E i \in Slots \cup {None} : CancelRequest(i)
    BY <2>3, CancelIInv
  <2>4. CASE UNCHANGED timerVars
    BY <2>4 DEF timerVars, IInv, TimerTypeOK, PoolIsFreeSlots
  <2> QED
    BY <2>1, <2>2, <2>3, <2>4 DEF Next
<1> QED
  BY InitIInv, <1>1, PTL DEF Spec

\* Slot numbers, times and the arguments of the routine stay in range.
THEOREM TypeCorrect == Spec => []TimerTypeOK
<1>1. IInv => TimerTypeOK
  BY DEF IInv
<1> QED
  BY Inductive, <1>1, PTL

\* No slot leaks out of the pool, is in it twice, or is in it while it carries
\* a timer, whatever the callers cancel.
THEOREM PoolSound == Spec => []PoolIsFreeSlots
<1>1. IInv => PoolIsFreeSlots
  BY DEF IInv
<1> QED
  BY Inductive, <1>1, PTL
=============================================================================
