---------------------------- MODULE ReqTimer_proofs ----------------------------
(***************************************************************************)
(* For any number of devices, requests and timer slots as                  *)
(* Timer_GetRequestCount reserves them.  As long as no request completes   *)
(* too late, every device with requests outstanding is watched by a timer  *)
(* for the oldest of them, which alone times it out, and no timer is left  *)
(* over.                                                                   *)
(* After late completions, as many as there are spare slots, a device's    *)
(* timer still is for the oldest request, and there is a slot for it.      *)
(***************************************************************************)
EXTENDS ReqTimer, SequenceTheorems, FiniteSetTheorems, TLAPS

TimerProofs == INSTANCE HbaTimer_proofs WITH Contexts1 <- Device, Contexts2 <- Request

PoolOK == Timer!TimerTypeOK /\ Timer!PoolIsFreeSlots

\* What the core adds to the timers; a list is locked only while requests are
\* left on it.
CoreOK ==
    /\ sent_req_list \in [Device -> Seq(Request)]
    /\ timer_id \in [Device -> Timer!Slots \cup {None}]
    /\ renew \in [Device -> 0..MaxUnits \cup {None}]
    /\ answered \in BOOLEAN
    /\ overlaps \in 0..MaxOverlap /\ late_erase \in BOOLEAN
    /\ \A d \in Device : ~Unlocked(d) => sent_req_list[d] # <<>>

Base == PoolOK /\ CoreOK

Valid(i) == Running_Requests[i].Valid

\* Device d has a timer, which is for the oldest of its requests.
OwnTimer(d) ==
    /\ timer_id[d] \in Timer!Slots
    /\ Valid(timer_id[d])
    /\ Running_Requests[timer_id[d]].ctx1 = d
    /\ Running_Requests[timer_id[d]].ctx2 = Head(sent_req_list[d])

Served ==
    \A d \in Device : IF Unlocked(d) /\ sent_req_list[d] # <<>>
                      THEN OwnTimer(d) ELSE timer_id[d] = None

\* Timer_CheckRequest is about to release slot i.
Handled(i) == check.at = "called" /\ answered /\ check.i = i

Owned ==
    \A i \in Timer!Slots : Valid(i) => Handled(i) \/ \E d \in Device : timer_id[d] = i

\* What Timer_CheckRequest has read is what the slot holds, until the routine
\* has done its work; then the slot is nobody's.
CheckedSlot ==
    LET slot == Running_Requests[check.i]
    IN  /\ answered => check.at = "called" /\ \A d \in Device : timer_id[d] # check.i
        /\ check.at \in {"asleep", "scan"} => check.ctx1 = None /\ check.ctx2 = None
        /\ check.at \in {"due", "called"} => slot.Valid
        /\ check.at = "due" => /\ check.ctx1 \in {None, slot.ctx1}
                               /\ check.ctx2 \in {None, slot.ctx2}
        /\ check.at = "called" /\ ~answered => check.ctx1 = slot.ctx1 /\ check.ctx2 = slot.ctx2

OnTime == Served /\ Owned /\ CheckedSlot

IInv == Base /\ (overlaps = 0 => OnTime)

-----------------------------------------------------------------------------
\* The assumptions of HbaTimer hold of what the core passes to it.
LEMMA TimerAssumptions ==
    /\ Timer_Request_Number \in Nat \ {0}
    /\ UnitsPerTick \in Nat \ {0} /\ MaxUnits \in Nat
    /\ None \notin Device \cup Request \cup 0..Timer_Request_Number-1
<1>1. Cardinality(Device) \in Nat
  BY SlotsAssumption, FS_CardinalityType
<1>2. Timer_Request_Number \in Nat \ {0}
  BY <1>1, SlotsAssumption
<1>3. None \notin Device \cup Request \cup 0..Timer_Request_Number-1
  BY NoneAssumption
<1> QED BY <1>2, <1>3, TimeOutAssumption

LEMMA SlotNumbers == Timer!Slots = 0..Timer_Request_Number-1 /\ None \notin Timer!Slots
  BY TimerAssumptions DEF Timer!Slots

LEMMA SlotsFinite ==
    /\ IsFiniteSet(Timer!Slots) /\ Cardinality(Timer!Slots) = Timer_Request_Number
    /\ Timer_Request_Number \in Nat
<1>1. Timer_Request_Number \in Nat \ {0} /\ Timer_Request_Number - 1 \in Int
  BY TimerAssumptions
<1>2. /\ IsFiniteSet(0..Timer_Request_Number-1)
      /\ Cardinality(0..Timer_Request_Number-1) =
           IF 0 > Timer_Request_Number-1 THEN 0 ELSE Timer_Request_Number-1-0+1
  BY <1>1, FS_Interval
<1> QED BY <1>1, <1>2, SlotNumbers

\* The invariant HbaTimer_proofs proves of the timers.
LEMMA SamePool == (PoolOK <=> TimerProofs!IInv) /\ (PoolOK' <=> TimerProofs!IInv')
<1>1. PoolOK <=> TimerProofs!IInv
  BY DEF PoolOK, Timer!TimerTypeOK, Timer!PoolIsFreeSlots, Timer!Slots, Timer!CheckStates,
         TimerProofs!IInv, TimerProofs!TimerTypeOK, TimerProofs!PoolIsFreeSlots,
         TimerProofs!Slots, TimerProofs!CheckStates
<1> QED BY <1>1, PTL

\* What HbaTimer_proofs says of each operation.
LEMMA AddPool ==
    ASSUME PoolOK, NEW n \in 0..MaxUnits, NEW d \in Device, NEW r \in Request,
           Timer!AddRequest(n, d, r)
    PROVE  PoolOK'
<1>1. TimerProofs!AddRequest(n, d, r)
  BY DEF Timer!AddRequest, Timer!NextSlot, Timer!Front, Timer!Last,
         TimerProofs!AddRequest, TimerProofs!NextSlot, TimerProofs!Front, TimerProofs!Last
<1> QED BY <1>1, SamePool, TimerProofs!AddIInv, TimerAssumptions

LEMMA CancelPool ==
    ASSUME PoolOK, NEW i, Timer!CancelRequest(i)
    PROVE  PoolOK'
<1>1. TimerProofs!CancelRequest(i)
  BY DEF Timer!CancelRequest, Timer!Cancellable, Timer!Slots, Timer!Release,
         TimerProofs!CancelRequest, TimerProofs!Cancellable, TimerProofs!Slots, TimerProofs!Release
<1> QED BY <1>1, SamePool, TimerProofs!CancelIInv, TimerAssumptions

LEMMA TickPool == ASSUME PoolOK, Timer!Tick PROVE PoolOK'
<1>1. TimerProofs!Tick
  BY DEF Timer!Tick, Timer!ScanAt, Timer!Asleep, Timer!Slots,
         TimerProofs!Tick, TimerProofs!ScanAt, TimerProofs!Asleep, TimerProofs!Slots
<1> QED BY <1>1, SamePool, TimerProofs!TickIInv, TimerAssumptions

LEMMA LookPool ==
    ASSUME PoolOK, Timer!LookAtSlot \/ Timer!ReadContext1 \/ Timer!ReadContext2
    PROVE  PoolOK'
<1>1. TimerProofs!LookAtSlot \/ TimerProofs!ReadContext1 \/ TimerProofs!ReadContext2
  BY DEF Timer!LookAtSlot, Timer!ReadContext1, Timer!ReadContext2, Timer!IsDue,
         Timer!StepPast, Timer!ScanAt, Timer!Asleep,
         TimerProofs!LookAtSlot, TimerProofs!ReadContext1, TimerProofs!ReadContext2,
         TimerProofs!IsDue, TimerProofs!StepPast, TimerProofs!ScanAt, TimerProofs!Asleep
<1> QED BY <1>1, SamePool, TimerProofs!LookIInv, TimerAssumptions

LEMMA ReturnPool == ASSUME PoolOK, Timer!Return PROVE PoolOK'
<1>1. TimerProofs!Return
  BY DEF Timer!Return, Timer!Release, Timer!StepPast, Timer!ScanAt, Timer!Asleep,
         TimerProofs!Return, TimerProofs!Release, TimerProofs!StepPast, TimerProofs!ScanAt,
         TimerProofs!Asleep
<1> QED BY <1>1, SamePool, TimerProofs!ReturnIInv, TimerAssumptions

-----------------------------------------------------------------------------
\* Timer_AddRequest hands out a slot that carries no timer, if there is one.
LEMMA NextSlotFree ==
    ASSUME PoolOK
    PROVE  IF Tag_Pool = <<>>
           THEN Timer!NextSlot = None /\ \A i \in Timer!Slots : Valid(i)
           ELSE Timer!NextSlot \in Timer!Slots /\ ~Valid(Timer!NextSlot)
<1>1. CASE Tag_Pool = <<>>
  BY <1>1 DEF PoolOK, Timer!PoolIsFreeSlots, Timer!NextSlot, Valid
<1>2. CASE Tag_Pool # <<>>
  <2>1. Tag_Pool \in Seq(Timer!Slots)
    BY DEF PoolOK, Timer!TimerTypeOK
  <2>2. Len(Tag_Pool) \in 1..Len(Tag_Pool)
    BY <1>2, <2>1, EmptySeq, LenProperties
  <2>3. Timer!NextSlot = Tag_Pool[Len(Tag_Pool)]
    BY <1>2 DEF Timer!NextSlot, Timer!Last
  <2>4. Timer!NextSlot \in Timer!Slots
    BY <2>1, <2>2, <2>3, ElementOfSeq
  <2> QED
    BY <1>2, <2>2, <2>3, <2>4 DEF PoolOK, Timer!PoolIsFreeSlots, Valid
<1> QED BY <1>1, <1>2

\* A list with one more request keeps its oldest one.
LEMMA HeadOfAppend ==
    ASSUME NEW s \in Seq(Request), NEW r \in Request
    PROVE  /\ Append(s, r) # <<>>
           /\ s = <<>> => Head(Append(s, r)) = r
           /\ s # <<>> => Head(Append(s, r)) = Head(s)
<1> DEFINE t == Append(s, r)
<1>1. /\ t \in Seq(Request) /\ Len(t) = Len(s) + 1 /\ t # <<>>
      /\ \A i \in 1..Len(s) : t[i] = s[i]
      /\ t[Len(s) + 1] = r
  BY AppendProperties
<1>2. Len(s) \in Nat /\ (s = <<>> => Len(s) = 0) /\ (s # <<>> => 1 \in 1..Len(s) /\ Head(s) = s[1])
  BY EmptySeq, LenProperties
<1> HIDE DEF t
<1>3. Head(t) = t[1]
  BY <1>1
<1>4. /\ s = <<>> => Head(t) = r
      /\ s # <<>> => Head(t) = Head(s)
  BY <1>1, <1>2, <1>3
<1> QED BY <1>1, <1>4 DEF t

\* The list without its k-th request.
LEMMA RemoveAtProperties ==
    ASSUME NEW s \in Seq(Request), NEW k \in 1..Len(s)
    PROVE  /\ RemoveAt(s, k) \in Seq(Request)
           /\ Len(RemoveAt(s, k)) = Len(s) - 1
           /\ k # 1 => RemoveAt(s, k) # <<>> /\ Head(RemoveAt(s, k)) = Head(s)
<1> DEFINE a == SubSeq(s, 1, k-1)
           b == SubSeq(s, k+1, Len(s))
<1>1. Len(s) \in Nat /\ k \in Nat /\ 1 <= k /\ k <= Len(s)
  BY LenProperties
<1>2. /\ a \in Seq(Request) /\ Len(a) = k - 1
      /\ \A i \in 1..k-1 : a[i] = s[i]
  <2>1. \A i \in 1..k-1 : s[i] \in Request
    BY <1>1, ElementOfSeq
  <2>2. 1 \in Int /\ k-1 \in Int /\ (k-1)-1+1 = k-1
    BY <1>1
  <2> DEFINE m == k-1
             t == SubSeq(s, 1, m)
  <2>3. /\ t \in Seq(Request) /\ Len(t) = IF 1 <= m THEN m-1+1 ELSE 0
        /\ \A i \in 1..m-1+1 : t[i] = s[1+i-1]
    <3> HIDE DEF m
    <3> QED BY <2>1, <2>2, SubSeqProperties DEF m
  <2> QED BY <1>1, <2>3
<1>3. b \in Seq(Request) /\ Len(b) = Len(s) - k
  <2>1. \A i \in k+1..Len(s) : s[i] \in Request
    BY <1>1, ElementOfSeq
  <2>2. k+1 \in Int /\ Len(s) \in Int
    BY <1>1
  <2> DEFINE m == k+1
             n == Len(s)
             t == SubSeq(s, m, n)
  <2>3. t \in Seq(Request) /\ Len(t) = IF m <= n THEN n-m+1 ELSE 0
    <3> HIDE DEF m, n
    <3> QED BY <2>1, <2>2, SubSeqProperties DEF m, n
  <2> QED BY <1>1, <2>3
<1>4. RemoveAt(s, k) = a \o b
  BY DEF RemoveAt
<1> HIDE DEF a, b
<1>5. /\ a \o b \in Seq(Request) /\ Len(a \o b) = Len(s) - 1
      /\ k # 1 => (a \o b)[1] = s[1]
  <2>1. /\ a \o b \in Seq(Request) /\ Len(a \o b) = Len(a) + Len(b)
        /\ \A i \in 1..Len(a)+Len(b) :
             (a \o b)[i] = IF i <= Len(a) THEN a[i] ELSE b[i - Len(a)]
    BY <1>2, <1>3, ConcatProperties
  <2> QED BY <1>1, <1>2, <1>3, <2>1
<1>6. k # 1 => a \o b # <<>> /\ Head(a \o b) = (a \o b)[1] /\ Head(s) = s[1]
  BY <1>1, <1>5, EmptySeq
<1> QED BY <1>4, <1>5, <1>6

-----------------------------------------------------------------------------
(***************************************************************************)
(* Types, and the pool of the timers.                                      *)
(***************************************************************************)

LEMMA InitBase == Init => Base
<1> SUFFICES ASSUME Init PROVE Base
  OBVIOUS
<1>1. PoolOK
  <2>1. TimerProofs!Init
    BY DEF Init, Timer!Init, Timer!Slots, Timer!Asleep, TimerProofs!Init, TimerProofs!Slots,
           TimerProofs!Asleep
  <2> QED BY <2>1, SamePool, TimerProofs!InitIInv, TimerAssumptions
<1>2. 0 \in 0..MaxOverlap /\ <<>> \in Seq(Request)
  BY OverlapAssumption, SlotsAssumption, FS_CardinalityType, EmptySeq
<1>3. CoreOK
  BY <1>2 DEF Init, CoreOK, Unlocked
<1> QED BY <1>1, <1>3 DEF Base

\* The numbers the core passes to Timer_AddRequest.
LEMMA Times ==
    ASSUME NEW r \in Request
    PROVE  FirstSeconds(r) \in 0..MaxUnits /\ Time_Out[r] \in 0..MaxUnits /\ EraseSeconds \in 0..MaxUnits
  BY TimeOutAssumption DEF FirstSeconds, MV_MAX

\* The head and the second request of a list are requests.
LEMMA FirstOnes ==
    ASSUME CoreOK, NEW d \in Device, sent_req_list[d] # <<>>
    PROVE  /\ sent_req_list[d] \in Seq(Request) /\ Len(sent_req_list[d]) \in Nat \ {0}
           /\ Head(sent_req_list[d]) = sent_req_list[d][1] /\ sent_req_list[d][1] \in Request
           /\ Len(sent_req_list[d]) > 1 =>
                /\ sent_req_list[d][2] \in Request
                /\ Head(Tail(sent_req_list[d])) = sent_req_list[d][2]
           /\ Tail(sent_req_list[d]) \in Seq(Request)
           /\ Tail(sent_req_list[d]) # <<>> <=> Len(sent_req_list[d]) > 1
<1> DEFINE s == sent_req_list[d]
<1>1. s \in Seq(Request) /\ s # <<>>
  BY DEF CoreOK
<1> HIDE DEF s
<1>2. Len(s) \in Nat \ {0} /\ Head(s) = s[1] /\ s[1] \in Request
  BY <1>1, EmptySeq, LenProperties, ElementOfSeq
<1>3. /\ Tail(s) \in Seq(Request) /\ Len(Tail(s)) = Len(s) - 1
      /\ \A i \in 1..Len(Tail(s)) : Tail(s)[i] = s[i+1]
  BY <1>1, HeadTailProperties
<1>4. Tail(s) # <<>> <=> Len(s) > 1
  <2> DEFINE t == Tail(s)
  <2>1. t \in Seq(Request) /\ Len(t) = Len(s) - 1
    BY <1>3
  <2> HIDE DEF t
  <2>2. t # <<>> <=> Len(t) > 0
    BY <2>1, EmptySeq, LenProperties
  <2> QED BY <1>2, <2>1, <2>2 DEF t
<1>5. Len(s) > 1 => s[2] \in Request /\ Head(Tail(s)) = s[2]
  <2> SUFFICES ASSUME Len(s) > 1 PROVE s[2] \in Request /\ Head(Tail(s)) = s[2]
    OBVIOUS
  <2>1. 2 \in 1..Len(s) /\ 1 \in 1..Len(Tail(s)) /\ 1+1 = 2
    BY <1>2, <1>3
  <2>2. Head(Tail(s)) = Tail(s)[1]
    BY <1>3, <1>4
  <2> QED BY <1>1, <1>3, <2>1, <2>2, ElementOfSeq
<1> QED BY <1>1, <1>2, <1>3, <1>4, <1>5 DEF s

\* An arming step keeps the types, whoever takes it.
LEMMA ArmBase ==
    ASSUME Base, NEW n \in 0..MaxUnits, NEW d \in Device, NEW r \in Request,
           Timer!AddRequest(n, d, r), timer_id' = [timer_id EXCEPT ![d] = Timer!NextSlot]
    PROVE  PoolOK' /\ timer_id' \in [Device -> Timer!Slots \cup {None}]
  BY AddPool, NextSlotFree, Zenon DEF Base, CoreOK

LEMMA AddTimerBase ==
    ASSUME Base, NEW d \in Device, NEW r \in Request, mv_add_timer(d, r)
    PROVE  Base'
<1>1. PoolOK' /\ timer_id' \in [Device -> Timer!Slots \cup {None}]
  <2>1. CASE NeedsTimer(d)
    BY <2>1, Times, ArmBase DEF mv_add_timer
  <2>2. CASE ~NeedsTimer(d)
    BY <2>2 DEF mv_add_timer, Base, CoreOK, PoolOK, Timer!TimerTypeOK, Timer!PoolIsFreeSlots, timerVars
  <2> QED BY <2>1, <2>2
<1>2. Append(sent_req_list[d], r) \in Seq(Request) /\ Append(sent_req_list[d], r) # <<>>
  BY AppendProperties DEF Base, CoreOK
<1> QED BY <1>1, <1>2 DEF mv_add_timer, historyVars, Base, CoreOK, Unlocked

LEMMA RenewBase ==
    ASSUME Base, NEW d \in Device, NEW k \in 1..Len(sent_req_list[d]), mv_renew_timer(d, k)
    PROVE  Base'
<1> DEFINE s == sent_req_list[d]
<1>1. s \in Seq(Request) /\ s # <<>> /\ Len(s) \in Nat
  BY EmptySeq, LenProperties DEF Base, CoreOK
<1>2. /\ RemoveAt(s, k) \in Seq(Request)
      /\ k # 1 => RemoveAt(s, k) # <<>>
      /\ Len(s) > 1 => RemoveAt(s, k) # <<>>
  BY <1>1, RemoveAtProperties, EmptySeq
<1>3. PoolOK' /\ timer_id' \in [Device -> Timer!Slots \cup {None}]
  <2>1. CASE k = 1
    BY <2>1, CancelPool DEF mv_renew_timer, mv_cancel_timer, Base, CoreOK
  <2>2. CASE k # 1
    BY <2>2 DEF mv_renew_timer, Base, CoreOK, PoolOK, Timer!TimerTypeOK, Timer!PoolIsFreeSlots, timerVars
  <2> QED BY <2>1, <2>2
<1>4. renew' \in [Device -> 0..MaxUnits \cup {None}]
  BY <1>1, Times, FirstOnes DEF mv_renew_timer, Base, CoreOK
<1>5. sent_req_list' \in [Device -> Seq(Request)]
  BY <1>2 DEF mv_renew_timer, Base, CoreOK
<1>6. overlaps' \in 0..MaxOverlap
  BY OverlapAssumption, SlotsAssumption, FS_CardinalityType DEF mv_renew_timer, Base, CoreOK
<1>7. \A e \in Device : renew'[e] # None => sent_req_list'[e] # <<>>
  <2> SUFFICES ASSUME NEW e \in Device, renew'[e] # None PROVE sent_req_list'[e] # <<>>
    OBVIOUS
  <2>1. CASE e # d
    BY <2>1 DEF mv_renew_timer, Base, CoreOK, Unlocked
  <2>2. CASE e = d
    BY <1>2, <2>2 DEF mv_renew_timer, Base, CoreOK, Unlocked
  <2> QED BY <2>1, <2>2
<1> QED BY <1>3, <1>4, <1>5, <1>6, <1>7 DEF mv_renew_timer, Base, CoreOK, Unlocked

LEMMA ArmNextBase ==
    ASSUME Base, NEW d \in Device, mv_renew_timer_arm(d)
    PROVE  Base'
<1>1. /\ renew[d] \in 0..MaxUnits /\ sent_req_list[d] # <<>> /\ Head(sent_req_list[d]) \in Request
  BY FirstOnes DEF mv_renew_timer_arm, Base, CoreOK, Unlocked
<1>2. PoolOK' /\ timer_id' \in [Device -> Timer!Slots \cup {None}]
  BY <1>1, ArmBase DEF mv_renew_timer_arm
<1> QED BY <1>2 DEF mv_renew_timer_arm, historyVars, Base, CoreOK, Unlocked

LEMMA TimeoutBase ==
    ASSUME Base, NEW d \in Device, NEW r \in Request, core_req_timeout(d, r)
    PROVE  Base'
<1>1. CASE ExtendErase(d, r)
  <2>1. PoolOK' /\ timer_id' \in [Device -> Timer!Slots \cup {None}]
    BY <1>1, Times, ArmBase DEF ExtendErase
  <2> QED BY <1>1, <2>1 DEF ExtendErase, TimedOut, Base, CoreOK, Unlocked
<1>2. CASE NothingSent(d, r) \/ NotTheOldest(d, r)
  <2>1. UNCHANGED timerVars
    BY <1>2 DEF NothingSent, NotTheOldest
  <2>2. PoolOK'
    BY <2>1 DEF timerVars, Base, PoolOK, Timer!TimerTypeOK, Timer!PoolIsFreeSlots
  <2>3. /\ UNCHANGED <<sent_req_list, renew, historyVars>> /\ answered' = TRUE
        /\ timer_id' = timer_id \/ timer_id' = [timer_id EXCEPT ![d] = None]
    BY <1>2 DEF NothingSent, NotTheOldest, TimedOut
  <2>4. CoreOK'
    BY <2>3 DEF Base, CoreOK, Unlocked, historyVars
  <2> QED BY <2>2, <2>4 DEF Base
<1>3. CASE GiveUp(d, r)
  <2>1. sent_req_list[d] # <<>> /\ renew[d] = None /\ renew' = renew
    BY <1>3 DEF GiveUp, Unlocked
  <2>2. /\ Tail(sent_req_list[d]) \in Seq(Request)
        /\ Len(sent_req_list[d]) > 1 => sent_req_list[d][2] \in Request
    BY <2>1, FirstOnes DEF Base
  <2>3. PoolOK' /\ timer_id' \in [Device -> Timer!Slots \cup {None}]
    <3>1. CASE Len(sent_req_list[d]) > 1
      BY <1>3, <2>2, <3>1, Times, ArmBase DEF GiveUp
    <3>2. CASE ~(Len(sent_req_list[d]) > 1)
      <4>1. timer_id' = [timer_id EXCEPT ![d] = None] /\ UNCHANGED timerVars
        BY <1>3, <3>2 DEF GiveUp
      <4>2. PoolOK'
        BY <4>1 DEF timerVars, Base, PoolOK, Timer!TimerTypeOK, Timer!PoolIsFreeSlots
      <4> QED BY <4>1, <4>2 DEF Base, CoreOK
    <3> QED BY <3>1, <3>2
  <2>4. sent_req_list' \in [Device -> Seq(Request)]
        /\ \A e \in Device : renew[e] # None => sent_req_list'[e] # <<>>
    BY <1>3, <2>1, <2>2 DEF GiveUp, Base, CoreOK, Unlocked
  <2> QED BY <1>3, <2>1, <2>3, <2>4 DEF GiveUp, TimedOut, historyVars, Base, CoreOK, Unlocked
<1> QED BY <1>1, <1>2, <1>3 DEF core_req_timeout

LEMMA ScanBase == Base /\ (Scan \/ Return) => Base'
<1> SUFFICES ASSUME Base, Scan \/ Return PROVE Base'
  OBVIOUS
<1>1. PoolOK'
  BY TickPool, LookPool, ReturnPool DEF Scan, Return, Base
<1>2. CoreOK'
  BY DEF Scan, Return, Base, CoreOK, Unlocked, historyVars
<1> QED BY <1>1, <1>2 DEF Base

LEMMA NextBase == Base /\ [Next]_vars => Base'
<1> SUFFICES ASSUME Base, [Next]_vars PROVE Base'
  OBVIOUS
<1>1. CASE UNCHANGED vars
  BY <1>1 DEF vars, timerVars, historyVars, Base, CoreOK, Unlocked, PoolOK, Timer!TimerTypeOK,
              Timer!PoolIsFreeSlots
<1>2. CASE Next
  BY <1>2, AddTimerBase, RenewBase, ArmNextBase, TimeoutBase, ScanBase DEF Next, Softirq
<1> QED BY <1>1, <1>2

\* Whatever completes when: fields stay in range.
THEOREM TypeCorrect == Spec => []TypeOK
<1>1. Base => TypeOK
  BY DEF Base, PoolOK, CoreOK, TypeOK
<1> QED BY <1>1, InitBase, NextBase, PTL DEF Spec

\* No slot of the timers leaks or is shared, whatever the core does.
THEOREM PoolStaysSound == Spec => []Timer!PoolIsFreeSlots
<1>1. Base => Timer!PoolIsFreeSlots
  BY DEF Base, PoolOK
<1> QED BY <1>1, InitBase, NextBase, PTL DEF Spec

-----------------------------------------------------------------------------
(***************************************************************************)
(* As long as no request completes too late.                               *)
(***************************************************************************)

LEMMA InitOnTime == Init => OnTime
<1> SUFFICES ASSUME Init PROVE OnTime
  OBVIOUS
<1>1. /\ \A i \in Timer!Slots : ~Valid(i)
      /\ check.at = "asleep" /\ check.ctx1 = None /\ check.ctx2 = None /\ ~answered
  BY DEF Init, Timer!Init, Timer!Asleep, Valid
<1>2. Served
  BY DEF Init, Served
<1>3. Owned
  BY <1>1 DEF Owned
<1>4. CheckedSlot
  BY <1>1 DEF CheckedSlot
<1> QED BY <1>2, <1>3, <1>4 DEF OnTime

\* No two devices share a timer.
LEMMA TimersDiffer ==
    ASSUME Served, NEW d \in Device, NEW e \in Device,
           timer_id[d] \in Timer!Slots, timer_id[e] = timer_id[d]
    PROVE  d = e
  BY SlotNumbers DEF Served, OwnTimer

\* One slot for each device and one that is being handled: there is a free one,
\* since Timer_GetRequestCount reserves twice as many.
LEMMA RoomForTimer ==
    ASSUME Base, OnTime
    PROVE  Tag_Pool # <<>>
<1> SUFFICES ASSUME Tag_Pool = <<>> PROVE FALSE
  OBVIOUS
<1> DEFINE used == Timer!Slots \ {check.i}
           f == [i \in used |-> Running_Requests[i].ctx1]
<1>1. \A i \in used : \E d \in Device : timer_id[d] = i
  BY NextSlotFree DEF Base, OnTime, Owned, Handled
<1>2. \A i \in used : Running_Requests[i].ctx1 \in Device /\ timer_id[Running_Requests[i].ctx1] = i
  BY <1>1, SlotNumbers DEF OnTime, Served, OwnTimer
<1>3. f \in [used -> Device]
  BY <1>2
<1>4. \A i, j \in used : f[i] = f[j] => i = j
  BY <1>2
<1>5. IsFiniteSet(used) /\ Cardinality(used) >= Timer_Request_Number - 1
  BY SlotsFinite, FS_RemoveElement
<1>6. Cardinality(Device) \in Nat /\ Cardinality(Device) < Cardinality(used)
  <2>1. Cardinality(Device) \in Nat /\ Cardinality(used) \in Nat
    BY <1>5, SlotsAssumption, FS_CardinalityType
  <2> QED BY SlotsFinite, <1>5, <2>1, SlotsAssumption
<1> HIDE DEF f, used
<1>7. \E i, j \in used : i # j /\ f[i] = f[j]
  BY <1>3, <1>5, <1>6, SlotsAssumption, FS_PigeonHole
<1> QED BY <1>4, <1>7

\* A timer is armed for request r, by now the oldest of its device: by
\* mv_add_timer, mv_renew_timer or core_req_timeout.
LEMMA ArmOnTime ==
    ASSUME Base, OnTime,
           NEW n \in 0..MaxUnits, NEW d \in Device, NEW r \in Request,
           Timer!AddRequest(n, d, r), timer_id' = [timer_id EXCEPT ![d] = Timer!NextSlot],
           \A e \in Device \ {d} : sent_req_list'[e] = sent_req_list[e] /\ renew'[e] = renew[e],
           renew'[d] = None, sent_req_list'[d] # <<>>, Head(sent_req_list'[d]) = r,
           \/ timer_id[d] = None /\ answered' = answered
           \/ timer_id[d] = check.i /\ check.at = "called" /\ answered' = TRUE
    PROVE  OnTime'
<1> DEFINE new == Timer!NextSlot
<1>1. Tag_Pool # <<>> /\ new \in Timer!Slots /\ ~Valid(new)
  BY RoomForTimer, NextSlotFree DEF Base
<1>2. /\ Running_Requests' = [Running_Requests EXCEPT ![new] =
                [Valid |-> TRUE, left |-> n, ctx1 |-> d, ctx2 |-> r]]
      /\ check' = check
  BY <1>1 DEF Timer!AddRequest
<1>3. /\ check.i \in Timer!Slots
      /\ DOMAIN Running_Requests = Timer!Slots
      /\ DOMAIN timer_id = Device
  BY DEF Base, PoolOK, CoreOK, Timer!TimerTypeOK
<1> HIDE DEF new
<1>4. /\ \A i \in Timer!Slots \ {new} : Running_Requests'[i] = Running_Requests[i]
      /\ Running_Requests'[new] = [Valid |-> TRUE, left |-> n, ctx1 |-> d, ctx2 |-> r]
      /\ \A e \in Device \ {d} : timer_id'[e] = timer_id[e]
      /\ timer_id'[d] = new
  BY <1>1, <1>2, <1>3 DEF new
<1>5. \A e \in Device : timer_id[e] # new
  BY <1>1, SlotNumbers DEF OnTime, Served, OwnTimer
<1>6. Served'
  <2> SUFFICES ASSUME NEW e \in Device
               PROVE  (IF Unlocked(e) /\ sent_req_list[e] # <<>>
                       THEN OwnTimer(e) ELSE timer_id[e] = None)'
    BY DEF Served
  <2>1. CASE e = d
    BY <1>1, <1>4, <2>1 DEF Unlocked, OwnTimer, Valid
  <2>2. CASE e # d
    BY <1>4, <1>5, <2>2 DEF OnTime, Served, Unlocked, OwnTimer, Valid
  <2> QED BY <2>1, <2>2
<1>7. Owned'
  <2> SUFFICES ASSUME NEW i \in Timer!Slots, Valid(i)'
               PROVE  Handled(i)' \/ \E e \in Device : timer_id'[e] = i
    BY DEF Owned
  <2>1. CASE i = new
    BY <1>4, <2>1
  <2>2. CASE i # new
    <3>1. Handled(i) \/ \E e \in Device : timer_id[e] = i
      BY <1>4, <2>2 DEF OnTime, Owned, Valid
    <3>2. CASE Handled(i)
      BY <1>2, <3>2 DEF Handled
    <3>3. CASE \E e \in Device : timer_id[e] = i
      BY <1>2, <1>4, <3>3, SlotNumbers DEF Handled
    <3> QED BY <3>1, <3>2, <3>3
  <2> QED BY <2>1, <2>2
<1>8. CheckedSlot'
  <2>1. check.at \in {"due", "called"} => Running_Requests'[check.i] = Running_Requests[check.i]
    BY <1>1, <1>3, <1>4 DEF OnTime, CheckedSlot, Valid
  <2>2. answered' => check.at = "called" /\ \A e \in Device : timer_id'[e] # check.i
    <3> SUFFICES ASSUME answered'
                 PROVE  check.at = "called" /\ \A e \in Device : timer_id'[e] # check.i
      OBVIOUS
    <3>1. check.at = "called" /\ \A e \in Device \ {d} : timer_id[e] # check.i
      BY <1>3, TimersDiffer DEF OnTime, CheckedSlot
    <3>2. new # check.i
      BY <1>1, <3>1 DEF OnTime, CheckedSlot, Valid
    <3> QED BY <1>4, <3>1, <3>2
  <2>3. ~answered' => ~answered
    BY DEF Base, CoreOK
  <2> QED BY <1>2, <2>1, <2>2, <2>3 DEF OnTime, CheckedSlot
<1> QED BY <1>6, <1>7, <1>8 DEF OnTime

\* Slot s is released, and nobody's timer from then on.
LEMMA ReleaseOnTime ==
    ASSUME Base, OnTime, NEW s \in Timer!Slots, Timer!Release(s),
           \A e \in Device : timer_id'[e] # s,
           \A e \in Device : timer_id[e] # s =>
               /\ timer_id'[e] = timer_id[e]
               /\ renew'[e] = renew[e] /\ sent_req_list'[e] = sent_req_list[e],
           \A e \in Device : timer_id[e] = s =>
               /\ timer_id'[e] = None
               /\ ~(renew'[e] = None /\ sent_req_list'[e] # <<>>)
    PROVE  /\ Served'
           /\ \A i \in Timer!Slots : Valid(i)' =>
                 i # s /\ (Handled(i) \/ \E e \in Device : timer_id'[e] = i)
<1>1. /\ DOMAIN Running_Requests = Timer!Slots
      /\ Running_Requests \in [Timer!Slots ->
           [Valid : BOOLEAN, left : -1..MaxUnits,
            ctx1 : Device \cup {None}, ctx2 : Request \cup {None}]]
  BY DEF Base, PoolOK, Timer!TimerTypeOK
<1>2. /\ \A i \in Timer!Slots \ {s} : Running_Requests'[i] = Running_Requests[i]
      /\ Running_Requests'[s].Valid = FALSE
  BY <1>1 DEF Timer!Release
<1>3. Served'
  <2> SUFFICES ASSUME NEW e \in Device
               PROVE  (IF Unlocked(e) /\ sent_req_list[e] # <<>>
                       THEN OwnTimer(e) ELSE timer_id[e] = None)'
    BY DEF Served
  <2>1. CASE timer_id[e] = s
    BY <2>1 DEF Unlocked
  <2>2. CASE timer_id[e] # s
    BY <1>2, <2>2 DEF OnTime, Served, Unlocked, OwnTimer, Valid
  <2> QED BY <2>1, <2>2
<1>4. ASSUME NEW i \in Timer!Slots, Valid(i)'
      PROVE  i # s /\ (Handled(i) \/ \E e \in Device : timer_id'[e] = i)
  <2>1. i # s /\ Valid(i)
    BY <1>2, <1>4 DEF Valid
  <2>2. Handled(i) \/ \E e \in Device : timer_id[e] = i
    BY <2>1 DEF OnTime, Owned
  <2> QED BY <2>1, <2>2
<1> QED BY <1>3, <1>4

\* The timers are left alone, and every list keeps its oldest request.
LEMMA StillOnTime ==
    ASSUME OnTime, UNCHANGED <<timerVars, timer_id, renew, answered>>,
           \A e \in Device : /\ sent_req_list'[e] = <<>> <=> sent_req_list[e] = <<>>
                             /\ sent_req_list[e] # <<>> =>
                                  Head(sent_req_list'[e]) = Head(sent_req_list[e])
    PROVE  OnTime'
<1>1. Served'
  BY DEF OnTime, Served, OwnTimer, Unlocked, Valid, timerVars
<1>2. Owned' /\ CheckedSlot'
  BY DEF OnTime, Owned, CheckedSlot, Handled, Valid, timerVars
<1> QED BY <1>1, <1>2 DEF OnTime

LEMMA AddTimerOnTime ==
    ASSUME Base, OnTime, NEW d \in Device, NEW r \in Request, mv_add_timer(d, r)
    PROVE  OnTime'
<1> DEFINE s == sent_req_list[d]
<1>1. s \in Seq(Request) /\ sent_req_list'[d] = Append(s, r)
      /\ \A e \in Device \ {d} : sent_req_list'[e] = sent_req_list[e]
  BY DEF mv_add_timer, Base, CoreOK
<1>2. /\ Append(s, r) # <<>>
      /\ s = <<>> => Head(Append(s, r)) = r
      /\ s # <<>> => Head(Append(s, r)) = Head(s)
  BY <1>1, HeadOfAppend
<1>3. renew[d] = None /\ renew' = renew /\ answered' = answered
  BY DEF mv_add_timer, Unlocked
<1>4. CASE NeedsTimer(d)
  <2>1. s = <<>> /\ timer_id[d] = None
    BY <1>3, <1>4, SlotNumbers DEF NeedsTimer, OnTime, Served, OwnTimer, Unlocked
  <2>2. /\ Timer!AddRequest(FirstSeconds(r), d, r)
        /\ timer_id' = [timer_id EXCEPT ![d] = Timer!NextSlot]
    BY <1>4 DEF mv_add_timer
  <2> QED BY <1>1, <1>2, <1>3, <2>1, <2>2, Times, ArmOnTime
<1>5. CASE ~NeedsTimer(d)
  <2>1. s # <<>>
    BY <1>5 DEF NeedsTimer, OnTime, Served
  <2>2. UNCHANGED <<timerVars, timer_id, renew, answered>>
    BY <1>3, <1>5 DEF mv_add_timer
  <2> QED BY <1>1, <1>2, <2>1, <2>2, StillOnTime
<1> QED BY <1>4, <1>5

LEMMA RenewOnTime ==
    ASSUME Base, OnTime, overlaps' = 0, overlaps = 0,
           NEW d \in Device, NEW k \in 1..Len(sent_req_list[d]), mv_renew_timer(d, k)
    PROVE  OnTime'
<1> DEFINE s == sent_req_list[d]
<1>1. s \in Seq(Request) /\ s # <<>> /\ (Len(s) > 1 \/ Len(s) = 1)
  <2>1. s \in Seq(Request) /\ s # <<>>
    BY EmptySeq, LenProperties DEF Base, CoreOK
  <2>2. Len(s) \in Nat \ {0}
    BY <2>1, EmptySeq, LenProperties
  <2> HIDE DEF s
  <2>3. \A n \in Nat \ {0} : n > 1 \/ n = 1
    OBVIOUS
  <2>4. Len(s) > 1 \/ Len(s) = 1
    BY <2>2, <2>3, Zenon
  <2> QED BY <2>1, <2>4, Zenon
<1>2. check.at \notin {"due", "called"} /\ (k = 1 => Timer!Cancellable(timer_id[d]))
  BY DEF mv_renew_timer
<1>3. /\ sent_req_list'[d] = RemoveAt(s, k) /\ renew[d] = None /\ answered' = answered
      /\ \A e \in Device \ {d} : sent_req_list'[e] = sent_req_list[e]
  BY DEF mv_renew_timer, Base, CoreOK, Unlocked
<1>4. CASE k = 1
  <2> DEFINE slot == timer_id[d]
  <2>1. slot \in Timer!Slots /\ Timer!Release(slot) /\ check' = check
    BY <1>2, <1>4 DEF mv_renew_timer, mv_cancel_timer, Timer!CancelRequest, Timer!Cancellable
  <2>2. timer_id' = [timer_id EXCEPT ![d] = None]
    BY <1>4 DEF mv_renew_timer, mv_cancel_timer
  <2>3. \A e \in Device : timer_id[e] = slot => e = d
    BY <2>1, TimersDiffer DEF OnTime
  <2>4. ~answered /\ ~answered' /\ check'.at \notin {"due", "called"}
    BY <1>2, <1>3, <2>1 DEF OnTime, CheckedSlot, Base, CoreOK
  <2>5. ~(renew'[d] = None /\ sent_req_list'[d] # <<>>)
    <3>1. CASE Len(s) > 1
      <4>1. renew'[d] = Time_Out[s[1]] /\ s[1] \in Request
        BY <1>1, <1>4, <3>1, FirstOnes DEF mv_renew_timer, Base, CoreOK
      <4> QED BY <4>1, Times, NoneAssumption
    <3>2. CASE ~(Len(s) > 1)
      <4> DEFINE t == RemoveAt(s, k)
      <4>1. t \in Seq(Request) /\ Len(t) = Len(s) - 1
        BY <1>1, RemoveAtProperties
      <4>2. Len(s) = 1
        BY <1>1, <3>2, Zenon
      <4> HIDE DEF t
      <4>3. t = <<>>
        BY <4>1, <4>2, EmptySeq
      <4> QED BY <1>3, <4>3 DEF t
    <3> QED BY <3>1, <3>2
  <2>6. /\ \A e \in Device \ {d} : timer_id'[e] = timer_id[e] /\ renew'[e] = renew[e]
        /\ timer_id'[d] = None
    BY <1>4, <2>2 DEF mv_renew_timer, Base, CoreOK
  <2>7. \A e \in Device : timer_id'[e] # slot
    BY <2>1, <2>3, <2>6, SlotNumbers
  <2> HIDE DEF slot, s
  <2>8. /\ Served'
        /\ \A i \in Timer!Slots : Valid(i)' =>
              i # slot /\ (Handled(i) \/ \E e \in Device : timer_id'[e] = i)
    <3>1. \A e \in Device : timer_id[e] # slot =>
             /\ timer_id'[e] = timer_id[e]
             /\ renew'[e] = renew[e] /\ sent_req_list'[e] = sent_req_list[e]
      BY <1>3, <2>6 DEF slot
    <3>2. \A e \in Device : timer_id[e] = slot =>
             timer_id'[e] = None /\ ~(renew'[e] = None /\ sent_req_list'[e] # <<>>)
      BY <2>3, <2>5, <2>6
    <3> QED BY <2>1, <2>7, <3>1, <3>2, ReleaseOnTime
  <2>9. Owned'
    BY <2>4, <2>8 DEF Owned, Handled
  <2>10. CheckedSlot'
    BY <2>1, <2>4 DEF OnTime, CheckedSlot
  <2> QED BY <2>8, <2>9, <2>10 DEF OnTime
<1>5. CASE k # 1
  <2>1. UNCHANGED <<timerVars, timer_id, renew, answered>>
    BY <1>5 DEF mv_renew_timer
  <2>2. RemoveAt(s, k) # <<>> /\ Head(RemoveAt(s, k)) = Head(s)
    BY <1>1, <1>5, RemoveAtProperties
  <2> QED BY <1>1, <1>3, <2>1, <2>2, StillOnTime
<1> QED BY <1>4, <1>5

LEMMA ArmNextOnTime ==
    ASSUME Base, OnTime, NEW d \in Device, mv_renew_timer_arm(d)
    PROVE  OnTime'
<1>1. renew[d] # None /\ renew[d] \in 0..MaxUnits /\ sent_req_list[d] # <<>>
      /\ Head(sent_req_list[d]) \in Request /\ timer_id[d] = None
  BY FirstOnes DEF mv_renew_timer_arm, Base, CoreOK, Unlocked, OnTime, Served
<1>2. /\ Timer!AddRequest(renew[d], d, Head(sent_req_list[d]))
      /\ timer_id' = [timer_id EXCEPT ![d] = Timer!NextSlot]
      /\ answered' = answered /\ sent_req_list' = sent_req_list
      /\ renew'[d] = None /\ \A e \in Device \ {d} : renew'[e] = renew[e]
  BY DEF mv_renew_timer_arm, Base, CoreOK
<1> QED BY <1>1, <1>2, ArmOnTime

\* The routine is called for the oldest request of a device, whose list is not
\* locked, and with the device's own timer.
LEMMA OldestTimedOut ==
    ASSUME Base, OnTime, NEW d \in Device, NEW r \in Request, TimedOut(d, r)
    PROVE  /\ timer_id[d] = check.i /\ check.i \in Timer!Slots
           /\ Unlocked(d) /\ sent_req_list[d] # <<>> /\ Head(sent_req_list[d]) = r
<1>1. /\ check.i \in Timer!Slots /\ Valid(check.i) /\ ~answered
      /\ Running_Requests[check.i].ctx1 = d /\ Running_Requests[check.i].ctx2 = r
  BY DEF TimedOut, OnTime, CheckedSlot, Valid, Base, PoolOK, Timer!TimerTypeOK
<1>2. PICK e \in Device : timer_id[e] = check.i
  BY <1>1 DEF OnTime, Owned, Handled
<1>3. Unlocked(e) /\ sent_req_list[e] # <<>> /\ OwnTimer(e)
  BY <1>1, <1>2, SlotNumbers DEF OnTime, Served
<1>4. e = d
  BY <1>1, <1>2, <1>3 DEF OwnTimer
<1> QED BY <1>1, <1>2, <1>3, <1>4 DEF OwnTimer

LEMMA TimeoutOnTime ==
    ASSUME Base, OnTime, NEW d \in Device, NEW r \in Request, core_req_timeout(d, r)
    PROVE  OnTime'
<1>1. TimedOut(d, r)
  BY DEF core_req_timeout, ExtendErase, NothingSent, NotTheOldest, GiveUp
<1>2. /\ timer_id[d] = check.i /\ check.i \in Timer!Slots /\ check.at = "called" /\ answered' = TRUE
      /\ Unlocked(d) /\ sent_req_list[d] # <<>> /\ Head(sent_req_list[d]) = r
  BY <1>1, OldestTimedOut DEF TimedOut
<1>3. CASE ExtendErase(d, r)
  <2>1. /\ Timer!AddRequest(EraseSeconds, d, r)
        /\ timer_id' = [timer_id EXCEPT ![d] = Timer!NextSlot]
        /\ sent_req_list' = sent_req_list /\ renew' = renew
    BY <1>3 DEF ExtendErase
  <2> QED BY <1>2, <2>1, Times, ArmOnTime DEF Unlocked
<1>4. CASE NothingSent(d, r) \/ NotTheOldest(d, r)
  BY <1>2, <1>4 DEF NothingSent, NotTheOldest
<1>5. CASE GiveUp(d, r)
  <2>1. /\ sent_req_list'[d] = Tail(sent_req_list[d]) /\ renew' = renew
        /\ \A e \in Device \ {d} : sent_req_list'[e] = sent_req_list[e]
    BY <1>5 DEF GiveUp, Base, CoreOK
  <2>2. CASE Len(sent_req_list[d]) > 1
    <3> DEFINE second == sent_req_list[d][2]
    <3>1. /\ second \in Request /\ Tail(sent_req_list[d]) # <<>>
          /\ Head(Tail(sent_req_list[d])) = second
      BY <1>2, <2>2, FirstOnes DEF Base
    <3>2. /\ Timer!AddRequest(Time_Out[r], d, second)
          /\ timer_id' = [timer_id EXCEPT ![d] = Timer!NextSlot]
      BY <1>5, <2>2 DEF GiveUp
    <3> HIDE DEF second
    <3> QED BY <1>2, <2>1, <3>1, <3>2, Times, ArmOnTime DEF Unlocked
  <2>3. CASE ~(Len(sent_req_list[d]) > 1)
    <3>1. sent_req_list'[d] = <<>>
      BY <1>2, <2>1, <2>3, FirstOnes DEF Base
    <3>2. /\ UNCHANGED timerVars
          /\ timer_id'[d] = None /\ \A e \in Device \ {d} : timer_id'[e] = timer_id[e]
      BY <1>5, <2>3 DEF GiveUp, Base, CoreOK
    <3>3. \A e \in Device \ {d} : timer_id[e] # check.i
      BY <1>2, TimersDiffer DEF OnTime
    <3>4. Served'
      BY <2>1, <3>1, <3>2 DEF OnTime, Served, OwnTimer, Unlocked, Valid, timerVars
    <3>5. Owned'
      BY <1>2, <3>2 DEF OnTime, Owned, Handled, Valid, timerVars
    <3>6. CheckedSlot'
      BY <1>2, <3>2, <3>3, SlotNumbers DEF OnTime, CheckedSlot, timerVars
    <3> QED BY <3>4, <3>5, <3>6 DEF OnTime
  <2> QED BY <2>2, <2>3
<1> QED BY <1>3, <1>4, <1>5 DEF core_req_timeout

LEMMA ScanOnTime ==
    ASSUME Base, OnTime, Scan
    PROVE  OnTime'
<1>1. UNCHANGED <<sent_req_list, timer_id, renew, answered>>
  BY DEF Scan
<1>2. /\ check \in [at : Timer!CheckStates, i : Timer!Slots,
                    ctx1 : Device \cup {None}, ctx2 : Request \cup {None}]
      /\ Running_Requests \in [Timer!Slots ->
           [Valid : BOOLEAN, left : -1..MaxUnits,
            ctx1 : Device \cup {None}, ctx2 : Request \cup {None}]]
  BY DEF Base, PoolOK, Timer!TimerTypeOK
<1>3. check.at # "called" => ~answered
  BY DEF OnTime, CheckedSlot
<1>4. \A i \in Timer!Slots : /\ Running_Requests'[i].Valid = Running_Requests[i].Valid
                            /\ Running_Requests'[i].ctx1 = Running_Requests[i].ctx1
                            /\ Running_Requests'[i].ctx2 = Running_Requests[i].ctx2
  <2>1. CASE Timer!Tick
    BY <1>2, <2>1 DEF Timer!Tick
  <2>2. CASE ~Timer!Tick
    BY <2>2 DEF Scan, Timer!LookAtSlot, Timer!ReadContext1, Timer!ReadContext2
  <2> QED BY <2>1, <2>2
<1>5. ~answered
  BY <1>3 DEF Scan, Timer!Tick, Timer!LookAtSlot, Timer!ReadContext1, Timer!ReadContext2
<1>6. Served'
  BY <1>1, <1>4 DEF OnTime, Served, OwnTimer, Unlocked, Valid
<1>7. Owned'
  BY <1>1, <1>4, <1>5 DEF OnTime, Owned, Handled, Valid
<1>8. CheckedSlot'
  <2>1. CASE Timer!Tick
    BY <1>1, <1>5, <2>1 DEF Timer!Tick, Timer!ScanAt, Timer!Asleep, CheckedSlot
  <2>2. CASE Timer!LookAtSlot
    <3>1. CASE Timer!IsDue(check.i)
      BY <1>1, <1>2, <1>5, <2>2, <3>1 DEF Timer!LookAtSlot, Timer!IsDue, OnTime, CheckedSlot
    <3>2. CASE ~Timer!IsDue(check.i)
      <4>1. Timer!StepPast(check.i)
        BY <2>2, <3>2 DEF Timer!LookAtSlot
      <4>2. check' = Timer!ScanAt(check.i + 1) \/ check' = Timer!Asleep
        BY <4>1 DEF Timer!StepPast
      <4>3. check'.at \in {"asleep", "scan"} /\ check'.ctx1 = None /\ check'.ctx2 = None
        <5>1. CASE check' = Timer!ScanAt(check.i + 1)
          BY <5>1 DEF Timer!ScanAt, Timer!Asleep
        <5>2. CASE check' = Timer!Asleep
          BY <5>2 DEF Timer!Asleep
        <5> QED BY <4>2, <5>1, <5>2
      <4> QED BY <1>1, <1>5, <4>3 DEF CheckedSlot
    <3> QED BY <3>1, <3>2
  <2>3. CASE Timer!ReadContext1
    BY <1>1, <1>2, <1>5, <2>3 DEF Timer!ReadContext1, OnTime, CheckedSlot
  <2>4. CASE Timer!ReadContext2
    BY <1>1, <1>2, <1>5, <2>4 DEF Timer!ReadContext2, OnTime, CheckedSlot
  <2> QED BY <2>1, <2>2, <2>3, <2>4 DEF Scan
<1> QED BY <1>6, <1>7, <1>8 DEF OnTime

LEMMA ReturnOnTime ==
    ASSUME Base, OnTime, Return
    PROVE  OnTime'
<1> DEFINE s == check.i
<1>1. /\ s \in Timer!Slots /\ check.at = "called" /\ answered
      /\ \A e \in Device : timer_id[e] # s
      /\ Running_Requests[s].Valid
  BY DEF Return, Timer!Return, OnTime, CheckedSlot, Base, PoolOK, Timer!TimerTypeOK
<1>2. /\ Timer!Release(s) /\ ~answered'
      /\ check'.at \in {"asleep", "scan"} /\ check'.ctx1 = None /\ check'.ctx2 = None
      /\ UNCHANGED <<sent_req_list, timer_id, renew>>
  BY <1>1 DEF Return, Timer!Return, Timer!StepPast, Timer!ScanAt, Timer!Asleep
<1> HIDE DEF s
<1>3. /\ Served'
      /\ \A i \in Timer!Slots : Valid(i)' =>
            i # s /\ (Handled(i) \/ \E e \in Device : timer_id'[e] = i)
  BY <1>1, <1>2, ReleaseOnTime
<1>4. Owned'
  BY <1>3 DEF Owned, Handled, s
<1>5. CheckedSlot'
  BY <1>2 DEF CheckedSlot
<1> QED BY <1>3, <1>4, <1>5 DEF OnTime

LEMMA NextIInv == IInv /\ [Next]_vars => IInv'
<1> SUFFICES ASSUME IInv, [Next]_vars PROVE IInv'
  OBVIOUS
<1>1. Base /\ Base'
  BY NextBase DEF IInv
<1>2. overlaps \in Nat /\ overlaps' \in Nat
  BY <1>1, OverlapAssumption, SlotsAssumption, FS_CardinalityType DEF Base, CoreOK
<1>3. SUFFICES ASSUME overlaps' = 0 PROVE OnTime'
  BY <1>1 DEF IInv
<1>4. overlaps = 0
  BY <1>2, <1>3 DEF Next, mv_add_timer, mv_renew_timer, mv_renew_timer_arm, Softirq, Scan, Return,
         core_req_timeout, ExtendErase, NothingSent, NotTheOldest, GiveUp, historyVars, vars
<1>5. OnTime
  BY <1>4 DEF IInv
<1>6. CASE UNCHANGED vars
  BY <1>5, <1>6, StillOnTime DEF vars
<1>7. CASE Next
  BY <1>1, <1>3, <1>4, <1>5, <1>7, AddTimerOnTime, RenewOnTime, ArmNextOnTime, TimeoutOnTime,
     ScanOnTime, ReturnOnTime DEF Next, Softirq
<1> QED BY <1>6, <1>7

LEMMA Inductive == Spec => []IInv
<1>1. Init => IInv
  BY InitBase, InitOnTime DEF IInv
<1> QED BY <1>1, NextIInv, PTL DEF Spec

\* As long as no request completes too late, a device with requests outstanding
\* always has a running timer of its own: time-outs, re-used slots, extended
\* erases and completions at any other moment cannot take it away.
THEOREM AlwaysWatched == Spec => []WatchedUnlessOverlapped
<1>1. IInv => WatchedUnlessOverlapped
  BY SlotNumbers
     DEF IInv, OnTime, Served, OwnTimer, Valid, WatchedUnlessOverlapped, TimerNeverMissing, Watched
<1> QED BY Inductive, <1>1, PTL

\* Nor does a slot carry a timer that no device knows of.
THEOREM NoTimerLeft == Spec => []NoOrphanTimer
<1>1. IInv => NoOrphanTimer
  BY DEF IInv, OnTime, Owned, Handled, Valid, NoOrphanTimer
<1> QED BY Inductive, <1>1, PTL

\* core_req_timeout is called with the device's present timer and for its oldest
\* request, never with a timer of an earlier life of the request.
THEOREM OldestTimesOut == Spec => TimesOutOldest
<1> DEFINE InTime(d, r) == overlaps = 0 /\ core_req_timeout(d, r) =>
                             /\ timer_id[d] = check.i
                             /\ sent_req_list[d] # <<>> /\ Head(sent_req_list[d]) = r
<1>1. IInv => [\A d \in Device, r \in Request : InTime(d, r)]_vars
  <2> SUFFICES ASSUME IInv, NEW d \in Device, NEW r \in Request,
                      overlaps = 0, core_req_timeout(d, r)
               PROVE  /\ timer_id[d] = check.i
                      /\ sent_req_list[d] # <<>> /\ Head(sent_req_list[d]) = r
    OBVIOUS
  <2>1. TimedOut(d, r)
    BY DEF core_req_timeout, ExtendErase, NothingSent, NotTheOldest, GiveUp
  <2> QED BY <2>1, OldestTimedOut DEF IInv
<1> QED BY <1>1, Inductive, PTL DEF TimesOutOldest
-----------------------------------------------------------------------------
(***************************************************************************)
(* Whatever completes when, as long as no erase that is over is extended.  *)
(* Timers that nobody cancels any more each cost one late completion, and  *)
(* OverlapAssumption leaves a slot for each of those.                      *)
(***************************************************************************)

\* Device d goes by the timer in slot i.
Owns(d, i) == Unlocked(d) /\ timer_id[d] = i

\* The slots that run on for nobody, the one about to be released aside.
Stray == {i \in Timer!Slots : /\ Valid(i) /\ ~Handled(i)
                              /\ ~Owns(Running_Requests[i].ctx1, i)}

Named == \A i \in Timer!Slots : Valid(i) => Running_Requests[i].ctx1 \in Device

Debt == Cardinality(Stray) <= overlaps
Spare == Cardinality(Stray) < overlaps

\* A routine that is yet to do its work can leave one more timer to itself: the
\* one it was called for goes in return, or a completion has been counted for it.
Slack ==
    check.at \in {"due", "called"} /\ ~answered =>
        \/ Valid(check.i) /\ check.ctx1 \in {None, Running_Requests[check.i].ctx1}
        \/ Spare

Oldest ==
    \A d \in Device : Unlocked(d) =>
        /\ timer_id[d] = None <=> sent_req_list[d] = <<>>
        /\ Watched(d) => Running_Requests[timer_id[d]].ctx2 = Head(sent_req_list[d])

\* Timer_CheckRequest has read nothing from a slot it has not found due.
InStep ==
    /\ answered => check.at = "called"
    /\ check.at \in {"asleep", "scan"} => check.ctx1 = None

Tidy == Named /\ Debt /\ Slack /\ Oldest /\ InStep

TidyInv == Base /\ (~late_erase => Tidy)

\* What Base says of single fields.
LEMMA BaseFields ==
    ASSUME Base
    PROVE  /\ check.i \in Timer!Slots /\ check.ctx1 \in Device \cup {None}
           /\ DOMAIN Running_Requests = Timer!Slots /\ DOMAIN timer_id = Device
           /\ DOMAIN renew = Device /\ DOMAIN sent_req_list = Device
           /\ overlaps \in Nat /\ overlaps <= MaxOverlap /\ MaxOverlap \in Nat
           /\ answered \in BOOLEAN
<1>1. Cardinality(Device) \in Nat
  BY SlotsAssumption, FS_CardinalityType
<1> QED BY <1>1, OverlapAssumption DEF Base, PoolOK, CoreOK, Timer!TimerTypeOK

\* Sets of slots before and after a step.
LEMMA Sizes ==
    ASSUME NEW S \in SUBSET Timer!Slots, NEW T \in SUBSET Timer!Slots
    PROVE  /\ Cardinality(S) \in Nat /\ Cardinality(T) \in Nat
           /\ T \subseteq S => Cardinality(T) <= Cardinality(S)
           /\ \A y : T \subseteq S \cup {y} => Cardinality(T) <= Cardinality(S) + 1
           /\ \A x \in S : \A y : T \subseteq (S \ {x}) \cup {y} => Cardinality(T) <= Cardinality(S)
<1>1. IsFiniteSet(S) /\ IsFiniteSet(T)
  BY SlotsFinite, FS_Subset
<1>2. Cardinality(S) \in Nat /\ Cardinality(T) \in Nat
  BY <1>1, FS_CardinalityType
<1>3. ASSUME NEW R, IsFiniteSet(R), NEW y, T \subseteq R \cup {y}
      PROVE  Cardinality(T) <= Cardinality(R) + 1
  <2>1. /\ IsFiniteSet(R \cup {y})
        /\ Cardinality(R \cup {y}) = IF y \in R THEN Cardinality(R) ELSE Cardinality(R) + 1
    BY <1>3, FS_AddElement
  <2>2. Cardinality(T) <= Cardinality(R \cup {y})
    BY <1>3, <2>1, FS_Subset
  <2>3. Cardinality(R) \in Nat
    BY <1>3, FS_CardinalityType
  <2> QED BY <1>2, <2>1, <2>2, <2>3
<1>4. ASSUME NEW x \in S, NEW y, T \subseteq (S \ {x}) \cup {y}
      PROVE  Cardinality(T) <= Cardinality(S)
  <2>1. IsFiniteSet(S \ {x}) /\ Cardinality(S \ {x}) = Cardinality(S) - 1
    BY <1>1, FS_RemoveElement
  <2>2. Cardinality(T) <= Cardinality(S \ {x}) + 1
    BY <1>3, <1>4, <2>1
  <2> QED BY <1>2, <2>1, <2>2
<1> QED BY <1>1, <1>2, <1>3, <1>4, FS_Subset

\* What a step may do to the stray timers without running up a debt.
LEMMA NoMore ==
    ASSUME Base, Debt, Stray' \subseteq Stray, overlaps' \in {overlaps, overlaps + 1}
    PROVE  Debt' /\ (Spare => Spare') /\ (overlaps' # overlaps => Spare')
<1>1. PICK S \in SUBSET Timer!Slots, T \in SUBSET Timer!Slots : S = Stray /\ T = Stray'
  BY DEF Stray
<1>2. Cardinality(S) \in Nat /\ Cardinality(T) \in Nat /\ Cardinality(T) <= Cardinality(S)
  BY <1>1, Sizes
<1>3. Cardinality(Stray) = Cardinality(S) /\ Cardinality(Stray') = Cardinality(T)
  BY <1>1, Zenon
<1>4. overlaps \in Nat
  BY BaseFields
<1> QED BY <1>2, <1>3, <1>4 DEF Debt, Spare

LEMMA OneMore ==
    ASSUME Base, Debt, NEW y, Stray' \subseteq Stray \cup {y}, overlaps' \in {overlaps, overlaps + 1}
    PROVE  /\ Spare \/ overlaps' # overlaps => Debt'
           /\ Spare /\ overlaps' # overlaps => Spare'
<1>1. PICK S \in SUBSET Timer!Slots, T \in SUBSET Timer!Slots : S = Stray /\ T = Stray'
  BY DEF Stray
<1>2. Cardinality(S) \in Nat /\ Cardinality(T) \in Nat /\ Cardinality(T) <= Cardinality(S) + 1
  BY <1>1, Sizes
<1>3. Cardinality(Stray) = Cardinality(S) /\ Cardinality(Stray') = Cardinality(T)
  BY <1>1, Zenon
<1>4. overlaps \in Nat
  BY BaseFields
<1> QED BY <1>2, <1>3, <1>4 DEF Debt, Spare

LEMMA Exchange ==
    ASSUME Base, Debt, NEW x \in Stray, NEW y, Stray' \subseteq (Stray \ {x}) \cup {y}, overlaps' = overlaps
    PROVE  Debt'
<1>1. PICK S \in SUBSET Timer!Slots, T \in SUBSET Timer!Slots : S = Stray /\ T = Stray'
  BY DEF Stray
<1>2. Cardinality(S) \in Nat /\ Cardinality(T) \in Nat /\ Cardinality(T) <= Cardinality(S)
  BY <1>1, Sizes
<1>3. Cardinality(Stray) = Cardinality(S) /\ Cardinality(Stray') = Cardinality(T)
  BY <1>1, Zenon
<1>4. overlaps \in Nat
  BY BaseFields
<1> QED BY <1>2, <1>3, <1>4 DEF Debt

\* A slot for each device, for each timer left to itself and for the one being
\* released: short of one of these, there is a free one.
LEMMA RoomForOne ==
    ASSUME Base, Tidy, NEW D \in SUBSET Device, NEW H \in SUBSET Timer!Slots,
           IsFiniteSet(H), Cardinality(D) + Cardinality(H) <= Cardinality(Device),
           \A i \in Timer!Slots : Handled(i) => i \in H,
           \A i \in Timer!Slots, d \in Device : Owns(d, i) => d \in D
    PROVE  Tag_Pool # <<>>
<1> SUFFICES ASSUME Tag_Pool = <<>> PROVE FALSE
  OBVIOUS
<1>1. PICK S \in SUBSET Timer!Slots : S = Stray
  BY DEF Stray
<1> DEFINE used == Timer!Slots \ (S \cup H)
           f == [i \in used |-> Running_Requests[i].ctx1]
<1>2. \A i \in used : Running_Requests[i].ctx1 \in Device /\ Owns(Running_Requests[i].ctx1, i)
  <2> SUFFICES ASSUME NEW i \in used
               PROVE  Running_Requests[i].ctx1 \in Device /\ Owns(Running_Requests[i].ctx1, i)
    OBVIOUS
  <2>1. Valid(i)
    BY NextSlotFree DEF Base
  <2>2. ~Handled(i) /\ i \notin Stray
    BY <1>1
  <2> QED BY <2>1, <2>2 DEF Stray, Tidy, Named
<1>3. \A i \in used : Running_Requests[i].ctx1 \in D /\ timer_id[Running_Requests[i].ctx1] = i
  BY <1>2 DEF Owns
<1>4. f \in [used -> D] /\ \A i, j \in used : f[i] = f[j] => i = j
  BY <1>3
<1>5. IsFiniteSet(S) /\ IsFiniteSet(D) /\ IsFiniteSet(used) /\ IsFiniteSet(S \cup H)
  BY SlotsFinite, SlotsAssumption, FS_Subset, FS_Union
<1>6. /\ Cardinality(S) \in Nat /\ Cardinality(H) \in Nat /\ Cardinality(D) \in Nat
      /\ Cardinality(used) \in Nat /\ Cardinality(Device) \in Nat
  BY <1>5, SlotsAssumption, FS_CardinalityType
<1>7. Cardinality(S) <= Cardinality(Device) + 1
  <2>1. Cardinality(S) <= overlaps /\ overlaps <= MaxOverlap /\ overlaps \in Nat /\ MaxOverlap \in Nat
    BY <1>1, BaseFields DEF Tidy, Debt
  <2> QED BY <1>6, <2>1, OverlapAssumption
<1>8. Cardinality(S \cup H) <= Cardinality(S) + Cardinality(H) /\ Cardinality(S \cup H) \in Nat
  <2>1. /\ Cardinality(S \cup H) = Cardinality(S) + Cardinality(H) - Cardinality(S \cap H)
        /\ Cardinality(S \cap H) \in Nat
    BY <1>5, FS_Union, FS_Subset, FS_CardinalityType
  <2>2. Cardinality(S \cup H) \in Nat
    BY <1>5, FS_CardinalityType
  <2> QED BY <1>6, <2>1, <2>2
<1>9. Cardinality(used) = Timer_Request_Number - Cardinality(S \cup H)
  <2>1. S \cup H \subseteq Timer!Slots
    OBVIOUS
  <2>2. Timer!Slots \cap (S \cup H) = S \cup H
    BY <2>1
  <2>3. Cardinality(used) = Cardinality(Timer!Slots) - Cardinality(Timer!Slots \cap (S \cup H))
    BY SlotsFinite, <1>5, FS_Difference
  <2> QED BY SlotsFinite, <2>2, <2>3
<1> HIDE DEF used, f
<1>10. Cardinality(D) < Cardinality(used)
  BY <1>6, <1>7, <1>8, <1>9, SlotsFinite, SlotsAssumption
<1>11. \E i, j \in used : i # j /\ f[i] = f[j]
  BY <1>4, <1>5, <1>6, <1>10, FS_PigeonHole
<1> QED BY <1>4, <1>11

\* A device that goes by no timer leaves room for one.
LEMMA RoomBesides ==
    ASSUME Base, Tidy, NEW d \in Device, \A i \in Timer!Slots : ~Owns(d, i)
    PROVE  Tag_Pool # <<>>
<1> DEFINE D == Device \ {d}
           H == {check.i}
<1>1. /\ IsFiniteSet(H) /\ Cardinality(H) = 1 /\ H \in SUBSET Timer!Slots
  BY BaseFields, FS_Singleton
<1>2. Cardinality(D) = Cardinality(Device) - 1
  BY SlotsAssumption, FS_RemoveElement
<1>3. Cardinality(Device) \in Nat
  BY SlotsAssumption, FS_CardinalityType
<1>4. /\ \A i \in Timer!Slots : Handled(i) => i \in H
      /\ \A i \in Timer!Slots, e \in Device : Owns(e, i) => e \in D
  BY DEF Handled
<1> HIDE DEF D, H
<1>5. Cardinality(D) + Cardinality(H) <= Cardinality(Device)
  BY <1>1, <1>2, <1>3
<1> QED BY <1>1, <1>4, <1>5, RoomForOne DEF D

\* So does a routine that has not done its work: no slot is about to be released.
LEMMA RoomInRoutine ==
    ASSUME Base, Tidy, ~answered
    PROVE  Tag_Pool # <<>>
<1>1. IsFiniteSet({}) /\ Cardinality({}) = 0
  BY FS_EmptySet
<1>2. Cardinality(Device) \in Nat
  BY SlotsAssumption, FS_CardinalityType
<1> DEFINE H == {}
<1>3. IsFiniteSet(H) /\ Cardinality(Device) + Cardinality(H) <= Cardinality(Device) /\ H \in SUBSET Timer!Slots
  BY <1>1, <1>2
<1>4. \A i \in Timer!Slots : Handled(i) => i \in H
  BY DEF Handled
<1> HIDE DEF H
<1> QED BY <1>3, <1>4, RoomForOne

\* A timer is armed for request r, by now the oldest of its device.  A routine
\* may do so with the list locked; the old timer of the device goes on.
LEMMA ArmTidy ==
    ASSUME Base, Tidy, Tag_Pool # <<>>,
           NEW n \in 0..MaxUnits, NEW d \in Device, NEW r \in Request,
           Timer!AddRequest(n, d, r), timer_id' = [timer_id EXCEPT ![d] = Timer!NextSlot],
           \A e \in Device \ {d} : sent_req_list'[e] = sent_req_list[e] /\ renew'[e] = renew[e],
           renew'[d] = None => sent_req_list'[d] # <<>> /\ Head(sent_req_list'[d]) = r,
           overlaps' = overlaps,
           \/ answered' = answered /\ renew'[d] = None /\ \A i \in Timer!Slots : ~Owns(d, i)
           \/ renew'[d] = renew[d] /\ \E q \in Request : TimedOut(d, q)
    PROVE  Tidy'
<1> DEFINE new == Timer!NextSlot
<1>1. new \in Timer!Slots /\ ~Valid(new)
  BY NextSlotFree DEF Base
<1>2. /\ Running_Requests' = [Running_Requests EXCEPT ![new] =
                [Valid |-> TRUE, left |-> n, ctx1 |-> d, ctx2 |-> r]]
      /\ check' = check
  BY DEF Timer!AddRequest
<1> HIDE DEF new
<1>3. /\ \A i \in Timer!Slots \ {new} : Running_Requests'[i] = Running_Requests[i]
      /\ Running_Requests'[new].Valid /\ Running_Requests'[new].ctx1 = d /\ Running_Requests'[new].ctx2 = r
      /\ \A e \in Device \ {d} : timer_id'[e] = timer_id[e]
      /\ timer_id'[d] = new
  BY <1>1, <1>2, BaseFields DEF new
<1>4. Named'
  BY <1>3 DEF Tidy, Named, Valid
<1>5. Oldest'
  <2> SUFFICES ASSUME NEW e \in Device, renew'[e] = None
               PROVE  /\ timer_id'[e] = None <=> sent_req_list'[e] = <<>>
                      /\ Watched(e)' => Running_Requests'[timer_id'[e]].ctx2 = Head(sent_req_list'[e])
    BY DEF Oldest, Unlocked
  <2>1. CASE e = d
    BY <1>1, <1>3, <2>1, SlotNumbers
  <2>2. CASE e # d
    <3>1. /\ timer_id[e] = None <=> sent_req_list[e] = <<>>
          /\ Watched(e) => Running_Requests[timer_id[e]].ctx2 = Head(sent_req_list[e])
      BY <2>2 DEF Tidy, Oldest, Unlocked
    <3>2. ASSUME Watched(e)'
          PROVE  Watched(e) /\ timer_id[e] # new /\ timer_id[e] \in Timer!Slots
      <4>1. timer_id'[e] = timer_id[e] /\ timer_id[e] \in Timer!Slots \cup {None}
        BY <1>3, <2>2 DEF Base, CoreOK
      <4>2. /\ timer_id[e] # None /\ Running_Requests'[timer_id[e]].Valid
            /\ Running_Requests'[timer_id[e]].ctx1 = e
        BY <3>2, <4>1 DEF Watched
      <4>3. timer_id[e] # new
        BY <1>3, <2>2, <4>2
      <4> QED BY <1>3, <4>1, <4>2, <4>3 DEF Watched
    <3> QED BY <1>3, <2>2, <3>1, <3>2
  <2> QED BY <2>1, <2>2
<1>6. InStep'
  BY <1>2 DEF Tidy, InStep, TimedOut
<1>7. ASSUME NEW i \in Stray'
      PROVE  \/ i \in Stray
             \/ Owns(d, i)
             \/ i = new /\ renew'[d] # None
  <2>1. /\ i \in Timer!Slots /\ Running_Requests'[i].Valid /\ ~(check.at = "called" /\ answered' /\ check.i = i)
        /\ ~(renew'[Running_Requests'[i].ctx1] = None /\ timer_id'[Running_Requests'[i].ctx1] = i)
    BY <1>2 DEF Stray, Valid, Handled, Owns, Unlocked
  <2>2. CASE i = new
    BY <1>3, <2>1, <2>2
  <2>3. CASE i # new
    <3>1. Valid(i) /\ Running_Requests[i].ctx1 \in Device /\ Running_Requests'[i] = Running_Requests[i]
      BY <1>3, <2>1, <2>3 DEF Valid, Tidy, Named
    <3>2. ~Handled(i)
      BY <2>1 DEF Handled, TimedOut
    <3>3. CASE Running_Requests[i].ctx1 = d
      BY <2>1, <3>1, <3>2, <3>3 DEF Stray
    <3>4. CASE Running_Requests[i].ctx1 # d
      BY <1>3, <2>1, <3>1, <3>2, <3>4 DEF Stray, Owns, Unlocked
    <3> QED BY <3>3, <3>4
  <2> QED BY <2>2, <2>3
<1>8. CASE answered' = answered /\ renew'[d] = None /\ \A i \in Timer!Slots : ~Owns(d, i)
  <2>1. Stray' \subseteq Stray
    <3> SUFFICES ASSUME NEW i \in Stray' PROVE i \in Stray
      OBVIOUS
    <3>1. i \in Timer!Slots
      BY DEF Stray
    <3> QED BY <1>7, <1>8, <3>1
  <2>2. Debt' /\ (Spare => Spare')
    BY <2>1, NoMore DEF Tidy
  <2>3. Slack'
    <3>1. Valid(check.i) => Running_Requests'[check.i] = Running_Requests[check.i]
      BY <1>1, <1>3, BaseFields
    <3> QED BY <1>2, <1>8, <2>2, <3>1 DEF Slack, Tidy, Valid
  <2> QED BY <1>4, <1>5, <1>6, <2>2, <2>3 DEF Tidy
<1>9. CASE renew'[d] = renew[d] /\ \E q \in Request : TimedOut(d, q)
  <2>1. check.at = "called" /\ check.ctx1 = d /\ ~answered /\ answered'
    BY <1>9 DEF TimedOut
  <2>2. Slack'
    BY <2>1 DEF Slack
  <2>3. PICK y : y = IF renew[d] = None THEN timer_id[d] ELSE new
    OBVIOUS
  <2>4. Stray' \subseteq (Stray \ {check.i}) \cup {y}
    <3> SUFFICES ASSUME NEW i \in Stray' PROVE i \in Stray \ {check.i} \/ i = y
      OBVIOUS
    <3>1. i # check.i
      BY <1>2, <2>1 DEF Stray, Handled
    <3> QED BY <1>7, <1>9, <2>3, <3>1 DEF Owns, Unlocked
  <2>5. d # None
    BY NoneAssumption
  <2>6. \/ Spare
        \/ Valid(check.i) /\ Running_Requests[check.i].ctx1 = d
    BY <2>1, <2>5 DEF Tidy, Slack
  <2>7. Debt'
    <3>1. CASE Spare
      <4>1. Stray' \subseteq Stray \cup {y}
        BY <2>4
      <4> QED BY <3>1, <4>1, OneMore DEF Tidy
    <3>2. CASE check.i \in Stray
      BY <2>4, <3>2, Exchange DEF Tidy
    <3>3. CASE check.i \notin Stray /\ Valid(check.i) /\ Running_Requests[check.i].ctx1 = d
      <4>1. Owns(d, check.i)
        BY <2>1, <3>3, BaseFields DEF Stray, Handled
      <4>2. y = check.i
        BY <2>3, <4>1 DEF Owns, Unlocked
      <4>3. check.i \notin Stray'
        BY <1>2, <2>1 DEF Stray, Handled
      <4>4. Stray' \subseteq Stray
        BY <2>4, <4>2, <4>3
      <4> QED BY <4>4, NoMore DEF Tidy
    <3> QED BY <2>6, <3>1, <3>2, <3>3
  <2> QED BY <1>4, <1>5, <1>6, <2>2, <2>7 DEF Tidy
<1> QED BY <1>8, <1>9

\* The timers are left alone, and every list keeps its oldest request.
LEMMA StillTidy ==
    ASSUME Base, Tidy, UNCHANGED <<timerVars, timer_id, renew>>,
           answered' = answered \/ (check.at = "called" /\ answered' = TRUE),
           overlaps' \in {overlaps, overlaps + 1},
           \A e \in Device : /\ sent_req_list'[e] = <<>> <=> sent_req_list[e] = <<>>
                             /\ sent_req_list[e] # <<>> =>
                                  Head(sent_req_list'[e]) = Head(sent_req_list[e])
    PROVE  Tidy'
<1>1. Named' /\ InStep'
  BY DEF Tidy, Named, Valid, InStep, timerVars
<1>2. Oldest'
  <2>1. \A e \in Device : Watched(e)' => Watched(e) /\ timer_id[e] # None
    BY DEF Watched, timerVars
  <2>2. \A e \in Device : timer_id[e] # None /\ Unlocked(e) => sent_req_list[e] # <<>>
    BY DEF Tidy, Oldest
  <2> QED BY <2>1, <2>2 DEF Tidy, Oldest, Unlocked, timerVars
<1>3. Stray' \subseteq Stray
  BY DEF Stray, Valid, Handled, Owns, Unlocked, timerVars
<1>4. Debt' /\ (Spare => Spare')
  BY <1>3, NoMore DEF Tidy
<1>5. Slack'
  BY <1>4 DEF Tidy, Slack, Valid, timerVars
<1> QED BY <1>1, <1>2, <1>4, <1>5 DEF Tidy

LEMMA InitTidy == Init => Tidy
<1> SUFFICES ASSUME Init PROVE Tidy
  OBVIOUS
<1>1. \A i \in Timer!Slots : ~Valid(i)
  BY DEF Init, Timer!Init, Valid
<1>2. check.at = "asleep" /\ check.ctx1 = None /\ ~answered
  BY DEF Init, Timer!Init, Timer!Asleep
<1>3. Stray = {}
  BY <1>1 DEF Stray
<1>4. Debt
  BY <1>3, FS_EmptySet DEF Init, Debt
<1>5. Oldest
  BY DEF Init, Oldest, Watched
<1> QED BY <1>1, <1>2, <1>4, <1>5 DEF Tidy, Named, Slack, InStep

LEMMA AddTimerTidy ==
    ASSUME Base, Tidy, NEW d \in Device, NEW r \in Request, mv_add_timer(d, r)
    PROVE  Tidy'
<1> DEFINE s == sent_req_list[d]
<1>1. s \in Seq(Request) /\ sent_req_list'[d] = Append(s, r)
      /\ \A e \in Device \ {d} : sent_req_list'[e] = sent_req_list[e]
  BY DEF mv_add_timer, Base, CoreOK
<1>2. /\ Append(s, r) # <<>>
      /\ s = <<>> => Head(Append(s, r)) = r
      /\ s # <<>> => Head(Append(s, r)) = Head(s)
  BY <1>1, HeadOfAppend
<1>3. /\ renew[d] = None /\ renew' = renew /\ answered' = answered
      /\ overlaps' = overlaps
      /\ timer_id[d] = None <=> s = <<>>
  BY DEF mv_add_timer, Unlocked, historyVars, Tidy, Oldest
<1>4. CASE NeedsTimer(d)
  <2>1. s = <<>> /\ \A i \in Timer!Slots : ~Owns(d, i)
    BY <1>3, <1>4, SlotNumbers DEF NeedsTimer, Owns
  <2>2. /\ Timer!AddRequest(FirstSeconds(r), d, r)
        /\ timer_id' = [timer_id EXCEPT ![d] = Timer!NextSlot]
    BY <1>4 DEF mv_add_timer
  <2>3. Tag_Pool # <<>>
    BY <2>1, RoomBesides
  <2> QED BY <1>1, <1>2, <1>3, <2>1, <2>2, <2>3, Times, ArmTidy
<1>5. CASE ~NeedsTimer(d)
  <2>1. s # <<>>
    BY <1>3, <1>5 DEF NeedsTimer
  <2>2. UNCHANGED <<timerVars, timer_id, renew>>
    BY <1>3, <1>5 DEF mv_add_timer
  <2> QED BY <1>1, <1>2, <1>3, <2>1, <2>2, StillTidy
<1> QED BY <1>4, <1>5

LEMMA ArmNextTidy ==
    ASSUME Base, Tidy, NEW d \in Device, mv_renew_timer_arm(d)
    PROVE  Tidy'
<1>1. /\ renew[d] \in 0..MaxUnits /\ sent_req_list[d] # <<>> /\ Head(sent_req_list[d]) \in Request
      /\ \A i \in Timer!Slots : ~Owns(d, i)
  BY FirstOnes DEF mv_renew_timer_arm, Base, CoreOK, Unlocked, Owns
<1>2. /\ Timer!AddRequest(renew[d], d, Head(sent_req_list[d]))
      /\ timer_id' = [timer_id EXCEPT ![d] = Timer!NextSlot]
      /\ answered' = answered /\ sent_req_list' = sent_req_list /\ overlaps' = overlaps
      /\ renew'[d] = None /\ \A e \in Device \ {d} : renew'[e] = renew[e]
  BY DEF mv_renew_timer_arm, Base, CoreOK, historyVars
<1>3. Tag_Pool # <<>>
  BY <1>1, RoomBesides
<1> QED BY <1>1, <1>2, <1>3, ArmTidy

\* The oldest request of d is off the list and its timer forgotten; it has been
\* cancelled, or the completion counts as late.
LEMMA RenewFirstTidy ==
    ASSUME Base, Tidy, NEW d \in Device, 1 \in 1..Len(sent_req_list[d]), mv_renew_timer(d, 1)
    PROVE  Tidy'
<1> DEFINE slot == timer_id[d]
           s == sent_req_list[d]
<1>1. /\ Timer!CancelRequest(slot) /\ renew[d] = None /\ answered' = answered
      /\ timer_id'[d] = None /\ \A e \in Device \ {d} : timer_id'[e] = timer_id[e]
      /\ sent_req_list'[d] = RemoveAt(s, 1)
      /\ \A e \in Device \ {d} : sent_req_list'[e] = sent_req_list[e] /\ renew'[e] = renew[e]
      /\ renew'[d] = IF Len(s) > 1 THEN Time_Out[s[1]] ELSE None
  BY DEF mv_renew_timer, mv_cancel_timer, Unlocked, Base, CoreOK
<1>2. s \in Seq(Request) /\ s # <<>> /\ Len(s) \in Nat \ {0} /\ s[1] \in Request
  <2>1. s \in Seq(Request) /\ s # <<>>
    BY EmptySeq, LenProperties DEF Base, CoreOK
  <2> QED BY <2>1, FirstOnes DEF Base
<1>3. renew'[d] = None => sent_req_list'[d] = <<>>
  <2>1. CASE Len(s) > 1
    BY <1>1, <1>2, <2>1, Times, NoneAssumption
  <2>2. CASE ~(Len(s) > 1)
    <3> DEFINE t == RemoveAt(s, 1)
    <3>1. t \in Seq(Request) /\ Len(t) = Len(s) - 1
      BY <1>2, RemoveAtProperties
    <3>2. \A n \in Nat \ {0} : n > 1 \/ n = 1
      OBVIOUS
    <3>3. Len(s) = 1
      BY <1>2, <2>2, <3>2, Zenon
    <3> HIDE DEF t
    <3>4. t = <<>>
      BY <3>1, <3>3, EmptySeq
    <3> QED BY <1>1, <3>4 DEF t
  <2> QED BY <2>1, <2>2
<1> HIDE DEF s
<1>4. /\ check' = check
      /\ \A i \in Timer!Slots \ {slot} : Running_Requests'[i] = Running_Requests[i]
      /\ \A i \in Timer!Slots : /\ Valid(i)' => Valid(i)
                                /\ Running_Requests'[i].ctx1 = Running_Requests[i].ctx1
                                /\ Running_Requests'[i].ctx2 = Running_Requests[i].ctx2
      /\ ~Timer!Cancellable(slot) => Running_Requests' = Running_Requests
      /\ Timer!Cancellable(slot) => ~Running_Requests'[slot].Valid
  <2>1. Running_Requests \in [Timer!Slots ->
           [Valid : BOOLEAN, left : -1..MaxUnits,
            ctx1 : Device \cup {None}, ctx2 : Request \cup {None}]]
    BY DEF Base, PoolOK, Timer!TimerTypeOK
  <2>2. CASE Timer!Cancellable(slot)
    <3>1. slot \in Timer!Slots /\ Timer!Release(slot) /\ check' = check
      BY <1>1, <2>2 DEF Timer!CancelRequest, Timer!Cancellable
    <3>2. Running_Requests' = [Running_Requests EXCEPT ![slot].Valid = FALSE, ![slot].left = 0]
      BY <3>1 DEF Timer!Release
    <3> HIDE DEF slot
    <3>3. \A i \in Timer!Slots \ {slot} : Running_Requests'[i] = Running_Requests[i]
      BY <2>1, <3>2
    <3>4. /\ Running_Requests'[slot].Valid = FALSE
          /\ Running_Requests'[slot].ctx1 = Running_Requests[slot].ctx1
          /\ Running_Requests'[slot].ctx2 = Running_Requests[slot].ctx2
      BY <2>1, <3>1, <3>2
    <3> QED BY <2>2, <3>1, <3>3, <3>4 DEF Valid
  <2>3. CASE ~Timer!Cancellable(slot)
    BY <1>1, <2>3 DEF Timer!CancelRequest, Valid
  <2> QED BY <2>2, <2>3
<1>5. Named' /\ InStep'
  BY <1>1, <1>4 DEF Tidy, Named, Valid, InStep
<1>6. Oldest'
  <2> SUFFICES ASSUME NEW e \in Device, renew'[e] = None
               PROVE  /\ timer_id'[e] = None <=> sent_req_list'[e] = <<>>
                      /\ Watched(e)' => Running_Requests'[timer_id'[e]].ctx2 = Head(sent_req_list'[e])
    BY DEF Oldest, Unlocked
  <2>1. CASE e = d
    BY <1>1, <1>3, <2>1 DEF Watched
  <2>2. CASE e # d
    <3>1. timer_id'[e] = timer_id[e] /\ sent_req_list'[e] = sent_req_list[e] /\ renew[e] = None
      BY <1>1, <2>2
    <3>2. Watched(e)' => Watched(e) /\ timer_id[e] \in Timer!Slots
      BY <1>4, <3>1 DEF Watched, Valid, Base, CoreOK
    <3> QED BY <1>4, <3>1, <3>2 DEF Tidy, Oldest, Unlocked
  <2> QED BY <2>1, <2>2
<1>7. ASSUME NEW i \in Stray'
      PROVE  i \in Stray \/ i = slot
  <2>1. /\ i \in Timer!Slots /\ Valid(i) /\ ~Handled(i)
        /\ ~(renew'[Running_Requests[i].ctx1] = None /\ timer_id'[Running_Requests[i].ctx1] = i)
    BY <1>1, <1>4 DEF Stray, Handled, Owns, Unlocked
  <2>2. Running_Requests[i].ctx1 \in Device
    BY <2>1 DEF Tidy, Named
  <2>3. CASE Running_Requests[i].ctx1 = d
    BY <2>1, <2>3 DEF Stray, Owns
  <2>4. CASE Running_Requests[i].ctx1 # d
    BY <1>1, <2>1, <2>2, <2>4 DEF Stray, Owns, Unlocked
  <2> QED BY <2>3, <2>4
<1>8. CASE Timer!Cancellable(slot)
  <2>1. Stray' \subseteq Stray
    BY <1>4, <1>7, <1>8 DEF Stray, Valid
  <2>2. /\ overlaps' \in {overlaps, overlaps + 1}
        /\ check.at \in {"due", "called"} => overlaps' = overlaps + 1
    BY DEF mv_renew_timer
  <2>3. Debt' /\ (overlaps' # overlaps => Spare')
    BY <2>1, <2>2, NoMore DEF Tidy
  <2>4. Slack'
    BY <1>4, <2>2, <2>3, BaseFields DEF Slack
  <2> QED BY <1>5, <1>6, <2>3, <2>4 DEF Tidy
<1>9. CASE ~Timer!Cancellable(slot)
  <2>1. overlaps' = overlaps + 1 /\ overlaps' # overlaps
    BY <1>9, BaseFields DEF mv_renew_timer
  <2>2. PICK y : y = slot /\ Stray' \subseteq Stray \cup {y}
    BY <1>7
  <2>3. Debt' /\ (Spare => Spare')
    BY <2>1, <2>2, OneMore DEF Tidy
  <2>4. Slack'
    BY <1>1, <1>4, <1>9, <2>3 DEF Tidy, Slack, Valid
  <2> QED BY <1>5, <1>6, <2>3, <2>4 DEF Tidy
<1> QED BY <1>8, <1>9

LEMMA RenewTidy ==
    ASSUME Base, Tidy, NEW d \in Device, NEW k \in 1..Len(sent_req_list[d]), mv_renew_timer(d, k)
    PROVE  Tidy'
<1>1. CASE k = 1
  BY <1>1, RenewFirstTidy
<1>2. CASE k # 1
  <2> DEFINE s == sent_req_list[d]
  <2>1. s \in Seq(Request) /\ s # <<>>
    BY EmptySeq, LenProperties DEF Base, CoreOK
  <2>2. /\ UNCHANGED <<timerVars, timer_id, renew, answered>>
        /\ overlaps' \in {overlaps, overlaps + 1}
        /\ sent_req_list'[d] = RemoveAt(s, k)
        /\ \A e \in Device \ {d} : sent_req_list'[e] = sent_req_list[e]
    BY <1>2 DEF mv_renew_timer, Base, CoreOK
  <2>3. RemoveAt(s, k) # <<>> /\ Head(RemoveAt(s, k)) = Head(s)
    BY <1>2, <2>1, RemoveAtProperties
  <2> QED BY <2>1, <2>2, <2>3, StillTidy
<1> QED BY <1>1, <1>2

\* The last request of d is given up; the device forgets its timer.
LEMMA ForgetTidy ==
    ASSUME Base, Tidy, NEW d \in Device, NEW r \in Request, TimedOut(d, r),
           UNCHANGED timerVars, renew' = renew, overlaps' = overlaps,
           timer_id'[d] = None, sent_req_list'[d] = <<>>,
           \A e \in Device \ {d} : timer_id'[e] = timer_id[e] /\ sent_req_list'[e] = sent_req_list[e]
    PROVE  Tidy'
<1>1. check.at = "called" /\ check.ctx1 = d /\ ~answered /\ answered' /\ check' = check
      /\ Running_Requests' = Running_Requests
  BY DEF TimedOut, timerVars
<1>2. Named' /\ Slack' /\ InStep'
  BY <1>1 DEF Tidy, Named, Valid, Slack, InStep
<1>3. Oldest'
  BY <1>1 DEF Tidy, Oldest, Watched, Unlocked
<1>4. PICK y : y = timer_id[d]
  OBVIOUS
<1>5. ASSUME NEW i \in Stray'
      PROVE  i \in Stray \ {check.i} \/ (i = y /\ Owns(d, i) /\ i # check.i)
  <2>1. /\ i \in Timer!Slots /\ Valid(i) /\ i # check.i
        /\ ~(renew[Running_Requests[i].ctx1] = None /\ timer_id'[Running_Requests[i].ctx1] = i)
    BY <1>1 DEF Stray, Valid, Handled, Owns, Unlocked
  <2>2. Running_Requests[i].ctx1 \in Device
    BY <2>1 DEF Tidy, Named
  <2>3. CASE Running_Requests[i].ctx1 = d
    BY <1>1, <1>4, <2>1, <2>3 DEF Stray, Handled, Owns
  <2>4. CASE Running_Requests[i].ctx1 # d
    BY <1>1, <2>1, <2>2, <2>4 DEF Stray, Handled, Owns, Unlocked
  <2> QED BY <2>3, <2>4
<1>6. \/ Spare
      \/ Valid(check.i) /\ Running_Requests[check.i].ctx1 = d
  BY <1>1, NoneAssumption DEF Tidy, Slack
<1>7. Debt'
  <2>1. CASE Spare
    <3>1. Stray' \subseteq Stray \cup {y}
      BY <1>5
    <3> QED BY <2>1, <3>1, OneMore DEF Tidy
  <2>2. CASE check.i \in Stray
    <3>1. Stray' \subseteq (Stray \ {check.i}) \cup {y}
      BY <1>5
    <3> QED BY <2>2, <3>1, Exchange DEF Tidy
  <2>3. CASE check.i \notin Stray /\ Valid(check.i) /\ Running_Requests[check.i].ctx1 = d
    <3>1. Owns(d, check.i)
      BY <1>1, <2>3, BaseFields DEF Stray, Handled
    <3>2. Stray' \subseteq Stray
      BY <1>5, <3>1 DEF Owns
    <3> QED BY <3>2, NoMore DEF Tidy
  <2> QED BY <1>6, <2>1, <2>2, <2>3
<1> QED BY <1>2, <1>3, <1>7 DEF Tidy

LEMMA TimeoutTidy ==
    ASSUME Base, Tidy, NEW d \in Device, NEW r \in Request, core_req_timeout(d, r), ~late_erase'
    PROVE  Tidy'
<1>1. TimedOut(d, r)
  BY DEF core_req_timeout, ExtendErase, NothingSent, NotTheOldest, GiveUp
<1>2. check.at = "called" /\ ~answered /\ answered' = TRUE /\ Tag_Pool # <<>>
  BY <1>1, RoomInRoutine DEF TimedOut
<1>3. CASE ExtendErase(d, r)
  <2>1. /\ Timer!AddRequest(EraseSeconds, d, r)
        /\ timer_id' = [timer_id EXCEPT ![d] = Timer!NextSlot]
        /\ sent_req_list' = sent_req_list /\ renew' = renew /\ overlaps' = overlaps
        /\ sent_req_list[d] # <<>> /\ Head(sent_req_list[d]) = r
    BY <1>3 DEF ExtendErase
  <2> QED BY <1>1, <1>2, <2>1, Times, ArmTidy
<1>4. CASE NothingSent(d, r)
  <2>1. /\ timer_id[d] = None /\ timer_id' = [timer_id EXCEPT ![d] = None]
        /\ UNCHANGED <<timerVars, sent_req_list, renew, overlaps>>
    BY <1>4 DEF NothingSent, historyVars, Tidy, Oldest
  <2>2. timer_id' = timer_id
    BY <2>1, BaseFields DEF Base, CoreOK
  <2> QED BY <1>2, <2>1, <2>2, StillTidy
<1>5. CASE NotTheOldest(d, r)
  <2>1. UNCHANGED <<timerVars, timer_id, sent_req_list, renew, overlaps>>
    BY <1>5 DEF NotTheOldest, historyVars
  <2> QED BY <1>2, <2>1, StillTidy
<1>6. CASE GiveUp(d, r)
  <2>1. /\ sent_req_list[d] # <<>> /\ renew[d] = None
        /\ sent_req_list'[d] = Tail(sent_req_list[d]) /\ renew' = renew /\ overlaps' = overlaps
        /\ \A e \in Device \ {d} : sent_req_list'[e] = sent_req_list[e]
    BY <1>6 DEF GiveUp, Unlocked, historyVars, Base, CoreOK
  <2>2. CASE Len(sent_req_list[d]) > 1
    <3> DEFINE second == sent_req_list[d][2]
    <3>1. /\ second \in Request /\ Tail(sent_req_list[d]) # <<>>
          /\ Head(Tail(sent_req_list[d])) = second
      BY <2>1, <2>2, FirstOnes DEF Base
    <3>2. /\ Timer!AddRequest(Time_Out[r], d, second)
          /\ timer_id' = [timer_id EXCEPT ![d] = Timer!NextSlot]
      BY <1>6, <2>2 DEF GiveUp
    <3> HIDE DEF second
    <3> QED BY <1>1, <1>2, <2>1, <3>1, <3>2, Times, ArmTidy
  <2>3. CASE ~(Len(sent_req_list[d]) > 1)
    <3>1. sent_req_list'[d] = <<>>
      BY <2>1, <2>3, FirstOnes DEF Base
    <3>2. /\ UNCHANGED timerVars
          /\ timer_id'[d] = None /\ \A e \in Device \ {d} : timer_id'[e] = timer_id[e]
      BY <1>6, <2>3 DEF GiveUp, Base, CoreOK
    <3> QED BY <1>1, <2>1, <3>1, <3>2, ForgetTidy
  <2> QED BY <2>2, <2>3
<1> QED BY <1>3, <1>4, <1>5, <1>6 DEF core_req_timeout

\* On to the next slot, of which nothing has been read.
LEMMA PastIsClean ==
    ASSUME NEW i, Timer!StepPast(i)
    PROVE  check'.at \in {"asleep", "scan"} /\ check'.ctx1 = None
<1>1. check' = Timer!ScanAt(i + 1) \/ check' = Timer!Asleep
  BY DEF Timer!StepPast
<1>2. CASE check' = Timer!ScanAt(i + 1)
  BY <1>2 DEF Timer!ScanAt, Timer!Asleep
<1>3. CASE check' = Timer!Asleep
  BY <1>3 DEF Timer!Asleep
<1> QED BY <1>1, <1>2, <1>3

LEMMA ScanTidy ==
    ASSUME Base, Tidy, Scan
    PROVE  Tidy'
<1>1. UNCHANGED <<sent_req_list, timer_id, renew, answered, overlaps>>
  BY DEF Scan, historyVars
<1>2. /\ check \in [at : Timer!CheckStates, i : Timer!Slots,
                    ctx1 : Device \cup {None}, ctx2 : Request \cup {None}]
      /\ Running_Requests \in [Timer!Slots ->
           [Valid : BOOLEAN, left : -1..MaxUnits,
            ctx1 : Device \cup {None}, ctx2 : Request \cup {None}]]
  BY DEF Base, PoolOK, Timer!TimerTypeOK
<1>3. \A i \in Timer!Slots : /\ Running_Requests'[i].Valid = Running_Requests[i].Valid
                            /\ Running_Requests'[i].ctx1 = Running_Requests[i].ctx1
                            /\ Running_Requests'[i].ctx2 = Running_Requests[i].ctx2
  <2>1. CASE Timer!Tick
    BY <1>2, <2>1 DEF Timer!Tick
  <2>2. CASE ~Timer!Tick
    BY <2>2 DEF Scan, Timer!LookAtSlot, Timer!ReadContext1, Timer!ReadContext2
  <2> QED BY <2>1, <2>2
<1>4. ~answered /\ ~answered'
  BY <1>1 DEF Tidy, InStep, Scan, Timer!Tick, Timer!LookAtSlot, Timer!ReadContext1, Timer!ReadContext2
<1>5. Named'
  BY <1>3 DEF Tidy, Named, Valid
<1>6. Oldest'
  BY <1>1, <1>3 DEF Tidy, Oldest, Watched, Unlocked, Base, CoreOK
<1>7. Stray' \subseteq Stray
  BY <1>1, <1>3, <1>4 DEF Stray, Valid, Handled, Owns, Unlocked
<1>8. Debt' /\ (Spare => Spare')
  BY <1>1, <1>7, NoMore DEF Tidy
<1>9. Slack'
  <2> SUFFICES ASSUME check'.at \in {"due", "called"}
               PROVE  \/ Running_Requests'[check'.i].Valid
                         /\ check'.ctx1 \in {None, Running_Requests'[check'.i].ctx1}
                      \/ Spare'
    BY DEF Slack, Valid
  <2>1. ~Timer!Tick
    BY DEF Timer!Tick, Timer!ScanAt, Timer!Asleep
  <2>2. CASE Timer!LookAtSlot
    <3>1. Timer!IsDue(check.i)
      BY <2>2, PastIsClean DEF Timer!LookAtSlot
    <3>2. /\ check' = [check EXCEPT !.at = "due"] /\ Running_Requests[check.i].Valid
          /\ check.ctx1 = None
      BY <2>2, <3>1 DEF Timer!LookAtSlot, Timer!IsDue, Tidy, InStep
    <3>3. check'.i = check.i /\ check'.ctx1 = None
      BY <1>2, <3>2
    <3> QED BY <1>2, <1>3, <3>2, <3>3
  <2>3. CASE Timer!ReadContext1
    <3>1. /\ check.at = "due" /\ check.i \in Timer!Slots
          /\ check'.i = check.i /\ check'.ctx1 = Running_Requests[check.i].ctx1
      BY <1>2, <2>3 DEF Timer!ReadContext1
    <3>2. Running_Requests[check.i].Valid \/ Spare
      BY <1>4, <3>1 DEF Tidy, Slack, Valid
    <3> QED BY <1>3, <1>8, <3>1, <3>2
  <2>4. CASE Timer!ReadContext2
    <3>1. /\ check.at = "due" /\ check.i \in Timer!Slots
          /\ check'.i = check.i /\ check'.ctx1 = check.ctx1
      BY <1>2, <2>4 DEF Timer!ReadContext2
    <3>2. \/ Running_Requests[check.i].Valid /\ check.ctx1 \in {None, Running_Requests[check.i].ctx1}
          \/ Spare
      BY <1>4, <3>1 DEF Tidy, Slack, Valid
    <3> QED BY <1>3, <1>8, <3>1, <3>2
  <2> QED BY <2>1, <2>2, <2>3, <2>4 DEF Scan
<1>10. InStep'
  <2>1. CASE Timer!Tick
    BY <1>4, <2>1 DEF Timer!Tick, Timer!ScanAt, Timer!Asleep, InStep
  <2>2. CASE Timer!LookAtSlot
    <3>1. CASE Timer!IsDue(check.i)
      BY <1>2, <1>4, <2>2, <3>1 DEF Timer!LookAtSlot, InStep
    <3>2. CASE ~Timer!IsDue(check.i)
      BY <1>4, <2>2, <3>2, PastIsClean DEF Timer!LookAtSlot, InStep
    <3> QED BY <3>1, <3>2
  <2>3. CASE Timer!ReadContext1 \/ Timer!ReadContext2
    BY <1>2, <1>4, <2>3 DEF Timer!ReadContext1, Timer!ReadContext2, InStep
  <2> QED BY <2>1, <2>2, <2>3 DEF Scan
<1> QED BY <1>5, <1>6, <1>8, <1>9, <1>10 DEF Tidy

LEMMA ReturnTidy ==
    ASSUME Base, Tidy, Return
    PROVE  Tidy'
<1> DEFINE s == check.i
<1>1. /\ s \in Timer!Slots /\ check.at = "called" /\ answered /\ ~answered'
      /\ UNCHANGED <<sent_req_list, timer_id, renew, overlaps>>
      /\ IF Valid(s) THEN Timer!Release(s) ELSE UNCHANGED <<Tag_Pool, Running_Requests>>
  BY BaseFields DEF Return, Timer!Return, historyVars, Valid
<1>2. check'.at \in {"asleep", "scan"} /\ check'.ctx1 = None
  BY PastIsClean DEF Return, Timer!Return
<1> HIDE DEF s
<1>3. /\ \A i \in Timer!Slots \ {s} : Running_Requests'[i] = Running_Requests[i]
      /\ ~Running_Requests'[s].Valid
      /\ Running_Requests'[s].ctx1 = Running_Requests[s].ctx1
  <2>1. Running_Requests \in [Timer!Slots ->
           [Valid : BOOLEAN, left : -1..MaxUnits,
            ctx1 : Device \cup {None}, ctx2 : Request \cup {None}]]
    BY DEF Base, PoolOK, Timer!TimerTypeOK
  <2>2. CASE Valid(s)
    <3>1. Running_Requests' = [Running_Requests EXCEPT ![s].Valid = FALSE, ![s].left = 0]
      BY <1>1, <2>2 DEF Timer!Release
    <3>2. \A i \in Timer!Slots \ {s} : Running_Requests'[i] = Running_Requests[i]
      BY <2>1, <3>1
    <3>3. /\ Running_Requests'[s].Valid = FALSE
          /\ Running_Requests'[s].ctx1 = Running_Requests[s].ctx1
      BY <1>1, <2>1, <3>1
    <3> QED BY <3>2, <3>3
  <2>3. CASE ~Valid(s)
    BY <1>1, <2>3 DEF Valid
  <2> QED BY <2>2, <2>3
<1>4. Named'
  BY <1>3 DEF Tidy, Named, Valid
<1>5. Oldest'
  <2>1. \A e \in Device : Watched(e)' =>
           Watched(e) /\ Running_Requests'[timer_id[e]].ctx2 = Running_Requests[timer_id[e]].ctx2
    BY <1>1, <1>3 DEF Watched, Base, CoreOK
  <2> QED BY <1>1, <2>1 DEF Tidy, Oldest, Unlocked
<1>6. Stray' \subseteq Stray
  <2> SUFFICES ASSUME NEW i \in Stray' PROVE i \in Stray
    OBVIOUS
  <2>1. i \in Timer!Slots /\ i # s /\ Running_Requests'[i] = Running_Requests[i]
        /\ Running_Requests[i].Valid /\ ~Owns(Running_Requests[i].ctx1, i)'
    BY <1>3 DEF Stray, Valid
  <2>2. ~Owns(Running_Requests[i].ctx1, i)
    BY <1>1, <1>3, <2>1 DEF Owns, Unlocked
  <2> QED BY <2>1, <2>2 DEF Stray, Valid, Handled, s
<1>7. Debt'
  BY <1>1, <1>6, NoMore DEF Tidy
<1> QED BY <1>1, <1>2, <1>4, <1>5, <1>7 DEF Tidy, Slack, InStep

LEMMA NextTidy == TidyInv /\ [Next]_vars => TidyInv'
<1> SUFFICES ASSUME TidyInv, [Next]_vars PROVE TidyInv'
  OBVIOUS
<1>1. Base /\ Base'
  BY NextBase DEF TidyInv
<1>2. SUFFICES ASSUME ~late_erase' PROVE Tidy'
  BY <1>1 DEF TidyInv
<1>3. ~late_erase
  BY <1>2 DEF Next, mv_add_timer, mv_renew_timer, mv_renew_timer_arm, Softirq, Scan, Return,
         core_req_timeout, ExtendErase, NothingSent, NotTheOldest, GiveUp, historyVars, vars
<1>4. Tidy
  BY <1>3 DEF TidyInv
<1>5. CASE UNCHANGED vars
  BY <1>1, <1>4, <1>5, StillTidy DEF vars, historyVars
<1>6. CASE Next
  BY <1>1, <1>2, <1>4, <1>6, AddTimerTidy, RenewTidy, ArmNextTidy, TimeoutTidy, ScanTidy,
     ReturnTidy DEF Next, Softirq
<1> QED BY <1>5, <1>6

\* Completions at any moment, as many as there are spare slots, cannot exhaust
\* the timers, nor leave an idle device with a timer or a busy one without one,
\* nor a device's timer with another request than the oldest; only the extension
\* of an erase that is over can.
THEOREM OldestIsTimed == Spec => []TimerForOldest
<1>1. Init => TidyInv
  BY InitBase, InitTidy DEF TidyInv
<1>2. TidyInv => TimerForOldest
  BY DEF TidyInv, Tidy, Oldest, Base, PoolOK, CoreOK, TypeOK, TimerForOldest
<1> QED BY <1>1, <1>2, NextTidy, PTL DEF Spec
=============================================================================
