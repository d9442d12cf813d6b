--------------------------- MODULE CoreQueues_proofs ---------------------------
(***************************************************************************)
(* For any processors, requests and devices, any number of slots and any   *)
(* queue depth: a request is in one place, and a device counts exactly     *)
(* what it has, whichever way sending it fails.                            *)
(***************************************************************************)
EXTENDS CoreQueues, SequenceTheorems, FiniteSetTheorems, TLAPS

\* Where a processor has a request in its hands, where it walks through a
\* waiting queue or sends, and where its request is counted.
Busy == {"gate", "admit", "slot", "noslot", "FULL", "BLOCKED", "NO_RESOURCE",
         "restore", "clean", "queue"}
Walking == {"gate", "admit", "slot", "noslot", "FULL", "BLOCKED", "NO_RESOURCE",
            "take", "ending", "restore"}
Counting == {"slot", "noslot", "clean"}
Place == Busy \cup Walking \cup {"idle", "push", "giveback", "irq"}

ProcType == [at : Place, queue : {"fast", "high", "normal", None},
             req : Request \cup {None}, tmp : Seq(Request)]

Types ==
    /\ waiting_queue \in Seq(Request) /\ high_priority_queue \in Seq(Urgent)
    /\ complete_queue \in Seq(Request)
    /\ running_req \subseteq Request /\ upper \subseteq Request
    /\ outstanding_req \in [Device -> Nat]
    /\ blocked \in [Device -> BOOLEAN]
    /\ proc \in [Processor -> ProcType]
    /\ submits \in 0..MaxSubmit

Once ==
    /\ IsInjective(waiting_queue) /\ IsInjective(high_priority_queue)
    /\ IsInjective(complete_queue)

\* What processor p has in its hands and has put aside.
Shaped(p) ==
    /\ proc[p].at \in Busy <=> Req(p) # None
    /\ proc[p].tmp # <<>> => proc[p].at \in Walking /\ proc[p].queue # "fast"
    /\ proc[p].at \in {"take", "ending", "restore"} => proc[p].queue # "fast"
    /\ proc[p].at \in Walking /\ proc[p].queue = "high" => Has(p) \subseteq Urgent
    /\ IsInjective(proc[p].tmp) /\ Req(p) \notin ToSet(proc[p].tmp)

Shape == \A p \in Processor : Shaped(p)

\* The places of InOnePlace, two by two.
Apart ==
    /\ \A r \in upper : r \notin ToSet(waiting_queue) /\ r \notin ToSet(high_priority_queue)
                        /\ r \notin ToSet(complete_queue) /\ r \notin running_req
    /\ \A r \in ToSet(waiting_queue) : r \notin ToSet(high_priority_queue)
                        /\ r \notin ToSet(complete_queue) /\ r \notin running_req
    /\ \A r \in ToSet(high_priority_queue) :
          r \notin ToSet(complete_queue) /\ r \notin running_req
    /\ \A r \in ToSet(complete_queue) : r \notin running_req
    /\ \A p \in Processor : \A r \in Has(p) :
          /\ r \notin upper /\ r \notin ToSet(waiting_queue) /\ r \notin running_req
          /\ r \notin ToSet(high_priority_queue) /\ r \notin ToSet(complete_queue)
    /\ \A p, q \in Processor : \A r \in Has(p) : r \in Has(q) => p = q
    /\ \A r \in Request :
          \/ r \in upper \/ r \in ToSet(waiting_queue) \/ r \in ToSet(high_priority_queue)
          \/ r \in ToSet(complete_queue) \/ r \in running_req
          \/ \E p \in Processor : r \in Has(p)

SlotsLeft ==
    /\ IsFiniteSet(running_req)
    /\ free_slots \in Nat /\ free_slots + Cardinality(running_req) = Slots

\* The requests of device d that are with the hardware or on the way in or out.
Inside(r) ==
    r \in running_req \/ \E p \in Processor : proc[p].at \in Counting /\ Req(p) = r
On(d) == {r \in Request : DeviceOf[r] = d /\ Inside(r)}

Counted ==
    \A d \in Device :
       /\ IsFiniteSet(On(d)) /\ outstanding_req[d] = Cardinality(On(d))
       /\ outstanding_req[d] <= queue_depth

IInv == Types /\ Once /\ Shape /\ Apart /\ SlotsLeft /\ Counted

-----------------------------------------------------------------------------
(***************************************************************************)
(* The queues.                                                             *)
(***************************************************************************)

\* What a sequence holds, position by position.
LEMMA Positions ==
    ASSUME NEW S, NEW q \in Seq(S)
    PROVE  /\ Len(q) \in Nat /\ DOMAIN q = 1..Len(q)
           /\ \A i \in 1..Len(q) : q[i] \in S /\ q[i] \in ToSet(q)
           /\ \A x \in ToSet(q) : x \in S /\ \E i \in 1..Len(q) : q[i] = x
<1>1. Len(q) \in Nat /\ DOMAIN q = 1..Len(q) /\ \A i \in 1..Len(q) : q[i] \in S
  BY LenProperties, ElementOfSeq
<1>2. /\ \A i \in 1..Len(q) : q[i] \in ToSet(q)
      /\ \A x \in ToSet(q) : \E i \in 1..Len(q) : q[i] = x
  BY <1>1 DEF ToSet
<1> QED BY <1>1, <1>2

LEMMA Nothing == IsInjective(<<>>) /\ ToSet(<<>>) = {} /\ \A S : <<>> \in Seq(S)
<1>1. DOMAIN <<>> = {}
  BY EmptySeq, LenProperties
<1> QED BY <1>1, EmptySeq DEF IsInjective, ToSet

LEMMA Behead ==
    ASSUME NEW S, NEW q \in Seq(S), q # <<>>, IsInjective(q)
    PROVE  /\ Head(q) \in S /\ Head(q) \in ToSet(q)
           /\ Tail(q) \in Seq(S) /\ IsInjective(Tail(q))
           /\ ToSet(Tail(q)) = ToSet(q) \ {Head(q)}
<1> DEFINE n == Len(q)
           t == Tail(q)
<1>1. /\ n \in Nat \ {0} /\ DOMAIN q = 1..n /\ Head(q) = q[1] /\ Head(q) \in S
  BY EmptySeq, LenProperties, HeadTailProperties
<1>2. /\ t \in Seq(S) /\ Len(t) = n - 1 /\ DOMAIN t = 1..n-1
      /\ \A i \in 1..n-1 : t[i] = q[i+1]
  BY HeadTailProperties, LenProperties
<1>3. \A i, j \in 1..n : q[i] = q[j] => i = j
  BY <1>1 DEF IsInjective
<1> HIDE DEF n, t
<1>4. IsInjective(t)
  <2> SUFFICES ASSUME NEW i \in 1..n-1, NEW j \in 1..n-1, t[i] = t[j] PROVE i = j
    BY <1>2 DEF IsInjective
  <2>1. i + 1 \in 1..n /\ j + 1 \in 1..n /\ q[i+1] = q[j+1]
    BY <1>1, <1>2
  <2>2. i + 1 = j + 1
    BY <1>3, <2>1
  <2>3. i \in Int /\ j \in Int
    BY <1>1
  <2> QED BY <2>2, <2>3
<1>5. ToSet(t) = ToSet(q) \ {Head(q)}
  <2>1. ASSUME NEW i \in 1..n-1 PROVE t[i] \in ToSet(q) /\ t[i] # Head(q)
    <3>1. i + 1 \in 1..n /\ 1 \in 1..n /\ i + 1 # 1 /\ t[i] = q[i+1]
      BY <1>1, <1>2
    <3>2. q[i+1] # q[1]
      BY <1>3, <3>1
    <3> QED BY <1>1, <3>1, <3>2 DEF ToSet
  <2>2. ASSUME NEW i \in 1..n, q[i] # Head(q) PROVE q[i] \in ToSet(t)
    <3>1. i - 1 \in 1..n-1 /\ t[i-1] = q[i]
      BY <1>1, <1>2, <2>2
    <3> QED BY <1>2, <3>1 DEF ToSet
  <2>3. \A x \in ToSet(t) : \E i \in 1..n-1 : x = t[i]
    BY <1>2 DEF ToSet
  <2>4. \A x \in ToSet(q) : \E i \in 1..n : x = q[i]
    BY <1>1 DEF ToSet
  <2> QED BY <2>1, <2>2, <2>3, <2>4
<1>6. Head(q) \in ToSet(q)
  BY <1>1 DEF ToSet
<1> QED BY <1>1, <1>2, <1>4, <1>5, <1>6 DEF t

LEMMA PutLast ==
    ASSUME NEW S, NEW q \in Seq(S), NEW m \in S, IsInjective(q), m \notin ToSet(q)
    PROVE  /\ Append(q, m) \in Seq(S) /\ IsInjective(Append(q, m))
           /\ ToSet(Append(q, m)) = ToSet(q) \cup {m}
<1> DEFINE n == Len(q)
           o == Append(q, m)
<1>1. /\ n \in Nat /\ \A i \in 1..n : q[i] \in ToSet(q)
      /\ \A x \in ToSet(q) : \E i \in 1..n : q[i] = x
  BY Positions
<1>2. \A i, j \in 1..n : q[i] = q[j] => i = j
  BY Positions DEF IsInjective
<1>3. o \in Seq(S) /\ Len(o) = n+1 /\ o[n+1] = m /\ \A i \in 1..n : o[i] = q[i]
  BY AppendProperties
<1>4. DOMAIN o = 1..n+1
  BY <1>3, LenProperties
<1> HIDE DEF n, o
<1>5. /\ \A i \in 1..n+1 : i \in 1..n \/ i = n+1
      /\ n+1 \in 1..n+1 /\ 1..n \subseteq 1..n+1
  BY <1>1
<1>6. IsInjective(o)
  <2> SUFFICES ASSUME NEW i \in 1..n+1, NEW j \in 1..n+1, o[i] = o[j] PROVE i = j
    BY <1>4 DEF IsInjective
  <2> QED BY <1>1, <1>2, <1>3, <1>5
<1>7. /\ \A i \in 1..n+1 : o[i] \in ToSet(o)
      /\ \A x \in ToSet(o) : \E i \in 1..n+1 : o[i] = x
  BY <1>4 DEF ToSet
<1>8. \A x : x \in ToSet(o) <=> x \in ToSet(q) \/ x = m
  BY <1>1, <1>3, <1>5, <1>7
<1> QED BY <1>3, <1>6, <1>8 DEF o

LEMMA PutFirst ==
    ASSUME NEW S, NEW q \in Seq(S), NEW m \in S, IsInjective(q), m \notin ToSet(q)
    PROVE  /\ <<m>> \o q \in Seq(S) /\ IsInjective(<<m>> \o q)
           /\ ToSet(<<m>> \o q) = ToSet(q) \cup {m} /\ <<m>> \o q # <<>>
<1> DEFINE n == Len(q)
           o == <<m>> \o q
<1>1. /\ n \in Nat /\ \A i \in 1..n : q[i] \in ToSet(q)
      /\ \A x \in ToSet(q) : \E i \in 1..n : q[i] = x
  BY Positions
<1>2. \A i, j \in 1..n : q[i] = q[j] => i = j
  BY Positions DEF IsInjective
<1>3. /\ o \in Seq(S) /\ Len(o) = 1 + n
      /\ \A i \in 1..1+n : o[i] = IF i <= 1 THEN <<m>>[i] ELSE q[i - 1]
  <2>1. <<m>> \in Seq(S) /\ Len(<<m>>) = 1
    OBVIOUS
  <2> QED BY <2>1, ConcatProperties
<1>4. DOMAIN o = 1..1+n
  BY <1>3, LenProperties
<1> HIDE DEF n, o
<1>5. /\ o[1] = m /\ 1 \in 1..1+n /\ \A i \in 2..1+n : i - 1 \in 1..n /\ o[i] = q[i - 1]
      /\ \A i \in 1..1+n : i = 1 \/ i \in 2..1+n
      /\ \A i \in 1..n : i + 1 \in 2..1+n /\ i + 1 \in 1..1+n /\ o[i + 1] = q[i]
  BY <1>1, <1>3
<1>6. IsInjective(o)
  <2> SUFFICES ASSUME NEW i \in 1..1+n, NEW j \in 1..1+n, o[i] = o[j] PROVE i = j
    BY <1>4 DEF IsInjective
  <2>1. CASE i = 1 \/ j = 1
    BY <1>1, <1>5, <2>1
  <2>2. CASE i \in 2..1+n /\ j \in 2..1+n
    <3>1. i - 1 = j - 1
      BY <1>2, <1>5, <2>2
    <3> QED BY <3>1
  <2> QED BY <1>5, <2>1, <2>2
<1>7. /\ \A i \in 1..1+n : o[i] \in ToSet(o)
      /\ \A x \in ToSet(o) : \E i \in 1..1+n : o[i] = x
  BY <1>4 DEF ToSet
<1>8. ASSUME NEW x \in ToSet(o) PROVE x \in ToSet(q) \/ x = m
  <2>1. PICK i \in 1..1+n : o[i] = x
    BY <1>7
  <2> QED BY <1>1, <1>5, <2>1
<1>9. ASSUME NEW x \in ToSet(q) PROVE x \in ToSet(o)
  <2>1. PICK i \in 1..n : q[i] = x
    BY <1>1
  <2> QED BY <1>5, <1>7, <2>1
<1>10. m \in ToSet(o) /\ o # <<>>
  BY <1>5, <1>7, <1>4, Nothing, EmptySeq, LenProperties
<1> QED BY <1>3, <1>6, <1>8, <1>9, <1>10 DEF o

-----------------------------------------------------------------------------
(***************************************************************************)
(* What the parts of the invariant need of a step.                         *)
(***************************************************************************)

LEMMA InitInv == Init => IInv
<1> SUFFICES ASSUME Init PROVE IInv
  OBVIOUS
<1>1. \A p \in Processor : proc[p] = Idle /\ Has(p) = {} /\ Req(p) = None
  BY Nothing DEF Init, Idle, Has, Req
<1>2. Types
  BY <1>1, Nothing, LimitAssumption DEF Init, Types, ProcType, Place, Busy, Walking, Idle
<1>3. Once /\ Shape
  BY <1>1, Nothing DEF Init, Once, Shape, Shaped, Idle, Busy, Walking
<1>4. Apart
  BY <1>1, Nothing DEF Init, Apart
<1>5. SlotsLeft
  BY LimitAssumption, FS_EmptySet DEF Init, SlotsLeft
<1>6. Counted
  <2>1. \A d \in Device : On(d) = {}
    BY <1>1 DEF Init, On, Inside, Counting, Idle
  <2>2. \A d \in Device : outstanding_req[d] = 0
    BY DEF Init
  <2>3. IsFiniteSet({}) /\ Cardinality({}) = 0
    BY FS_EmptySet
  <2>4. 0 <= queue_depth
    BY LimitAssumption
  <2> QED BY <2>1, <2>2, <2>3, <2>4 DEF Counted
<1> QED BY <1>2, <1>3, <1>4, <1>5, <1>6 DEF IInv

\* A request is in at most one place.
LEMMA Nowhere ==
    ASSUME Types, Apart, NEW p \in Processor, NEW r \in Has(p)
    PROVE  /\ r \in Request /\ r \notin upper /\ r \notin running_req
           /\ r \notin ToSet(waiting_queue) /\ r \notin ToSet(high_priority_queue)
           /\ r \notin ToSet(complete_queue)
           /\ \A q \in Processor \ {p} : r \notin Has(q)
<1>1. r \in Request
  <2>1. proc[p].tmp \in Seq(Request) /\ Req(p) \in Request \cup {None}
    BY DEF Types, ProcType, Req
  <2> QED BY <2>1, Positions DEF Has
<1> QED BY <1>1 DEF Apart

\* Nothing counted comes or goes.
LEMMA SameCounted ==
    ASSUME Counted, outstanding_req' = outstanding_req,
           \A r \in Request : Inside(r)' <=> Inside(r)
    PROVE  Counted'
<1>1. \A d \in Device : On(d)' = On(d)
  BY DEF On
<1> QED BY <1>1 DEF Counted

\* One request is counted in ...
LEMMA OneMore ==
    ASSUME Types, Counted, NEW r \in Request, HasRoom(DeviceOf[r]),
           outstanding_req' = [outstanding_req EXCEPT ![DeviceOf[r]] = @ + 1],
           ~Inside(r), Inside(r)', \A o \in Request \ {r} : Inside(o)' <=> Inside(o)
    PROVE  Counted' /\ outstanding_req' \in [Device -> Nat]
<1> DEFINE e == DeviceOf[r]
<1>1. e \in Device /\ outstanding_req \in [Device -> Nat] /\ queue_depth \in Nat
  BY RequestAssumption, LimitAssumption DEF Types
<1>2. On(e)' = On(e) \cup {r} /\ r \notin On(e) /\ \A d \in Device \ {e} : On(d)' = On(d)
  BY DEF On
<1>3. /\ outstanding_req'[e] = outstanding_req[e] + 1 /\ outstanding_req[e] < queue_depth
      /\ \A d \in Device \ {e} : outstanding_req'[d] = outstanding_req[d]
  BY <1>1 DEF HasRoom
<1>4. IsFiniteSet(On(e)) /\ outstanding_req[e] = Cardinality(On(e))
  BY <1>1 DEF Counted
<1>5. IsFiniteSet(On(e)') /\ Cardinality(On(e)') = Cardinality(On(e)) + 1
  BY <1>2, <1>4, FS_AddElement
<1>6. outstanding_req'[e] <= queue_depth
  BY <1>1, <1>3
<1>7. outstanding_req' \in [Device -> Nat]
  BY <1>1
<1> HIDE DEF e
<1>8. ASSUME NEW d \in Device
      PROVE  /\ IsFiniteSet(On(d)') /\ outstanding_req'[d] = Cardinality(On(d)')
             /\ outstanding_req'[d] <= queue_depth
  <2>1. CASE d = e
    BY <1>3, <1>4, <1>5, <1>6, <2>1
  <2>2. CASE d # e
    BY <1>2, <1>3, <2>2 DEF Counted
  <2> QED BY <2>1, <2>2
<1> QED BY <1>7, <1>8 DEF Counted

\* ... or out.
LEMMA OneLess ==
    ASSUME Types, Counted, NEW r \in Request,
           outstanding_req' = [outstanding_req EXCEPT ![DeviceOf[r]] = @ - 1],
           Inside(r), ~Inside(r)', \A o \in Request \ {r} : Inside(o)' <=> Inside(o)
    PROVE  Counted' /\ outstanding_req' \in [Device -> Nat]
<1> DEFINE e == DeviceOf[r]
<1>1. e \in Device /\ outstanding_req \in [Device -> Nat] /\ queue_depth \in Nat
  BY RequestAssumption, LimitAssumption DEF Types
<1>2. On(e)' = On(e) \ {r} /\ r \in On(e) /\ \A d \in Device \ {e} : On(d)' = On(d)
  BY DEF On
<1>3. /\ outstanding_req'[e] = outstanding_req[e] - 1 /\ outstanding_req[e] <= queue_depth
      /\ \A d \in Device \ {e} : outstanding_req'[d] = outstanding_req[d]
  BY <1>1 DEF Counted
<1>4. IsFiniteSet(On(e)) /\ outstanding_req[e] = Cardinality(On(e))
  BY <1>1 DEF Counted
<1>5. IsFiniteSet(On(e)') /\ Cardinality(On(e)') = Cardinality(On(e)) - 1
  BY <1>2, <1>4, FS_RemoveElement
<1>6. Cardinality(On(e)') \in Nat
  BY <1>5, FS_CardinalityType
<1>7. outstanding_req'[e] \in Nat /\ outstanding_req'[e] <= queue_depth
  BY <1>1, <1>3, <1>4, <1>5, <1>6
<1>8. outstanding_req' \in [Device -> Nat]
  BY <1>1, <1>7
<1> HIDE DEF e
<1>9. ASSUME NEW d \in Device
      PROVE  /\ IsFiniteSet(On(d)') /\ outstanding_req'[d] = Cardinality(On(d)')
             /\ outstanding_req'[d] <= queue_depth
  <2>1. CASE d = e
    BY <1>3, <1>4, <1>5, <1>7, <2>1
  <2>2. CASE d # e
    BY <1>2, <1>3, <2>2 DEF Counted
  <2> QED BY <2>1, <2>2
<1> QED BY <1>8, <1>9 DEF Counted

\* Processors that a step leaves alone.
LEMMA OthersShaped ==
    ASSUME Shape, NEW p \in Processor, \A q \in Processor \ {p} : proc'[q] = proc[q]
    PROVE  /\ \A q \in Processor \ {p} : Shaped(q)'
           /\ \A q \in Processor \ {p} : Has(q)' = Has(q) /\ Req(q)' = Req(q)
  BY DEF Shape, Shaped, Has, Req

\* A step of p alone that goes on with what it has, or starts a queue with
\* nothing, changes no place and no count.
LEMMA GoKeeps ==
    ASSUME IInv, NEW p \in Processor, NEW c \in ProcType,
           proc' = [proc EXCEPT ![p] = c],
           c.req = Req(p), c.tmp = proc[p].tmp,
           c.queue = proc[p].queue \/ (c.tmp = <<>> /\ c.req = None),
           c.at \in Busy <=> proc[p].at \in Busy,
           c.at \in Counting <=> proc[p].at \in Counting,
           c.tmp # <<>> => c.at \in Walking,
           c.at \in Walking => proc[p].at \in Walking \/ (c.tmp = <<>> /\ c.req = None),
           c.at \in {"take", "ending", "restore"} => c.queue # "fast",
           UNCHANGED <<queueVars, complete_queue, deviceVars, upperVars>>
    PROVE  IInv'
<1>1. proc'[p] = c /\ \A q \in Processor \ {p} : proc'[q] = proc[q]
  BY DEF IInv, Types
<1>2. Types'
  BY DEF IInv, Types, queueVars, deviceVars, upperVars
<1>3. \A q \in Processor : Has(q)' = Has(q) /\ Req(q)' = Req(q)
  BY <1>1 DEF Has, Req
<1>4. Once' /\ SlotsLeft' /\ Apart'
  BY <1>3 DEF IInv, Once, SlotsLeft, Apart, queueVars, deviceVars, upperVars
<1>5. Shaped(p)'
  <2>1. Shaped(p)
    BY DEF IInv, Shape
  <2>2. c.tmp = <<>> /\ c.req = None => Has(p)' = {}
    BY <1>1, Nothing DEF Has, Req
  <2> QED BY <1>1, <1>3, <2>1, <2>2 DEF Shaped
<1>6. Shape'
  BY <1>1, <1>5, OthersShaped DEF IInv, Shape
<1>7. \A r \in Request : Inside(r)' <=> Inside(r)
  BY <1>1, <1>3 DEF Inside, deviceVars
<1>8. Counted'
  BY <1>7, SameCounted DEF IInv, deviceVars
<1> QED BY <1>2, <1>4, <1>6, <1>8 DEF IInv

-----------------------------------------------------------------------------
(***************************************************************************)
(* Each action keeps the invariant.                                        *)
(***************************************************************************)

\* Steps that only go on.
LEMMA GoesOn ==
    ASSUME IInv, NEW p \in Processor,
           Gate(p) \/ Push(p) \/ NextQueue(p) \/ Tick(p)
    PROVE  IInv'
<1> DEFINE c == proc'[p]
<1>1. proc[p] \in ProcType /\ proc \in [Processor -> ProcType] /\ Shaped(p)
  BY DEF IInv, Types, Shape
<1>2. proc[p].at \in Busy <=> proc[p].req # None
  BY <1>1 DEF Shaped, Req
<1>3. CASE Gate(p)
  <2>1. PICK x \in {"BLOCKED", "admit"} : proc' = [proc EXCEPT ![p].at = x]
    BY <1>3 DEF Gate, Goto
  <2>2. /\ c = [proc[p] EXCEPT !.at = x] /\ c \in ProcType
        /\ proc' = [proc EXCEPT ![p] = c]
    BY <1>1, <2>1 DEF ProcType, Place, Busy, Walking
  <2>3. proc[p].at = "gate"
    BY <1>3 DEF Gate
  <2>4. UNCHANGED <<queueVars, complete_queue, deviceVars, upperVars>>
    BY <1>3 DEF Gate
  <2>5. /\ c.at \in {"BLOCKED", "admit"} /\ c.req = Req(p) /\ c.tmp = proc[p].tmp
        /\ c.queue = proc[p].queue
    BY <1>1, <2>2 DEF ProcType, Req
  <2> HIDE DEF c
  <2> QED BY <1>1, <2>2, <2>3, <2>4, <2>5, GoKeeps DEF Busy, Walking, Counting
<1>4. CASE Push(p)
  <2>1. proc[p].at = "push" /\ proc[p].req = None /\ proc[p].tmp = <<>>
    BY <1>1, <1>2, <1>4 DEF Push, Busy, Walking, Shaped
  <2>2. \/ c = Idle \/ c = [Idle EXCEPT !.at = "giveback"]
        \/ c = [Idle EXCEPT !.at = "take", !.queue = "high"]
    BY <1>1, <1>4 DEF Push
  <2>3. c \in ProcType /\ proc' = [proc EXCEPT ![p] = c]
    BY <1>1, <1>4, <2>2, Nothing DEF Push, Idle, ProcType, Place, Busy, Walking
  <2>4. UNCHANGED <<queueVars, complete_queue, deviceVars, upperVars>>
    BY <1>4 DEF Push
  <2>5. /\ c.at \in {"idle", "giveback", "take"} /\ c.req = None /\ c.tmp = <<>>
        /\ c.at = "take" => c.queue = "high"
    <3>1. Idle.req = None /\ Idle.tmp = <<>> /\ Idle.at = "idle"
      BY DEF Idle
    <3>2. CASE c = Idle
      BY <3>1, <3>2
    <3>3. CASE c = [Idle EXCEPT !.at = "giveback"]
      BY <3>3 DEF Idle
    <3>4. CASE c = [Idle EXCEPT !.at = "take", !.queue = "high"]
      BY <3>4 DEF Idle
    <3> QED BY <2>2, <3>2, <3>3, <3>4
  <2> HIDE DEF c
  <2> QED BY <2>1, <2>3, <2>4, <2>5, GoKeeps DEF Busy, Walking, Counting, Req
<1>5. CASE NextQueue(p)
  <2>1. proc[p].at = "ending" /\ proc[p].req = None /\ proc[p].tmp = <<>>
    BY <1>1, <1>2, <1>5 DEF NextQueue, Busy
  <2>2. \/ c = [Idle EXCEPT !.at = "giveback"]
        \/ c = [Idle EXCEPT !.at = "take", !.queue = "normal"]
    BY <1>1, <1>5 DEF NextQueue
  <2>3. c \in ProcType /\ proc' = [proc EXCEPT ![p] = c]
    BY <1>1, <1>5, <2>2, Nothing DEF NextQueue, Idle, ProcType, Place, Busy, Walking
  <2>4. UNCHANGED <<queueVars, complete_queue, deviceVars, upperVars>>
    BY <1>5 DEF NextQueue
  <2>5. /\ c.at \in {"giveback", "take"} /\ c.req = None /\ c.tmp = <<>>
        /\ c.at = "take" => c.queue = "normal"
    BY <2>2 DEF Idle
  <2> HIDE DEF c
  <2> QED BY <2>1, <2>3, <2>4, <2>5, GoKeeps DEF Busy, Walking, Counting, Req
<1>6. CASE Tick(p)
  <2>1. proc[p] = Idle /\ proc' = [proc EXCEPT ![p].at = "push"]
    BY <1>6 DEF Tick, Goto
  <2>2. c = [Idle EXCEPT !.at = "push"] /\ c \in ProcType /\ proc' = [proc EXCEPT ![p] = c]
    BY <1>1, <2>1, Nothing DEF Idle, ProcType, Place
  <2>3. UNCHANGED <<queueVars, complete_queue, deviceVars, upperVars>>
    BY <1>6 DEF Tick
  <2>4. /\ c.at = "push" /\ c.req = None /\ c.tmp = <<>>
        /\ proc[p].at = "idle" /\ proc[p].req = None /\ proc[p].tmp = <<>>
    BY <2>1, <2>2 DEF Idle
  <2> HIDE DEF c
  <2> QED BY <2>2, <2>3, <2>4, GoKeeps DEF Busy, Walking, Counting, Req
<1> QED BY <1>3, <1>4, <1>5, <1>6

\* outstanding_req goes up and down with the requests it is for.
LEMMA AdmitKeeps == ASSUME IInv, NEW p \in Processor, Admit(p) PROVE IInv'
<1> DEFINE c == proc'[p]
<1>1. /\ proc[p] \in ProcType /\ proc \in [Processor -> ProcType] /\ Shaped(p)
      /\ proc[p].at = "admit" /\ Req(p) # None /\ Req(p) \in Request
  BY DEF IInv, Types, Shape, Shaped, Admit, Busy, Req, ProcType
<1>0. PICK r \in Request : r = Req(p)
  BY <1>1
<1>2. PICK x \in {"slot", "FULL"} : proc' = [proc EXCEPT ![p].at = x]
  BY DEF Admit, Goto
<1>3. /\ c = [proc[p] EXCEPT !.at = x] /\ c \in ProcType
      /\ proc' = [proc EXCEPT ![p] = c]
      /\ \A q \in Processor \ {p} : proc'[q] = proc[q]
  BY <1>0, <1>1, <1>2 DEF ProcType, Place, Busy, Walking
<1>4. CASE x = "FULL"
  <2>1. UNCHANGED <<queueVars, complete_queue, deviceVars, upperVars>>
    BY <1>0, <1>1, <1>3, <1>4 DEF Admit, Goto, deviceVars, ProcType
  <2>2. c.at = "FULL" /\ c.req = Req(p) /\ c.tmp = proc[p].tmp /\ c.queue = proc[p].queue
    BY <1>1, <1>3, <1>4 DEF ProcType, Req
  <2> HIDE DEF c
  <2> QED BY <1>1, <1>3, <2>1, <2>2, GoKeeps DEF Busy, Walking, Counting
<1>5. CASE x = "slot"
  <2>1. /\ HasRoom(DeviceOf[r])
        /\ outstanding_req' = [outstanding_req EXCEPT ![DeviceOf[r]] = @ + 1]
    BY <1>0, <1>1, <1>3, <1>5 DEF Admit, Goto, ProcType, Dev
  <2>2. \A q \in Processor : Has(q)' = Has(q) /\ Req(q)' = Req(q)
    BY <1>0, <1>3 DEF Has, Req, ProcType
  <2>3. r \in Has(p)
    BY <1>0, <1>1 DEF Has
  <2>4. \A q \in Processor \ {p} : Req(q) # r
    BY <1>0, <1>1, <2>3, Nowhere DEF IInv, Has
  <2>5. ~Inside(r)
    BY <1>0, <1>1, <2>3, <2>4, Nowhere DEF IInv, Inside, Counting
  <2>6. c.at = "slot"
    BY <1>0, <1>3, <1>5 DEF ProcType
  <2>7. Inside(r)'
    BY <1>0, <2>2, <2>6 DEF Inside, Counting
  <2>8. ASSUME NEW o \in Request \ {r} PROVE Inside(o)' <=> Inside(o)
    BY <1>0, <1>3, <2>2, <2>8 DEF Inside, Admit
  <2>9. Counted' /\ outstanding_req' \in [Device -> Nat]
    BY <1>0, <1>1, <2>1, <2>5, <2>7, <2>8, OneMore DEF IInv
  <2>10. Types'
    BY <1>0, <1>1, <1>3, <2>9 DEF IInv, Types, Admit, queueVars, upperVars
  <2>11. Once' /\ SlotsLeft' /\ Apart'
    BY <1>0, <2>2 DEF IInv, Once, SlotsLeft, Apart, Admit, queueVars, upperVars
  <2>12. Shaped(p)'
    BY <1>0, <1>1, <1>3, <2>2, <2>6 DEF Shaped, Busy, Walking, ProcType
  <2> QED BY <1>0, <1>3, <2>9, <2>10, <2>11, <2>12, OthersShaped DEF IInv, Shape
<1> QED BY <1>2, <1>4, <1>5

LEMMA CountOutKeeps == ASSUME IInv, NEW p \in Processor, NoSlot(p) \/ Clean(p) PROVE IInv'
<1> DEFINE c == proc'[p]
<1>1. /\ proc[p] \in ProcType /\ proc \in [Processor -> ProcType] /\ Shaped(p)
      /\ proc[p].at \in {"noslot", "clean"} /\ Req(p) # None /\ Req(p) \in Request
  BY DEF IInv, Types, Shape, Shaped, NoSlot, Clean, Busy, Req, ProcType
<1>0. PICK r \in Request : r = Req(p)
  BY <1>1
<1>2. PICK x \in {"NO_RESOURCE", "queue"} :
         /\ proc' = [proc EXCEPT ![p].at = x]
         /\ x = "queue" <=> proc[p].at = "clean"
  BY DEF NoSlot, Clean, Goto
<1>3. /\ c = [proc[p] EXCEPT !.at = x] /\ c \in ProcType
      /\ proc' = [proc EXCEPT ![p] = c]
      /\ \A q \in Processor \ {p} : proc'[q] = proc[q]
  BY <1>0, <1>1, <1>2 DEF ProcType, Place, Busy, Walking
<1>4. /\ outstanding_req' = [outstanding_req EXCEPT ![DeviceOf[r]] = @ - 1]
      /\ UNCHANGED <<queueVars, complete_queue, running_req, free_slots, blocked, upperVars>>
  BY <1>0 DEF NoSlot, Clean, Dev
<1>5. \A q \in Processor : Has(q)' = Has(q) /\ Req(q)' = Req(q)
  BY <1>0, <1>3 DEF Has, Req, ProcType
<1>6. r \in Has(p)
  BY <1>0, <1>1 DEF Has
<1>7. r \notin running_req /\ \A q \in Processor \ {p} : Req(q) # r
  BY <1>0, <1>1, <1>6, Nowhere DEF IInv, Has
<1>8. Inside(r)
  BY <1>0, <1>1 DEF Inside, Counting
<1>9. c.at = x
  BY <1>0, <1>3 DEF ProcType
<1>10. ~Inside(r)'
  BY <1>0, <1>4, <1>5, <1>7, <1>9 DEF Inside, Counting
<1>11. ASSUME NEW o \in Request \ {r} PROVE Inside(o)' <=> Inside(o)
  BY <1>0, <1>3, <1>4, <1>5, <1>11 DEF Inside
<1>12. Counted' /\ outstanding_req' \in [Device -> Nat]
  BY <1>0, <1>1, <1>4, <1>8, <1>10, <1>11, OneLess DEF IInv
<1>13. Types'
  BY <1>0, <1>1, <1>3, <1>4, <1>12 DEF IInv, Types, queueVars, upperVars
<1>14. Once' /\ SlotsLeft' /\ Apart'
  BY <1>0, <1>4, <1>5 DEF IInv, Once, SlotsLeft, Apart, queueVars, upperVars
<1>15. Shaped(p)'
  BY <1>0, <1>1, <1>2, <1>3, <1>5, <1>9 DEF Shaped, Busy, Walking, ProcType
<1> QED BY <1>0, <1>3, <1>12, <1>13, <1>14, <1>15, OthersShaped DEF IInv, Shape

LEMMA TakeSlotKeeps == ASSUME IInv, NEW p \in Processor, TakeSlot(p) PROVE IInv'
<1> DEFINE c == proc'[p]
<1>1. /\ proc[p] \in ProcType /\ proc \in [Processor -> ProcType] /\ Shaped(p)
      /\ proc[p].at = "slot" /\ Req(p) # None /\ Req(p) \in Request
  BY DEF IInv, Types, Shape, Shaped, TakeSlot, Busy, Req, ProcType
<1>0. PICK r \in Request : r = Req(p)
  BY <1>1
<1>2. r \in Has(p) /\ proc[p].req = r /\ r \notin ToSet(proc[p].tmp)
  BY <1>0, <1>1 DEF Has, Req, Shaped
<1>3. r \notin running_req /\ \A q \in Processor \ {p} : Req(q) # r
  BY <1>0, <1>1, <1>2, Nowhere DEF IInv, Has
<1>4. CASE free_slots = 0
  <2>1. /\ c = [proc[p] EXCEPT !.at = "noslot"] /\ c \in ProcType
        /\ proc' = [proc EXCEPT ![p] = c]
    BY <1>1, <1>4 DEF TakeSlot, Goto, ProcType, Place, Busy, Walking
  <2>2. c.at = "noslot" /\ c.req = Req(p) /\ c.tmp = proc[p].tmp /\ c.queue = proc[p].queue
    BY <1>1, <2>1 DEF ProcType, Req
  <2>3. UNCHANGED <<queueVars, complete_queue, deviceVars, upperVars>>
    BY <1>4 DEF TakeSlot, deviceVars
  <2> HIDE DEF c
  <2> QED BY <1>1, <2>1, <2>2, <2>3, GoKeeps DEF Busy, Walking, Counting
<1>5. CASE free_slots # 0
  <2>1. /\ free_slots' = free_slots - 1 /\ running_req' = running_req \cup {r}
        /\ proc' = [proc EXCEPT ![p] = AfterSend(p)]
        /\ UNCHANGED <<queueVars, complete_queue, outstanding_req, blocked, upperVars>>
    BY <1>0, <1>5 DEF TakeSlot
  <2>2. /\ AfterSend(p) \in ProcType
        /\ AfterSend(p).req = None /\ AfterSend(p).tmp = proc[p].tmp
        /\ \/ AfterSend(p).at = "push" /\ proc[p].tmp = <<>>
           \/ /\ AfterSend(p).at = "take" /\ proc[p].queue # "fast"
              /\ AfterSend(p).queue = proc[p].queue
    BY <1>1, Nothing DEF AfterSend, Idle, ProcType, Place, Busy, Walking, Shaped
  <2>3. /\ c = AfterSend(p) /\ \A q \in Processor \ {p} : proc'[q] = proc[q]
        /\ proc' \in [Processor -> ProcType]
    BY <1>1, <2>1, <2>2
  <2>4. Req(p)' = None /\ Has(p)' = Has(p) \ {r}
    <3>1. Req(p)' = None /\ proc'[p].tmp = proc[p].tmp
      BY <2>2, <2>3 DEF Req
    <3> QED BY <1>2, <3>1 DEF Has, Req
  <2>5. \A q \in Processor \ {p} : Has(q)' = Has(q) /\ Req(q)' = Req(q)
    BY <2>3 DEF Has, Req
  <2>6. Types'
    BY <1>1, <2>1, <2>3 DEF IInv, Types, queueVars, upperVars
  <2>7. SlotsLeft'
    <3>1. /\ IsFiniteSet(running_req') /\ Cardinality(running_req') = Cardinality(running_req) + 1
      BY <1>3, <2>1, FS_AddElement DEF IInv, SlotsLeft
    <3>2. Cardinality(running_req) \in Nat /\ Slots \in Nat /\ free_slots \in Nat
      BY FS_CardinalityType, LimitAssumption DEF IInv, SlotsLeft
    <3> QED BY <1>5, <2>1, <3>1, <3>2 DEF IInv, SlotsLeft
  <2>8. Shaped(p)'
    <3>1. c.at \in {"push", "take"} /\ c.tmp = proc[p].tmp /\ c.req = None
      BY <2>2, <2>3
    <3>2. c.at = "take" => c.queue = proc[p].queue /\ c.queue # "fast"
      BY <2>2, <2>3
    <3>3. c.at = "push" => c.tmp = <<>>
      BY <2>2, <2>3
    <3>4. None \notin ToSet(proc[p].tmp)
      BY <1>1, Positions, NoneAssumption DEF ProcType
    <3> HIDE DEF c
    <3> QED BY <1>1, <2>4, <3>1, <3>2, <3>3, <3>4 DEF Shaped, Busy, Walking, Req, c
  <2>9. Apart'
    BY <1>2, <1>3, <2>1, <2>4, <2>5, Nowhere DEF IInv, Apart, queueVars, upperVars
  <2>10. Counted'
    <3>1. proc[p].at \in Counting /\ proc'[p].at \notin Counting
      BY <1>1, <2>2, <2>3 DEF Counting
    <3>2. \A o \in Request : Inside(o)' <=> Inside(o)
      BY <1>0, <2>1, <2>3, <2>4, <2>5, <3>1 DEF Inside
    <3> QED BY <2>1, <3>2, SameCounted DEF IInv
  <2> QED BY <2>1, <2>3, <2>6, <2>7, <2>8, <2>9, <2>10, OthersShaped
          DEF IInv, Shape, Once, queueVars
<1> QED BY <1>4, <1>5

LEMMA CompleteKeeps ==
    ASSUME IInv, NEW p \in Processor, NEW r \in Request, Complete(p, r)
    PROVE  IInv'
<1> DEFINE c == [Idle EXCEPT !.at = "clean", !.req = r]
<1>1. /\ proc \in [Processor -> ProcType]
      /\ proc[p].at = "idle" /\ proc[p].req = None /\ proc[p].tmp = <<>> /\ Has(p) = {}
      /\ r \in running_req /\ running_req' = running_req \ {r} /\ free_slots' = free_slots + 1
      /\ proc' = [proc EXCEPT ![p] = c]
      /\ UNCHANGED <<queueVars, complete_queue, outstanding_req, blocked, upperVars>>
  BY Nothing DEF IInv, Types, Complete, Idle, Has, Req
<1>2. /\ c \in ProcType /\ c.at = "clean" /\ c.req = r /\ c.tmp = <<>>
  BY Nothing DEF Idle, ProcType, Place, Busy, Walking
<1> HIDE DEF c
<1>3. /\ proc'[p] = c /\ \A q \in Processor \ {p} : proc'[q] = proc[q]
      /\ proc' \in [Processor -> ProcType]
  BY <1>1, <1>2
<1>4. Req(p)' = r /\ Has(p)' = {r}
  BY <1>2, <1>3, Nothing, NoneAssumption DEF Has, Req
<1>5. \A q \in Processor \ {p} : Has(q)' = Has(q) /\ Req(q)' = Req(q)
  BY <1>3 DEF Has, Req
<1>6. Types'
  BY <1>1, <1>3 DEF IInv, Types, queueVars, upperVars
<1>7. SlotsLeft'
  <2>1. /\ IsFiniteSet(running_req') /\ Cardinality(running_req') = Cardinality(running_req) - 1
    BY <1>1, FS_RemoveElement DEF IInv, SlotsLeft
  <2>2. Cardinality(running_req) \in Nat /\ Slots \in Nat /\ free_slots \in Nat
    BY FS_CardinalityType, LimitAssumption DEF IInv, SlotsLeft
  <2> QED BY <1>1, <2>1, <2>2 DEF IInv, SlotsLeft
<1>8. Shaped(p)'
  BY <1>2, <1>3, <1>4, Nothing, NoneAssumption DEF Shaped, Busy, Walking
<1>9. Apart'
  BY <1>1, <1>4, <1>5 DEF IInv, Apart, queueVars, upperVars
<1>10. Counted'
  <2>1. proc[p].at \notin Counting /\ proc'[p].at \in Counting
    BY <1>1, <1>2, <1>3 DEF Counting
  <2>2. \A o \in Request : Inside(o)' <=> Inside(o)
    BY <1>1, <1>3, <1>4, <1>5, <2>1 DEF Inside
  <2> QED BY <1>1, <2>2, SameCounted DEF IInv
<1> QED BY <1>1, <1>3, <1>6, <1>7, <1>8, <1>9, <1>10, OthersShaped
        DEF IInv, Shape, Once, queueVars

\* A step that moves a request which is not counted.
LEMMA MoveKeeps ==
    ASSUME IInv, NEW p \in Processor, NEW c \in ProcType, proc' = [proc EXCEPT ![p] = c],
           proc[p].at \notin Counting, c.at \notin Counting,
           UNCHANGED <<running_req, free_slots, outstanding_req>>,
           waiting_queue' \in Seq(Request), high_priority_queue' \in Seq(Urgent),
           complete_queue' \in Seq(Request), upper' \subseteq Request,
           blocked' \in [Device -> BOOLEAN], submits' \in 0..MaxSubmit,
           Once', Shaped(p)', Apart'
    PROVE  IInv'
<1>1. /\ proc'[p] = c /\ \A q \in Processor \ {p} : proc'[q] = proc[q]
      /\ proc' \in [Processor -> ProcType]
  BY DEF IInv, Types
<1>2. Types'
  BY <1>1 DEF IInv, Types
<1>3. SlotsLeft'
  BY DEF IInv, SlotsLeft
<1>4. \A q \in Processor \ {p} : Req(q)' = Req(q)
  BY <1>1 DEF Req
<1>5. \A o \in Request : Inside(o)' <=> Inside(o)
  BY <1>1, <1>4 DEF Inside
<1>6. Counted'
  BY <1>5, SameCounted DEF IInv
<1> QED BY <1>1, <1>2, <1>3, <1>6, OthersShaped DEF IInv, Shape

LEMMA SubmitKeeps ==
    ASSUME IInv, NEW p \in Processor, NEW r \in Request, Submit(p, r)
    PROVE  IInv'
<1> DEFINE c == proc'[p]
<1>1. /\ proc \in [Processor -> ProcType] /\ proc[p] = Idle
      /\ proc[p].at = "idle" /\ proc[p].req = None /\ proc[p].tmp = <<>> /\ Has(p) = {}
      /\ r \in upper /\ upper' = upper \ {r} /\ submits' \in 0..MaxSubmit
      /\ UNCHANGED <<complete_queue, running_req, free_slots, outstanding_req, blocked>>
  BY Nothing, LimitAssumption DEF IInv, Types, Submit, Idle, Has, Req, deviceVars
<1>2. /\ r \notin ToSet(waiting_queue) /\ r \notin ToSet(high_priority_queue)
      /\ r \notin ToSet(complete_queue) /\ r \notin running_req
      /\ \A q \in Processor : r \notin Has(q)
  BY <1>1 DEF IInv, Apart
<1>3. CASE r \in Small /\ waiting_queue = <<>>
  <2>1. /\ proc' = [proc EXCEPT ![p] = c] /\ UNCHANGED queueVars
        /\ c = [Idle EXCEPT !.at = "gate", !.queue = "fast", !.req = r]
    BY <1>1, <1>3 DEF Submit
  <2>2. c \in ProcType /\ c.at = "gate" /\ c.queue = "fast" /\ c.req = r /\ c.tmp = <<>>
    <3>1. c = [at |-> "gate", queue |-> "fast", req |-> r, tmp |-> <<>>]
      BY <2>1 DEF Idle
    <3>2. "gate" \in Place /\ <<>> \in Seq(Request)
      BY Nothing DEF Place, Busy
    <3> HIDE DEF c
    <3> QED BY <3>1, <3>2 DEF ProcType
  <2> HIDE DEF c
  <2>3. /\ Req(p)' = r /\ Has(p)' = {r}
        /\ \A q \in Processor \ {p} : Has(q)' = Has(q)
    BY <1>1, <2>1, <2>2, Nothing, NoneAssumption DEF Has, Req
  <2>4. Shaped(p)'
    BY <2>2, <2>3, Nothing, NoneAssumption DEF Shaped, Busy, Walking, c
  <2>5. Apart'
    BY <1>1, <1>2, <2>1, <2>3 DEF IInv, Apart, queueVars
  <2>6. Once'
    BY <1>1, <2>1 DEF IInv, Once, queueVars
  <2> QED BY <1>1, <2>1, <2>2, <2>4, <2>5, <2>6, MoveKeeps
          DEF IInv, Types, Counting, queueVars
<1>4. CASE ~(r \in Small /\ waiting_queue = <<>>)
  <2>1. c = [Idle EXCEPT !.at = "push"] /\ proc' = [proc EXCEPT ![p] = c]
    BY <1>1, <1>4 DEF Submit, Goto
  <2>2. c \in ProcType /\ c.at = "push" /\ c.req = None /\ c.tmp = <<>>
    BY <2>1, Nothing DEF Idle, ProcType, Place, Busy, Walking
  <2> HIDE DEF c
  <2>3. /\ Req(p)' = None /\ Has(p)' = {}
        /\ \A q \in Processor \ {p} : Has(q)' = Has(q)
    BY <1>1, <2>1, <2>2, Nothing DEF Has, Req
  <2>4. Shaped(p)'
    BY <2>2, <2>3, Nothing DEF Shaped, Busy, Walking, c
  <2>5. CASE r \in Urgent
    <3>1. /\ high_priority_queue' = Append(high_priority_queue, r)
          /\ waiting_queue' = waiting_queue
      BY <1>4, <2>5 DEF Submit
    <3>2. /\ high_priority_queue' \in Seq(Urgent) /\ IsInjective(high_priority_queue')
          /\ ToSet(high_priority_queue') = ToSet(high_priority_queue) \cup {r}
      BY <1>2, <2>5, <3>1, PutLast DEF IInv, Types, Once
    <3>3. Apart' /\ Once'
      BY <1>1, <1>2, <2>3, <3>1, <3>2 DEF IInv, Apart, Once
    <3> QED BY <1>1, <2>1, <2>2, <2>4, <3>1, <3>2, <3>3, MoveKeeps DEF IInv, Types, Counting
  <2>6. CASE r \notin Urgent
    <3>1. /\ waiting_queue' = Append(waiting_queue, r)
          /\ high_priority_queue' = high_priority_queue
      BY <1>4, <2>6 DEF Submit
    <3>2. /\ waiting_queue' \in Seq(Request) /\ IsInjective(waiting_queue')
          /\ ToSet(waiting_queue') = ToSet(waiting_queue) \cup {r}
      BY <1>2, <3>1, PutLast DEF IInv, Types, Once
    <3>3. Apart' /\ Once'
      BY <1>1, <1>2, <2>3, <3>1, <3>2 DEF IInv, Apart, Once
    <3> QED BY <1>1, <2>1, <2>2, <2>4, <3>1, <3>2, <3>3, MoveKeeps DEF IInv, Types, Counting
  <2> QED BY <2>5, <2>6
<1> QED BY <1>3, <1>4

LEMMA EnqueueKeeps == ASSUME IInv, NEW p \in Processor, Enqueue(p) PROVE IInv'
<1> DEFINE c == [Idle EXCEPT !.at = "push"]
<1>1. /\ proc[p] \in ProcType /\ proc \in [Processor -> ProcType] /\ Shaped(p)
      /\ proc[p].at \in {"FULL", "BLOCKED", "NO_RESOURCE"} /\ proc[p].queue = "fast"
      /\ Req(p) # None /\ Req(p) \in Request /\ proc[p].tmp = <<>>
  BY DEF IInv, Types, Shape, Shaped, Enqueue, Busy, Req, ProcType
<1>0. PICK r \in Request : r = Req(p)
  BY <1>1
<1>2. Has(p) = {r}
  BY <1>0, <1>1, Nothing, NoneAssumption DEF Has
<1>3. /\ proc' = [proc EXCEPT ![p] = c] /\ waiting_queue' = Append(waiting_queue, r)
      /\ UNCHANGED <<high_priority_queue, complete_queue, deviceVars, upperVars>>
  BY <1>0 DEF Enqueue
<1>4. c \in ProcType /\ c.at = "push" /\ c.req = None /\ c.tmp = <<>>
  BY Nothing DEF Idle, ProcType, Place, Busy, Walking
<1> HIDE DEF c
<1>5. /\ Req(p)' = None /\ Has(p)' = {} /\ proc'[p] = c
      /\ \A q \in Processor \ {p} : Has(q)' = Has(q)
  BY <1>1, <1>3, <1>4, Nothing DEF Has, Req
<1>6. /\ waiting_queue' \in Seq(Request) /\ IsInjective(waiting_queue')
      /\ ToSet(waiting_queue') = ToSet(waiting_queue) \cup {r}
  BY <1>2, <1>3, PutLast, Nowhere DEF IInv, Types, Once
<1>7. Shaped(p)'
  BY <1>4, <1>5, Nothing DEF Shaped, Busy, Walking
<1>8. Apart' /\ Once'
  BY <1>2, <1>3, <1>5, <1>6, Nowhere DEF IInv, Apart, Once, deviceVars, upperVars
<1> QED BY <1>1, <1>3, <1>4, <1>6, <1>7, <1>8, MoveKeeps
        DEF IInv, Types, Counting, deviceVars, upperVars

LEMMA QueueCompletedKeeps == ASSUME IInv, NEW p \in Processor, QueueCompleted(p) PROVE IInv'
<1> DEFINE c == [Idle EXCEPT !.at = "irq"]
<1>1. /\ proc[p] \in ProcType /\ proc \in [Processor -> ProcType] /\ Shaped(p)
      /\ proc[p].at = "queue" /\ Req(p) # None /\ Req(p) \in Request /\ proc[p].tmp = <<>>
  BY DEF IInv, Types, Shape, Shaped, QueueCompleted, Busy, Walking, Req, ProcType
<1>0. PICK r \in Request : r = Req(p)
  BY <1>1
<1>2. Has(p) = {r}
  BY <1>0, <1>1, Nothing, NoneAssumption DEF Has
<1>3. /\ proc' = [proc EXCEPT ![p] = c]
      /\ UNCHANGED <<waiting_queue, high_priority_queue, deviceVars, submits>>
      /\ \/ upper' = upper \cup {r} /\ complete_queue' = complete_queue
         \/ complete_queue' = Append(complete_queue, r) /\ upper' = upper
  BY <1>0 DEF QueueCompleted, queueVars
<1>4. c \in ProcType /\ c.at = "irq" /\ c.req = None /\ c.tmp = <<>>
  BY Nothing DEF Idle, ProcType, Place, Busy, Walking
<1> HIDE DEF c
<1>5. /\ Req(p)' = None /\ Has(p)' = {} /\ proc'[p] = c
      /\ \A q \in Processor \ {p} : Has(q)' = Has(q)
  BY <1>1, <1>3, <1>4, Nothing DEF Has, Req
<1>6. Shaped(p)'
  BY <1>4, <1>5, Nothing DEF Shaped, Busy, Walking
<1>7. CASE upper' = upper \cup {r} /\ complete_queue' = complete_queue
  <2>1. Apart' /\ Once'
    BY <1>2, <1>3, <1>5, <1>7, Nowhere DEF IInv, Apart, Once, deviceVars
  <2> QED BY <1>1, <1>3, <1>4, <1>6, <1>7, <2>1, MoveKeeps DEF IInv, Types, Counting, deviceVars
<1>8. CASE complete_queue' = Append(complete_queue, r) /\ upper' = upper
  <2>1. /\ complete_queue' \in Seq(Request) /\ IsInjective(complete_queue')
        /\ ToSet(complete_queue') = ToSet(complete_queue) \cup {r}
    BY <1>2, <1>8, PutLast, Nowhere DEF IInv, Types, Once
  <2>2. Apart' /\ Once'
    BY <1>2, <1>3, <1>5, <1>8, <2>1, Nowhere DEF IInv, Apart, Once, deviceVars
  <2> QED BY <1>1, <1>3, <1>4, <1>6, <1>8, <2>1, <2>2, MoveKeeps
          DEF IInv, Types, Counting, deviceVars
<1> QED BY <1>3, <1>7, <1>8

LEMMA TakeKeeps == ASSUME IInv, NEW p \in Processor, Take(p) PROVE IInv'
<1> DEFINE c == proc'[p]
<1>1. /\ proc[p] \in ProcType /\ proc \in [Processor -> ProcType] /\ Shaped(p)
      /\ proc[p].at = "take" /\ Req(p) = None /\ proc[p].req = None
      /\ proc[p].queue # "fast" /\ proc[p].tmp \in Seq(Request)
      /\ UNCHANGED <<complete_queue, deviceVars, upperVars>>
  BY DEF IInv, Types, Shape, Shaped, Take, Busy, Req, ProcType
<1>2. Has(p) = ToSet(proc[p].tmp) /\ None \notin Has(p)
  BY <1>1, Positions, NoneAssumption DEF Has
<1>3. CASE QueueOf(p) = <<>> \/ (proc[p].queue = "normal" /\ free_slots = 0)
  <2>1. /\ c = [proc[p] EXCEPT !.at = "ending"] /\ c \in ProcType
        /\ proc' = [proc EXCEPT ![p] = c] /\ UNCHANGED queueVars
    <3>1. proc' = [proc EXCEPT ![p].at = "ending"] /\ UNCHANGED queueVars
      BY <1>3 DEF Take, Goto
    <3>2. "ending" \in Place
      BY DEF Place, Walking
    <3> QED BY <1>1, <3>1, <3>2 DEF ProcType
  <2>2. c.at = "ending" /\ c.req = Req(p) /\ c.tmp = proc[p].tmp /\ c.queue = proc[p].queue
    BY <1>1, <2>1 DEF ProcType, Req
  <2> HIDE DEF c
  <2> QED BY <1>1, <2>1, <2>2, GoKeeps DEF Busy, Walking, Counting
<1>4. CASE ~(QueueOf(p) = <<>> \/ (proc[p].queue = "normal" /\ free_slots = 0))
  <2>1. /\ QueueOf(p) # <<>>
        /\ proc' = [proc EXCEPT ![p].at = "gate", ![p].req = Head(QueueOf(p))]
        /\ SetQueueOf(p, Tail(QueueOf(p)))
    BY <1>4 DEF Take
  <2>2. /\ QueueOf(p) \in Seq(Request) /\ IsInjective(QueueOf(p))
        /\ Head(QueueOf(p)) \in Request /\ Head(QueueOf(p)) \in ToSet(QueueOf(p))
    <3>1. CASE proc[p].queue = "high"
      <4>1. QueueOf(p) = high_priority_queue
        BY <3>1 DEF QueueOf
      <4>2. high_priority_queue \in Seq(Urgent) /\ IsInjective(high_priority_queue)
        BY DEF IInv, Types, Once
      <4>3. high_priority_queue \in Seq(Request)
        BY <4>2, RequestAssumption
      <4> QED BY <2>1, <4>1, <4>2, <4>3, Behead
    <3>2. CASE proc[p].queue # "high"
      BY <2>1, <3>2, Behead DEF QueueOf, IInv, Types, Once
    <3> QED BY <3>1, <3>2
  <2>3. PICK r \in Request : r = Head(QueueOf(p))
    BY <2>2
  <2>4. /\ c = [proc[p] EXCEPT !.at = "gate", !.req = r] /\ c \in ProcType
        /\ proc' = [proc EXCEPT ![p] = c]
    BY <1>1, <2>1, <2>3 DEF ProcType, Place, Busy, Walking
  <2>5. c.at = "gate" /\ c.req = r /\ c.tmp = proc[p].tmp /\ c.queue = proc[p].queue
    BY <1>1, <2>4 DEF ProcType
  <2> HIDE DEF c
  <2>6. /\ Req(p)' = r /\ Has(p)' = Has(p) \cup {r} /\ proc'[p] = c
        /\ \A q \in Processor \ {p} : Has(q)' = Has(q)
    BY <1>1, <1>2, <2>4, <2>5, NoneAssumption DEF Has, Req
  <2>7. \A q \in Processor : r \notin Has(q)
    BY <2>2, <2>3 DEF QueueOf, IInv, Apart
  <2>8. CASE proc[p].queue = "high"
    <3>1. /\ high_priority_queue' = Tail(high_priority_queue) /\ waiting_queue' = waiting_queue
          /\ high_priority_queue # <<>> /\ r = Head(high_priority_queue)
      BY <2>1, <2>3, <2>8 DEF SetQueueOf, QueueOf
    <3>2. /\ high_priority_queue' \in Seq(Urgent) /\ IsInjective(high_priority_queue')
          /\ ToSet(high_priority_queue') = ToSet(high_priority_queue) \ {r}
          /\ r \in ToSet(high_priority_queue) /\ r \in Urgent
      BY <3>1, Behead DEF IInv, Types, Once
    <3>3. Apart' /\ Once'
      BY <1>1, <2>6, <2>7, <3>1, <3>2 DEF IInv, Apart, Once, deviceVars, upperVars
    <3>4. Shaped(p)'
      BY <1>1, <1>2, <2>5, <2>6, <2>7, <3>2, NoneAssumption DEF Shaped, Busy, Walking
    <3> QED BY <1>1, <2>4, <2>5, <3>1, <3>2, <3>3, <3>4, MoveKeeps
            DEF IInv, Types, Counting, deviceVars, upperVars
  <2>9. CASE proc[p].queue # "high"
    <3>1. /\ waiting_queue' = Tail(waiting_queue) /\ high_priority_queue' = high_priority_queue
          /\ waiting_queue # <<>> /\ r = Head(waiting_queue)
      BY <2>1, <2>3, <2>9 DEF SetQueueOf, QueueOf
    <3>2. /\ waiting_queue' \in Seq(Request) /\ IsInjective(waiting_queue')
          /\ ToSet(waiting_queue') = ToSet(waiting_queue) \ {r}
          /\ r \in ToSet(waiting_queue)
      BY <3>1, Behead DEF IInv, Types, Once
    <3>3. Apart' /\ Once'
      BY <1>1, <2>6, <2>7, <3>1, <3>2 DEF IInv, Apart, Once, deviceVars, upperVars
    <3>4. Shaped(p)'
      BY <1>1, <1>2, <2>5, <2>6, <2>7, <2>9, NoneAssumption DEF Shaped, Busy, Walking
    <3> QED BY <1>1, <2>4, <2>5, <3>1, <3>2, <3>3, <3>4, MoveKeeps
            DEF IInv, Types, Counting, deviceVars, upperVars
  <2> QED BY <2>8, <2>9
<1> QED BY <1>3, <1>4

LEMMA PutAsideKeeps == ASSUME IInv, NEW p \in Processor, PutAside(p) PROVE IInv'
<1> DEFINE c == proc'[p]
<1>1. /\ proc[p] \in ProcType /\ proc \in [Processor -> ProcType] /\ Shaped(p)
      /\ proc[p].at \in {"FULL", "BLOCKED", "NO_RESOURCE"} /\ proc[p].queue # "fast"
      /\ Req(p) # None /\ Req(p) \in Request /\ proc[p].tmp \in Seq(Request)
      /\ blocked' \in [Device -> BOOLEAN]
      /\ UNCHANGED <<queueVars, complete_queue, running_req, free_slots, outstanding_req,
                     upperVars>>
  BY DEF IInv, Types, Shape, Shaped, PutAside, Busy, Req, ProcType
<1>0. PICK r \in Request : r = Req(p)
  BY <1>1
<1>2. /\ <<r>> \o proc[p].tmp \in Seq(Request) /\ IsInjective(<<r>> \o proc[p].tmp)
      /\ ToSet(<<r>> \o proc[p].tmp) = ToSet(proc[p].tmp) \cup {r}
      /\ None \notin ToSet(proc[p].tmp)
  BY <1>0, <1>1, PutFirst, Positions, NoneAssumption DEF Shaped
<1>3. /\ c = [proc[p] EXCEPT !.at = "take", !.req = None, !.tmp = <<r>> \o proc[p].tmp]
      /\ c \in ProcType /\ proc' = [proc EXCEPT ![p] = c]
  BY <1>0, <1>1, <1>2 DEF PutAside, ProcType, Place, Busy, Walking
<1>4. /\ c.at = "take" /\ c.req = None /\ c.tmp = <<r>> \o proc[p].tmp
      /\ c.queue = proc[p].queue
  BY <1>1, <1>3 DEF ProcType
<1> HIDE DEF c
<1>5. /\ Req(p)' = None /\ Has(p)' = Has(p) /\ proc'[p] = c
      /\ \A q \in Processor \ {p} : Has(q)' = Has(q)
  BY <1>0, <1>1, <1>2, <1>3, <1>4, NoneAssumption DEF Has, Req
<1>6. Shaped(p)'
  BY <1>1, <1>2, <1>4, <1>5, NoneAssumption DEF Shaped, Busy, Walking
<1>7. Apart' /\ Once'
  BY <1>1, <1>5 DEF IInv, Apart, Once, queueVars, upperVars
<1> QED BY <1>1, <1>3, <1>4, <1>6, <1>7, MoveKeeps
        DEF IInv, Types, Counting, queueVars, upperVars

LEMMA UnblockKeeps == ASSUME IInv, NEW p \in Processor, Unblock(p) PROVE IInv'
<1> DEFINE c == proc'[p]
<1>1. /\ proc[p] \in ProcType /\ proc \in [Processor -> ProcType] /\ Shaped(p)
      /\ proc[p].at = "ending" /\ proc[p].queue # "fast" /\ Req(p) = None
      /\ proc[p].tmp \in Seq(Request) /\ proc[p].tmp # <<>>
      /\ blocked' \in [Device -> BOOLEAN]
      /\ UNCHANGED <<queueVars, complete_queue, running_req, free_slots, outstanding_req,
                     upperVars>>
  BY DEF IInv, Types, Shape, Shaped, Unblock, Busy, Req, ProcType
<1>2. /\ Head(proc[p].tmp) \in Request /\ Head(proc[p].tmp) \in ToSet(proc[p].tmp)
      /\ Tail(proc[p].tmp) \in Seq(Request) /\ IsInjective(Tail(proc[p].tmp))
      /\ ToSet(Tail(proc[p].tmp)) = ToSet(proc[p].tmp) \ {Head(proc[p].tmp)}
      /\ None \notin ToSet(proc[p].tmp)
  BY <1>1, Behead, Positions, NoneAssumption DEF Shaped
<1>0. PICK r \in Request : r = Head(proc[p].tmp)
  BY <1>2
<1>3. /\ c = [proc[p] EXCEPT !.at = "restore", !.req = r, !.tmp = Tail(proc[p].tmp)]
      /\ c \in ProcType /\ proc' = [proc EXCEPT ![p] = c]
  BY <1>0, <1>1, <1>2 DEF Unblock, ProcType, Place, Busy, Walking
<1>4. /\ c.at = "restore" /\ c.req = r /\ c.tmp = Tail(proc[p].tmp)
      /\ c.queue = proc[p].queue
  BY <1>1, <1>3 DEF ProcType
<1> HIDE DEF c
<1>5. /\ Req(p)' = r /\ Has(p)' = Has(p) /\ proc'[p] = c
      /\ \A q \in Processor \ {p} : Has(q)' = Has(q)
  BY <1>0, <1>1, <1>2, <1>3, <1>4, NoneAssumption DEF Has, Req
<1>6. Shaped(p)'
  BY <1>0, <1>1, <1>2, <1>4, <1>5, NoneAssumption DEF Shaped, Busy, Walking
<1>7. Apart' /\ Once'
  BY <1>1, <1>5 DEF IInv, Apart, Once, queueVars, upperVars
<1> QED BY <1>1, <1>3, <1>4, <1>6, <1>7, MoveKeeps
        DEF IInv, Types, Counting, queueVars, upperVars

LEMMA RestoreKeeps == ASSUME IInv, NEW p \in Processor, Restore(p) PROVE IInv'
<1> DEFINE c == proc'[p]
<1>1. /\ proc[p] \in ProcType /\ proc \in [Processor -> ProcType] /\ Shaped(p)
      /\ proc[p].at = "restore" /\ proc[p].queue # "fast" /\ Req(p) \in Request
      /\ proc[p].tmp \in Seq(Request)
      /\ UNCHANGED <<complete_queue, deviceVars, upperVars>>
  BY DEF IInv, Types, Shape, Shaped, Restore, Busy, Req, ProcType
<1>0. PICK r \in Request : r = Req(p)
  BY <1>1
<1>2. Has(p) = ToSet(proc[p].tmp) \cup {r} /\ r \notin ToSet(proc[p].tmp)
  BY <1>0, <1>1, NoneAssumption DEF Has, Shaped
<1>3. /\ c = [proc[p] EXCEPT !.at = "ending", !.req = None]
      /\ c \in ProcType /\ proc' = [proc EXCEPT ![p] = c]
  BY <1>1 DEF Restore, ProcType, Place, Busy, Walking
<1>4. /\ c.at = "ending" /\ c.req = None /\ c.tmp = proc[p].tmp /\ c.queue = proc[p].queue
  BY <1>1, <1>3 DEF ProcType
<1> HIDE DEF c
<1>5. /\ Req(p)' = None /\ Has(p)' = Has(p) \ {r} /\ proc'[p] = c
      /\ \A q \in Processor \ {p} : Has(q)' = Has(q)
  <2>1. None \notin ToSet(proc[p].tmp)
    BY <1>1, Positions, NoneAssumption
  <2> QED BY <1>1, <1>2, <1>3, <1>4, <2>1 DEF Has, Req
<1>6. Shaped(p)'
  <2>1. None \notin ToSet(proc[p].tmp)
    BY <1>1, Positions, NoneAssumption
  <2> QED BY <1>1, <1>4, <1>5, <2>1 DEF Shaped, Busy, Walking
<1>7. /\ r \notin upper /\ r \notin running_req /\ r \notin ToSet(waiting_queue)
      /\ r \notin ToSet(high_priority_queue) /\ r \notin ToSet(complete_queue)
      /\ \A q \in Processor \ {p} : r \notin Has(q)
  BY <1>2, Nowhere DEF IInv
<1>8. Apart /\ IInv /\ UNCHANGED <<complete_queue, running_req, upper>>
  BY <1>1 DEF IInv, deviceVars, upperVars
<1>9. \A q \in Processor : Has(q)' = Has(q) \ {r}
  BY <1>5, <1>7
<1>10. CASE proc[p].queue = "high"
  <2>1. /\ high_priority_queue' = <<r>> \o high_priority_queue
        /\ waiting_queue' = waiting_queue /\ r \in Urgent
    BY <1>0, <1>1, <1>2, <1>10 DEF Restore, SetQueueOf, QueueOf, Shaped, Walking
  <2>2. /\ high_priority_queue' \in Seq(Urgent) /\ IsInjective(high_priority_queue')
        /\ ToSet(high_priority_queue') = ToSet(high_priority_queue) \cup {r}
    BY <1>2, <2>1, PutFirst, Nowhere DEF IInv, Types, Once
  <2>3. Apart' /\ Once'
    <3>1. Apart'
      BY <1>7, <1>8, <1>9, <2>1, <2>2 DEF Apart
    <3>2. Once'
      BY <1>8, <2>1, <2>2 DEF IInv, Once
    <3> QED BY <3>1, <3>2
  <2> QED BY <1>1, <1>3, <1>4, <1>6, <2>1, <2>2, <2>3, MoveKeeps
          DEF IInv, Types, Counting, deviceVars, upperVars
<1>11. CASE proc[p].queue # "high"
  <2>1. waiting_queue' = <<r>> \o waiting_queue /\ high_priority_queue' = high_priority_queue
    BY <1>0, <1>11 DEF Restore, SetQueueOf, QueueOf
  <2>2. /\ waiting_queue' \in Seq(Request) /\ IsInjective(waiting_queue')
        /\ ToSet(waiting_queue') = ToSet(waiting_queue) \cup {r}
    BY <1>2, <2>1, PutFirst, Nowhere DEF IInv, Types, Once
  <2>3. Apart' /\ Once'
    <3>1. Apart'
      BY <1>7, <1>8, <1>9, <2>1, <2>2 DEF Apart
    <3>2. Once'
      BY <1>8, <2>1, <2>2 DEF IInv, Once
    <3> QED BY <3>1, <3>2
  <2> QED BY <1>1, <1>3, <1>4, <1>6, <2>1, <2>2, <2>3, MoveKeeps
          DEF IInv, Types, Counting, deviceVars, upperVars
<1> QED BY <1>10, <1>11

LEMMA GiveBackKeeps == ASSUME IInv, NEW p \in Processor, GiveBack(p) PROVE IInv'
<1>1. CASE complete_queue = <<>>
  <2> DEFINE c == proc'[p]
  <2>1. /\ proc[p] \in ProcType /\ proc \in [Processor -> ProcType] /\ Shaped(p)
        /\ proc[p].at \in {"giveback", "irq"} /\ Req(p) = None /\ proc[p].tmp = <<>>
    BY DEF IInv, Types, Shape, Shaped, GiveBack, Busy, Walking, Req, ProcType
  <2>2. /\ c = [Idle EXCEPT !.at = "push"] \/ c = Idle
        /\ proc' = [proc EXCEPT ![p] = c]
        /\ UNCHANGED <<queueVars, complete_queue, deviceVars, upperVars>>
    BY <1>1, <2>1 DEF GiveBack, upperVars
  <2>3. c \in ProcType /\ c.at \in {"push", "idle"} /\ c.req = None /\ c.tmp = <<>>
    <3>1. CASE c = Idle
      BY <3>1, Nothing DEF Idle, ProcType, Place
    <3>2. CASE c = [Idle EXCEPT !.at = "push"]
      BY <3>2, Nothing DEF Idle, ProcType, Place
    <3> QED BY <2>2, <3>1, <3>2
  <2> HIDE DEF c
  <2> QED BY <2>1, <2>2, <2>3, GoKeeps DEF Busy, Walking, Counting
<1>2. CASE complete_queue # <<>>
  <2> DEFINE r == Head(complete_queue)
  <2>1. /\ complete_queue' = Tail(complete_queue) /\ upper' = upper \cup {r}
        /\ UNCHANGED <<queueVars, deviceVars, proc, submits>>
    BY <1>2 DEF GiveBack
  <2>2. /\ r \in Request /\ r \in ToSet(complete_queue)
        /\ complete_queue' \in Seq(Request) /\ IsInjective(complete_queue')
        /\ ToSet(complete_queue') = ToSet(complete_queue) \ {r}
    BY <1>2, <2>1, Behead DEF IInv, Types, Once
  <2> HIDE DEF r
  <2>3. \A q \in Processor : Has(q)' = Has(q)
    BY <2>1 DEF Has, Req
  <2>4. Types' /\ Once' /\ SlotsLeft'
    BY <2>1, <2>2 DEF IInv, Types, Once, SlotsLeft, queueVars, deviceVars
  <2>5. Shape'
    BY <2>1 DEF IInv, Shape, Shaped, Has, Req
  <2>6. Apart'
    BY <2>1, <2>2, <2>3 DEF IInv, Apart, queueVars, deviceVars
  <2>7. Counted'
    <3>1. \A o \in Request : Inside(o)' <=> Inside(o)
      BY <2>1 DEF Inside, Req, deviceVars
    <3> QED BY <2>1, <3>1, SameCounted DEF IInv, deviceVars
  <2> QED BY <2>4, <2>5, <2>6, <2>7 DEF IInv
<1> QED BY <1>1, <1>2

LEMMA NextKeeps == ASSUME IInv, [Next]_vars PROVE IInv'
<1>1. ASSUME UNCHANGED <<queueVars, complete_queue, deviceVars, proc, upperVars>> PROVE IInv'
  <2>1. Types' /\ Once' /\ SlotsLeft'
    BY <1>1 DEF IInv, Types, Once, SlotsLeft, queueVars, deviceVars, upperVars
  <2>2. \A q \in Processor : Has(q)' = Has(q) /\ Req(q)' = Req(q)
    BY <1>1 DEF Has, Req
  <2>3. Shape'
    BY <1>1, <2>2 DEF IInv, Shape, Shaped
  <2>4. Apart'
    BY <1>1, <2>2 DEF IInv, Apart, queueVars, deviceVars, upperVars
  <2>5. \A o \in Request : Inside(o)' <=> Inside(o)
    BY <1>1, <2>2 DEF Inside, deviceVars
  <2>6. Counted'
    BY <1>1, <2>5, SameCounted DEF IInv, deviceVars
  <2> QED BY <2>1, <2>3, <2>4, <2>6 DEF IInv
<1>2. CASE UNCHANGED vars
  BY <1>1, <1>2 DEF vars
<1>3. CASE Pause \/ Resume
  BY <1>1, <1>3 DEF Pause, Resume
<1>4. ASSUME NEW p \in Processor, Step(p) PROVE IInv'
  <2>1. CASE Send(p)
    BY <2>1, GoesOn, AdmitKeeps, TakeSlotKeeps, CountOutKeeps DEF Send
  <2>2. CASE Enqueue(p)
    BY <2>2, EnqueueKeeps
  <2>3. CASE HandOut(p)
    BY <2>3, GoesOn, TakeKeeps, PutAsideKeeps, UnblockKeeps, RestoreKeeps, GiveBackKeeps
       DEF HandOut
  <2>4. CASE Interrupt(p)
    BY <2>4, CountOutKeeps, QueueCompletedKeeps DEF Interrupt
  <2> QED BY <1>4, <2>1, <2>2, <2>3, <2>4 DEF Step
<1> QED BY <1>2, <1>3, <1>4, GoesOn, SubmitKeeps, CompleteKeeps DEF Next

LEMMA Inductive == Spec => []IInv
<1>1. IInv /\ [Next]_vars => IInv'
  BY NextKeeps
<1> QED BY <1>1, InitInv, PTL DEF Spec

-----------------------------------------------------------------------------
(***************************************************************************)
(* The theorems.                                                           *)
(***************************************************************************)

LEMMA InvImpliesType == ASSUME IInv PROVE TypeOK
<1>1. free_slots \in 0..Slots
  <2>1. Cardinality(running_req) \in Nat /\ Slots \in Nat /\ free_slots \in Nat
    BY FS_CardinalityType, LimitAssumption DEF IInv, SlotsLeft
  <2> QED BY <2>1 DEF IInv, SlotsLeft
<1>2. outstanding_req \in [Device -> 0..queue_depth]
  <2>1. \A d \in Device : outstanding_req[d] \in 0..queue_depth
    BY LimitAssumption DEF IInv, Types, Counted
  <2> QED BY <2>1 DEF IInv, Types
<1>3. proc \in [Processor ->
         [at : {"idle", "gate", "admit", "slot", "noslot", "FULL", "BLOCKED",
                "NO_RESOURCE", "push", "take", "ending", "restore", "giveback",
                "clean", "queue", "irq"},
          queue : {"fast", "high", "normal", None},
          req : Request \cup {None}, tmp : Seq(Request)]]
  <2>1. Place = {"idle", "gate", "admit", "slot", "noslot", "FULL", "BLOCKED",
                 "NO_RESOURCE", "push", "take", "ending", "restore", "giveback",
                 "clean", "queue", "irq"}
    BY DEF Place, Busy, Walking
  <2> QED BY <2>1 DEF IInv, Types, ProcType
<1> QED BY <1>1, <1>2, <1>3 DEF IInv, Types, TypeOK

\* A request is with the upper layer, on one of the queues, once, with one
\* processor, or with the hardware, wherever the processors are in the code.
THEOREM PlacesStayExact == Spec => []InOnePlace
<1>1. ASSUME IInv PROVE InOnePlace
  <2>1. /\ \A q \in {waiting_queue, high_priority_queue, complete_queue} : IsInjective(q)
        /\ \A p \in Processor : IsInjective(proc[p].tmp) /\ Req(p) \notin ToSet(proc[p].tmp)
    BY <1>1 DEF IInv, Once, Shape, Shaped
  <2>2. DOMAIN Shelf = {"upper", "waiting", "high", "complete", "running"}
    BY DEF Shelf
  <2>3. /\ Shelf["upper"] = upper /\ Shelf["waiting"] = ToSet(waiting_queue)
        /\ Shelf["high"] = ToSet(high_priority_queue)
        /\ Shelf["complete"] = ToSet(complete_queue) /\ Shelf["running"] = running_req
    BY DEF Shelf
  <2>4. ASSUME NEW r \in Request
        PROVE  \/ /\ \E x \in DOMAIN Shelf : \A y \in DOMAIN Shelf : r \in Shelf[y] <=> y = x
                  /\ \A p \in Processor : r \notin Has(p)
               \/ /\ \A y \in DOMAIN Shelf : r \notin Shelf[y]
                  /\ \E p \in Processor : \A q \in Processor : r \in Has(q) <=> q = p
    <3>1. CASE \E p \in Processor : r \in Has(p)
      BY <1>1, <2>2, <2>3, <3>1 DEF IInv, Apart
    <3>2. CASE \A p \in Processor : r \notin Has(p)
      <4>1. \E x \in DOMAIN Shelf : r \in Shelf[x]
        BY <1>1, <2>2, <2>3, <3>2 DEF IInv, Apart
      <4>2. \A x, y \in DOMAIN Shelf : r \in Shelf[x] /\ r \in Shelf[y] => x = y
        BY <1>1, <2>2, <2>3 DEF IInv, Apart
      <4> QED BY <3>2, <4>1, <4>2
    <3> QED BY <3>1, <3>2
  <2> QED BY <1>1, <2>1, <2>4, InvImpliesType DEF InOnePlace
<1> QED BY <1>1, Inductive, PTL

\* A device counts exactly the requests that are with the hardware or on the way
\* in or out, and never more than its queue depth.
THEOREM CountStaysExact == Spec => []OutstandingExact
<1>1. ASSUME IInv, NEW d \in Device
      PROVE  On(d) = {r \in running_req : DeviceOf[r] = d}
                \cup {Req(p) : p \in {q \in Processor :
                         proc[q].at \in {"slot", "noslot", "clean"} /\ Dev(q) = d}}
  <2>1. \A p \in Processor : proc[p].at \in Counting => Req(p) \in Request
    BY <1>1 DEF IInv, Types, Shape, Shaped, Busy, Counting, Req, ProcType
  <2>2. running_req \subseteq Request
    BY <1>1 DEF IInv, Types
  <2> QED BY <2>1, <2>2 DEF On, Inside, Counting, Dev
<1>2. IInv => OutstandingExact
  BY <1>1 DEF IInv, Counted, OutstandingExact
<1> QED BY <1>2, Inductive, PTL
=============================================================================
