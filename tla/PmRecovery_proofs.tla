--------------------------- MODULE PmRecovery_proofs ---------------------------
(***************************************************************************)
(* For any port multiplier of up to CORE_MAX_DEVICE_PER_PM ports, any disks*)
(* behind it and any number of missing internal requests and pulled disks: *)
(* one disk recovers at a time, no failed request is lost, and asynchronous*)
(* notification is on again when a recovery is over.                       *)
(*                                                                         *)
(* Held says of one disk how its request, its error context, the queue and *)
(* the multiplier's context fit together, Machines what the two levels of  *)
(* the state machine have in common, and OffRule in which of their states  *)
(* notification can be off.                                                *)
(***************************************************************************)
EXTENDS PmRecovery, SequenceTheorems, FiniteSetTheorems, TLAPS

EhState == {"none", "soft_reset_1", "soft_reset_wait", "soft_reset_0", "dev_hard_reset",
            "hard_reset_done", "pm_reset_wait", "pm_srst_1", "pm_srst_0", "pm_srst_wait",
            "pm_reinit", "retry_org_req"}

\* The states of the multiplier's machine: for each port, resetting one port, all ports.
PerPort == {"check_phy_rdy", "check_phy_rdy_done", "soft_reset_1", "soft_reset_0", "wait_sig"}
Resetting == PerPort \cup {"enable_pm_port_1", "enable_pm_port_0", "enable_asynotify"}
Reinitializing == PerPort \cup {"enable_features", "clear_error_info", "spin_up_all_ports",
                                "spin_up_done", "enable_asynotify"}
PmState == Resetting \cup Reinitializing \cup {"none", "done"}

\* What a recovery can have outstanding.
Requested == {"srst", "dev_timer", "port_reset", "pm_srst", "retry", "reg", "features", "read",
              "asynotify", "pm_timer"}
Outstanding == [do : Requested, at : Port \cup {NoPort}] \cup {Nothing}

Context == [state : {"none", "handling", "handled"}, eh_state : EhState \cup {Idle},
            ok : BOOLEAN, error_count : 0..1]
PmContext == [state : {"none", "handling"}, eh_state : PmState,
              error_port : Disk \cup {NoPort}, active : Port \cup {NoPort}]

\* The disk's machine in state st goes with the multiplier's in state pm at port a.
InStep(st, pm, a) ==
    /\ st \in EhState /\ pm \in PmState /\ a \in Port \cup {NoPort}
    /\ st = "dev_hard_reset" => pm \in Resetting
    /\ st = "pm_reinit" => pm \in Reinitializing \cup {"none"}
    /\ st = "retry_org_req" => pm = "done"
    /\ st \notin {"dev_hard_reset", "pm_reinit", "retry_org_req"} => pm = "none"
    /\ pm \notin {"none", "enable_asynotify", "done"} => a \in Port

\* The request outstanding goes with the state.
AsksFor(do, st) ==
    /\ do = "features" => st \in {"dev_hard_reset", "pm_reinit"}
    /\ do = "retry" => st \in {"soft_reset_0", "hard_reset_done", "retry_org_req"}

\* The states in which notification may be off: ports are being reset, or it is just
\* being turned on, or the reset of the disk's port has failed and that of the whole
\* multiplier waits for an internal request.
OffStates == {"dev_hard_reset", "pm_reset_wait", "pm_srst_1", "pm_srst_0", "pm_srst_wait",
              "pm_reinit"}
MayBeOff(st, do, ok) ==
    \/ st \in OffStates
    \/ st \in {"hard_reset_done", "retry_org_req"} /\ do = "asynotify"
    \/ st = "hard_reset_done" /\ do = "none" /\ ~ok

Mine(d) == pm_ctx.state = "handling" /\ pm_ctx.error_port = d

\* A disk with context c and a request at w, queued if q; mine: the multiplier's context
\* names it, busy: something is outstanding.
Fits(c, w, q, mine, busy) ==
    /\ q => w = "error"
    /\ w = "error" => c.error_count = 1 /\ (q <=> c.state # "handling")
    /\ c.error_count = 1 /\ w # "error" => w = "waiting" /\ "pushed" \in lapses
    /\ c.error_count = 0 => c.state # "handling"
    /\ c.state = "handled" => c.eh_state = Idle
    /\ c.eh_state # Idle => w = "error" /\ mine
    /\ w = "error" /\ c.state = "handling" => mine /\ busy
    /\ mine => c.eh_state # Idle /\ (busy => c.state = "handling")

Queued(d) == d \in ToSet(error_queue)
Held(d) ==
    IF d \in disks THEN Fits(err_ctx[d], where[d], Queued(d), Mine(d), eh # Nothing)
    ELSE where[d] = "done" /\ err_ctx[d] = NoError /\ ~Queued(d)

Machines ==
    /\ eh # Nothing => pm_ctx.state = "handling"
    /\ eh.do = "dev_timer" => pm_ctx.error_port \in disks
    /\ pm_ctx.state = "handling" =>
        /\ pm_ctx.error_port \in Disk
        /\ pm_ctx.error_port \in disks \/ pulled > 0
        /\ pm_ctx.error_port \in disks =>
            /\ InStep(err_ctx[pm_ctx.error_port].eh_state, pm_ctx.eh_state, pm_ctx.active)
            /\ AsksFor(eh.do, err_ctx[pm_ctx.error_port].eh_state)

Types ==
    /\ disks \subseteq Disk /\ pm_up \in BOOLEAN
    /\ where \in [Disk -> {"waiting", "out", "error", "done"}]
    /\ error_queue \in Seq(Disk) /\ IsInjective(error_queue)
    /\ err_ctx \in [Disk -> Context] /\ pm_ctx \in PmContext /\ eh \in Outstanding
    /\ sig \subseteq Disk /\ asynotify \in {"on", "off", "failed"}
    /\ short \in Nat /\ pulled \in Nat /\ lapses \subseteq {"pushed", "saved"}

Sound == Types /\ (\A d \in Disk : Held(d)) /\ Machines

OffRule ==
    asynotify = "off" /\ pm_up /\ pulled = 0 /\ "saved" \notin lapses =>
        /\ pm_ctx.state = "handling"
        /\ MayBeOff(err_ctx[pm_ctx.error_port].eh_state, eh.do, err_ctx[pm_ctx.error_port].ok)

IInv == Sound /\ OffRule

-----------------------------------------------------------------------------
(***************************************************************************)
(* The error queue, on which no disk is twice.                             *)
(***************************************************************************)

LEMMA Positions ==
    ASSUME NEW S, NEW q \in Seq(S)
    PROVE  /\ Len(q) \in Nat /\ DOMAIN q = 1..Len(q)
           /\ \A i \in 1..Len(q) : q[i] \in S /\ q[i] \in ToSet(q)
           /\ \A x \in ToSet(q) : x \in S /\ \E i \in 1..Len(q) : q[i] = x
<1>1. Len(q) \in Nat /\ DOMAIN q = 1..Len(q) /\ \A i \in 1..Len(q) : q[i] \in S
  BY LenProperties, ElementOfSeq
<1>2. /\ \A i \in 1..Len(q) : q[i] \in ToSet(q)
      /\ \A x \in ToSet(q) : \E i \in 1..Len(q) : q[i] = x
  BY <1>1 DEF ToSet
<1> QED BY <1>1, <1>2

LEMMA EmptyQueue == IsInjective(<<>>) /\ ToSet(<<>>) = {} /\ \A S : <<>> \in Seq(S)
<1>1. DOMAIN <<>> = {}
  BY EmptySeq, LenProperties
<1> QED BY <1>1, EmptySeq DEF IsInjective, ToSet

LEMMA Behead ==
    ASSUME NEW S, NEW q \in Seq(S), q # <<>>, IsInjective(q)
    PROVE  /\ Head(q) \in S /\ Head(q) \in ToSet(q)
           /\ Tail(q) \in Seq(S) /\ IsInjective(Tail(q))
           /\ ToSet(Tail(q)) = ToSet(q) \ {Head(q)}
<1> DEFINE n == Len(q)
           t == Tail(q)
<1>1. /\ n \in Nat \ {0} /\ DOMAIN q = 1..n /\ Head(q) = q[1] /\ Head(q) \in S
  BY EmptySeq, LenProperties, HeadTailProperties
<1>2. /\ t \in Seq(S) /\ Len(t) = n - 1 /\ DOMAIN t = 1..n-1
      /\ \A i \in 1..n-1 : t[i] = q[i+1]
  BY HeadTailProperties, LenProperties
<1>3. \A i, j \in 1..n : q[i] = q[j] => i = j
  BY <1>1 DEF IsInjective
<1> HIDE DEF n, t
<1>4. IsInjective(t)
  <2> SUFFICES ASSUME NEW i \in 1..n-1, NEW j \in 1..n-1, t[i] = t[j] PROVE i = j
    BY <1>2 DEF IsInjective
  <2>1. i + 1 \in 1..n /\ j + 1 \in 1..n /\ q[i+1] = q[j+1]
    BY <1>1, <1>2
  <2>2. i + 1 = j + 1
    BY <1>3, <2>1
  <2>3. i \in Int /\ j \in Int
    BY <1>1
  <2> QED BY <2>2, <2>3
<1>5. ToSet(t) = ToSet(q) \ {Head(q)}
  <2>1. ASSUME NEW i \in 1..n-1 PROVE t[i] \in ToSet(q) /\ t[i] # Head(q)
    <3>1. i + 1 \in 1..n /\ 1 \in 1..n /\ i + 1 # 1 /\ t[i] = q[i+1]
      BY <1>1, <1>2
    <3>2. q[i+1] # q[1]
      BY <1>3, <3>1
    <3> QED BY <1>1, <3>1, <3>2 DEF ToSet
  <2>2. ASSUME NEW i \in 1..n, q[i] # Head(q) PROVE q[i] \in ToSet(t)
    <3>1. i - 1 \in 1..n-1 /\ t[i-1] = q[i]
      BY <1>1, <1>2, <2>2
    <3> QED BY <1>2, <3>1 DEF ToSet
  <2>3. \A x \in ToSet(t) : \E i \in 1..n-1 : x = t[i]
    BY <1>2 DEF ToSet
  <2>4. \A x \in ToSet(q) : \E i \in 1..n : x = q[i]
    BY <1>1 DEF ToSet
  <2> QED BY <2>1, <2>2, <2>3, <2>4
<1>6. Head(q) \in ToSet(q)
  BY <1>1 DEF ToSet
<1> QED BY <1>1, <1>2, <1>4, <1>5, <1>6 DEF t

LEMMA PutLast ==
    ASSUME NEW S, NEW q \in Seq(S), NEW m \in S, IsInjective(q), m \notin ToSet(q)
    PROVE  /\ Append(q, m) \in Seq(S) /\ IsInjective(Append(q, m))
           /\ ToSet(Append(q, m)) = ToSet(q) \cup {m}
<1> DEFINE n == Len(q)
           o == Append(q, m)
<1>1. /\ n \in Nat /\ \A i \in 1..n : q[i] \in ToSet(q)
      /\ \A x \in ToSet(q) : \E i \in 1..n : q[i] = x
  BY Positions
<1>2. \A i, j \in 1..n : q[i] = q[j] => i = j
  BY Positions DEF IsInjective
<1>3. o \in Seq(S) /\ Len(o) = n+1 /\ o[n+1] = m /\ \A i \in 1..n : o[i] = q[i]
  BY AppendProperties
<1>4. DOMAIN o = 1..n+1
  BY <1>3, LenProperties
<1> HIDE DEF n, o
<1>5. /\ \A i \in 1..n+1 : i \in 1..n \/ i = n+1
      /\ n+1 \in 1..n+1 /\ 1..n \subseteq 1..n+1
  BY <1>1
<1>6. IsInjective(o)
  <2> SUFFICES ASSUME NEW i \in 1..n+1, NEW j \in 1..n+1, o[i] = o[j] PROVE i = j
    BY <1>4 DEF IsInjective
  <2> QED BY <1>1, <1>2, <1>3, <1>5
<1>7. /\ \A i \in 1..n+1 : o[i] \in ToSet(o)
      /\ \A x \in ToSet(o) : \E i \in 1..n+1 : o[i] = x
  BY <1>4 DEF ToSet
<1>8. \A x : x \in ToSet(o) <=> x \in ToSet(q) \/ x = m
  BY <1>1, <1>3, <1>5, <1>7
<1> QED BY <1>3, <1>6, <1>8 DEF o

LEMMA PutFirst ==
    ASSUME NEW S, NEW q \in Seq(S), NEW m \in S, IsInjective(q), m \notin ToSet(q)
    PROVE  /\ <<m>> \o q \in Seq(S) /\ IsInjective(<<m>> \o q)
           /\ ToSet(<<m>> \o q) = ToSet(q) \cup {m} /\ <<m>> \o q # <<>>
<1> DEFINE n == Len(q)
           o == <<m>> \o q
<1>1. /\ n \in Nat /\ \A i \in 1..n : q[i] \in ToSet(q)
      /\ \A x \in ToSet(q) : \E i \in 1..n : q[i] = x
  BY Positions
<1>2. \A i, j \in 1..n : q[i] = q[j] => i = j
  BY Positions DEF IsInjective
<1>3. /\ o \in Seq(S) /\ Len(o) = 1 + n
      /\ \A i \in 1..1+n : o[i] = IF i <= 1 THEN <<m>>[i] ELSE q[i - 1]
  <2>1. <<m>> \in Seq(S) /\ Len(<<m>>) = 1
    OBVIOUS
  <2> QED BY <2>1, ConcatProperties
<1>4. DOMAIN o = 1..1+n
  BY <1>3, LenProperties
<1> HIDE DEF n, o
<1>5. /\ o[1] = m /\ 1 \in 1..1+n /\ \A i \in 2..1+n : i - 1 \in 1..n /\ o[i] = q[i - 1]
      /\ \A i \in 1..1+n : i = 1 \/ i \in 2..1+n
      /\ \A i \in 1..n : i + 1 \in 2..1+n /\ i + 1 \in 1..1+n /\ o[i + 1] = q[i]
  BY <1>1, <1>3
<1>6. IsInjective(o)
  <2> SUFFICES ASSUME NEW i \in 1..1+n, NEW j \in 1..1+n, o[i] = o[j] PROVE i = j
    BY <1>4 DEF IsInjective
  <2>1. CASE i = 1 \/ j = 1
    BY <1>1, <1>5, <2>1
  <2>2. CASE i \in 2..1+n /\ j \in 2..1+n
    <3>1. i - 1 = j - 1
      BY <1>2, <1>5, <2>2
    <3> QED BY <3>1
  <2> QED BY <1>5, <2>1, <2>2
<1>7. /\ \A i \in 1..1+n : o[i] \in ToSet(o)
      /\ \A x \in ToSet(o) : \E i \in 1..1+n : o[i] = x
  BY <1>4 DEF ToSet
<1>8. ASSUME NEW x \in ToSet(o) PROVE x \in ToSet(q) \/ x = m
  <2>1. PICK i \in 1..1+n : o[i] = x
    BY <1>7
  <2> QED BY <1>1, <1>5, <2>1
<1>9. ASSUME NEW x \in ToSet(q) PROVE x \in ToSet(o)
  <2>1. PICK i \in 1..n : q[i] = x
    BY <1>1
  <2> QED BY <1>5, <1>7, <2>1
<1>10. m \in ToSet(o) /\ o # <<>>
  BY <1>5, <1>7, <1>4, EmptyQueue, EmptySeq, LenProperties
<1> QED BY <1>3, <1>6, <1>8, <1>9, <1>10 DEF o

\* Taking the one entry of D off the queue.
LEMMA WithoutLeft ==
    ASSUME NEW q \in Seq(Disk), IsInjective(q), NEW x, NEW D, D \subseteq {x}
    PROVE  /\ Without(q, D) \in Seq(Disk) /\ IsInjective(Without(q, D))
           /\ ToSet(Without(q, D)) = ToSet(q) \ D
<1> DEFINE n == Len(q)
           At == {i \in 1..n : q[i] \in D}
           k == CHOOSE i \in At : TRUE
           a == SubSeq(q, 1, k-1)
           b == SubSeq(q, k+1, n)
           o == a \o b
<1>1. /\ n \in Nat /\ DOMAIN q = 1..n /\ \A i \in 1..n : q[i] \in Disk /\ q[i] \in ToSet(q)
      /\ \A y \in ToSet(q) : \E i \in 1..n : q[i] = y
  BY Positions
<1>2. \A i, j \in 1..n : q[i] = q[j] => i = j
  BY <1>1 DEF IsInjective
<1>3. CASE At = {}
  <2>1. ToSet(q) \cap D = {}
    BY <1>1, <1>3
  <2> QED BY <1>3, <2>1 DEF Without
<1>4. CASE At # {}
  <2>1. k \in 1..n /\ q[k] = x /\ D = {x}
    BY <1>4
  <2>2. Without(q, D) = o
    BY <1>4 DEF Without, RemoveAt
  <2> HIDE DEF At, k
  <2>3. a \in Seq(Disk) /\ Len(a) = k - 1 /\ \A i \in 1..k-1 : a[i] = q[i]
    <3> DEFINE m == k - 1
    <3>1. 1 \in Int /\ m \in Int /\ m - 1 + 1 = m /\ \A i \in 1..m : q[i] \in Disk /\ 1 + i - 1 = i
      BY <1>1, <2>1
    <3> DEFINE t == SubSeq(q, 1, m)
    <3>2. /\ t \in Seq(Disk) /\ Len(t) = IF 1 <= m THEN m-1+1 ELSE 0
          /\ \A i \in 1..m-1+1 : t[i] = q[1+i-1]
      <4> HIDE DEF m
      <4> QED BY <3>1, SubSeqProperties
    <3> QED BY <2>1, <3>1, <3>2
  <2>4. b \in Seq(Disk) /\ Len(b) = n - k /\ \A i \in 1..n-k : b[i] = q[k+i]
    <3> DEFINE m == k + 1
               t == SubSeq(q, m, n)
    <3>1. m \in Int /\ n \in Int /\ \A i \in m..n : q[i] \in Disk
      BY <1>1, <2>1
    <3>2. /\ t \in Seq(Disk) /\ Len(t) = IF m <= n THEN n-m+1 ELSE 0
          /\ \A i \in 1..n-m+1 : t[i] = q[m+i-1]
      <4> HIDE DEF m, n
      <4> QED BY <3>1, SubSeqProperties DEF n
    <3>3. n - m + 1 = n - k /\ \A i \in 1..n-k : m + i - 1 = k + i
      BY <1>1, <2>1
    <3>4. Len(t) = n - k
      <4> HIDE DEF t, n
      <4> QED BY <1>1, <2>1, <3>2
    <3>5. \A i \in 1..n-k : t[i] = q[k+i]
      <4> HIDE DEF t, n
      <4> QED BY <3>2, <3>3
    <3> QED BY <3>2, <3>4, <3>5
  <2> HIDE DEF a, b
  <2>5. /\ o \in Seq(Disk) /\ Len(o) = n - 1
        /\ \A i \in 1..n-1 : o[i] = IF i <= k - 1 THEN q[i] ELSE q[i + 1]
    <3>1. /\ o \in Seq(Disk) /\ Len(o) = Len(a) + Len(b)
          /\ \A i \in 1..Len(a)+Len(b) : o[i] = IF i <= Len(a) THEN a[i] ELSE b[i - Len(a)]
      BY <2>3, <2>4, ConcatProperties
    <3>2. ASSUME NEW i \in 1..n-1 PROVE o[i] = IF i <= k - 1 THEN q[i] ELSE q[i + 1]
      <4>1. i \in 1..Len(a)+Len(b)
        BY <1>1, <2>1, <2>3, <2>4
      <4>2. CASE i <= k - 1
        BY <2>1, <2>3, <3>1, <4>1, <4>2
      <4>3. CASE ~(i <= k - 1)
        <5>1. i - (k - 1) \in 1..n-k /\ k + (i - (k - 1)) = i + 1
          BY <1>1, <2>1, <4>3
        <5> QED BY <2>3, <2>4, <3>1, <4>1, <4>3, <5>1
      <4> QED BY <4>2, <4>3
    <3> QED BY <1>1, <2>1, <2>3, <2>4, <3>1, <3>2
  <2> HIDE DEF o, n
  <2>6. /\ DOMAIN o = 1..n-1 /\ \A i \in 1..n-1 : o[i] \in ToSet(o)
        /\ \A y \in ToSet(o) : \E i \in 1..n-1 : o[i] = y
    BY <2>5, Positions
  <2>7. \A i \in 1..n-1 : \E j \in 1..n : j # k /\ o[i] = q[j] /\ j = (IF i <= k - 1 THEN i ELSE i + 1)
    BY <1>1, <2>1, <2>5
  <2>8. \A j \in 1..n : j # k => \E i \in 1..n-1 : o[i] = q[j]
    <3> SUFFICES ASSUME NEW j \in 1..n, j # k PROVE \E i \in 1..n-1 : o[i] = q[j]
      OBVIOUS
    <3>1. CASE j < k
      <4>1. j \in 1..n-1 /\ j <= k - 1
        BY <1>1, <2>1, <3>1
      <4> QED BY <2>5, <4>1
    <3>2. CASE j > k
      <4>1. j - 1 \in 1..n-1 /\ ~(j - 1 <= k - 1) /\ (j - 1) + 1 = j
        BY <1>1, <2>1, <3>2
      <4> QED BY <2>5, <4>1
    <3> QED BY <1>1, <2>1, <3>1, <3>2
  <2>9. IsInjective(o)
    <3> SUFFICES ASSUME NEW i \in 1..n-1, NEW j \in 1..n-1, o[i] = o[j] PROVE i = j
      BY <2>6 DEF IsInjective
    <3>1. PICK u \in 1..n : o[i] = q[u] /\ u = (IF i <= k - 1 THEN i ELSE i + 1)
      BY <2>7
    <3>2. PICK v \in 1..n : o[j] = q[v] /\ v = (IF j <= k - 1 THEN j ELSE j + 1)
      BY <2>7
    <3>3. u = v
      BY <1>2, <3>1, <3>2
    <3> QED BY <1>1, <2>1, <3>1, <3>2, <3>3
  <2>10. ASSUME NEW y \in ToSet(o) PROVE y \in ToSet(q) /\ y # x
    <3>1. PICK i \in 1..n-1 : o[i] = y
      BY <2>6
    <3>2. PICK j \in 1..n : j # k /\ y = q[j]
      BY <2>7, <3>1
    <3> QED BY <1>1, <1>2, <2>1, <3>2
  <2>11. ASSUME NEW y \in ToSet(q), y # x PROVE y \in ToSet(o)
    <3>1. PICK j \in 1..n : q[j] = y
      BY <1>1
    <3>2. PICK i \in 1..n-1 : o[i] = y
      BY <2>1, <2>8, <2>11, <3>1
    <3> QED BY <2>6, <3>2
  <2> QED BY <2>1, <2>2, <2>5, <2>9, <2>10, <2>11
<1> QED BY <1>3, <1>4

-----------------------------------------------------------------------------
(***************************************************************************)
(* The machines.                                                           *)
(***************************************************************************)

\* The ports.
LEMMA Ports == /\ NumPorts \in Nat /\ NoPort \in Nat /\ NoPort \notin Port /\ 0 \in Port
               /\ Disk \subseteq Port
               /\ \A a \in Port : a + 1 < NumPorts => a + 1 \in Port
               /\ \A a \in Port : a + 1 # NumPorts => a + 1 \in Port
  BY PortAssumption DEF Port, NoPort

\* The steps of the two machines.
IsStep(s) == s = [do |-> s.do, at |-> s.at, eh |-> s.eh, pm |-> s.pm, active |-> s.active,
                  lost |-> s.lost, abort |-> s.abort, here |-> s.here]

LEMMA StepFields ==
    \A do, at, e, p, a :
        /\ IsStep(Step(do, at, e, p, a))
        /\ Step(do, at, e, p, a).do = do /\ Step(do, at, e, p, a).at = at
        /\ Step(do, at, e, p, a).eh = e /\ Step(do, at, e, p, a).here = e
        /\ Step(do, at, e, p, a).pm = p /\ Step(do, at, e, p, a).active = a
        /\ Step(do, at, e, p, a).lost = {} /\ Step(do, at, e, p, a).abort = {}
  BY DEF Step, IsStep

LEMMA KeepFields ==
    \A do, at, e, h :
        /\ IsStep(KeepPm(do, at, e, h))
        /\ KeepPm(do, at, e, h).do = do /\ KeepPm(do, at, e, h).at = at
        /\ KeepPm(do, at, e, h).eh = e /\ KeepPm(do, at, e, h).here = h
        /\ KeepPm(do, at, e, h).pm = pm_ctx.eh_state
        /\ KeepPm(do, at, e, h).active = pm_ctx.active
        /\ KeepPm(do, at, e, h).lost = {}
  BY DEF KeepPm, Step, IsStep

\* What the proofs need of a step s that the machine of d takes.
Lacking(s) == /\ s.do \in {"srst", "pm_srst", "port_reset", "retry"}
              /\ s.here \notin {"dev_hard_reset", "pm_reinit"}
LosesOne(s) == \E x : s.lost \subseteq {x}
Allowed(d, s) ==
    /\ s.do \in Requested \cup {"again", "pm_down", "disk_down"}
    /\ s.at \in Port \cup {NoPort}
    /\ s.do \notin {"pm_down", "disk_down"} =>
            InStep(s.eh, s.pm, s.active) /\ AsksFor(s.do, s.eh)
    /\ Lacking(s) => InStep(s.here, s.pm, s.active)
    /\ s.lost \subseteq disks \ {d} /\ LosesOne(s)

\* Notification that is off when s is taken, in state st with status ok, stays so only
\* in states where it may.
Off(st, ok) == st \in OffStates \/ (st = "hard_reset_done" /\ ~ok)
KeepsOff(st, ok, s) ==
    Off(st, ok) =>
        \/ s.do = "pm_down"
        \/ /\ s.do # "disk_down"
           /\ s.eh \in OffStates \/ (s.eh \in {"hard_reset_done", "retry_org_req"} /\ s.do = "asynotify")
           /\ Lacking(s) => Off(s.here, ok)

\* A step of the multiplier's machine, for the disk's in state e.
PmStep(d, e, states, s) ==
    /\ IsStep(s)
    /\ s.do \in {"reg", "features", "read", "srst", "pm_timer", "asynotify", "again"}
    /\ s.at \in Port \cup {NoPort} /\ s.active \in Port \cup {NoPort}
    /\ s.eh = e /\ s.here = e /\ s.lost \subseteq disks \ {d} /\ LosesOne(s)
    /\ s.pm \in states \/ (s.pm = "done" /\ s.do = "asynotify")
    /\ s.pm \notin {"enable_asynotify", "done"} => s.active \in Port

LEMMA NextPortStep ==
    ASSUME NEW e, NEW a \in Port
    PROVE  LET s == NextPort(e, a)
           IN  /\ IsStep(s) /\ s.do = "again" /\ s.at = NoPort /\ s.eh = e /\ s.here = e /\ s.lost = {}
               /\ s.pm = "enable_asynotify" \/ (s.pm = "check_phy_rdy" /\ s.active \in Port)
               /\ s.active \in Port \cup {NoPort}
  BY Ports, StepFields DEF NextPort

LEMMA PhyCheckedStep ==
    ASSUME NEW d, NEW e, NEW a \in Port, NEW reset \in BOOLEAN, NEW ready \in BOOLEAN
    PROVE  PmStep(d, e, PerPort \cup {"enable_asynotify"}, PhyChecked(d, e, a, reset, ready))
<1> DEFINE n == NextPort(e, a)
           m == [n EXCEPT !.lost = ({a} \cap disks) \ {d}]
<1>1. /\ IsStep(n) /\ n.do = "again" /\ n.at = NoPort /\ n.eh = e /\ n.here = e
      /\ n.pm = "enable_asynotify" \/ (n.pm = "check_phy_rdy" /\ n.active \in Port)
      /\ n.active \in Port \cup {NoPort}
  BY NextPortStep
<1>2. /\ m.do = n.do /\ m.at = n.at /\ m.eh = n.eh /\ m.here = n.here /\ m.pm = n.pm
      /\ m.active = n.active /\ m.lost = ({a} \cap disks) \ {d} /\ IsStep(m)
  BY <1>1 DEF IsStep
<1>3. PmStep(d, e, PerPort \cup {"enable_asynotify"}, m)
  <2> HIDE DEF n, m
  <2> QED BY <1>1, <1>2 DEF PmStep, LosesOne, PerPort
<1>4. CASE ready
  BY <1>4, StepFields DEF PhyChecked, PmStep, LosesOne, PerPort
<1>5. CASE ~ready /\ reset
  BY <1>5, StepFields DEF PhyChecked, PmStep, LosesOne, PerPort
<1>6. CASE ~ready /\ ~reset
  BY <1>3, <1>6 DEF PhyChecked
<1> QED BY <1>4, <1>5, <1>6

LEMMA SigDoneStep ==
    ASSUME NEW d, NEW e, NEW a \in Port, NEW reset \in BOOLEAN
    PROVE  PmStep(d, e, {}, SigDone(e, a, reset))
<1>1. NextPort(e, a).active \in Port \cup {NoPort}
  BY NextPortStep
<1> QED BY <1>1, StepFields DEF SigDone, PmStep, LosesOne

\* The machine of the multiplier when it resets one port, and when it resets all.
LEMMA InitPortsStep ==
    ASSUME NEW d \in Disk, NEW e, NEW reset \in BOOLEAN, NEW ready \in BOOLEAN,
           NEW states, states = IF reset THEN Resetting ELSE Reinitializing,
           pm_ctx.eh_state \in states \cup {"none"}, pm_ctx.active \in Port \cup {NoPort},
           pm_ctx.eh_state \notin {"none", "enable_asynotify"} => pm_ctx.active \in Port
    PROVE  PmStep(d, e, states, pm_eh_make_init_ports_reqs(d, e, reset, ready))
<1> DEFINE start == pm_ctx.eh_state = "none"
           state == IF ~start THEN pm_ctx.eh_state
                    ELSE IF reset THEN "disable_asynotify" ELSE "qriga_workaround"
           a == IF ~start THEN pm_ctx.active ELSE IF reset THEN d ELSE 0
           s == pm_eh_make_init_ports_reqs(d, e, reset, ready)
<1> SUFFICES PmStep(d, e, states, s)
  OBVIOUS
<1>1. a \in Port \cup {NoPort} /\ (state # "enable_asynotify" => a \in Port)
  BY Ports
<1>2. /\ state \in states \cup {"disable_asynotify", "qriga_workaround"}
      /\ state = "disable_asynotify" => reset
      /\ state = "qriga_workaround" => ~reset
  BY DEF Resetting, Reinitializing, PerPort
<1>3. CASE state \in {"qriga_workaround", "enable_features", "disable_asynotify", "clear_error_info"}
  <2>1. \/ s = Step("reg", NoPort, e, "enable_features", a) /\ ~reset
        \/ s = Step("features", NoPort, e, "clear_error_info", a) /\ ~reset
        \/ s = Step("features", NoPort, e, "enable_pm_port_1", a) /\ reset
        \/ s = Step("reg", NoPort, e, "spin_up_all_ports", a) /\ ~reset
    BY <1>2, <1>3 DEF pm_eh_make_init_ports_reqs, Resetting, Reinitializing, PerPort
  <2> HIDE DEF s, a, state
  <2> QED BY <1>1, <1>3, <2>1, StepFields DEF PmStep, LosesOne, Resetting, Reinitializing
<1>4. CASE state \in {"spin_up_all_ports", "spin_up_done"}
  <2>1. ~reset
    BY <1>2, <1>4 DEF Resetting, Reinitializing, PerPort
  <2>2. \/ s = EachPort(e, "spin_up_all_ports", "spin_up_done", a)
        \/ s = EachPort(e, "spin_up_done", "check_phy_rdy", a)
    BY <1>4 DEF pm_eh_make_init_ports_reqs
  <2> HIDE DEF s, a, state
  <2>3. /\ IsStep(s) /\ s.do = "reg" /\ s.at = NoPort /\ s.eh = e /\ s.here = e /\ s.lost = {}
        /\ s.active \in Port /\ s.pm \in {"spin_up_all_ports", "spin_up_done", "check_phy_rdy"}
    BY <1>1, <1>4, <2>2, Ports, StepFields DEF EachPort
  <2> QED BY <2>1, <2>3 DEF PmStep, LosesOne, Reinitializing, PerPort
<1>5. CASE state \in {"enable_pm_port_1", "enable_pm_port_0"}
  <2>1. reset
    BY <1>2, <1>5 DEF Resetting, Reinitializing, PerPort
  <2>2. \/ s = Step("reg", NoPort, e, "enable_pm_port_0", a)
        \/ s = Step("reg", NoPort, e, "check_phy_rdy", a)
    BY <1>5 DEF pm_eh_make_init_ports_reqs
  <2> HIDE DEF s, a, state
  <2> QED BY <1>1, <1>5, <2>1, <2>2, StepFields DEF PmStep, LosesOne, Resetting, PerPort
<1>6. CASE state \in {"check_phy_rdy", "soft_reset_1", "soft_reset_0"}
  <2>1. \/ s = Step("read", a, e, "check_phy_rdy_done", a)
        \/ s = Step("srst", a, e, "soft_reset_0", a)
        \/ s = Step("srst", a, e, "wait_sig", a)
    BY <1>6 DEF pm_eh_make_init_ports_reqs
  <2> HIDE DEF s, a, state
  <2> QED BY <1>1, <1>6, <2>1, StepFields DEF PmStep, LosesOne, Resetting, Reinitializing, PerPort
<1>7. CASE state = "check_phy_rdy_done"
  <2>1. s = PhyChecked(d, e, a, reset, ready)
    BY <1>7 DEF pm_eh_make_init_ports_reqs
  <2> HIDE DEF s, a, state
  <2>2. PmStep(d, e, PerPort \cup {"enable_asynotify"}, s)
    BY <1>1, <1>7, <2>1, PhyCheckedStep
  <2> QED BY <2>2 DEF PmStep, LosesOne, Resetting, Reinitializing
<1>8. CASE state = "wait_sig"
  <2>1. s = IF a \in sig THEN SigDone(e, a, reset) ELSE Step("pm_timer", a, e, "wait_sig", a)
    BY <1>8 DEF pm_eh_make_init_ports_reqs
  <2> HIDE DEF s, a, state
  <2>2. CASE a \in sig
    <3>1. PmStep(d, e, {}, s)
      BY <1>1, <1>8, <2>1, <2>2, SigDoneStep
    <3> QED BY <3>1 DEF PmStep, LosesOne
  <2>3. CASE a \notin sig
    BY <1>1, <1>8, <2>1, <2>3, StepFields DEF PmStep, LosesOne, Resetting, Reinitializing, PerPort
  <2> QED BY <2>2, <2>3
<1>9. CASE state = "enable_asynotify"
  <2>1. s = Step("asynotify", NoPort, e, "done", a)
    BY <1>9 DEF pm_eh_make_init_ports_reqs
  <2> HIDE DEF s, a, state
  <2> QED BY <1>1, <2>1, StepFields DEF PmStep, LosesOne
<1> QED
  BY <1>2, <1>3, <1>4, <1>5, <1>6, <1>7, <1>8, <1>9 DEF Resetting, Reinitializing, PerPort

\* The disk's port, or the whole multiplier, is brought up again.
LEMMA DevHardResetStep ==
    ASSUME NEW d \in Disk, NEW ready \in BOOLEAN,
           pm_ctx.eh_state \in Resetting \cup {"none"}, pm_ctx.active \in Port \cup {NoPort},
           pm_ctx.eh_state \notin {"none", "enable_asynotify"} => pm_ctx.active \in Port
    PROVE  LET s == DevHardReset(d, TRUE, ready)
           IN  /\ Allowed(d, s) /\ ~Lacking(s) /\ s.do \notin {"pm_down", "disk_down"}
               /\ s.eh = "dev_hard_reset" \/ (s.eh = "hard_reset_done" /\ s.do = "asynotify")
<1> DEFINE m == pm_eh_make_init_ports_reqs(d, "dev_hard_reset", TRUE, ready)
           n == [m EXCEPT !.pm = "none", !.eh = "hard_reset_done"]
           s == DevHardReset(d, TRUE, ready)
<1> SUFFICES /\ Allowed(d, s) /\ ~Lacking(s) /\ s.do \notin {"pm_down", "disk_down"}
             /\ s.eh = "dev_hard_reset" \/ (s.eh = "hard_reset_done" /\ s.do = "asynotify")
  OBVIOUS
<1>1. PmStep(d, "dev_hard_reset", Resetting, m)
  BY InitPortsStep
<1>2. s = IF m.pm = "done" THEN n ELSE m
  BY DEF DevHardReset
<1> HIDE DEF m, s
<1>3. CASE m.pm = "done"
  <2>1. m.do = "asynotify"
    BY <1>1, <1>3 DEF PmStep, Resetting, PerPort
  <2>2. /\ s.do = m.do /\ s.at = m.at /\ s.active = m.active /\ s.here = m.here
        /\ s.lost = m.lost /\ s.pm = "none" /\ s.eh = "hard_reset_done"
    BY <1>1, <1>2, <1>3 DEF PmStep, IsStep
  <2> QED BY <1>1, <2>1, <2>2
          DEF PmStep, Allowed, LosesOne, Lacking, InStep, AsksFor, EhState, PmState, Requested
<1>4. CASE m.pm # "done"
  BY <1>1, <1>2, <1>4 DEF PmStep, Allowed, LosesOne, Lacking, InStep, AsksFor, EhState, PmState, Requested
<1> QED BY <1>3, <1>4

LEMMA PmReinitStep ==
    ASSUME NEW d \in Disk, NEW ready \in BOOLEAN,
           pm_ctx.eh_state \in Reinitializing \cup {"none"}, pm_ctx.active \in Port \cup {NoPort},
           pm_ctx.eh_state \notin {"none", "enable_asynotify"} => pm_ctx.active \in Port
    PROVE  LET s == PmReinit(d, TRUE, ready)
           IN  /\ Allowed(d, s) /\ ~Lacking(s) /\ s.do \notin {"pm_down", "disk_down"}
               /\ s.eh = "pm_reinit" \/ (s.eh = "retry_org_req" /\ s.do = "asynotify")
<1> DEFINE m == pm_eh_make_init_ports_reqs(d, "pm_reinit", FALSE, ready)
           n == [m EXCEPT !.eh = "retry_org_req"]
           s == PmReinit(d, TRUE, ready)
<1> SUFFICES /\ Allowed(d, s) /\ ~Lacking(s) /\ s.do \notin {"pm_down", "disk_down"}
             /\ s.eh = "pm_reinit" \/ (s.eh = "retry_org_req" /\ s.do = "asynotify")
  OBVIOUS
<1>1. PmStep(d, "pm_reinit", Reinitializing, m)
  BY InitPortsStep
<1>2. s = IF m.pm = "done" THEN n ELSE m
  BY DEF PmReinit
<1> HIDE DEF m, s
<1>3. CASE m.pm = "done"
  <2>1. m.do = "asynotify"
    BY <1>1, <1>3 DEF PmStep, Reinitializing, PerPort
  <2>2. /\ s.do = m.do /\ s.at = m.at /\ s.active = m.active /\ s.here = m.here
        /\ s.lost = m.lost /\ s.pm = "done" /\ s.eh = "retry_org_req"
    BY <1>1, <1>2, <1>3 DEF PmStep, IsStep
  <2> QED BY <1>1, <2>1, <2>2
          DEF PmStep, Allowed, LosesOne, Lacking, InStep, AsksFor, EhState, PmState, Requested
<1>4. CASE m.pm # "done"
  BY <1>1, <1>2, <1>4 DEF PmStep, Allowed, LosesOne, Lacking, InStep, AsksFor, EhState, PmState, Requested
<1> QED BY <1>3, <1>4

\* A step that keeps the multiplier's state, but for what it sets anew.
LEMMA RetryStep ==
    ASSUME NEW d \in Disk, NEW e, NEW p, NEW ok, NEW st,
           e \in {"soft_reset_0", "hard_reset_done", "retry_org_req"},
           InStep(e, p, pm_ctx.active), ~Off(st, ok)
    PROVE  Allowed(d, Retry(d, e, p)) /\ KeepsOff(st, ok, Retry(d, e, p))
<1> DEFINE k == KeepPm("retry", d, e, e)
           s == Retry(d, e, p)
<1> SUFFICES Allowed(d, s) /\ KeepsOff(st, ok, s)
  OBVIOUS
<1>1. IsStep(k) /\ k.do = "retry" /\ k.at = d /\ k.eh = e /\ k.here = e
      /\ k.active = pm_ctx.active /\ k.lost = {}
  BY KeepFields
<1>2. s.do = "retry" /\ s.at = d /\ s.eh = e /\ s.here = e /\ s.pm = p
      /\ s.active = pm_ctx.active /\ s.lost = {}
  <2> s = [k EXCEPT !.pm = p]
    BY DEF Retry
  <2> HIDE DEF k, s
  <2> QED BY <1>1 DEF IsStep
<1> HIDE DEF s
<1> QED BY <1>2, Ports DEF Allowed, LosesOne, Lacking, AsksFor, Requested, KeepsOff

\* After the reset of the disk's port: the retry, or the reset of the multiplier.
LEMMA HardResetDoneStep ==
    ASSUME NEW d \in Disk, NEW ok \in BOOLEAN, NEW st, NEW p,
           InStep("hard_reset_done", p, pm_ctx.active), ok => ~Off(st, ok)
    PROVE  Allowed(d, HardResetDone(d, ok, p)) /\ KeepsOff(st, ok, HardResetDone(d, ok, p))
<1>1. CASE ok
  <2>1. HardResetDone(d, ok, p) = Retry(d, "hard_reset_done", p)
    BY <1>1 DEF HardResetDone
  <2>2. ~Off(st, ok)
    BY <1>1, Zenon
  <2>3. /\ Allowed(d, Retry(d, "hard_reset_done", p))
        /\ KeepsOff(st, ok, Retry(d, "hard_reset_done", p))
    BY <2>2, RetryStep
  <2> QED BY <2>1, <2>3
<1>2. CASE ~ok
  <2> DEFINE k == KeepPm("port_reset", NoPort, "pm_reset_wait", "hard_reset_done")
             s == [k EXCEPT !.abort = disks, !.pm = p]
  <2>1. IsStep(k) /\ k.do = "port_reset" /\ k.at = NoPort /\ k.eh = "pm_reset_wait"
        /\ k.here = "hard_reset_done" /\ k.active = pm_ctx.active /\ k.lost = {}
    BY KeepFields
  <2>2. s.do = "port_reset" /\ s.at = NoPort /\ s.eh = "pm_reset_wait" /\ s.pm = p
        /\ s.here = "hard_reset_done" /\ s.active = pm_ctx.active /\ s.lost = {}
    <3> HIDE DEF k
    <3> QED BY <2>1 DEF IsStep
  <2>3. HardResetDone(d, ok, p) = s
    BY <1>2 DEF HardResetDone
  <2> HIDE DEF s
  <2>4. p = "none"
    BY DEF InStep
  <2>5. Allowed(d, s)
    BY <2>2, <2>4, Ports DEF Allowed, LosesOne, Lacking, AsksFor, Requested, InStep, EhState
  <2>6. KeepsOff(st, ok, s)
    BY <1>2, <2>2 DEF KeepsOff, OffStates, Off
  <2> QED BY <2>3, <2>5, <2>6
<1> QED BY <1>1, <1>2

\* The whole multiplier is reset.
LEMMA PmResetStep ==
    ASSUME NEW d \in Disk, NEW st \in {"pm_reset_wait", "pm_srst_1", "pm_srst_0", "pm_srst_wait"},
           NEW ok \in BOOLEAN, InStep(st, pm_ctx.eh_state, pm_ctx.active)
    PROVE  Allowed(d, PmReset(d, st, ok)) /\ KeepsOff(st, ok, PmReset(d, st, ok))
<1> DEFINE s == PmReset(d, st, ok)
<1> SUFFICES Allowed(d, s) /\ KeepsOff(st, ok, s)
  OBVIOUS
<1>1. \/ s = KeepPm("dev_timer", NoPort, "pm_srst_1", "pm_reset_wait")
      \/ s = KeepPm("pm_srst", NoPort, "pm_srst_0", "pm_srst_1")
      \/ s = KeepPm("pm_srst", NoPort, "pm_srst_wait", "pm_srst_0")
      \/ s = KeepPm("dev_timer", NoPort, "pm_reinit", "pm_srst_wait")
      \/ s = KeepPm("pm_down", NoPort, Idle, Idle)
  BY DEF PmReset, SetDownPm
<1> HIDE DEF s
<1>2. /\ s.pm = pm_ctx.eh_state /\ s.active = pm_ctx.active /\ s.lost = {} /\ s.at = NoPort
      /\ s.do = "pm_down" \/ (/\ s.do \in {"dev_timer", "pm_srst"}
                              /\ s.eh \in {"pm_srst_1", "pm_srst_0", "pm_srst_wait", "pm_reinit"}
                              /\ s.here \in {"pm_reset_wait", "pm_srst_1", "pm_srst_0", "pm_srst_wait"})
  BY <1>1, KeepFields
<1>3. Allowed(d, s)
  BY <1>2 DEF Allowed, LosesOne, Lacking, AsksFor, Requested, InStep, EhState
<1>4. KeepsOff(st, ok, s)
  BY <1>2 DEF KeepsOff, Off, OffStates
<1> QED BY <1>3, <1>4

\* The first step: the soft reset of the disk.
LEMMA FirstStep ==
    ASSUME NEW d \in Disk, NEW ok, NEW ready
    PROVE  Allowed(d, sata_timeout_state_machine_behind_pm(d, "none", ok, ready))
<1> DEFINE k == KeepPm("srst", d, "soft_reset_1", "none")
           s == [k EXCEPT !.abort = {d}, !.pm = "none", !.active = 0]
<1>1. IsStep(k) /\ k.do = "srst" /\ k.at = d /\ k.eh = "soft_reset_1" /\ k.here = "none"
      /\ k.lost = {}
  BY KeepFields
<1>2. s.do = "srst" /\ s.at = d /\ s.eh = "soft_reset_1" /\ s.here = "none" /\ s.pm = "none"
      /\ s.active = 0 /\ s.lost = {}
  <2> HIDE DEF k
  <2> QED BY <1>1 DEF IsStep
<1>3. sata_timeout_state_machine_behind_pm(d, "none", ok, ready) = s
  BY DEF sata_timeout_state_machine_behind_pm
<1> HIDE DEF s
<1>4. Allowed(d, s)
  BY <1>2, Ports DEF Allowed, LosesOne, Lacking, AsksFor, Requested, InStep, EhState, PmState
<1> QED BY <1>3, <1>4

\* Whatever state the disk's machine is in, its step is as above.
LEMMA MachineStep ==
    ASSUME NEW d \in Disk, NEW st, NEW ok \in BOOLEAN, NEW ready \in BOOLEAN,
           InStep(st, pm_ctx.eh_state, pm_ctx.active)
    PROVE  LET s == sata_timeout_state_machine_behind_pm(d, st, ok, ready)
           IN  Allowed(d, s) /\ KeepsOff(st, ok, s)
<1> DEFINE s == sata_timeout_state_machine_behind_pm(d, st, ok, ready)
<1> SUFFICES Allowed(d, s) /\ KeepsOff(st, ok, s)
  OBVIOUS
<1>0. /\ pm_ctx.active \in Port \cup {NoPort}
      /\ pm_ctx.eh_state \notin {"none", "enable_asynotify", "done"} => pm_ctx.active \in Port
      /\ st \in EhState
      /\ st \notin {"dev_hard_reset", "pm_reinit", "retry_org_req"} => pm_ctx.eh_state = "none"
  BY DEF InStep
<1>1. CASE st = "none"
  BY <1>1, FirstStep DEF KeepsOff, Off, OffStates
<1>2. CASE st = "soft_reset_1" \/ (st = "soft_reset_wait" /\ ok)
  <2>1. \/ s = KeepPm("srst", d, "soft_reset_wait", st)
        \/ s = KeepPm("dev_timer", NoPort, "soft_reset_0", st)
    BY <1>2 DEF sata_timeout_state_machine_behind_pm
  <2> HIDE DEF s
  <2>2. /\ s.do \in {"srst", "dev_timer"} /\ s.at \in {d, NoPort} /\ s.here = st
        /\ s.eh \in {"soft_reset_wait", "soft_reset_0"}
        /\ s.pm = "none" /\ s.active = pm_ctx.active /\ s.lost = {}
    BY <1>0, <1>2, <2>1, KeepFields
  <2>3. Allowed(d, s)
    BY <1>0, <1>2, <2>2, Ports DEF Allowed, LosesOne, Lacking, AsksFor, Requested, InStep, EhState, PmState
  <2> QED BY <1>2, <2>3 DEF KeepsOff, Off, OffStates
<1>3. CASE st = "soft_reset_0" /\ ok
  <2>1. s = Retry(d, "soft_reset_0", pm_ctx.eh_state)
    BY <1>3 DEF sata_timeout_state_machine_behind_pm
  <2>2. InStep("soft_reset_0", pm_ctx.eh_state, pm_ctx.active) /\ ~Off(st, ok)
    BY <1>3 DEF Off, OffStates
  <2> HIDE DEF s
  <2> QED BY <2>1, <2>2, RetryStep
<1>4. CASE \/ st \in {"soft_reset_wait", "soft_reset_0"} /\ ~ok
           \/ st = "dev_hard_reset" /\ ok
  <2>1. s = DevHardReset(d, TRUE, ready)
    BY <1>4 DEF sata_timeout_state_machine_behind_pm
  <2>2. /\ pm_ctx.eh_state \in Resetting \cup {"none"}
        /\ pm_ctx.eh_state \notin {"none", "enable_asynotify"} => pm_ctx.active \in Port
    BY <1>0, <1>4 DEF InStep, Resetting, PerPort
  <2> HIDE DEF s
  <2>3. /\ Allowed(d, s) /\ ~Lacking(s) /\ s.do \notin {"pm_down", "disk_down"}
        /\ s.eh = "dev_hard_reset" \/ (s.eh = "hard_reset_done" /\ s.do = "asynotify")
    BY <1>0, <2>1, <2>2, DevHardResetStep
  <2> QED BY <2>3 DEF KeepsOff, OffStates
<1>5. CASE st = "dev_hard_reset" /\ ~ok
  <2>1. s = HardResetDone(d, ok, "none")
    BY <1>5 DEF sata_timeout_state_machine_behind_pm, DevHardReset
  <2>2. InStep("hard_reset_done", "none", pm_ctx.active)
    BY <1>0 DEF InStep, EhState, PmState
  <2> HIDE DEF s
  <2> QED BY <1>5, <2>1, <2>2, HardResetDoneStep
<1>6. CASE st = "hard_reset_done"
  <2>1. s = HardResetDone(d, ok, pm_ctx.eh_state)
    BY <1>6 DEF sata_timeout_state_machine_behind_pm
  <2>2. InStep("hard_reset_done", pm_ctx.eh_state, pm_ctx.active) /\ (ok => ~Off(st, ok))
    BY <1>6 DEF Off, OffStates
  <2> HIDE DEF s
  <2> QED BY <2>1, <2>2, HardResetDoneStep
<1>7. CASE st = "pm_reinit" /\ ok
  <2>1. s = PmReinit(d, TRUE, ready)
    BY <1>7 DEF sata_timeout_state_machine_behind_pm
  <2>2. /\ pm_ctx.eh_state \in Reinitializing \cup {"none"}
        /\ pm_ctx.eh_state \notin {"none", "enable_asynotify"} => pm_ctx.active \in Port
    BY <1>0, <1>7 DEF InStep, Reinitializing, PerPort
  <2> HIDE DEF s
  <2>3. /\ Allowed(d, s) /\ ~Lacking(s) /\ s.do \notin {"pm_down", "disk_down"}
        /\ s.eh = "pm_reinit" \/ (s.eh = "retry_org_req" /\ s.do = "asynotify")
    BY <1>0, <2>1, <2>2, PmReinitStep
  <2> QED BY <2>3 DEF KeepsOff, OffStates
<1>8. CASE st = "pm_reinit" /\ ~ok
  <2>1. s = KeepPm("pm_down", NoPort, Idle, Idle)
    BY <1>8 DEF sata_timeout_state_machine_behind_pm, PmReinit, SetDownPm
  <2> HIDE DEF s
  <2>2. s.do = "pm_down" /\ s.at = NoPort /\ s.lost = {}
    BY <2>1, KeepFields
  <2> QED BY <2>2 DEF Allowed, LosesOne, Lacking, KeepsOff
<1>9. CASE st = "retry_org_req"
  <2>1. ~Off(st, ok)
    BY <1>9 DEF Off, OffStates
  <2>2. CASE ok
    <3>1. s = Retry(d, "retry_org_req", pm_ctx.eh_state)
      BY <1>9, <2>2 DEF sata_timeout_state_machine_behind_pm, RetryOrgReq
    <3>2. InStep("retry_org_req", pm_ctx.eh_state, pm_ctx.active)
      BY <1>9
    <3> HIDE DEF s
    <3> QED BY <2>1, <3>1, <3>2, RetryStep
  <2>3. CASE ~ok
    <3>1. s = KeepPm("disk_down", d, Idle, Idle)
      BY <1>9, <2>3 DEF sata_timeout_state_machine_behind_pm, RetryOrgReq
    <3> HIDE DEF s
    <3>2. s.do = "disk_down" /\ s.at = d /\ s.lost = {}
      BY <3>1, KeepFields
    <3> QED BY <2>1, <3>2, Ports DEF Allowed, LosesOne, Lacking, KeepsOff
  <2> QED BY <2>2, <2>3
<1>10. CASE st \in {"pm_reset_wait", "pm_srst_1", "pm_srst_0", "pm_srst_wait"}
  <2>1. s = PmReset(d, st, ok)
    BY <1>10 DEF sata_timeout_state_machine_behind_pm
  <2> HIDE DEF s
  <2> QED BY <1>10, <2>1, PmResetStep
<1> QED
  BY <1>0, <1>1, <1>2, <1>3, <1>4, <1>5, <1>6, <1>7, <1>8, <1>9, <1>10 DEF EhState

-----------------------------------------------------------------------------
(***************************************************************************)
(* One step of a recovery.                                                 *)
(***************************************************************************)

\* The recovery of d can make a step: it has d's request, and rest is the queue without it.
Ready(d, rest) ==
    /\ d \in disks /\ where[d] = "error" /\ err_ctx[d].error_count = 1
    /\ rest \in Seq(Disk) /\ IsInjective(rest) /\ ToSet(rest) = ToSet(error_queue) \ {d}
    /\ \A e \in disks \ {d} : ~Mine(e)

\* A disk whose request at most is pushed back, and whose context stays what it is.
LEMMA OtherKept ==
    ASSUME NEW e \in Disk, Held(e), e \in disks => ~Mine(e) /\ ~(Mine(e)'),
           where'[e] = where[e] \/ (where[e] = "out" /\ where'[e] = "waiting"),
           err_ctx'[e] = err_ctx[e], e \in disks' <=> e \in disks,
           Queued(e)' <=> Queued(e), lapses \subseteq lapses'
    PROVE  Held(e)'
<1>1. CASE e \notin disks
  BY <1>1 DEF Held
<1>2. CASE e \in disks
  <2>1. Fits(err_ctx[e], where[e], Queued(e), FALSE, eh # Nothing)
    BY <1>2 DEF Held, Fits
  <2>2. Fits(err_ctx[e], where'[e], Queued(e), FALSE, eh' # Nothing)
    BY <2>1 DEF Fits
  <2> QED BY <1>2, <2>2 DEF Held, Fits
<1> QED BY <1>1, <1>2

LEMMA NoErrorFits == NoError \in Context /\ PmFree \in PmContext /\ Nothing \in Outstanding
  BY DEF NoError, Context, PmFree, PmContext, PmState, Nothing, Outstanding

\* A disk set down, or pulled, has nothing left.
LEMMA DownHeld ==
    ASSUME NEW e \in Disk, e \notin disks', where'[e] = "done", err_ctx'[e] = NoError, ~(Queued(e)')
    PROVE  Held(e)'
  BY DEF Held

\* The disk in recovery after a step that keeps the port multiplier.
LEMMA MineHeld ==
    ASSUME NEW d \in Disk, d \in disks', where'[d] = "error", err_ctx'[d].error_count = 1,
           err_ctx'[d].eh_state # Idle, Mine(d)',
           \/ err_ctx'[d].state = "handling" /\ eh' # Nothing /\ ~(Queued(d)')
           \/ err_ctx'[d].state = "none" /\ eh' = Nothing /\ Queued(d)'
    PROVE  Held(d)'
  BY DEF Held, Fits

\* What the machine needs of the disk's context and the multiplier's.
LEMMA MachineFits ==
    ASSUME NEW d \in Disk, NEW s, NEW st, NEW saved \in BOOLEAN, NEW state \in {"handling", "none"},
           d \in disks',
           pm_ctx' = [state |-> "handling", eh_state |-> s.pm, error_port |-> d, active |-> s.active],
           err_ctx'[d] = [state |-> state, eh_state |-> st, ok |-> saved, error_count |-> 1],
           InStep(st, s.pm, s.active), AsksFor(eh'.do, st)
    PROVE  Machines' /\ err_ctx'[d] \in Context /\ pm_ctx' \in PmContext /\ Mine(d)'
<1>1. /\ pm_ctx'.state = "handling" /\ pm_ctx'.eh_state = s.pm
      /\ pm_ctx'.error_port = d /\ pm_ctx'.active = s.active /\ err_ctx'[d].eh_state = st
  OBVIOUS
<1>2. Machines' /\ Mine(d)'
  BY <1>1 DEF Machines, Mine
<1>3. err_ctx'[d] \in Context /\ pm_ctx' \in PmContext
  BY <1>1 DEF InStep, Context, PmContext
<1> QED BY <1>2, <1>3

LEMMA RunKeeps ==
    ASSUME NEW d \in Disk, NEW s, NEW rest, NEW saved \in BOOLEAN, NEW walk \in BOOLEAN,
           Sound, Ready(d, rest), Allowed(d, s), Run(d, s, rest, saved, walk),
           asynotify' \in {"on", "off", "failed"}, pulled' = pulled,
           lapses \subseteq lapses', lapses' \subseteq {"pushed", "saved"}
    PROVE  Sound'
<1> DEFINE c(state, st) == [state |-> state, eh_state |-> st, ok |-> saved, error_count |-> 1]
           Pm == pm_ctx' = [state |-> "handling", eh_state |-> s.pm, error_port |-> d, active |-> s.active]
<1>0. /\ d \in disks /\ where[d] = "error" /\ d \notin ToSet(rest)
      /\ \A e \in disks \ {d} : ~Mine(e)
  BY DEF Ready
<1>1. ASSUME NEW e \in Disk, e # d PROVE e \in disks => ~Mine(e)
  BY <1>0, <1>1
<1>2. /\ rest \in Seq(Disk) /\ IsInjective(rest)
      /\ \A e \in Disk : e # d => (e \in ToSet(rest) <=> Queued(e))
  BY DEF Ready, Queued
<1>3. CASE /\ s.do \notin {"again", "pm_down", "disk_down"}
           /\ Requests(s.abort, {}) /\ Contexts({}, d, c("handling", s.eh)) /\ Pm
           /\ eh' = [do |-> s.do, at |-> s.at]
           /\ error_queue' = rest
           /\ sig' = IF s.do = "read" THEN sig \ {s.at} ELSE sig
           /\ UNCHANGED <<pm_up, short>>
  <2>1. /\ disks' = disks /\ err_ctx'[d] = c("handling", s.eh)
        /\ where' \in [Disk -> {"waiting", "out", "error", "done"}] /\ where'[d] = "error"
        /\ \A e \in Disk : where'[e] = where[e] \/ (where[e] = "out" /\ where'[e] = "waiting")
        /\ \A e \in Disk : e # d => err_ctx'[e] = err_ctx[e]
    BY <1>0, <1>3 DEF Requests, Contexts, Sound, Types
  <2>2. /\ s.do \in Requested /\ s.at \in Port \cup {NoPort} /\ eh'.do = s.do
        /\ InStep(s.eh, s.pm, s.active) /\ AsksFor(s.do, s.eh)
    BY <1>3 DEF Allowed
  <2>3. eh' \in Outstanding /\ eh' # Nothing
    BY <1>3, <2>2 DEF Outstanding, Nothing, Requested
  <2>4. Machines' /\ err_ctx'[d] \in Context /\ pm_ctx' \in PmContext /\ Mine(d)'
    BY <1>0, <1>3, <2>1, <2>2, MachineFits
  <2>5. err_ctx' \in [Disk -> Context]
    BY <1>3, <2>1, <2>4 DEF Contexts, Sound, Types
  <2>6. Types'
    BY <1>2, <1>3, <2>1, <2>3, <2>4, <2>5 DEF Sound, Types
  <2>7. Held(d)'
    <3>1. /\ err_ctx'[d].error_count = 1 /\ err_ctx'[d].state = "handling"
          /\ err_ctx'[d].eh_state # Idle
      BY <2>1, <2>2 DEF InStep, EhState, Idle
    <3>2. ~(Queued(d)')
      BY <1>0, <1>3 DEF Queued
    <3> QED BY <1>0, <2>1, <2>3, <2>4, <3>1, <3>2, MineHeld
  <2>8. ASSUME NEW e \in Disk, e # d PROVE Held(e)'
    BY <1>1, <1>2, <1>3, <2>1, <2>4, <2>8, OtherKept DEF Sound, Mine, Queued
  <2> QED BY <2>4, <2>6, <2>7, <2>8 DEF Sound
<1>4. CASE /\ Lacking(s) /\ short' = short + 1
           /\ Requests(s.abort, {}) /\ Contexts({}, d, c("none", s.here)) /\ Pm
           /\ eh' = Nothing
           /\ error_queue' = IF walk THEN Append(rest, d) ELSE <<d>> \o rest
           /\ UNCHANGED <<pm_up, sig>>
  <2>1. /\ disks' = disks /\ err_ctx'[d] = c("none", s.here)
        /\ where' \in [Disk -> {"waiting", "out", "error", "done"}] /\ where'[d] = "error"
        /\ \A e \in Disk : where'[e] = where[e] \/ (where[e] = "out" /\ where'[e] = "waiting")
        /\ \A e \in Disk : e # d => err_ctx'[e] = err_ctx[e]
    BY <1>0, <1>4 DEF Requests, Contexts, Sound, Types
  <2>2. InStep(s.here, s.pm, s.active) /\ AsksFor(eh'.do, s.here)
    BY <1>4 DEF Allowed, AsksFor, Nothing
  <2>3. /\ error_queue' \in Seq(Disk) /\ IsInjective(error_queue')
        /\ ToSet(error_queue') = ToSet(rest) \cup {d}
    BY <1>0, <1>2, <1>4, PutLast, PutFirst
  <2>4. Machines' /\ err_ctx'[d] \in Context /\ pm_ctx' \in PmContext /\ Mine(d)'
    BY <1>0, <1>4, <2>1, <2>2, MachineFits
  <2>5. err_ctx' \in [Disk -> Context]
    BY <1>4, <2>1, <2>4 DEF Contexts, Sound, Types
  <2>6. Types'
    BY <1>4, <2>1, <2>3, <2>4, <2>5, NoErrorFits DEF Sound, Types
  <2>7. Held(d)'
    <3>1. /\ err_ctx'[d].error_count = 1 /\ err_ctx'[d].state = "none"
          /\ err_ctx'[d].eh_state # Idle
      BY <2>1, <2>2 DEF InStep, EhState, Idle
    <3>2. Queued(d)'
      BY <2>3 DEF Queued
    <3> QED BY <1>0, <1>4, <2>1, <2>4, <3>1, <3>2, MineHeld
  <2>8. ASSUME NEW e \in Disk, e # d PROVE Held(e)'
    BY <1>1, <1>2, <1>4, <2>1, <2>3, <2>4, <2>8, OtherKept DEF Sound, Mine, Queued
  <2> QED BY <2>4, <2>6, <2>7, <2>8 DEF Sound
<1>5. CASE /\ s.do = "again"
           /\ Requests({}, s.lost) /\ Contexts(s.lost, d, c("none", s.eh)) /\ Pm
           /\ eh' = Nothing
           /\ error_queue' = <<d>> \o Without(rest, s.lost)
           /\ UNCHANGED <<pm_up, sig, short>>
  <2>0. s.lost \subseteq disks \ {d} /\ InStep(s.eh, s.pm, s.active) /\ AsksFor(eh'.do, s.eh)
    BY <1>5 DEF Allowed, AsksFor, Nothing
  <2>1. /\ disks' = disks \ s.lost /\ err_ctx'[d] = c("none", s.eh)
        /\ where' \in [Disk -> {"waiting", "out", "error", "done"}] /\ where'[d] = "error"
        /\ \A e \in Disk : e \notin s.lost => where'[e] = where[e]
        /\ \A e \in Disk : e # d /\ e \notin s.lost => err_ctx'[e] = err_ctx[e]
        /\ \A e \in s.lost : where'[e] = "done" /\ err_ctx'[e] = NoError
    BY <1>0, <1>5, <2>0 DEF Requests, Contexts, Sound, Types
  <2>2. PICK x : s.lost \subseteq {x}
    BY DEF Allowed, LosesOne
  <2> DEFINE left == Without(rest, s.lost)
  <2>3. /\ left \in Seq(Disk) /\ IsInjective(left) /\ ToSet(left) = ToSet(rest) \ s.lost
    BY <1>2, <2>2, WithoutLeft
  <2> HIDE DEF left
  <2>4. /\ error_queue' \in Seq(Disk) /\ IsInjective(error_queue')
        /\ ToSet(error_queue') = (ToSet(rest) \ s.lost) \cup {d}
    BY <1>0, <1>5, <2>3, PutFirst DEF left
  <2>5. Machines' /\ err_ctx'[d] \in Context /\ pm_ctx' \in PmContext /\ Mine(d)'
    BY <1>0, <1>5, <2>0, <2>1, MachineFits
  <2>6. err_ctx' \in [Disk -> Context]
    BY <1>5, <2>1, <2>5, NoErrorFits DEF Contexts, Sound, Types
  <2>7. Types'
    BY <1>5, <2>1, <2>4, <2>5, <2>6, NoErrorFits DEF Sound, Types
  <2>8. Held(d)'
    <3>1. /\ err_ctx'[d].error_count = 1 /\ err_ctx'[d].state = "none"
          /\ err_ctx'[d].eh_state # Idle
      BY <2>0, <2>1 DEF InStep, EhState, Idle
    <3>2. Queued(d)' /\ d \in disks'
      BY <1>0, <2>0, <2>1, <2>4 DEF Queued
    <3> QED BY <1>5, <2>1, <2>5, <3>1, <3>2, MineHeld
  <2>9. ASSUME NEW e \in Disk, e # d PROVE Held(e)'
    <3>1. CASE e \in s.lost
      <4>1. e \notin disks' /\ ~(Queued(e)')
        BY <2>1, <2>4, <2>9, <3>1 DEF Queued
      <4> QED BY <2>1, <3>1, <4>1, DownHeld
    <3>2. CASE e \notin s.lost
      <4>1. (Queued(e)' <=> Queued(e)) /\ (e \in disks' <=> e \in disks) /\ ~(Mine(e)')
        BY <1>2, <2>1, <2>4, <2>5, <2>9, <3>2 DEF Queued, Mine
      <4> QED BY <1>1, <2>1, <2>9, <3>2, <4>1, OtherKept DEF Sound
    <3> QED BY <3>1, <3>2
  <2> QED BY <2>5, <2>7, <2>8, <2>9 DEF Sound
<1>6. CASE s.do = "pm_down" /\ pal_set_down_pm
  <2>1. /\ Machines' /\ Types'
    BY <1>6, NoErrorFits, EmptyQueue DEF pal_set_down_pm, Machines, Sound, Types, PmFree, Nothing
  <2>2. ASSUME NEW e \in Disk PROVE Held(e)'
    BY <1>6, EmptyQueue, DownHeld DEF pal_set_down_pm, Queued
  <2> QED BY <2>1, <2>2 DEF Sound
<1>7. CASE /\ s.do = "disk_down"
           /\ Requests({}, {d}) /\ Contexts({d}, d, NoError)
           /\ pm_ctx' = PmFree /\ eh' = Nothing
           /\ error_queue' = rest
           /\ UNCHANGED <<pm_up, sig, short>>
  <2>1. /\ disks' = disks \ {d} /\ err_ctx'[d] = NoError
        /\ where' \in [Disk -> {"waiting", "out", "error", "done"}] /\ where'[d] = "done"
        /\ \A e \in Disk : e # d => where'[e] = where[e] /\ err_ctx'[e] = err_ctx[e]
        /\ err_ctx' \in [Disk -> Context]
    BY <1>0, <1>7, NoErrorFits DEF Requests, Contexts, Sound, Types
  <2>2. Machines' /\ Types'
    BY <1>2, <1>7, <2>1, NoErrorFits DEF Machines, Sound, Types, PmFree, Nothing
  <2>3. Held(d)'
    BY <1>0, <1>7, <2>1, DownHeld DEF Queued
  <2>4. ASSUME NEW e \in Disk, e # d PROVE Held(e)'
    BY <1>1, <1>2, <1>7, <2>1, <2>4, OtherKept DEF Sound, Mine, Queued, PmFree
  <2> QED BY <2>2, <2>3, <2>4 DEF Sound
<1> QED
  BY <1>3, <1>4, <1>5, <1>6, <1>7 DEF Run, Lacking

-----------------------------------------------------------------------------
(***************************************************************************)
(* Every action keeps the disks, the queue and the contexts together.      *)
(***************************************************************************)

\* A step that touches one disk and neither the multiplier's context nor its request.
LEMMA OneChanged ==
    ASSUME NEW d \in Disk, Sound, UNCHANGED <<disks, pm_up, pm_ctx, eh, sig, asynotify, short, pulled>>,
           lapses \subseteq lapses', lapses' \subseteq {"pushed", "saved"},
           where' \in [Disk -> {"waiting", "out", "error", "done"}], err_ctx' \in [Disk -> Context],
           error_queue' \in Seq(Disk), IsInjective(error_queue'),
           \A e \in Disk \ {d} : /\ where'[e] = where[e] /\ err_ctx'[e] = err_ctx[e]
                                 /\ e \in ToSet(error_queue') <=> e \in ToSet(error_queue),
           d \in disks => err_ctx'[d].eh_state = err_ctx[d].eh_state, Held(d)'
    PROVE  Sound'
<1>1. Types'
  BY DEF Sound, Types
<1>2. Machines'
  BY DEF Sound, Types, Machines
<1>3. ASSUME NEW e \in Disk, e # d PROVE Held(e)'
  <2>1. /\ where'[e] = where[e] /\ err_ctx'[e] = err_ctx[e] /\ (Queued(e)' <=> Queued(e))
        /\ (Mine(e)' <=> Mine(e)) /\ eh' = eh /\ disks' = disks /\ Held(e)
    BY <1>3 DEF Sound, Queued, Mine
  <2> QED BY <2>1 DEF Held, Fits
<1> QED BY <1>1, <1>2, <1>3 DEF Sound

LEMMA RequestKept ==
    ASSUME NEW d \in Disk, Sound, Send(d) \/ Succeed(d) \/ Renew(d)
    PROVE  Sound'
<1>1. /\ where' = [where EXCEPT ![d] = where'[d]] /\ where'[d] \in {"waiting", "out", "error", "done"}
      /\ UNCHANGED <<disks, pm_up, error_queue, err_ctx, pm_ctx, eh, sig, asynotify, short, pulled, lapses>>
  BY DEF Send, Succeed, Renew, ctxVars, Sound, Types
<1>2. /\ d \in disks /\ err_ctx[d].error_count = 0 /\ where[d] # "error" /\ where'[d] # "error"
  <2>1. d \in disks /\ where[d] # "error" /\ where'[d] # "error"
    BY DEF Send, Succeed, Renew, Sound, Held, Types
  <2>2. err_ctx[d].error_count \in 0..1
    BY DEF Sound, Types, Context
  <2>3. CASE Send(d)
    BY <2>1, <2>2, <2>3 DEF Send, port_has_error_req
  <2>4. CASE Succeed(d) \/ Renew(d)
    BY <2>1, <2>2, <2>4 DEF Succeed, Renew, Sound, Held, Fits
  <2> QED BY <2>1, <2>3, <2>4
<1>3. Held(d)'
  <2>1. /\ ~Queued(d) /\ ~Mine(d) /\ err_ctx[d].eh_state = Idle /\ err_ctx[d].state # "handling"
    BY <1>2 DEF Sound, Held, Fits
  <2>2. ~(Queued(d)') /\ ~(Mine(d)') /\ err_ctx'[d] = err_ctx[d] /\ d \in disks'
    BY <1>1, <1>2, <2>1 DEF Queued, Mine
  <2> QED BY <1>2, <2>1, <2>2 DEF Held, Fits
<1>4. where' \in [Disk -> {"waiting", "out", "error", "done"}]
  BY <1>1 DEF Sound, Types
<1> QED
  BY <1>1, <1>3, <1>4, OneChanged DEF Sound, Types

LEMMA TimeOutKept ==
    ASSUME NEW d \in Disk, Sound, TimeOut(d)
    PROVE  Sound'
<1> DEFINE c == [err_ctx[d] EXCEPT !.error_count = @ + 1]
<1>1. /\ d \in disks /\ err_ctx[d].error_count = 0 /\ ~Queued(d) /\ ~Mine(d)
      /\ err_ctx[d].eh_state = Idle /\ err_ctx[d].state # "handling" /\ err_ctx[d] \in Context
  <2>1. d \in disks /\ err_ctx[d] \in Context /\ err_ctx[d].error_count \in 0..1
    BY DEF TimeOut, Sound, Held, Types, Context
  <2> QED BY <2>1 DEF TimeOut, Sound, Held, Fits
<1>2. /\ err_ctx' = [err_ctx EXCEPT ![d] = c] /\ where' = [where EXCEPT ![d] = "error"]
      /\ error_queue' = Append(error_queue, d)
      /\ UNCHANGED <<disks, pm_up, pm_ctx, eh, sig, asynotify, short, pulled, lapses>>
  BY DEF TimeOut
<1>3. /\ c \in Context /\ c.error_count = 1 /\ c.state = err_ctx[d].state
      /\ c.eh_state = err_ctx[d].eh_state
  BY <1>1 DEF Context
<1> HIDE DEF c
<1>4. /\ error_queue' \in Seq(Disk) /\ IsInjective(error_queue')
      /\ ToSet(error_queue') = ToSet(error_queue) \cup {d}
  BY <1>1, <1>2, PutLast DEF Sound, Types, Queued
<1>5. /\ err_ctx' \in [Disk -> Context] /\ err_ctx'[d] = c
      /\ where' \in [Disk -> {"waiting", "out", "error", "done"}] /\ where'[d] = "error"
      /\ \A e \in Disk \ {d} : where'[e] = where[e] /\ err_ctx'[e] = err_ctx[e]
  BY <1>2, <1>3 DEF Sound, Types
<1>6. Held(d)'
  <2>1. Queued(d)' /\ ~(Mine(d)') /\ d \in disks'
    BY <1>1, <1>2, <1>4 DEF Queued, Mine
  <2> QED BY <1>1, <1>3, <1>5, <2>1 DEF Held, Fits
<1> QED
  BY <1>2, <1>3, <1>4, <1>5, <1>6, OneChanged DEF Sound, Types

\* What the walk finds at the head of the queue.
LEMMA HeadFits ==
    ASSUME NEW d, Sound, error_queue # <<>>, d = Head(error_queue)
    PROVE  /\ d \in disks /\ d \in Disk /\ where[d] = "error" /\ err_ctx[d].error_count = 1
           /\ err_ctx[d].state # "handling" /\ err_ctx[d] \in Context
           /\ Mine(d) <=> err_ctx[d].eh_state # Idle
           /\ Mine(d) => eh = Nothing
           /\ Tail(error_queue) \in Seq(Disk) /\ IsInjective(Tail(error_queue))
           /\ ToSet(Tail(error_queue)) = ToSet(error_queue) \ {d}
<1>1. /\ d \in Disk /\ Queued(d) /\ err_ctx[d] \in Context
      /\ Tail(error_queue) \in Seq(Disk) /\ IsInjective(Tail(error_queue))
      /\ ToSet(Tail(error_queue)) = ToSet(error_queue) \ {d}
  BY Behead DEF Sound, Types, Queued
<1>2. d \in disks
  BY <1>1 DEF Sound, Held
<1>3. Fits(err_ctx[d], where[d], Queued(d), Mine(d), eh # Nothing)
  BY <1>1, <1>2 DEF Sound, Held
<1>4. /\ where[d] = "error" /\ err_ctx[d].error_count = 1 /\ err_ctx[d].state # "handling"
      /\ Mine(d) <=> err_ctx[d].eh_state # Idle
      /\ Mine(d) => eh = Nothing
  BY <1>1, <1>3 DEF Fits
<1> QED BY <1>1, <1>2, <1>4

LEMMA WalkKept ==
    ASSUME Sound, Walk
    PROVE  Sound'
<1>1. PICK d : d = Head(error_queue)
  OBVIOUS
<1>2. PICK c : c = err_ctx[d]
  OBVIOUS
<1>3. PICK rest : rest = Tail(error_queue)
  OBVIOUS
<1>4. /\ d \in disks /\ d \in Disk /\ where[d] = "error" /\ c.error_count = 1
      /\ c.state # "handling" /\ c \in Context
      /\ Mine(d) <=> c.eh_state # Idle
      /\ Mine(d) => eh = Nothing
      /\ rest \in Seq(Disk) /\ IsInjective(rest)
      /\ ToSet(rest) = ToSet(error_queue) \ {d}
  BY <1>1, <1>2, <1>3, HeadFits DEF Walk
<1>5. asynotify \in {"on", "off", "failed"} /\ lapses \subseteq {"pushed", "saved"}
  BY DEF Sound, Types
<1>6. CASE c.state = "handled" /\ SendAgain(d)
  <2>1. /\ err_ctx' = [err_ctx EXCEPT ![d] = NoError] /\ where' = [where EXCEPT ![d] = "waiting"]
        /\ error_queue' = rest
        /\ UNCHANGED <<disks, pm_up, pm_ctx, eh, sig, asynotify, short, pulled, lapses>>
    BY <1>3, <1>6 DEF SendAgain
  <2>2. c.eh_state = Idle /\ ~Mine(d)
    BY <1>2, <1>4, <1>6 DEF Sound, Held, Fits
  <2>3. /\ err_ctx' \in [Disk -> Context] /\ err_ctx'[d] = NoError
        /\ where' \in [Disk -> {"waiting", "out", "error", "done"}] /\ where'[d] = "waiting"
        /\ \A e \in Disk \ {d} : where'[e] = where[e] /\ err_ctx'[e] = err_ctx[e]
    BY <1>4, <2>1, NoErrorFits DEF Sound, Types
  <2>4. Held(d)'
    <3>1. ~(Queued(d)') /\ ~(Mine(d)') /\ d \in disks'
      BY <1>4, <2>1, <2>2 DEF Queued, Mine
    <3>2. NoError.error_count = 0 /\ NoError.eh_state = Idle /\ NoError.state = "none"
      BY DEF NoError
    <3> QED BY <2>3, <3>1, <3>2 DEF Held, Fits
  <2>5. err_ctx'[d].eh_state = err_ctx[d].eh_state
    BY <1>2, <2>2, <2>3 DEF NoError
  <2> QED
    BY <1>4, <1>5, <2>1, <2>3, <2>4, <2>5, OneChanged
<1>7. CASE c.state = "none" /\ ~Recovering(d) /\ PushBack(d)
  <2> DEFINE n == [c EXCEPT !.state = "handling"]
  <2>1. /\ err_ctx' = [err_ctx EXCEPT ![d] = n] /\ where' = [where EXCEPT ![d] = "waiting"]
        /\ error_queue' = rest /\ lapses' = lapses \cup {"pushed"}
        /\ UNCHANGED <<disks, pm_up, pm_ctx, eh, sig, asynotify, short, pulled>>
    BY <1>2, <1>3, <1>7 DEF PushBack
  <2>2. c.eh_state = Idle /\ ~Mine(d)
    BY <1>2, <1>4, <1>7 DEF Recovering
  <2>3. /\ n \in Context /\ n.error_count = 1 /\ n.state = "handling" /\ n.eh_state = c.eh_state
    BY <1>4 DEF Context
  <2> HIDE DEF n
  <2>4. /\ err_ctx' \in [Disk -> Context] /\ err_ctx'[d] = n
        /\ where' \in [Disk -> {"waiting", "out", "error", "done"}] /\ where'[d] = "waiting"
        /\ \A e \in Disk \ {d} : where'[e] = where[e] /\ err_ctx'[e] = err_ctx[e]
    BY <1>4, <2>1, <2>3 DEF Sound, Types
  <2>5. Held(d)'
    <3>1. ~(Queued(d)') /\ ~(Mine(d)') /\ d \in disks' /\ "pushed" \in lapses'
      BY <1>4, <2>1, <2>2 DEF Queued, Mine
    <3> QED BY <2>2, <2>3, <2>4, <3>1 DEF Held, Fits
  <2>6. lapses \subseteq lapses' /\ lapses' \subseteq {"pushed", "saved"}
    BY <1>5, <2>1
  <2> QED
    BY <1>2, <1>4, <2>1, <2>3, <2>4, <2>5, <2>6, OneChanged
<1>8. ASSUME NEW s, NEW ok \in BOOLEAN, Allowed(d, s), Run(d, s, rest, ok, TRUE),
             \A e \in disks \ {d} : ~Mine(e), UNCHANGED <<asynotify, pulled, lapses>>
      PROVE  Sound'
  <2>1. Ready(d, rest)
    BY <1>2, <1>4, <1>8 DEF Ready
  <2> QED BY <1>4, <1>5, <1>8, <2>1, RunKeeps
<1>9. CASE /\ ~Recovering(d) /\ ~PmBusyFor(d)
           /\ Run(d, sata_timeout_state_machine_behind_pm(d, "none", FALSE, FALSE), rest, FALSE, TRUE)
           /\ UNCHANGED <<asynotify, pulled, lapses>>
  <2>1. PICK s : s = sata_timeout_state_machine_behind_pm(d, "none", FALSE, FALSE)
    OBVIOUS
  <2>2. Allowed(d, s)
    BY <1>4, <2>1, FirstStep
  <2>3. \A e \in disks \ {d} : ~Mine(e)
    BY <1>9 DEF PmBusyFor, Mine
  <2> QED BY <1>8, <1>9, <2>1, <2>2, <2>3
<1>10. CASE /\ Recovering(d)
            /\ Run(d, sata_timeout_state_machine_behind_pm(d, c.eh_state, c.ok, FALSE), rest, c.ok, TRUE)
            /\ UNCHANGED <<asynotify, pulled, lapses>>
  <2>1. PICK s : s = sata_timeout_state_machine_behind_pm(d, c.eh_state, c.ok, FALSE)
    OBVIOUS
  <2>2. Mine(d) /\ c.ok \in BOOLEAN
    BY <1>2, <1>4, <1>10 DEF Recovering, Context
  <2>3. InStep(c.eh_state, pm_ctx.eh_state, pm_ctx.active)
    BY <1>2, <1>4, <2>2 DEF Mine, Sound, Machines
  <2>4. Allowed(d, s)
    BY <1>4, <2>1, <2>2, <2>3, MachineStep
  <2>5. \A e \in disks \ {d} : ~Mine(e)
    BY <2>2 DEF Mine
  <2> QED BY <1>8, <1>10, <2>1, <2>2, <2>4, <2>5
<1> QED
  BY <1>1, <1>2, <1>3, <1>6, <1>7, <1>9, <1>10 DEF Walk

\* When a request or timer of the recovery comes back, its disk can make a step.
LEMMA BusyReady ==
    ASSUME NEW d, Sound, eh # Nothing, d = pm_ctx.error_port
    PROVE  /\ d \in Disk /\ pm_ctx.state = "handling" /\ eh.do \in Requested
           /\ d \in disks \/ pulled > 0
           /\ d \in disks => /\ Ready(d, error_queue) /\ ~Queued(d) /\ err_ctx[d] \in Context
                             /\ InStep(err_ctx[d].eh_state, pm_ctx.eh_state, pm_ctx.active)
                             /\ AsksFor(eh.do, err_ctx[d].eh_state)
<1>1. /\ d \in Disk /\ pm_ctx.state = "handling" /\ eh.do \in Requested
      /\ d \in disks \/ pulled > 0
      /\ d \in disks => /\ InStep(err_ctx[d].eh_state, pm_ctx.eh_state, pm_ctx.active)
                        /\ AsksFor(eh.do, err_ctx[d].eh_state)
  BY DEF Sound, Machines, Types, Outstanding
<1>2. ASSUME d \in disks PROVE Ready(d, error_queue) /\ ~Queued(d) /\ err_ctx[d] \in Context
  <2>1. Mine(d) /\ Fits(err_ctx[d], where[d], Queued(d), Mine(d), eh # Nothing)
    BY <1>1, <1>2 DEF Sound, Held, Mine
  <2>2. where[d] = "error" /\ err_ctx[d].error_count = 1 /\ ~Queued(d)
    BY <2>1 DEF Fits
  <2>3. error_queue \in Seq(Disk) /\ IsInjective(error_queue) /\ err_ctx[d] \in Context
    BY <1>1 DEF Sound, Types
  <2>4. ToSet(error_queue) = ToSet(error_queue) \ {d}
    BY <2>2 DEF Queued
  <2> QED BY <1>2, <2>1, <2>2, <2>3, <2>4 DEF Ready, Mine
<1> QED BY <1>1, <1>2

LEMMA WrittenValue ==
    ASSUME Sound, NEW ok, Written(ok)
    PROVE  asynotify' \in {"on", "off", "failed"}
  BY DEF Sound, Types, Written

LEMMA CallbackKept ==
    ASSUME Sound, NEW ok \in BOOLEAN, NEW ready \in BOOLEAN, pm_error_handling_callback(ok, ready)
    PROVE  Sound'
<1>1. PICK d : d = pm_ctx.error_port
  OBVIOUS
<1>2. PICK good : good = (ok \/ (eh.do = "srst" /\ eh.at # d))
  OBVIOUS
<1>3. good \in BOOLEAN
  BY <1>2
<1>4. eh # Nothing /\ pulled' = pulled /\ lapses' = lapses
      /\ asynotify' \in {"on", "off", "failed"} /\ lapses \subseteq {"pushed", "saved"}
  BY WrittenValue DEF pm_error_handling_callback, Sound, Types
<1>5. CASE /\ d \notin disks
           /\ pm_ctx' = PmFree /\ eh' = Nothing
           /\ UNCHANGED <<diskVars, error_queue, err_ctx, sig, looked, short>>
  <2>1. Types' /\ Machines'
    BY <1>4, <1>5, NoErrorFits DEF Sound, Types, Machines, PmFree, Nothing, diskVars
  <2>2. ASSUME NEW e \in Disk PROVE Held(e)'
    <3>1. e \in disks => ~Mine(e) /\ ~(Mine(e)')
      BY <1>1, <1>5 DEF Mine, PmFree
    <3> QED BY <1>4, <1>5, <3>1, OtherKept DEF Sound, Queued, diskVars
  <2> QED BY <2>1, <2>2 DEF Sound
<1>6. CASE /\ d \in disks /\ core_complete_error_req(d, "handled")
           /\ UNCHANGED <<error_queue, sig, looked, short>>
  <2> DEFINE c == [NoError EXCEPT !.state = "handled"]
  <2>1. /\ where' = [where EXCEPT ![d] = "done"] /\ err_ctx' = [err_ctx EXCEPT ![d] = c]
        /\ pm_ctx' = PmFree /\ eh' = Nothing
        /\ UNCHANGED <<disks, pm_up, error_queue, sig, short>>
    BY <1>6 DEF core_complete_error_req
  <2>2. c \in Context /\ c.error_count = 0 /\ c.state = "handled" /\ c.eh_state = Idle
    <3>1. NoError.error_count = 0 /\ NoError.eh_state = Idle
      BY DEF NoError
    <3> QED BY <3>1, NoErrorFits DEF Context
  <2> HIDE DEF c
  <2>3. /\ d \in Disk /\ ~Queued(d) /\ \A e \in disks \ {d} : ~Mine(e)
    BY <1>1, <1>4, <1>6, BusyReady DEF Ready
  <2>4. /\ err_ctx' \in [Disk -> Context] /\ err_ctx'[d] = c
        /\ where' \in [Disk -> {"waiting", "out", "error", "done"}] /\ where'[d] = "done"
        /\ \A e \in Disk \ {d} : where'[e] = where[e] /\ err_ctx'[e] = err_ctx[e]
    BY <2>1, <2>2, <2>3 DEF Sound, Types
  <2>5. Types' /\ Machines'
    BY <1>4, <2>1, <2>4, NoErrorFits DEF Sound, Types, Machines, PmFree, Nothing
  <2>6. \A e : ~(Mine(e)')
    BY <2>1 DEF Mine, PmFree
  <2>7. Held(d)'
    <3>1. ~(Queued(d)') /\ d \in disks'
      BY <1>6, <2>1, <2>3 DEF Queued
    <3> QED BY <2>2, <2>4, <2>6, <3>1 DEF Held, Fits
  <2>8. ASSUME NEW e \in Disk, e # d PROVE Held(e)'
    BY <1>4, <2>1, <2>3, <2>4, <2>6, <2>8, OtherKept DEF Sound, Queued
  <2> QED BY <2>5, <2>7, <2>8 DEF Sound
<1>7. CASE /\ d \in disks
           /\ Run(d, sata_timeout_state_machine_behind_pm(d, err_ctx[d].eh_state, good, ready),
                  error_queue, good, FALSE)
  <2>1. PICK s, rest : /\ s = sata_timeout_state_machine_behind_pm(d, err_ctx[d].eh_state, good, ready)
                       /\ rest = error_queue
    OBVIOUS
  <2>2. /\ d \in Disk /\ Ready(d, rest)
        /\ InStep(err_ctx[d].eh_state, pm_ctx.eh_state, pm_ctx.active)
    BY <1>1, <1>4, <1>7, <2>1, BusyReady
  <2>3. Allowed(d, s)
    BY <1>3, <2>1, <2>2, MachineStep
  <2> QED BY <1>3, <1>4, <1>7, <2>1, <2>2, <2>3, RunKeeps
<1> QED BY <1>1, <1>2, <1>5, <1>6, <1>7 DEF pm_error_handling_callback

LEMMA TimersKept ==
    ASSUME Sound, sata_wait_hard_reset \/ pm_eh_wait
    PROVE  Sound'
<1>1. PICK d, rest : d = pm_ctx.error_port /\ rest = error_queue
  OBVIOUS
<1>2. /\ eh # Nothing /\ pulled' = pulled /\ lapses \subseteq lapses' /\ lapses' \subseteq {"pushed", "saved"}
      /\ asynotify' = asynotify /\ asynotify \in {"on", "off", "failed"}
  <2>1. lapses' = lapses \/ lapses' = lapses \cup {"saved"}
    BY DEF sata_wait_hard_reset, pm_eh_wait
  <2>2. lapses \subseteq {"pushed", "saved"} /\ asynotify \in {"on", "off", "failed"}
    BY DEF Sound, Types
  <2>3. eh.do \in {"dev_timer", "pm_timer"} /\ pulled' = pulled /\ asynotify' = asynotify
    BY DEF sata_wait_hard_reset, pm_eh_wait
  <2>4. eh # Nothing
    BY <2>3 DEF Nothing
  <2>5. lapses \subseteq lapses' /\ lapses' \subseteq {"pushed", "saved"}
    BY <2>1, <2>2
  <2> QED BY <2>2, <2>3, <2>4, <2>5
<1>3. ASSUME NEW ok \in BOOLEAN, d \in disks,
             Run(d, sata_timeout_state_machine_behind_pm(d, err_ctx[d].eh_state, ok, FALSE), rest, TRUE, FALSE)
      PROVE  Sound'
  <2>1. PICK s : s = sata_timeout_state_machine_behind_pm(d, err_ctx[d].eh_state, ok, FALSE)
    OBVIOUS
  <2>2. /\ d \in Disk /\ Ready(d, rest)
        /\ InStep(err_ctx[d].eh_state, pm_ctx.eh_state, pm_ctx.active)
    BY <1>1, <1>2, <1>3, BusyReady
  <2>3. Allowed(d, s)
    BY <1>3, <2>1, <2>2, MachineStep
  <2> QED BY <1>2, <1>3, <2>1, <2>2, <2>3, RunKeeps
<1>4. CASE sata_wait_hard_reset
  <2>1. d \in disks
    BY <1>1, <1>4 DEF sata_wait_hard_reset, Sound, Machines
  <2> QED BY <1>1, <1>3, <1>4, <2>1 DEF sata_wait_hard_reset
<1>5. CASE pm_eh_wait /\ d \in disks
  <2>1. PICK ok \in BOOLEAN : ok = (pm_ctx.active \in sig)
    <3>1. (pm_ctx.active \in sig) \in BOOLEAN
      OBVIOUS
    <3> QED BY <3>1, Zenon
  <2>2. Run(d, sata_timeout_state_machine_behind_pm(d, err_ctx[d].eh_state, pm_ctx.active \in sig, FALSE),
            rest, TRUE, FALSE)
    BY <1>1, <1>5 DEF pm_eh_wait
  <2> QED BY <1>3, <1>5, <2>1, <2>2
<1>6. CASE pm_eh_wait /\ d \notin disks
  <2>1. eh' = Nothing /\ UNCHANGED <<diskVars, error_queue, err_ctx, pm_ctx, sig, looked, short>>
    BY <1>1, <1>6 DEF pm_eh_wait
  <2>2. Types' /\ Machines'
    BY <1>1, <1>2, <1>6, <2>1, NoErrorFits DEF Sound, Types, Machines, Nothing, diskVars
  <2>3. ASSUME NEW e \in Disk PROVE Held(e)'
    <3>1. e \in disks => ~Mine(e) /\ ~(Mine(e)')
      BY <1>1, <1>6, <2>1 DEF Mine
    <3> QED BY <1>2, <2>1, <3>1, OtherKept DEF Sound, Queued, diskVars
  <2> QED BY <2>2, <2>3 DEF Sound
<1> QED BY <1>4, <1>5, <1>6

LEMMA UnplugKept ==
    ASSUME NEW d \in Disk, Sound, sata_pm_disk_unplug(d)
    PROVE  Sound'
<1> DEFINE mine == d = pm_ctx.error_port
           left == Without(error_queue, {d})
<1>1. /\ d \in disks /\ pulled' = pulled + 1
      /\ Requests({}, {d}) /\ Contexts({d}, d, NoError)
      /\ error_queue' = left
      /\ \/ pm_ctx' = PmFree /\ eh' = Nothing /\ mine
         \/ pm_ctx' = pm_ctx /\ eh' = Nothing /\ mine
         \/ pm_ctx' = pm_ctx /\ eh' = eh /\ ~(mine /\ eh.do = "dev_timer")
      /\ UNCHANGED <<pm_up, sig, asynotify, short, lapses>>
  BY DEF sata_pm_disk_unplug
<1>2. /\ disks' = disks \ {d} /\ err_ctx' \in [Disk -> Context]
      /\ where' \in [Disk -> {"waiting", "out", "error", "done"}]
      /\ where'[d] = "done" /\ err_ctx'[d] = NoError
      /\ \A e \in Disk \ {d} : where'[e] = where[e] /\ err_ctx'[e] = err_ctx[e]
  BY <1>1, NoErrorFits DEF Requests, Contexts, Sound, Types
<1>3. left \in Seq(Disk) /\ IsInjective(left) /\ ToSet(left) = ToSet(error_queue) \ {d}
  <2>1. {d} \subseteq {d} /\ error_queue \in Seq(Disk) /\ IsInjective(error_queue)
    BY DEF Sound, Types
  <2> QED BY <2>1, WithoutLeft
<1> HIDE DEF left
<1>4. Types'
  BY <1>1, <1>2, <1>3, NoErrorFits DEF Sound, Types
<1>5. Machines'
  <2>1. pulled' > 0
    BY <1>1 DEF Sound, Types
  <2>2. CASE pm_ctx' = PmFree /\ eh' = Nothing
    BY <2>2 DEF Machines, PmFree, Nothing
  <2>3. CASE pm_ctx' = pm_ctx /\ eh' = Nothing /\ mine
    BY <1>2, <2>1, <2>3 DEF Sound, Machines, Nothing
  <2>4. CASE pm_ctx' = pm_ctx /\ eh' = eh /\ ~(mine /\ eh.do = "dev_timer")
    <3>1. eh.do = "dev_timer" => pm_ctx.error_port \in disks'
      BY <1>2, <2>4 DEF Sound, Machines
    <3>2. ASSUME pm_ctx.state = "handling"
          PROVE  /\ pm_ctx.error_port \in Disk
                 /\ pm_ctx.error_port \in disks' =>
                      /\ err_ctx'[pm_ctx.error_port] = err_ctx[pm_ctx.error_port]
                      /\ pm_ctx.error_port \in disks
      BY <1>2, <3>2 DEF Sound, Machines
    <3> QED BY <2>1, <2>4, <3>1, <3>2 DEF Sound, Machines
  <2> QED BY <1>1, <2>2, <2>3, <2>4
<1>6. Held(d)'
  BY <1>1, <1>2, <1>3, DownHeld DEF Queued
<1>7. ASSUME NEW e \in Disk, e # d PROVE Held(e)'
  <2>1. /\ where'[e] = where[e] /\ err_ctx'[e] = err_ctx[e] /\ (Queued(e)' <=> Queued(e))
        /\ (e \in disks' <=> e \in disks) /\ lapses' = lapses /\ Held(e)
    BY <1>1, <1>2, <1>3, <1>7 DEF Sound, Queued
  <2>2. CASE Mine(e)
    <3>1. pm_ctx' = pm_ctx /\ eh' = eh
      BY <1>1, <1>7, <2>2 DEF Mine
    <3>2. Mine(e)' <=> Mine(e)
      BY <3>1 DEF Mine
    <3> QED BY <2>1, <3>1, <3>2 DEF Held, Fits
  <2>3. CASE ~Mine(e)
    <3>1. ~(Mine(e)')
      BY <1>1, <2>3 DEF Mine, PmFree
    <3> QED BY <2>1, <2>3, <3>1, OtherKept
  <2> QED BY <2>2, <2>3
<1> QED BY <1>4, <1>5, <1>6, <1>7 DEF Sound

LEMMA SoundKept ==
    ASSUME Sound, [Next]_vars
    PROVE  Sound'
<1>1. CASE \E d \in Disk : Send(d) \/ Succeed(d) \/ Renew(d) \/ TimeOut(d) \/ sata_pm_disk_unplug(d)
  BY <1>1, RequestKept, TimeOutKept, UnplugKept
<1>2. CASE Walk
  BY <1>2, WalkKept
<1>3. CASE sata_wait_hard_reset \/ pm_eh_wait
  BY <1>3, TimersKept
<1>4. CASE \E ok, ready \in BOOLEAN : pm_error_handling_callback(ok, ready)
  BY <1>4, CallbackKept
<1>5. CASE Signature \/ UNCHANGED vars
  <2>1. /\ UNCHANGED <<diskVars, error_queue, ctxVars, asynotify, short, pulled, lapses>>
        /\ sig' \subseteq Disk
    BY <1>5 DEF Signature, Sound, Types, vars
  <2>2. Types' /\ Machines'
    BY <2>1 DEF Sound, Types, Machines, diskVars, ctxVars
  <2>3. ASSUME NEW e \in Disk PROVE Held(e)'
    BY <2>1 DEF Sound, Held, Fits, Queued, Mine, diskVars, ctxVars
  <2> QED BY <2>2, <2>3 DEF Sound
<1> QED BY <1>1, <1>2, <1>3, <1>4, <1>5 DEF Next

-----------------------------------------------------------------------------
(***************************************************************************)
(* When asynchronous notification can be off.                              *)
(***************************************************************************)

\* The rule does not depend on a disk that is not the one in recovery.
LEMMA OthersOff ==
    ASSUME OffRule, UNCHANGED <<pm_ctx, eh, asynotify, pm_up, pulled>>, lapses \subseteq lapses',
           pm_ctx.state = "handling" =>
                /\ err_ctx'[pm_ctx.error_port].eh_state = err_ctx[pm_ctx.error_port].eh_state
                /\ err_ctx'[pm_ctx.error_port].ok = err_ctx[pm_ctx.error_port].ok
    PROVE  OffRule'
  BY DEF OffRule

\* A step of the machine of d, resumed in state st with status ok.  Only pm_eh_wait keeps
\* another status than ok for the next resumption, and that is the lapse.
LEMMA RunOff ==
    ASSUME NEW d \in Disk, NEW s, NEW rest, NEW saved \in BOOLEAN, NEW walk \in BOOLEAN,
           NEW st, NEW ok \in BOOLEAN,
           Sound, Run(d, s, rest, saved, walk), Allowed(d, s), KeepsOff(st, ok, s),
           asynotify' = "off" /\ pm_up /\ pulled' = 0 /\ "saved" \notin lapses' => Off(st, ok),
           short' > short /\ "saved" \notin lapses' => saved = ok
    PROVE  OffRule'
<1> SUFFICES ASSUME asynotify' = "off", pm_up', pulled' = 0, "saved" \notin lapses'
             PROVE  /\ pm_ctx'.state = "handling"
                    /\ MayBeOff(err_ctx'[pm_ctx'.error_port].eh_state, eh'.do,
                                err_ctx'[pm_ctx'.error_port].ok)
  BY DEF OffRule
<1>1. pm_up /\ s.do # "pm_down"
  BY DEF Run, pal_set_down_pm
<1>2. /\ s.do # "disk_down"
      /\ s.eh \in OffStates \/ (s.eh \in {"hard_reset_done", "retry_org_req"} /\ s.do = "asynotify")
      /\ Lacking(s) => Off(s.here, ok)
  BY <1>1 DEF KeepsOff
<1> DEFINE Pm == pm_ctx' = [state |-> "handling", eh_state |-> s.pm, error_port |-> d, active |-> s.active]
<1>3. Pm => pm_ctx'.state = "handling" /\ pm_ctx'.error_port = d
  OBVIOUS
<1>4. CASE /\ s.do \notin {"again", "pm_down", "disk_down"} /\ Pm
           /\ err_ctx'[d].eh_state = s.eh /\ eh'.do = s.do
  BY <1>2, <1>3, <1>4 DEF MayBeOff
<1>5. CASE /\ Lacking(s) /\ short' = short + 1 /\ Pm /\ eh' = Nothing
           /\ err_ctx'[d].eh_state = s.here /\ err_ctx'[d].ok = saved
  <2>1. short' > short
    BY <1>5 DEF Sound, Types
  <2>2. Off(s.here, saved)
    BY <1>2, <1>5, <2>1
  <2>3. eh'.do = "none"
    BY <1>5 DEF Nothing
  <2>4. MayBeOff(s.here, "none", saved)
    BY <2>2 DEF MayBeOff, Off
  <2> QED BY <1>3, <1>5, <2>3, <2>4
<1>6. CASE s.do = "again" /\ Pm /\ err_ctx'[d].eh_state = s.eh
  BY <1>2, <1>3, <1>6 DEF MayBeOff
<1>7. \/ /\ s.do \notin {"again", "pm_down", "disk_down"} /\ Pm
         /\ Contexts({}, d, [state |-> "handling", eh_state |-> s.eh, ok |-> saved, error_count |-> 1])
         /\ eh' = [do |-> s.do, at |-> s.at]
      \/ /\ Lacking(s) /\ short' = short + 1 /\ Pm /\ eh' = Nothing
         /\ Contexts({}, d, [state |-> "none", eh_state |-> s.here, ok |-> saved, error_count |-> 1])
      \/ /\ s.do = "again" /\ Pm
         /\ Contexts(s.lost, d, [state |-> "none", eh_state |-> s.eh, ok |-> saved, error_count |-> 1])
  BY <1>1, <1>2 DEF Run, Lacking
<1>8. \A D, x, e :
         d \notin D /\ Contexts(D, d, [state |-> x, eh_state |-> e, ok |-> saved, error_count |-> 1])
         => err_ctx'[d].eh_state = e /\ err_ctx'[d].ok = saved
  BY DEF Contexts
<1>9. d \notin s.lost
  BY DEF Allowed
<1> QED BY <1>4, <1>5, <1>6, <1>7, <1>8, <1>9

LEMMA WalkOff ==
    ASSUME Sound, OffRule, Walk
    PROVE  OffRule'
<1>1. PICK d, c, rest : d = Head(error_queue) /\ c = err_ctx[d] /\ rest = Tail(error_queue)
  OBVIOUS
<1>2. /\ d \in disks /\ d \in Disk /\ c \in Context
      /\ Mine(d) <=> c.eh_state # Idle
      /\ Mine(d) => eh = Nothing
  BY <1>1, HeadFits DEF Walk
<1>3. CASE ~Mine(d) /\ (SendAgain(d) \/ PushBack(d))
  <2>1. /\ UNCHANGED <<pm_ctx, eh, asynotify, pm_up, pulled>> /\ lapses \subseteq lapses'
        /\ \A e \in Disk \ {d} : err_ctx'[e] = err_ctx[e]
    BY <1>3 DEF SendAgain, PushBack, Sound, Types
  <2>2. pm_ctx.state = "handling" => pm_ctx.error_port \in Disk \ {d}
    BY <1>3 DEF Sound, Machines, Mine
  <2> QED BY <2>1, <2>2, OthersOff
<1>4. CASE /\ ~Recovering(d) /\ ~PmBusyFor(d)
           /\ Run(d, sata_timeout_state_machine_behind_pm(d, "none", FALSE, FALSE), rest, FALSE, TRUE)
           /\ UNCHANGED <<asynotify, pulled, lapses>>
  <2>1. PICK s : s = sata_timeout_state_machine_behind_pm(d, "none", FALSE, FALSE)
    OBVIOUS
  <2>2. Allowed(d, s)
    BY <1>2, <2>1, FirstStep
  <2>3. KeepsOff("none", FALSE, s)
    BY DEF KeepsOff, Off, OffStates
  <2>4. pm_ctx.state # "handling"
    BY <1>1, <1>2, <1>4 DEF Recovering, PmBusyFor, Mine
  <2>5. asynotify' = "off" /\ pm_up /\ pulled' = 0 /\ "saved" \notin lapses' => Off("none", FALSE)
    BY <1>4, <2>4 DEF OffRule
  <2> QED BY <1>2, <1>4, <2>1, <2>2, <2>3, <2>5, RunOff
<1>5. CASE /\ Recovering(d)
           /\ Run(d, sata_timeout_state_machine_behind_pm(d, c.eh_state, c.ok, FALSE), rest, c.ok, TRUE)
           /\ UNCHANGED <<asynotify, pulled, lapses>>
  <2>1. PICK s, st, ok : /\ s = sata_timeout_state_machine_behind_pm(d, c.eh_state, c.ok, FALSE)
                         /\ st = c.eh_state /\ ok = c.ok
    OBVIOUS
  <2>2. Mine(d) /\ eh = Nothing /\ ok \in BOOLEAN
    BY <1>1, <1>2, <1>5, <2>1 DEF Recovering, Context
  <2>3. InStep(st, pm_ctx.eh_state, pm_ctx.active)
    BY <1>1, <1>2, <2>1, <2>2 DEF Mine, Sound, Machines
  <2>4. Allowed(d, s) /\ KeepsOff(st, ok, s)
    BY <1>2, <2>1, <2>2, <2>3, MachineStep
  <2>5. asynotify' = "off" /\ pm_up /\ pulled' = 0 /\ "saved" \notin lapses' => Off(st, ok)
    BY <1>1, <1>5, <2>1, <2>2 DEF OffRule, Mine, MayBeOff, Off, Nothing
  <2> QED BY <1>2, <1>5, <2>1, <2>2, <2>4, <2>5, RunOff
<1>6. err_ctx[d].state = "handled" => ~Mine(d)
  BY <1>2 DEF Sound, Held, Fits
<1>7. ~Recovering(d) => ~Mine(d)
  BY <1>1, <1>2 DEF Recovering
<1> QED BY <1>1, <1>3, <1>4, <1>5, <1>6, <1>7 DEF Walk

\* The request, or the timer, of the recovery of d is there: what a step does from it.
LEMMA BusyOff ==
    ASSUME NEW d, NEW s, NEW ready \in BOOLEAN, NEW ok \in BOOLEAN, NEW saved \in BOOLEAN, NEW rest,
           Sound, OffRule, eh # Nothing, d = pm_ctx.error_port, d \in disks,
           s = sata_timeout_state_machine_behind_pm(d, err_ctx[d].eh_state, ok, ready),
           Run(d, s, rest, saved, FALSE),
           \/ asynotify' = asynotify /\ eh.do # "asynotify"
           \/ eh.do = "features" /\ asynotify' = "off"
           \/ asynotify' # "off",
           pulled' = pulled, lapses \subseteq lapses',
           short' > short /\ "saved" \notin lapses' => saved = ok
    PROVE  OffRule'
<1>1. PICK st : st = err_ctx[d].eh_state
  OBVIOUS
<1>2. /\ d \in Disk /\ pm_ctx.state = "handling" /\ eh.do \in Requested
      /\ InStep(st, pm_ctx.eh_state, pm_ctx.active) /\ AsksFor(eh.do, st)
  BY <1>1, BusyReady
<1>3. Allowed(d, s) /\ KeepsOff(st, ok, s)
  BY <1>1, <1>2, MachineStep
<1>4. asynotify' = "off" /\ pm_up /\ pulled' = 0 /\ "saved" \notin lapses' => Off(st, ok)
  <2>1. CASE eh.do = "features"
    BY <1>2, <2>1 DEF AsksFor, Off, OffStates
  <2>2. CASE asynotify' = asynotify /\ eh.do # "asynotify"
    BY <1>1, <1>2, <2>2 DEF OffRule, MayBeOff, Off, Requested
  <2>3. CASE asynotify' # "off"
    BY <2>3
  <2> QED BY <2>1, <2>2, <2>3
<1>5. /\ Sound /\ Run(d, s, rest, saved, FALSE)
      /\ short' > short /\ "saved" \notin lapses' => saved = ok
  OBVIOUS
<1>6. saved \in BOOLEAN /\ ok \in BOOLEAN /\ FALSE \in BOOLEAN
  OBVIOUS
<1> QED BY ONLY <1>2, <1>3, <1>4, <1>5, <1>6, RunOff, Zenon

LEMMA CallbackOff ==
    ASSUME Sound, OffRule, NEW ok \in BOOLEAN, NEW ready \in BOOLEAN,
           pm_error_handling_callback(ok, ready)
    PROVE  OffRule'
<1>1. PICK d, rest : d = pm_ctx.error_port /\ rest = error_queue
  OBVIOUS
<1>2. eh # Nothing /\ pulled' = pulled /\ lapses' = lapses /\ Written(ok)
  BY DEF pm_error_handling_callback
<1>3. CASE d \notin disks
  <2>1. pulled > 0
    BY <1>1, <1>2, <1>3, BusyReady
  <2> QED BY <1>2, <2>1 DEF OffRule, Sound, Types
<1>4. CASE d \in disks /\ eh.do = "retry" /\ core_complete_error_req(d, "handled")
  <2>1. asynotify' = asynotify /\ pm_up' = pm_up
    BY <1>2, <1>4 DEF Written, core_complete_error_req
  <2>2. /\ pm_ctx.state = "handling" /\ AsksFor("retry", err_ctx[d].eh_state)
    BY <1>1, <1>2, <1>4, BusyReady
  <2>3. ~MayBeOff(err_ctx[d].eh_state, "retry", err_ctx[d].ok)
    BY <2>2 DEF AsksFor, MayBeOff, OffStates
  <2> QED BY <1>1, <1>2, <1>4, <2>1, <2>2, <2>3 DEF OffRule
<1>5. ASSUME NEW good \in BOOLEAN, d \in disks,
             Run(d, sata_timeout_state_machine_behind_pm(d, err_ctx[d].eh_state, good, ready),
                 rest, good, FALSE)
      PROVE  OffRule'
  <2>1. PICK s : s = sata_timeout_state_machine_behind_pm(d, err_ctx[d].eh_state, good, ready)
    OBVIOUS
  <2>2. \/ asynotify' = asynotify /\ eh.do # "asynotify"
        \/ eh.do = "features" /\ asynotify' = "off"
        \/ asynotify' # "off"
    BY <1>2 DEF Written
  <2> QED BY <1>1, <1>2, <1>5, <2>1, <2>2, BusyOff
<1>6. PICK good \in BOOLEAN : good = (ok \/ (eh.do = "srst" /\ eh.at # d))
  OBVIOUS
<1> QED BY <1>1, <1>3, <1>4, <1>5, <1>6 DEF pm_error_handling_callback

LEMMA TimersOff ==
    ASSUME Sound, OffRule, sata_wait_hard_reset \/ pm_eh_wait
    PROVE  OffRule'
<1>1. PICK d, rest : d = pm_ctx.error_port /\ rest = error_queue
  OBVIOUS
<1>2. /\ pulled' = pulled /\ lapses \subseteq lapses' /\ asynotify' = asynotify
      /\ eh.do \in {"dev_timer", "pm_timer"} /\ eh # Nothing
  <2>1. lapses' = lapses \/ lapses' = lapses \cup {"saved"}
    BY DEF sata_wait_hard_reset, pm_eh_wait
  <2>2. eh.do \in {"dev_timer", "pm_timer"} /\ pulled' = pulled /\ asynotify' = asynotify
    BY DEF sata_wait_hard_reset, pm_eh_wait
  <2>3. eh # Nothing
    BY <2>2 DEF Nothing
  <2> QED BY <2>1, <2>2, <2>3
<1>3. ASSUME NEW ok \in BOOLEAN, d \in disks,
             Run(d, sata_timeout_state_machine_behind_pm(d, err_ctx[d].eh_state, ok, FALSE), rest, TRUE, FALSE),
             short' > short /\ "saved" \notin lapses' => ok
      PROVE  OffRule'
  <2>1. PICK s : s = sata_timeout_state_machine_behind_pm(d, err_ctx[d].eh_state, ok, FALSE)
    OBVIOUS
  <2>2. asynotify' = asynotify /\ eh.do # "asynotify"
    BY <1>2
  <2>3. short' > short /\ "saved" \notin lapses' => TRUE = ok
    BY <1>3
  <2> QED BY <1>1, <1>2, <1>3, <2>1, <2>2, <2>3, BusyOff
<1>4. CASE sata_wait_hard_reset
  <2>1. d \in disks
    BY <1>1, <1>4 DEF sata_wait_hard_reset, Sound, Machines
  <2> QED BY <1>1, <1>3, <1>4, <2>1 DEF sata_wait_hard_reset
<1>5. CASE pm_eh_wait /\ d \in disks
  <2>1. PICK ok \in BOOLEAN : ok = (pm_ctx.active \in sig)
    <3>1. (pm_ctx.active \in sig) \in BOOLEAN
      OBVIOUS
    <3> QED BY <3>1, Zenon
  <2>2. Run(d, sata_timeout_state_machine_behind_pm(d, err_ctx[d].eh_state, pm_ctx.active \in sig, FALSE),
            rest, TRUE, FALSE)
    BY <1>1, <1>5 DEF pm_eh_wait
  <2>3. short' > short /\ "saved" \notin lapses' => pm_ctx.active \in sig
    BY <1>1, <1>5 DEF pm_eh_wait
  <2> QED BY <1>3, <1>5, <2>1, <2>2, <2>3
<1>6. CASE pm_eh_wait /\ d \notin disks
  <2>1. pulled > 0
    BY <1>1, <1>2, <1>6, BusyReady
  <2> QED BY <1>2, <2>1 DEF OffRule, Sound, Types
<1> QED BY <1>4, <1>5, <1>6

LEMMA OffKept ==
    ASSUME Sound, OffRule, [Next]_vars
    PROVE  OffRule'
<1>1. ASSUME NEW d \in Disk, Send(d) \/ Succeed(d) \/ Renew(d) \/ TimeOut(d)
      PROVE  OffRule'
  <2>1. /\ UNCHANGED <<pm_ctx, eh, asynotify, pm_up, pulled, lapses>>
    BY <1>1 DEF Send, Succeed, Renew, TimeOut, ctxVars
  <2>2. CASE TimeOut(d)
    <3>1. err_ctx[d] \in Context /\ err_ctx' = [err_ctx EXCEPT ![d] = [err_ctx[d] EXCEPT !.error_count = @ + 1]]
      BY <2>2 DEF TimeOut, Sound, Types
    <3>2. \A e \in Disk : err_ctx'[e].eh_state = err_ctx[e].eh_state /\ err_ctx'[e].ok = err_ctx[e].ok
      BY <3>1 DEF Context, Sound, Types
    <3>3. pm_ctx.state = "handling" => pm_ctx.error_port \in Disk
      BY DEF Sound, Machines
    <3> QED BY <2>1, <3>2, <3>3, OthersOff
  <2>3. CASE err_ctx' = err_ctx
    BY <2>1, <2>3, OthersOff
  <2> QED BY <1>1, <2>2, <2>3 DEF Send, Succeed, Renew, ctxVars
<1>2. ASSUME NEW d \in Disk, sata_pm_disk_unplug(d) PROVE OffRule'
  <2>1. pulled' # 0
    BY <1>2 DEF sata_pm_disk_unplug, Sound, Types
  <2> QED BY <2>1 DEF OffRule
<1>3. CASE Signature \/ UNCHANGED vars
  BY <1>3, OthersOff DEF Signature, vars, ctxVars, diskVars
<1> QED
  BY <1>1, <1>2, <1>3, WalkOff, CallbackOff, TimersOff DEF Next

-----------------------------------------------------------------------------
(***************************************************************************)
(* The invariant, and what follows from it.                                *)
(***************************************************************************)

LEMMA AtInit == Init => IInv
<1> SUFFICES ASSUME Init PROVE IInv
  OBVIOUS
<1>1. /\ disks = Disk /\ pm_up = TRUE /\ where = [d \in Disk |-> "waiting"] /\ error_queue = <<>>
      /\ err_ctx = [d \in Disk |-> NoError] /\ pm_ctx = PmFree /\ eh = Nothing
      /\ sig = {} /\ asynotify = "on" /\ short = 0 /\ pulled = 0 /\ lapses = {}
  BY DEF Init
<1>2. Types
  BY <1>1, EmptyQueue, NoErrorFits DEF Types
<1>3. Machines /\ OffRule
  BY <1>1 DEF Machines, OffRule, PmFree, Nothing
<1>4. ASSUME NEW d \in Disk PROVE Held(d)
  <2>1. ~Queued(d) /\ ~Mine(d) /\ d \in disks
    BY <1>1, EmptyQueue DEF Queued, Mine, PmFree
  <2>2. err_ctx[d].error_count = 0 /\ err_ctx[d].state = "none" /\ err_ctx[d].eh_state = Idle
    BY <1>1 DEF NoError
  <2> QED BY <1>1, <2>1, <2>2 DEF Held, Fits
<1> QED BY <1>2, <1>3, <1>4 DEF IInv, Sound

LEMMA Inductive == Spec => []IInv
<1>1. Init => IInv
  BY AtInit
<1>2. IInv /\ [Next]_vars => IInv'
  BY SoundKept, OffKept DEF IInv
<1> QED BY <1>1, <1>2, PTL DEF Spec

\* The entries of one disk on the queue.
LEMMA OnceQueued ==
    ASSUME Types, NEW d
    PROVE  Cardinality({i \in DOMAIN error_queue : error_queue[i] = d}) <= 1
<1> DEFINE At == {i \in DOMAIN error_queue : error_queue[i] = d}
<1>1. \A i, j \in At : i = j
  BY DEF Types, IsInjective
<1>2. CASE At = {}
  BY <1>2, FS_EmptySet
<1>3. CASE At # {}
  <2>1. PICK i : At = {i}
    BY <1>1, <1>3
  <2>2. Cardinality(At) = 1
    BY <2>1, FS_Singleton
  <2> QED BY <2>2
<1> QED BY <1>2, <1>3

LEMMA SoundTypes ==
    ASSUME Sound PROVE TypeOK
<1>1. Types
  BY DEF Sound
<1>2. ASSUME NEW d \in Disk
      PROVE  err_ctx[d].state \in {"none", "handling", "handled"} /\ err_ctx[d].error_count \in 0..1
  BY <1>1 DEF Types, Context
<1>3. /\ pm_ctx.state \in {"none", "handling"}
      /\ pm_ctx.error_port \in Disk \cup {NoPort} /\ pm_ctx.active \in Port \cup {NoPort}
  BY <1>1 DEF Types, PmContext
<1> QED BY <1>1, <1>2, <1>3 DEF Types, TypeOK

LEMMA SoundHeld ==
    ASSUME Sound PROVE FailedIsHeld
<1> SUFFICES ASSUME NEW d \in disks
             PROVE  /\ Cardinality({i \in DOMAIN error_queue : error_queue[i] = d}) <= 1
                    /\ err_ctx[d].error_count > 0 =>
                        \/ (where[d] = "error" /\ (d \in ToSet(error_queue)) # (err_ctx[d].state = "handling"))
                        \/ "pushed" \in lapses
                    /\ where[d] = "error" => err_ctx[d].error_count = 1
  BY DEF FailedIsHeld
<1>1. d \in Disk /\ Types
  BY DEF Sound, Types
<1>2. Fits(err_ctx[d], where[d], Queued(d), Mine(d), eh # Nothing) /\ err_ctx[d].error_count \in 0..1
  BY <1>1 DEF Sound, Held, Types, Context
<1>3. where[d] = "error" => err_ctx[d].error_count = 1
  BY <1>2 DEF Fits
<1>4. where[d] = "error" => (Queued(d) <=> err_ctx[d].state # "handling")
  BY <1>2 DEF Fits
<1>5. where[d] = "error" => (d \in ToSet(error_queue)) # (err_ctx[d].state = "handling")
  BY <1>4, Zenon DEF Queued
<1>6. err_ctx[d].error_count > 0 => where[d] = "error" \/ "pushed" \in lapses
  BY <1>2 DEF Fits
<1> QED BY <1>1, <1>3, <1>5, <1>6, OnceQueued

\* In every reachable state a failed request of a disk behind the port multiplier is on the
\* error queue once, or with the recovery, or pushed back; a disk whose recovery has begun is
\* the one the multiplier's context names; and while nobody pulls a disk that context is
\* taken only for a recovery that goes on (sata_error_handler, core_handle_error_queue).
THEOREM LoneRecovery == Spec => []OneDiskRecovers
<1>1. ASSUME IInv PROVE OneDiskRecovers
  <2>1. TypeOK /\ FailedIsHeld
    BY <1>1, SoundTypes, SoundHeld DEF IInv
  <2>2. ASSUME NEW d \in disks, Recovering(d) PROVE pm_ctx.state = "handling" /\ pm_ctx.error_port = d
    <3>1. Mine(d)
      BY <1>1, <2>2 DEF IInv, Sound, Types, Held, Fits, Recovering
    <3> QED BY <3>1 DEF Mine
  <2>3. ASSUME pulled = 0, pm_ctx.state = "handling" PROVE \E d \in disks : Recovering(d)
    <3>1. pm_ctx.error_port \in disks /\ pm_ctx.error_port \in Disk /\ Mine(pm_ctx.error_port)
      BY <1>1, <2>3 DEF IInv, Sound, Machines, Mine
    <3>2. Recovering(pm_ctx.error_port)
      BY <1>1, <3>1 DEF IInv, Sound, Held, Fits, Recovering
    <3> QED BY <3>1, <3>2
  <2> QED BY <2>1, <2>2, <2>3 DEF OneDiskRecovers
<1> QED BY <1>1, Inductive, PTL

\* When the multiplier's context is free, nobody has pulled a disk and no failure was saved
\* as a success, notification is on, or the write that turns it on has failed: whatever the
\* recovery met on its way (PM_EH_ENABLE_ASYNOTIFY, pm_eh_make_init_ports_reqs).
THEOREM NotificationRestored == Spec => []AsyNotifyRestored
<1>1. IInv => AsyNotifyRestored
  BY DEF IInv, OffRule, AsyNotifyRestored
<1> QED BY <1>1, Inductive, PTL
=============================================================================
