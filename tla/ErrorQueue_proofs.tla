-------------------------- MODULE ErrorQueue_proofs --------------------------
(***************************************************************************)
(* For any requests (finitely many), devices and kinds of devices: no      *)
(* failed request is lost, recovered twice at a time or given back twice,  *)
(* the recoveries of a port exclude each other and the device's ordinary   *)
(* work, and the walk over the error queue sets no device down.  All under *)
(* the two assumptions of the model, LoneShort and QuietUnplug.            *)
(*                                                                         *)
(* A step of the system concerns one device.  What has to hold of a device *)
(* is Sound: its error context, its outstanding recovery request or timer  *)
(* and the sets of its failed, queued and sent requests fit together.      *)
(***************************************************************************)
EXTENDS ErrorQueue, SequenceTheorems, FiniteSetTheorems, WellFoundedInduction, TLAPS

EhState == {"none", "reset_wait", "reset", "read_log", "retry", "after_reset", "sense",
            "abort_task", "lu_reset", "device_reset", "port_reset"}
Status == {"success", "error", "sense", "timeout", "nodev", "gone", "ncq"}
Context == [state : {"none", "handling", "handled"}, eh_type : {"none", "timeout", "media"},
            eh_state : EhState, scsi_status : Status,
            error_req : Request \cup {None}, error_count : Nat]
Outstanding == EhRequest \cup {"timer", "expired", None}

\* The states the two machines of SAS disks know.
InSspMachine(c) ==
    /\ c.eh_type = "media" => c.eh_state \in {"none", "reset_wait", "after_reset", "retry"}
    /\ c.eh_type = "timeout" => c.eh_state \in {"none", "reset_wait", "port_reset", "abort_task",
                                                "lu_reset", "device_reset"}

\* A device of kind k, with context c and outstanding h, of whose requests F have failed,
\* O are sent and Q are on the error queue.
Fits(k, c, h, F, O, Q) ==
    /\ c \in Context /\ h \in Outstanding
    /\ Q \subseteq F
    /\ h # None => c.eh_type # "none" /\ c.state = "handling" /\ c.error_req \notin Q
    /\ \A r \in F : r \in Q \/ (h # None /\ r = c.error_req)
    /\ c.error_count = Cardinality(F)
    /\ c.eh_type = "none" => c.error_req = None
    /\ c.eh_type # "none" => /\ c.state # "handled" /\ c.error_req \in F /\ O = {}
                             /\ h = None => F = {c.error_req}
    /\ k = "atapi" => \A r \in O : F = {} /\ O = {r}
    /\ k \in {"ssp", "sspx"} =>
        /\ InSspMachine(c)
        /\ c.eh_type # "none" /\ h = None /\ c.state # "handling" => c.eh_state = "none"

Failed(d) == {r \in Of(d) : where[r] = "error"}
Queued(d) == ToSet(error_queue) \cap Of(d)
Sound(d) == Fits(kind[d], err_ctx[d], eh[d], Failed(d), Out(d), Queued(d))

Types ==
    /\ kind \in KindsOf
    /\ where \in [Request -> {"waiting", "out", "error", "done"}]
    /\ status \in [Request -> {"success", "timeout", "error", "ncq"}]
    /\ error_queue \in Seq(Request) /\ IsInjective(error_queue)
    /\ err_ctx \in [Device -> Context] /\ eh \in [Device -> Outstanding]
    /\ device \in [Device -> {"ok", "frozen", "gone"}]
    /\ short \in 0..MaxShort

\* One recovery at a time on a port.
Alone ==
    \A d, e \in Device :
        SamePort(d, e) /\ err_ctx[d].state = "handling" /\ err_ctx[e].state = "handling" => d = e

Once == given \in [Request -> Nat] /\ GivenBackOnce

Whole == Types /\ Alone /\ Once /\ \A d \in Device : Sound(d)

IInv == LoneShort /\ QuietUnplug => Whole

-----------------------------------------------------------------------------
(***************************************************************************)
(* Sequences without repetitions.                                          *)
(***************************************************************************)

LEMMA Positions ==
    ASSUME NEW S, NEW q \in Seq(S)
    PROVE  /\ Len(q) \in Nat /\ DOMAIN q = 1..Len(q)
           /\ \A i \in 1..Len(q) : q[i] \in S /\ q[i] \in ToSet(q)
           /\ \A x \in ToSet(q) : x \in S /\ \E i \in 1..Len(q) : q[i] = x
<1>1. Len(q) \in Nat /\ DOMAIN q = 1..Len(q) /\ \A i \in 1..Len(q) : q[i] \in S
  BY LenProperties, ElementOfSeq
<1>2. /\ \A i \in 1..Len(q) : q[i] \in ToSet(q)
      /\ \A x \in ToSet(q) : \E i \in 1..Len(q) : q[i] = x
  BY <1>1 DEF ToSet
<1> QED BY <1>1, <1>2

LEMMA Nothing == IsInjective(<<>>) /\ ToSet(<<>>) = {} /\ \A S : <<>> \in Seq(S)
<1>1. DOMAIN <<>> = {}
  BY EmptySeq, LenProperties
<1> QED BY <1>1, EmptySeq DEF IsInjective, ToSet

LEMMA Behead ==
    ASSUME NEW S, NEW q \in Seq(S), q # <<>>, IsInjective(q)
    PROVE  /\ Head(q) \in S /\ Head(q) \in ToSet(q)
           /\ Tail(q) \in Seq(S) /\ IsInjective(Tail(q))
           /\ ToSet(Tail(q)) = ToSet(q) \ {Head(q)}
<1> DEFINE n == Len(q)
           t == Tail(q)
<1>1. /\ n \in Nat \ {0} /\ DOMAIN q = 1..n /\ Head(q) = q[1] /\ Head(q) \in S
  BY EmptySeq, LenProperties, HeadTailProperties
<1>2. /\ t \in Seq(S) /\ Len(t) = n - 1 /\ DOMAIN t = 1..n-1
      /\ \A i \in 1..n-1 : t[i] = q[i+1]
  BY HeadTailProperties, LenProperties
<1>3. \A i, j \in 1..n : q[i] = q[j] => i = j
  BY <1>1 DEF IsInjective
<1> HIDE DEF n, t
<1>4. IsInjective(t)
  <2> SUFFICES ASSUME NEW i \in 1..n-1, NEW j \in 1..n-1, t[i] = t[j] PROVE i = j
    BY <1>2 DEF IsInjective
  <2>1. i + 1 \in 1..n /\ j + 1 \in 1..n /\ q[i+1] = q[j+1]
    BY <1>1, <1>2
  <2>2. i + 1 = j + 1
    BY <1>3, <2>1
  <2>3. i \in Int /\ j \in Int
    BY <1>1
  <2> QED BY <2>2, <2>3
<1>5. ToSet(t) = ToSet(q) \ {Head(q)}
  <2>1. ASSUME NEW i \in 1..n-1 PROVE t[i] \in ToSet(q) /\ t[i] # Head(q)
    <3>1. i + 1 \in 1..n /\ 1 \in 1..n /\ i + 1 # 1 /\ t[i] = q[i+1]
      BY <1>1, <1>2
    <3>2. q[i+1] # q[1]
      BY <1>3, <3>1
    <3> QED BY <1>1, <3>1, <3>2 DEF ToSet
  <2>2. ASSUME NEW i \in 1..n, q[i] # Head(q) PROVE q[i] \in ToSet(t)
    <3>1. i - 1 \in 1..n-1 /\ t[i-1] = q[i]
      BY <1>1, <1>2, <2>2
    <3> QED BY <1>2, <3>1 DEF ToSet
  <2>3. \A x \in ToSet(t) : \E i \in 1..n-1 : x = t[i]
    BY <1>2 DEF ToSet
  <2>4. \A x \in ToSet(q) : \E i \in 1..n : x = q[i]
    BY <1>1 DEF ToSet
  <2> QED BY <2>1, <2>2, <2>3, <2>4
<1>6. Head(q) \in ToSet(q)
  BY <1>1 DEF ToSet
<1> QED BY <1>1, <1>2, <1>4, <1>5, <1>6 DEF t

LEMMA PutLast ==
    ASSUME NEW S, NEW q \in Seq(S), NEW m \in S, IsInjective(q), m \notin ToSet(q)
    PROVE  /\ Append(q, m) \in Seq(S) /\ IsInjective(Append(q, m))
           /\ ToSet(Append(q, m)) = ToSet(q) \cup {m}
<1> DEFINE n == Len(q)
           o == Append(q, m)
<1>1. /\ n \in Nat /\ \A i \in 1..n : q[i] \in ToSet(q)
      /\ \A x \in ToSet(q) : \E i \in 1..n : q[i] = x
  BY Positions
<1>2. \A i, j \in 1..n : q[i] = q[j] => i = j
  BY Positions DEF IsInjective
<1>3. o \in Seq(S) /\ Len(o) = n+1 /\ o[n+1] = m /\ \A i \in 1..n : o[i] = q[i]
  BY AppendProperties
<1>4. DOMAIN o = 1..n+1
  BY <1>3, LenProperties
<1> HIDE DEF n, o
<1>5. /\ \A i \in 1..n+1 : i \in 1..n \/ i = n+1
      /\ n+1 \in 1..n+1 /\ 1..n \subseteq 1..n+1
  BY <1>1
<1>6. IsInjective(o)
  <2> SUFFICES ASSUME NEW i \in 1..n+1, NEW j \in 1..n+1, o[i] = o[j] PROVE i = j
    BY <1>4 DEF IsInjective
  <2> QED BY <1>1, <1>2, <1>3, <1>5
<1>7. /\ \A i \in 1..n+1 : o[i] \in ToSet(o)
      /\ \A x \in ToSet(o) : \E i \in 1..n+1 : o[i] = x
  BY <1>4 DEF ToSet
<1>8. \A x : x \in ToSet(o) <=> x \in ToSet(q) \/ x = m
  BY <1>1, <1>3, <1>5, <1>7
<1> QED BY <1>3, <1>6, <1>8 DEF o

LEMMA PutFirst ==
    ASSUME NEW S, NEW q \in Seq(S), NEW m \in S, IsInjective(q), m \notin ToSet(q)
    PROVE  /\ <<m>> \o q \in Seq(S) /\ IsInjective(<<m>> \o q)
           /\ ToSet(<<m>> \o q) = ToSet(q) \cup {m} /\ <<m>> \o q # <<>>
<1> DEFINE n == Len(q)
           o == <<m>> \o q
<1>1. /\ n \in Nat /\ \A i \in 1..n : q[i] \in ToSet(q)
      /\ \A x \in ToSet(q) : \E i \in 1..n : q[i] = x
  BY Positions
<1>2. \A i, j \in 1..n : q[i] = q[j] => i = j
  BY Positions DEF IsInjective
<1>3. /\ o \in Seq(S) /\ Len(o) = 1 + n
      /\ \A i \in 1..1+n : o[i] = IF i <= 1 THEN <<m>>[i] ELSE q[i - 1]
  <2>1. <<m>> \in Seq(S) /\ Len(<<m>>) = 1
    OBVIOUS
  <2> QED BY <2>1, ConcatProperties
<1>4. DOMAIN o = 1..1+n
  BY <1>3, LenProperties
<1> HIDE DEF n, o
<1>5. /\ o[1] = m /\ 1 \in 1..1+n /\ \A i \in 2..1+n : i - 1 \in 1..n /\ o[i] = q[i - 1]
      /\ \A i \in 1..1+n : i = 1 \/ i \in 2..1+n
      /\ \A i \in 1..n : i + 1 \in 2..1+n /\ i + 1 \in 1..1+n /\ o[i + 1] = q[i]
  BY <1>1, <1>3
<1>6. IsInjective(o)
  <2> SUFFICES ASSUME NEW i \in 1..1+n, NEW j \in 1..1+n, o[i] = o[j] PROVE i = j
    BY <1>4 DEF IsInjective
  <2>1. CASE i = 1 \/ j = 1
    BY <1>1, <1>5, <2>1
  <2>2. CASE i \in 2..1+n /\ j \in 2..1+n
    <3>1. i - 1 = j - 1
      BY <1>2, <1>5, <2>2
    <3> QED BY <3>1
  <2> QED BY <1>5, <2>1, <2>2
<1>7. /\ \A i \in 1..1+n : o[i] \in ToSet(o)
      /\ \A x \in ToSet(o) : \E i \in 1..1+n : o[i] = x
  BY <1>4 DEF ToSet
<1>8. ASSUME NEW x \in ToSet(o) PROVE x \in ToSet(q) \/ x = m
  <2>1. PICK i \in 1..1+n : o[i] = x
    BY <1>7
  <2> QED BY <1>1, <1>5, <2>1
<1>9. ASSUME NEW x \in ToSet(q) PROVE x \in ToSet(o)
  <2>1. PICK i \in 1..n : q[i] = x
    BY <1>1
  <2> QED BY <1>5, <1>7, <2>1
<1>10. m \in ToSet(o) /\ o # <<>>
  BY <1>5, <1>7, <1>4, Nothing, EmptySeq, LenProperties
<1> QED BY <1>3, <1>6, <1>8, <1>9, <1>10 DEF o

\* Induction over the natural numbers, for sets.
LEMMA Induct ==
    ASSUME NEW S, 0 \in S, \A n \in Nat : n \in S => n + 1 \in S
    PROVE  \A n \in Nat : n \in S
<1> DEFINE Less == {ss \in Nat \X Nat : ss[1] < ss[2]}
           Outside == Nat \ S
<1> SUFFICES ASSUME Outside # {} PROVE FALSE
  OBVIOUS
<1>1. IsWellFoundedOn(Less, Nat)
  BY NatLessThanWellFounded, Zenon DEF OpToRel
<1>2. PICK m \in Outside : \A t \in Outside : <<t, m>> \notin Less
  <2>1. Outside \subseteq Nat
    OBVIOUS
  <2> HIDE DEF Less, Outside
  <2> QED BY <1>1, <2>1, WFMin
<1>3. m \in Nat /\ m \notin S /\ m # 0
  BY <1>2
<1>4. m - 1 \in Nat /\ m - 1 < m /\ m = (m - 1) + 1
  BY <1>3
<1>5. m - 1 \notin Outside
  BY <1>2, <1>3, <1>4
<1> QED BY <1>3, <1>4, <1>5

\* What one turn of the loop of pal_complete_device_error_queue makes of the entries kept
\* so far.
Kept(d, queue, left, i) ==
    IF i = 0 THEN <<>>
    ELSE IF DeviceOf[queue[i]] = d THEN left[i - 1]
    ELSE Append(left[i - 1], queue[i])

IsLoop(d, queue, n, left) == left = [i \in 0..n |-> Kept(d, queue, left, i)]

\* However often it turns, the loop has a course.
LEMMA LoopRuns ==
    ASSUME NEW d, NEW queue
    PROVE  \A n \in Nat : \E left : IsLoop(d, queue, n, left)
<1> DEFINE S == {n \in Nat : \E left : IsLoop(d, queue, n, left)}
<1>1. 0 \in S
  <2> DEFINE f == [i \in 0..0 |-> <<>>]
  <2>1. \A i \in 0..0 : Kept(d, queue, f, i) = <<>>
    BY DEF Kept
  <2>2. IsLoop(d, queue, 0, f)
    BY <2>1 DEF IsLoop
  <2> HIDE DEF f
  <2> QED BY <2>2
<1>2. ASSUME NEW n \in Nat, n \in S PROVE n + 1 \in S
  <2>1. PICK g : IsLoop(d, queue, n, g)
    BY <1>2
  <2> DEFINE f == [i \in 0..n+1 |-> Kept(d, queue, g, i)]
  <2>2. \A i \in 0..n : f[i] = g[i]
    <3>1. \A i \in 0..n : g[i] = Kept(d, queue, g, i)
      BY <2>1, Zenon DEF IsLoop
    <3>2. 0..n \subseteq 0..n+1
      OBVIOUS
    <3> QED BY <3>1, <3>2
  <2>3. ASSUME NEW i \in 0..n+1 PROVE Kept(d, queue, g, i) = Kept(d, queue, f, i)
    <3>1. i # 0 => i - 1 \in 0..n
      OBVIOUS
    <3> HIDE DEF f
    <3> QED BY <2>2, <3>1 DEF Kept
  <2>4. IsLoop(d, queue, n + 1, f)
    <3>1. f = [i \in 0..n+1 |-> Kept(d, queue, f, i)]
      BY <2>3, Zenon
    <3> QED BY <3>1, Zenon DEF IsLoop
  <2> HIDE DEF f
  <2> QED BY <2>4
<1> HIDE DEF S
<1>3. \A n \in Nat : n \in S
  BY <1>1, <1>2, Induct
<1> QED BY <1>3 DEF S

\* pal_complete_device_error_queue leaves the other devices' requests, each once.
LEMMA OthersLeft ==
    ASSUME NEW d \in Device, NEW queue \in Seq(Request), IsInjective(queue)
    PROVE  LET left == pal_complete_device_error_queue(d, queue)
           IN  /\ left \in Seq(Request) /\ IsInjective(left)
               /\ ToSet(left) = ToSet(queue) \ Of(d)
<1> DEFINE m == Len(queue)
           f == CHOOSE left : IsLoop(d, queue, m, left)
<1>1. m \in Nat /\ \A i \in 1..m : queue[i] \in Request
  BY Positions
<1>2. pal_complete_device_error_queue(d, queue) = f[m]
  BY Zenon DEF pal_complete_device_error_queue, IsLoop, Kept
<1>3. \E left : IsLoop(d, queue, m, left)
  BY <1>1, LoopRuns
<1>4. IsLoop(d, queue, m, f)
  BY <1>3, Zenon
<1> HIDE DEF f
<1>5. \A i \in 0..m : f[i] = Kept(d, queue, f, i)
  BY <1>4, Zenon DEF IsLoop
<1>6. \A i, j \in 1..m : queue[i] = queue[j] => i = j
  BY Positions DEF IsInjective
<1> DEFINE Upto(n) == {queue[i] : i \in 1..n} \ Of(d)
           S == {n \in Nat : n <= m => /\ f[n] \in Seq(Request) /\ IsInjective(f[n])
                                       /\ ToSet(f[n]) = Upto(n)}
<1>7. 0 \in S
  <2>1. f[0] = <<>>
    BY <1>1, <1>5 DEF Kept
  <2>2. 1..0 = {}
    OBVIOUS
  <2>3. Upto(0) = {}
    BY <2>2
  <2> QED BY <2>1, <2>3, Nothing
<1>8. ASSUME NEW n \in Nat, n \in S PROVE n + 1 \in S
  <2> SUFFICES ASSUME n + 1 <= m
               PROVE  /\ f[n + 1] \in Seq(Request) /\ IsInjective(f[n + 1])
                      /\ ToSet(f[n + 1]) = Upto(n + 1)
    OBVIOUS
  <2>1. n + 1 \in 1..m /\ n + 1 \in 0..m /\ n + 1 # 0 /\ (n + 1) - 1 = n /\ n <= m
    BY <1>1
  <2>2. /\ f[n] \in Seq(Request) /\ IsInjective(f[n]) /\ ToSet(f[n]) = Upto(n)
    BY <1>8, <2>1
  <2> DEFINE r == queue[n + 1]
  <2>3. r \in Request
    BY <1>1, <2>1
  <2>4. f[n + 1] = IF DeviceOf[r] = d THEN f[n] ELSE Append(f[n], r)
    BY <1>5, <2>1 DEF Kept
  <2>5. {queue[i] : i \in 1..n+1} = {queue[i] : i \in 1..n} \cup {r}
    <3>1. 1..n+1 = 1..n \cup {n + 1}
      OBVIOUS
    <3> QED BY <3>1
  <2>6. r \notin Upto(n)
    <3>1. \A i \in 1..n : i \in 1..m /\ i # n + 1
      BY <1>1, <2>1
    <3> QED BY <1>6, <2>1, <3>1
  <2>7. r \in Of(d) <=> DeviceOf[r] = d
    BY <2>3 DEF Of
  <2> HIDE DEF r, S
  <2>8. CASE DeviceOf[r] = d
    <3>1. Upto(n + 1) = Upto(n)
      BY <2>5, <2>7, <2>8
    <3> HIDE DEF Upto
    <3> QED BY <2>2, <2>4, <2>8, <3>1
  <2>9. CASE DeviceOf[r] # d
    <3>1. Upto(n + 1) = Upto(n) \cup {r}
      BY <2>5, <2>7, <2>9
    <3> HIDE DEF Upto
    <3>2. PICK g \in Seq(Request) : g = f[n]
      BY <2>2, Zenon
    <3>3. IsInjective(g) /\ r \notin ToSet(g)
      BY <2>2, <2>6, <3>2, Zenon
    <3>4. /\ Append(g, r) \in Seq(Request) /\ IsInjective(Append(g, r))
          /\ ToSet(Append(g, r)) = ToSet(g) \cup {r}
      BY <2>3, <3>3, PutLast
    <3> QED BY <2>2, <2>4, <2>9, <3>1, <3>2, <3>4, Zenon
  <2> QED BY <2>8, <2>9
<1> HIDE DEF S
<1>9. m \in S
  BY <1>1, <1>7, <1>8, Induct
<1>10. f[m] \in Seq(Request) /\ IsInjective(f[m]) /\ ToSet(f[m]) = Upto(m)
  BY <1>1, <1>9 DEF S
<1>11. {queue[i] : i \in 1..m} = ToSet(queue)
  BY Positions DEF ToSet
<1>12. ToSet(f[m]) = ToSet(queue) \ Of(d)
  BY <1>10, <1>11, Zenon
<1> QED BY <1>2, <1>10, <1>12, Zenon

-----------------------------------------------------------------------------
(***************************************************************************)
(* The state machines.                                                     *)
(***************************************************************************)

\* What the proofs need of a step m that a machine of d takes in context c.
Allowed(d, c, ok, m) ==
    /\ m.do = "send" => m.arg \in EhRequest /\ m.next \in EhState
    /\ m.do = "wait" => m.next \in EhState /\ ~m.abort
    /\ Ssp(d) /\ m.do \in {"send", "wait"} => InSspMachine([c EXCEPT !.eh_state = m.next])
    /\ m.do = "down" => Ssp(d) /\ ~ok /\ c.eh_state # "none"
    /\ ~Ssp(d) /\ c.eh_state = "none" /\ ~(kind[d] = "atapi" /\ c.eh_type = "media") => m.abort

\* The steps themselves.
LEMMA Steps ==
    /\ \A q, s : /\ Send(q, s).do = "send" /\ Send(q, s).arg = q /\ Send(q, s).next = s
                 /\ Abort(Send(q, s)).do = "send" /\ Abort(Send(q, s)).arg = q
                 /\ Abort(Send(q, s)).next = s /\ Abort(Send(q, s)).abort
    /\ \A s : Wait(s).do = "wait" /\ Wait(s).next = s /\ ~Wait(s).abort
    /\ \A x : End(x).do = "end"
    /\ Freeze.do = "freeze" /\ SetDown.do = "down" /\ Requeue.do = "requeue"
    /\ Abort(Requeue).do = "requeue" /\ Abort(Requeue).abort
  BY DEF Step, Send, Abort, Wait, End, Freeze, SetDown, Requeue

LEMMA SataTimeoutAllowed ==
    ASSUME NEW d \in Device, NEW c \in Context, NEW ok \in BOOLEAN, NEW n, ~Ssp(d)
    PROVE  Allowed(d, c, ok, SataTimeout(d, c.eh_state, ok, n))
<1>1. ResetOf(d) \in EhRequest /\ "retry" \in EhRequest
  BY DEF ResetOf, EhRequest
<1>2. CASE c.eh_state = "none"
  <2>1. SataTimeout(d, c.eh_state, ok, n) = Abort(Send(ResetOf(d), "reset_wait"))
    BY <1>2 DEF SataTimeout
  <2> QED BY <1>1, <2>1, Steps DEF Allowed, EhState
<1>3. CASE c.eh_state # "none"
  <2>1. \/ SataTimeout(d, c.eh_state, ok, n) = Wait("reset")
        \/ SataTimeout(d, c.eh_state, ok, n) = Send("retry", "reset")
        \/ SataTimeout(d, c.eh_state, ok, n) = Freeze
    BY <1>3 DEF SataTimeout, SataRetry
  <2> QED BY <1>1, <1>3, <2>1, Steps DEF Allowed, EhState
<1> QED BY <1>2, <1>3

LEMMA SataMediaAllowed ==
    ASSUME NEW d \in Device, NEW c \in Context, NEW ok \in BOOLEAN, NEW ncq, ~Ssp(d)
    PROVE  Allowed(d, c, ok, SataMedia(d, c.eh_state, ok, ncq))
<1> DEFINE m == SataMedia(d, c.eh_state, ok, ncq)
<1>1. {"phy_reset", "read_log", "retry"} \subseteq EhRequest
  BY DEF EhRequest
<1>2. CASE c.eh_state = "none"
  <2>1. \/ m = Abort(Send("phy_reset", "reset_wait"))
        \/ m = Abort(Send("read_log", "read_log"))
        \/ m = Abort(Requeue)
    BY <1>2 DEF SataMedia
  <2> QED BY <1>1, <2>1, Steps DEF Allowed, EhState
<1>3. CASE c.eh_state # "none"
  <2>1. \/ m = Send("retry", "retry") \/ m = Requeue \/ m = Wait("after_reset")
        \/ m = End("error")
    BY <1>3 DEF SataMedia
  <2> QED BY <1>1, <1>3, <2>1, Steps DEF Allowed, EhState
<1> QED BY <1>2, <1>3

LEMMA AtapiMediaAllowed ==
    ASSUME NEW d \in Device, NEW c \in Context, NEW ok \in BOOLEAN, ~Ssp(d), kind[d] = "atapi",
           c.eh_type = "media"
    PROVE  Allowed(d, c, ok, AtapiMedia(c.eh_state, ok))
<1> DEFINE m == AtapiMedia(c.eh_state, ok)
<1>1. m = Send("sense", "sense") \/ \E x : m = End(x)
  BY DEF AtapiMedia
<1> QED BY <1>1, Steps DEF Allowed, EhState, EhRequest

LEMMA SspTimeoutAllowed ==
    ASSUME NEW d \in Device, NEW c \in Context, NEW ok \in BOOLEAN, Ssp(d), c.eh_type = "timeout",
           InSspMachine(c)
    PROVE  Allowed(d, c, ok, SspTimeout(d, c.eh_state, ok))
<1> DEFINE m == SspTimeout(d, c.eh_state, ok)
<1>1. {"phy_reset", "abort_task", "lu_reset", "device_reset", "port_reset", "retry"}
        \subseteq EhRequest
  BY DEF EhRequest
<1>2. \A s \in EhState : /\ [c EXCEPT !.eh_state = s].eh_type = "timeout"
                         /\ [c EXCEPT !.eh_state = s].eh_state = s
  BY DEF Context
<1>3. \A s \in {"reset_wait", "port_reset", "abort_task", "lu_reset", "device_reset"} :
        s \in EhState /\ InSspMachine([c EXCEPT !.eh_state = s])
  BY <1>2 DEF InSspMachine, EhState
<1>4. CASE c.eh_state = "none"
  <2>1. m = Abort(Send("phy_reset", "reset_wait")) \/ m = Send("abort_task", "abort_task")
    BY <1>4 DEF SspTimeout
  <2> QED BY <1>1, <1>3, <2>1, Steps DEF Allowed
<1>5. CASE c.eh_state = "reset_wait"
  <2>1. m = IF ok THEN Wait("port_reset") ELSE SetDown
    BY <1>5 DEF SspTimeout
  <2> QED BY <1>3, <1>5, <2>1, Steps DEF Allowed
<1>6. CASE c.eh_state = "port_reset"
  <2>1. m = IF ok THEN Send("retry", "port_reset") ELSE SetDown
    BY <1>6 DEF SspTimeout, SspLast
  <2> QED BY <1>1, <1>3, <1>6, <2>1, Steps DEF Allowed
<1>7. CASE c.eh_state \in {"abort_task", "lu_reset", "device_reset"}
  <2>1. m = SspEscalate(c.eh_state)
    BY <1>7 DEF SspTimeout
  <2>2. \/ m = Send("lu_reset", "lu_reset") \/ m = Abort(Send("device_reset", "device_reset"))
        \/ m = Send("port_reset", "port_reset")
    BY <1>7, <2>1 DEF SspEscalate
  <2> QED BY <1>1, <1>3, <2>2, Steps DEF Allowed
<1> QED BY <1>4, <1>5, <1>6, <1>7 DEF InSspMachine

LEMMA SspMediaAllowed ==
    ASSUME NEW d \in Device, NEW c \in Context, NEW ok \in BOOLEAN, Ssp(d), c.eh_type = "media",
           InSspMachine(c)
    PROVE  Allowed(d, c, ok, SspMedia(d, c.eh_state, ok))
<1> DEFINE m == SspMedia(d, c.eh_state, ok)
<1>1. {"phy_reset", "retry"} \subseteq EhRequest
  BY DEF EhRequest
<1>2. \A s \in EhState : /\ [c EXCEPT !.eh_state = s].eh_type = "media"
                         /\ [c EXCEPT !.eh_state = s].eh_state = s
  BY DEF Context
<1>3. \A s \in {"reset_wait", "after_reset", "retry"} :
        s \in EhState /\ InSspMachine([c EXCEPT !.eh_state = s])
  BY <1>2 DEF InSspMachine, EhState
<1>4. \/ m = Abort(Send("phy_reset", "reset_wait")) \/ m = Send("retry", "retry")
      \/ m = Wait("after_reset") \/ m = End("error")
  BY DEF SspMedia, InSspMachine
<1> QED BY <1>1, <1>3, <1>4, Steps DEF Allowed

\* Each machine knows the state it is in, sends what is a recovery request and sets a
\* device down only after a request that failed; a machine of SATA begins with an abort.
LEMMA MachineAllowed ==
    ASSUME NEW d \in Device, NEW c \in Context, NEW ok \in BOOLEAN, c.eh_type # "none",
           Ssp(d) => InSspMachine(c)
    PROVE  Allowed(d, c, ok, Machine(d, c, ok))
<1>1. c.eh_type \in {"timeout", "media"}
  BY DEF Context
<1>2. CASE Ssp(d)
  <2>1. CASE c.eh_type = "timeout"
    <3>1. Machine(d, c, ok) = SspTimeout(d, c.eh_state, ok)
      BY <1>2, <2>1 DEF Machine
    <3> QED BY <1>2, <2>1, <3>1, SspTimeoutAllowed
  <2>2. CASE c.eh_type = "media"
    <3>1. Machine(d, c, ok) = SspMedia(d, c.eh_state, ok)
      BY <1>2, <2>2 DEF Machine
    <3> QED BY <1>2, <2>2, <3>1, SspMediaAllowed
  <2> QED BY <1>1, <2>1, <2>2
<1>3. CASE ~Ssp(d)
  <2>1. CASE c.eh_type = "timeout"
    <3>1. Machine(d, c, ok) = SataTimeout(d, c.eh_state, ok, hard_reset_cnt[c.error_req])
      BY <1>3, <2>1 DEF Machine
    <3> QED BY <1>3, <3>1, SataTimeoutAllowed
  <2>2. CASE c.eh_type = "media" /\ kind[d] = "atapi"
    <3>1. Machine(d, c, ok) = AtapiMedia(c.eh_state, ok)
      BY <1>3, <2>2 DEF Machine
    <3> QED BY <1>3, <2>2, <3>1, AtapiMediaAllowed
  <2>3. CASE c.eh_type = "media" /\ kind[d] # "atapi"
    <3>1. Machine(d, c, ok) = SataMedia(d, c.eh_state, ok, status[c.error_req] = "ncq")
      BY <1>3, <2>3 DEF Machine
    <3> QED BY <1>3, <3>1, SataMediaAllowed
  <2> QED BY <1>1, <2>1, <2>2, <2>3
<1> QED BY <1>2, <1>3

-----------------------------------------------------------------------------
(***************************************************************************)
(* What a step may leave out of account.                                   *)
(***************************************************************************)

\* The requests of a device, the failed, sent and queued ones.
LEMMA OfDevice ==
    ASSUME NEW d \in Device
    PROVE  /\ Of(d) \subseteq Request /\ IsFiniteSet(Of(d))
           /\ Failed(d) \subseteq Of(d) /\ IsFiniteSet(Failed(d))
           /\ \A r \in Request : r \in Of(d) <=> DeviceOf[r] = d
<1>1. Of(d) \subseteq Request /\ Failed(d) \subseteq Of(d)
  BY DEF Of, Failed
<1> QED BY <1>1, RequestAssumption, FS_Subset DEF Of

\* A step that concerns device d only.
LEMMA Elsewhere ==
    ASSUME Whole, NEW d \in Device, kind' = kind, Types', Once',
           \A e \in Device \ {d} : err_ctx'[e] = err_ctx[e] /\ eh'[e] = eh[e],
           \A r \in Request : DeviceOf[r] # d =>
                /\ where'[r] = where[r]
                /\ r \in ToSet(error_queue') <=> r \in ToSet(error_queue),
           Sound(d)',
           \/ err_ctx'[d].state # "handling" \/ err_ctx[d].state = "handling"
           \/ \A e \in Device : SamePort(d, e) => err_ctx[e].state # "handling"
    PROVE  Whole'
<1>1. ASSUME NEW e \in Device \ {d} PROVE Sound(e)'
  <2>1. /\ Failed(e)' = Failed(e) /\ Out(e)' = Out(e) /\ Queued(e)' = Queued(e)
    <3>1. \A r \in Of(e) : r \in Request /\ DeviceOf[r] # d
      BY <1>1 DEF Of
    <3>2. Of(e)' = Of(e)
      BY DEF Of
    <3> QED BY <3>1, <3>2 DEF Failed, Out, Queued
  <2>2. err_ctx'[e] = err_ctx[e] /\ eh'[e] = eh[e] /\ kind'[e] = kind[e]
    BY <1>1
  <2>3. Sound(e)
    BY DEF Whole
  <2> QED BY <2>1, <2>2, <2>3, Zenon DEF Sound
<1>2. \A e \in Device : Sound(e)'
  BY <1>1
<1>3. Alone'
  <2> SUFFICES ASSUME NEW e \in Device, NEW f \in Device, e # f, SamePort(e, f)',
                      err_ctx'[e].state = "handling", err_ctx'[f].state = "handling"
               PROVE  FALSE
    BY DEF Alone
  <2>1. SamePort(e, f) /\ SamePort(f, e)
    BY DEF SamePort, BehindExp
  <2>2. \A g, h \in Device :
           SamePort(g, h) /\ err_ctx[g].state = "handling" /\ err_ctx[h].state = "handling" => g = h
    BY DEF Whole, Alone
  <2>3. CASE e # d /\ f # d
    BY <2>1, <2>2, <2>3
  <2>4. CASE e = d
    BY <2>1, <2>2, <2>4
  <2>5. CASE f = d
    BY <2>1, <2>2, <2>5
  <2> QED BY <2>3, <2>4, <2>5
<1> QED BY <1>2, <1>3 DEF Whole

\* Steps that leave the errors alone altogether.
LEMMA SameDevices ==
    ASSUME Whole, Types', Once', UNCHANGED <<kind, err_ctx, eh>>,
           ToSet(error_queue') = ToSet(error_queue),
           \A r \in Request : where'[r] = where[r]
    PROVE  Whole'
<1>1. ASSUME NEW d \in Device PROVE Sound(d)'
  <2>1. Failed(d)' = Failed(d) /\ Out(d)' = Out(d) /\ Queued(d)' = Queued(d)
    <3>1. Of(d)' = Of(d) /\ Of(d) \subseteq Request
      BY DEF Of
    <3> QED BY <3>1 DEF Failed, Out, Queued
  <2>2. Sound(d)
    BY DEF Whole
  <2> QED BY <2>1, <2>2, Zenon DEF Sound
<1>2. Alone'
  BY DEF Whole, Alone, SamePort, BehindExp
<1> QED BY <1>1, <1>2 DEF Whole

\* core_complete_error_req and its like: the requests of R, none of which has been given
\* back, are.
LEMMA GivenBack ==
    ASSUME Types, Once, NEW R, R \subseteq Request, GiveBack(R),
           \A r \in R : where[r] # "done"
    PROVE  /\ where' \in [Request -> {"waiting", "out", "error", "done"}]
           /\ \A r \in Request : where'[r] = IF r \in R THEN "done" ELSE where[r]
           /\ Once'
<1>1. /\ where' \in [Request -> {"waiting", "out", "error", "done"}]
      /\ \A r \in Request : where'[r] = IF r \in R THEN "done" ELSE where[r]
  BY DEF Types, GiveBack
<1>2. /\ given' \in [Request -> Nat]
      /\ \A r \in Request : given'[r] = given[r] + (IF r \in R THEN 1 ELSE 0)
  BY DEF Once, GiveBack
<1>3. \A r \in Request : given[r] = IF where[r] = "done" THEN 1 ELSE 0
  BY DEF Once, GivenBackOnce
<1>4. \A r \in Request : given'[r] = IF where'[r] = "done" THEN 1 ELSE 0
  BY <1>1, <1>2, <1>3
<1> QED BY <1>1, <1>2, <1>4 DEF Once, GivenBackOnce

\* Nothing is given back, and what has been stays so.
LEMMA NotGivenBack ==
    ASSUME Once, given' = given,
           \A r \in Request : where'[r] = "done" <=> where[r] = "done"
    PROVE  Once'
  BY DEF Once, GivenBackOnce

\* pal_abort_device_running_req.
LEMMA Aborts ==
    ASSUME Types, NEW d \in Device, NEW m,
           Out(d) = {} \/ m.abort,
           IF m.abort THEN pal_abort_device_running_req(d) ELSE UNCHANGED where
    PROVE  /\ where' \in [Request -> {"waiting", "out", "error", "done"}]
           /\ Failed(d)' = Failed(d) /\ Out(d)' = {}
           /\ \A r \in Request : /\ where'[r] = "done" <=> where[r] = "done"
                                 /\ DeviceOf[r] # d => where'[r] = where[r]
<1>1. Of(d)' = Of(d) /\ Out(d) = {r \in Of(d) : where[r] = "out"} /\ Of(d) \subseteq Request
  BY DEF Of, Out
<1>2. /\ where' \in [Request -> {"waiting", "out", "error", "done"}]
      /\ \A r \in Request : where'[r] = IF r \in Out(d) THEN "waiting" ELSE where[r]
  BY DEF Types, pal_abort_device_running_req
<1>3. \A r \in Request : /\ where'[r] = "error" <=> where[r] = "error"
                         /\ where'[r] = "done" <=> where[r] = "done"
                         /\ r \in Of(d) => where'[r] # "out"
                         /\ DeviceOf[r] # d => where'[r] = where[r]
  BY <1>1, <1>2 DEF Of
<1> QED BY <1>1, <1>2, <1>3 DEF Failed, Out

-----------------------------------------------------------------------------
(***************************************************************************)
(* The steps of a recovery.                                                *)
(***************************************************************************)

\* d's machine may take a step in context c, with the error queue as given: c is a recovery
\* of a failed request that is not on it.
Ready(d, c, queue) ==
    /\ c.eh_type # "none" /\ c.state = "handling"
    /\ c.error_req \in Failed(d) /\ c.error_count = Cardinality(Failed(d))
    /\ queue \in Seq(Request) /\ IsInjective(queue)
    /\ ToSet(queue) = ToSet(error_queue) \ {c.error_req}
    /\ Failed(d) \ {c.error_req} \subseteq ToSet(queue)
    /\ Ssp(d) => InSspMachine(c)

\* The queue without the request under recovery.
LEMMA QueueOf ==
    ASSUME Whole, NEW d \in Device, NEW c, NEW queue, Ready(d, c, queue)
    PROVE  /\ c.error_req \in Request /\ DeviceOf[c.error_req] = d
           /\ where[c.error_req] = "error"
           /\ ToSet(queue) \cap Of(d) = Failed(d) \ {c.error_req}
           /\ \A r \in Request : DeviceOf[r] # d =>
                (r \in ToSet(queue) <=> r \in ToSet(error_queue))
<1>1. c.error_req \in Request /\ DeviceOf[c.error_req] = d /\ where[c.error_req] = "error"
  BY DEF Ready, Failed, Of
<1>2. Queued(d) \subseteq Failed(d)
  BY DEF Whole, Sound, Fits
<1>3. ToSet(queue) \cap Of(d) = Failed(d) \ {c.error_req}
  BY <1>2, OfDevice DEF Ready, Queued
<1> QED BY <1>1, <1>3 DEF Ready

\* core_complete_error_req, and the end of a recovery that freezes the device.
LEMMA CompleteKeeps ==
    ASSUME Whole, NEW d \in Device, NEW c \in Context, NEW queue, NEW x, Ready(d, c, queue),
           GiveBack({c.error_req}),
           err_ctx' = [err_ctx EXCEPT ![d] = completed(c, x)],
           eh' = [eh EXCEPT ![d] = None],
           error_queue' = queue, device' \in [Device -> {"ok", "frozen", "gone"}],
           UNCHANGED <<kind, status, short>>
    PROVE  Whole'
<1> DEFINE r == c.error_req
           F == Failed(d)
           c1 == completed(c, x)
<1>1. /\ r \in Request /\ DeviceOf[r] = d /\ where[r] = "error" /\ r \in F
      /\ ToSet(queue) \cap Of(d) = F \ {r}
      /\ \A q \in Request : DeviceOf[q] # d => (q \in ToSet(queue) <=> q \in ToSet(error_queue))
  BY QueueOf DEF Ready
<1>2. Types /\ Once /\ Sound(d)
  BY DEF Whole
<1>3. /\ where' \in [Request -> {"waiting", "out", "error", "done"}]
      /\ \A q \in Request : where'[q] = IF q \in {r} THEN "done" ELSE where[q]
      /\ Once'
  BY <1>1, <1>2, GivenBack
<1>4. IsFiniteSet(F) /\ Cardinality(F \ {r}) = Cardinality(F) - 1 /\ Cardinality(F) \in Nat
      /\ Cardinality(F \ {r}) \in Nat
  BY <1>1, OfDevice, FS_RemoveElement, FS_CardinalityType
<1>5. /\ c1 \in Context /\ c1.eh_type = "none" /\ c1.error_req = None
      /\ c1.error_count = Cardinality(F) - 1 /\ c1.state # "handling"
  BY <1>4 DEF completed, Context, Ready, EhState
<1>6. Failed(d)' = F \ {r} /\ Out(d)' = Out(d)
  BY <1>1, <1>3 DEF Failed, Out, Of
<1>7. Types'
  BY <1>2, <1>3, <1>5 DEF Types, Outstanding, Ready
<1>8. err_ctx'[d] = c1 /\ eh'[d] = None /\ Queued(d)' = F \ {r}
  BY <1>1, <1>2 DEF Types, Queued, Of
<1>9. kind[d] = "atapi" => Out(d) = {}
  BY <1>1, <1>2 DEF Sound, Fits
<1> HIDE DEF c1, F, r
<1>10. Fits(kind[d], c1, None, F \ {r}, Out(d), F \ {r})
  BY <1>4, <1>5, <1>9 DEF Fits, Outstanding, InSspMachine
<1>11. Sound(d)'
  BY <1>6, <1>8, <1>10 DEF Sound
<1>12. \A e \in Device \ {d} : err_ctx'[e] = err_ctx[e] /\ eh'[e] = eh[e]
  BY <1>2 DEF Types
<1>13. \A q \in Request : DeviceOf[q] # d => where'[q] = where[q]
  BY <1>1, <1>3
<1> QED BY <1>1, <1>3, <1>5, <1>7, <1>8, <1>11, <1>12, <1>13, Elsewhere

\* pal_set_down_disk and pal_set_disk_offline, while the request under recovery is not on
\* the queue as well.
LEMMA SetDownKeeps ==
    ASSUME Whole, NEW d \in Device, NEW c, NEW queue \in Seq(Request), IsInjective(queue),
           c.error_req \notin ToSet(queue), eh[d] # "expired",
           \A r \in Request : DeviceOf[r] # d => (r \in ToSet(queue) <=> r \in ToSet(error_queue)),
           pal_set_down_disk(d, c, queue), kind' = kind
    PROVE  Whole'
<1> USE DEF pal_set_down_disk
<1>1. Types /\ Once
  BY DEF Whole
<1>2. /\ error_queue' \in Seq(Request) /\ IsInjective(error_queue')
      /\ ToSet(error_queue') = ToSet(queue) \ Of(d)
  BY OthersLeft
<1>3. /\ where' \in [Request -> {"waiting", "out", "error", "done"}]
      /\ \A r \in Request : where'[r] = IF r \in Of(d) THEN "done" ELSE where[r]
  BY <1>1 DEF Types
<1>4. Once'
  <2>1. ASSUME NEW r \in Request
        PROVE  core_complete_device_waiting_queue(r, c, queue) = IF where[r] = "done" THEN 0 ELSE 1
    BY DEF core_complete_device_waiting_queue
  <2>2. /\ given' \in [Request -> Nat]
        /\ \A r \in Request : given'[r] =
             given[r] + (IF r \in Of(d) /\ where[r] # "done" THEN 1 ELSE 0)
    <3>1. given' = [r \in Request |-> given[r] +
              (IF r \in Of(d) THEN core_complete_device_waiting_queue(r, c, queue) ELSE 0)]
      BY DEF pal_set_down_disk
    <3>2. \A r \in Request : given'[r] = given[r] +
              (IF r \in Of(d) THEN core_complete_device_waiting_queue(r, c, queue) ELSE 0)
      BY <3>1, Zenon
    <3>3. given \in [Request -> Nat]
      BY <1>1 DEF Once
    <3>4. ASSUME NEW r \in Request
          PROVE  /\ given'[r] = given[r] + (IF r \in Of(d) /\ where[r] # "done" THEN 1 ELSE 0)
                 /\ given'[r] \in Nat
      <4> HIDE DEF pal_set_down_disk
      <4> QED BY <2>1, <3>2, <3>3
    <3>5. given' = [r \in Request |-> given'[r]]
      BY <3>1, Zenon
    <3> HIDE DEF pal_set_down_disk
    <3> QED BY <3>4, <3>5
  <2>3. \A r \in Request : given[r] = IF where[r] = "done" THEN 1 ELSE 0
    BY <1>1 DEF Once, GivenBackOnce
  <2>4. \A r \in Request : given'[r] = IF where'[r] = "done" THEN 1 ELSE 0
    BY <1>3, <2>2, <2>3
  <2> QED BY <2>2, <2>4 DEF Once, GivenBackOnce
<1>5. err_ctx'[d] = NoError /\ eh'[d] = None /\ NoError \in Context
  BY <1>1 DEF Types, Context, NoError, EhState, Status
<1>6. /\ err_ctx' \in [Device -> Context] /\ eh' \in [Device -> Outstanding]
      /\ \A e \in Device \ {d} : err_ctx'[e] = err_ctx[e] /\ eh'[e] = eh[e]
  BY <1>1, <1>5 DEF Types, Outstanding
<1>7. Types'
  <2>1. device' \in [Device -> {"ok", "frozen", "gone"}]
    BY <1>1 DEF Types
  <2> QED BY <1>1, <1>2, <1>3, <1>6, <2>1 DEF Types
<1>8. Failed(d)' = {} /\ Out(d)' = {} /\ Queued(d)' = {}
  BY <1>2, <1>3 DEF Failed, Out, Queued, Of
<1>9. Fits(kind[d], NoError, None, {}, {}, {})
  BY <1>5, FS_EmptySet DEF Fits, Outstanding, InSspMachine, NoError
<1>10. Sound(d)'
  BY <1>5, <1>8, <1>9 DEF Sound
<1>11. err_ctx'[d].state # "handling"
  BY <1>5 DEF NoError
<1>12. \A r \in Request : DeviceOf[r] # d =>
           /\ where'[r] = where[r]
           /\ r \in ToSet(error_queue') <=> r \in ToSet(error_queue)
  BY <1>2, <1>3 DEF Of
<1> QED BY <1>4, <1>6, <1>7, <1>10, <1>11, <1>12, Elsewhere

\* A recovery request is sent or a timer started; the device works on nothing else.
LEMMA GoOnKeeps ==
    ASSUME Whole, NEW d \in Device, NEW c \in Context, NEW queue, Ready(d, c, queue),
           NEW h \in Outstanding, h # None, NEW s \in EhState,
           Ssp(d) => InSspMachine([c EXCEPT !.eh_state = s]),
           \/ err_ctx[d].state = "handling"
           \/ \A e \in Device : SamePort(d, e) => err_ctx[e].state # "handling",
           where' \in [Request -> {"waiting", "out", "error", "done"}],
           Failed(d)' = Failed(d), Out(d)' = {},
           \A r \in Request : /\ where'[r] = "done" <=> where[r] = "done"
                              /\ DeviceOf[r] # d => where'[r] = where[r],
           err_ctx' = [err_ctx EXCEPT ![d] = [c EXCEPT !.eh_state = s]],
           eh' = [eh EXCEPT ![d] = h],
           error_queue' = queue,
           UNCHANGED <<kind, status, given, device, short>>
    PROVE  Whole'
<1> DEFINE r == c.error_req
           F == Failed(d)
           c1 == [c EXCEPT !.eh_state = s]
<1>1. /\ r \in F /\ ToSet(queue) \cap Of(d) = F \ {r}
      /\ \A q \in Request : DeviceOf[q] # d => (q \in ToSet(queue) <=> q \in ToSet(error_queue))
  BY QueueOf DEF Ready
<1>2. Types /\ Once /\ Sound(d)
  BY DEF Whole
<1>3. /\ c1 \in Context /\ c1.eh_type # "none" /\ c1.error_req = r /\ c1.eh_state = s
      /\ c1.error_count = Cardinality(F) /\ c1.state = "handling"
  BY DEF Context, Ready
<1>4. Types'
  BY <1>2, <1>3 DEF Types, Ready
<1>5. err_ctx'[d] = c1 /\ eh'[d] = h /\ Queued(d)' = F \ {r}
  BY <1>1, <1>2 DEF Types, Queued, Of
<1>6. kind[d] \in {"ssp", "sspx"} => InSspMachine(c1)
  BY DEF Ssp
<1>7. \A e \in Device \ {d} : err_ctx'[e] = err_ctx[e] /\ eh'[e] = eh[e]
  BY <1>2 DEF Types
<1>8. Once'
  BY <1>2, NotGivenBack
<1> HIDE DEF c1, F, r
<1>9. Fits(kind[d], c1, h, F, {}, F \ {r})
  BY <1>1, <1>3, <1>6 DEF Fits
<1>10. Sound(d)'
  BY <1>5, <1>9 DEF Sound, F
<1> QED BY <1>1, <1>4, <1>7, <1>8, <1>10, Elsewhere

\* What is left of a recovery that lacks an internal request can be resumed.
Resumable(d, c, queue, short_ctx, short_queue) ==
    /\ short_ctx \in Context
    /\ short_ctx.eh_type = c.eh_type /\ short_ctx.eh_state = c.eh_state
    /\ short_ctx.error_req = c.error_req /\ short_ctx.error_count = c.error_count
    /\ short_ctx.state # "handled"
    /\ Ssp(d) /\ short_ctx.state = "none" => c.eh_state = "none"
    /\ short_queue \in Seq(Request) /\ IsInjective(short_queue)
    /\ ToSet(short_queue) = ToSet(queue) \cup {c.error_req}

\* Without an internal request: the only failed request of the device goes back to the
\* queue, and its recovery can be resumed.
LEMMA ShortKeeps ==
    ASSUME Whole, NEW d \in Device, NEW c \in Context, NEW queue, Ready(d, c, queue),
           c.error_count = 1, NEW sc, NEW sq, Resumable(d, c, queue, sc, sq),
           \/ err_ctx[d].state = "handling"
           \/ \A e \in Device : SamePort(d, e) => err_ctx[e].state # "handling",
           where' \in [Request -> {"waiting", "out", "error", "done"}],
           Failed(d)' = Failed(d), Out(d)' = {},
           \A r \in Request : /\ where'[r] = "done" <=> where[r] = "done"
                              /\ DeviceOf[r] # d => where'[r] = where[r],
           err_ctx' = [err_ctx EXCEPT ![d] = sc],
           eh' = [eh EXCEPT ![d] = None],
           error_queue' = sq, short < MaxShort, short' = short + 1,
           UNCHANGED <<kind, status, given, device>>
    PROVE  Whole'
<1> DEFINE r == c.error_req
           F == Failed(d)
<1>1. /\ r \in Request /\ DeviceOf[r] = d /\ r \in F /\ ToSet(queue) \cap Of(d) = F \ {r}
      /\ \A q \in Request : DeviceOf[q] # d => (q \in ToSet(queue) <=> q \in ToSet(error_queue))
  <2>1. r \in F
    BY DEF Ready
  <2>2. /\ c.error_req \in Request /\ DeviceOf[c.error_req] = d
        /\ ToSet(queue) \cap Of(d) = Failed(d) \ {c.error_req}
        /\ \A q \in Request : DeviceOf[q] # d =>
              (q \in ToSet(queue) <=> q \in ToSet(error_queue))
    BY QueueOf
  <2> QED BY <2>1, <2>2, Zenon
<1>2. /\ Types /\ Once /\ sc \in Context
      /\ sc.eh_type = c.eh_type /\ sc.eh_state = c.eh_state /\ sc.error_req = r
      /\ sc.error_count = c.error_count /\ sc.state # "handled"
      /\ Ssp(d) /\ sc.state = "none" => c.eh_state = "none"
      /\ sq \in Seq(Request) /\ IsInjective(sq) /\ ToSet(sq) = ToSet(queue) \cup {r}
  BY DEF Whole, Resumable
<1>3. F = {r}
  <2>1. IsFiniteSet(F) /\ Cardinality(F) = 1
    BY OfDevice, Zenon DEF Ready
  <2>2. Cardinality(F \ {r}) = 0 /\ IsFiniteSet(F \ {r})
    <3>1. r \in F
      BY <1>1
    <3> HIDE DEF F, r
    <3>2. Cardinality(F \ {r}) = Cardinality(F) - 1 /\ IsFiniteSet(F \ {r})
      BY <2>1, <3>1, FS_RemoveElement
    <3> QED BY <2>1, <3>2
  <2>3. F \ {r} = {}
    BY <2>2, FS_EmptySet
  <2> QED BY <1>1, <2>3
<1>4. Types'
  <2>1. short' \in 0..MaxShort
    BY <1>2, BoundAssumption DEF Types
  <2> QED BY <1>2, <2>1 DEF Types, Outstanding
<1>5. err_ctx'[d] = sc /\ eh'[d] = None /\ Queued(d)' = F
  BY <1>1, <1>2 DEF Types, Queued, Of
<1>6. Ssp(d) => InSspMachine(sc)
  BY <1>2 DEF Ready, InSspMachine
<1>7. \A e \in Device \ {d} : err_ctx'[e] = err_ctx[e] /\ eh'[e] = eh[e]
  BY <1>2 DEF Types
<1>8. Once'
  BY <1>2, NotGivenBack
<1>9. sc.eh_type # "none" /\ sc.error_count = Cardinality(F) /\ sc.state \in {"none", "handling"}
  BY <1>2 DEF Ready, Context
<1>10. \A q \in Request : DeviceOf[q] # d =>
          (q \in ToSet(error_queue') <=> q \in ToSet(error_queue))
  BY <1>1, <1>2
<1> HIDE DEF F, r
<1>11. Fits(kind[d], sc, None, F, {}, F)
  BY <1>2, <1>3, <1>6, <1>9 DEF Fits, Outstanding, Ssp, r
<1>12. Sound(d)'
  BY <1>5, <1>11 DEF Sound, F
<1> QED BY <1>4, <1>7, <1>8, <1>10, <1>12, Elsewhere

\* The request is queued again as one that timed out.
LEMMA RequeueKeeps ==
    ASSUME Whole, NEW d \in Device, NEW c \in Context, NEW queue, Ready(d, c, queue),
           where' \in [Request -> {"waiting", "out", "error", "done"}],
           Failed(d)' = Failed(d), Out(d)' = {},
           \A r \in Request : /\ where'[r] = "done" <=> where[r] = "done"
                              /\ DeviceOf[r] # d => where'[r] = where[r],
           status' = [status EXCEPT ![c.error_req] = "timeout"],
           err_ctx' = [err_ctx EXCEPT ![d] =
                [NoError EXCEPT !.scsi_status = "timeout", !.error_count = c.error_count]],
           eh' = [eh EXCEPT ![d] = None],
           error_queue' = <<c.error_req>> \o queue,
           UNCHANGED <<kind, given, device, short>>
    PROVE  Whole'
<1> DEFINE r == c.error_req
           F == Failed(d)
           c1 == [NoError EXCEPT !.scsi_status = "timeout", !.error_count = c.error_count]
<1>1. /\ r \in Request /\ DeviceOf[r] = d /\ r \in F /\ ToSet(queue) \cap Of(d) = F \ {r}
      /\ \A q \in Request : DeviceOf[q] # d => (q \in ToSet(queue) <=> q \in ToSet(error_queue))
  BY QueueOf DEF Ready
<1>2. Types /\ Once
  BY DEF Whole
<1>3. /\ error_queue' \in Seq(Request) /\ IsInjective(error_queue')
      /\ ToSet(error_queue') = ToSet(queue) \cup {r}
  BY <1>1, PutFirst DEF Ready
<1>4. /\ c1 \in Context /\ c1.eh_type = "none" /\ c1.error_req = None
      /\ c1.error_count = Cardinality(F) /\ c1.state = "none"
  BY DEF NoError, Context, Ready, EhState, Status
<1>5. Types'
  <2>1. err_ctx' = [err_ctx EXCEPT ![d] = c1]
    OBVIOUS
  <2>2. status' \in [Request -> {"success", "timeout", "error", "ncq"}]
    BY <1>1, <1>2 DEF Types
  <2> HIDE DEF c1
  <2>3. err_ctx' \in [Device -> Context] /\ eh' \in [Device -> Outstanding]
    BY <1>2, <1>4, <2>1 DEF Types, Outstanding
  <2> QED BY <1>2, <1>3, <2>2, <2>3 DEF Types
<1>6. err_ctx'[d] = c1 /\ eh'[d] = None /\ Queued(d)' = F
  <2>1. err_ctx' = [err_ctx EXCEPT ![d] = c1] /\ Of(d)' = Of(d) /\ r \in Of(d)
    BY <1>1 DEF Of
  <2>2. F \subseteq Of(d)
    BY OfDevice
  <2> HIDE DEF c1, F, r
  <2>3. Queued(d)' = F
    BY <1>1, <1>3, <2>1, <2>2 DEF Queued
  <2> QED BY <1>2, <2>1, <2>3 DEF Types
<1>7. \A e \in Device \ {d} : err_ctx'[e] = err_ctx[e] /\ eh'[e] = eh[e]
  BY <1>2 DEF Types
<1>8. Once'
  BY <1>2, NotGivenBack
<1>9. \A q \in Request : DeviceOf[q] # d =>
          (q \in ToSet(error_queue') <=> q \in ToSet(error_queue))
  BY <1>1, <1>3
<1> HIDE DEF c1, F, r
<1>10. Fits(kind[d], c1, None, F, {}, F)
  BY <1>4 DEF Fits, Outstanding, InSspMachine
<1>11. Sound(d)'
  BY <1>6, <1>10 DEF Sound, F
<1>12. err_ctx'[d].state # "handling"
  BY <1>4, <1>6
<1> QED BY <1>5, <1>7, <1>8, <1>9, <1>11, <1>12, Elsewhere

\* One step of a state machine.
LEMMA RunKeeps ==
    ASSUME Whole, LoneShort, NEW d \in Device, NEW c \in Context, NEW ok \in BOOLEAN, NEW queue,
           NEW short_ctx, NEW short_queue,
           Ready(d, c, queue),
           Machine(d, c, ok).do = "send" => Resumable(d, c, queue, short_ctx, short_queue),
           \/ err_ctx[d].state = "handling"
           \/ \A e \in Device : SamePort(d, e) => err_ctx[e].state # "handling",
           Out(d) = {} \/ Machine(d, c, ok).abort,
           ok \/ eh[d] # "expired",
           Run(d, c, ok, queue, short_ctx, short_queue), kind' = kind
    PROVE  Whole'
<1> DEFINE m == Machine(d, c, ok)
           r == c.error_req
<1>1. Types /\ Once /\ r \in Request
  BY QueueOf DEF Whole
<1>2. Allowed(d, c, ok, m)
  BY MachineAllowed DEF Ready
<1>3. ASSUME IF m.abort THEN pal_abort_device_running_req(d) ELSE UNCHANGED where
      PROVE  /\ where' \in [Request -> {"waiting", "out", "error", "done"}]
             /\ Failed(d)' = Failed(d) /\ Out(d)' = {}
             /\ \A q \in Request : /\ where'[q] = "done" <=> where[q] = "done"
                                   /\ DeviceOf[q] # d => where'[q] = where[q]
  BY <1>1, <1>3, Aborts
<1> HIDE DEF m
<1>4. CASE /\ m.do = "send"
           /\ IF m.abort THEN pal_abort_device_running_req(d) ELSE UNCHANGED where
           /\ err_ctx' = [err_ctx EXCEPT ![d] = [c EXCEPT !.eh_state = m.next]]
           /\ eh' = [eh EXCEPT ![d] = m.arg]
           /\ error_queue' = queue
           /\ UNCHANGED <<status, given, device, short>>
  <2>1. m.arg \in EhRequest /\ m.next \in EhState
    BY <1>2, <1>4 DEF Allowed
  <2>2. m.arg \in Outstanding /\ m.arg # None
    BY <2>1, NoneAssumption DEF Outstanding
  <2>3. Ssp(d) => InSspMachine([c EXCEPT !.eh_state = m.next])
    BY <1>2, <1>4 DEF Allowed
  <2> QED BY <1>3, <1>4, <2>1, <2>2, <2>3, GoOnKeeps
<1>5. CASE /\ m.do = "send" /\ short < MaxShort
           /\ LoneShort => c.error_count = 1
           /\ IF m.abort THEN pal_abort_device_running_req(d) ELSE UNCHANGED where
           /\ short' = short + 1
           /\ err_ctx' = [err_ctx EXCEPT ![d] = short_ctx]
           /\ error_queue' = short_queue
           /\ eh' = [eh EXCEPT ![d] = None]
           /\ UNCHANGED <<status, given, device>>
  <2>1. Resumable(d, c, queue, short_ctx, short_queue)
    BY <1>5 DEF m
  <2>2. /\ where' \in [Request -> {"waiting", "out", "error", "done"}]
        /\ Failed(d)' = Failed(d) /\ Out(d)' = {}
        /\ \A q \in Request : /\ where'[q] = "done" <=> where[q] = "done"
                              /\ DeviceOf[q] # d => where'[q] = where[q]
    BY <1>3, <1>5
  <2>3. /\ short < MaxShort /\ short' = short + 1 /\ c.error_count = 1
        /\ err_ctx' = [err_ctx EXCEPT ![d] = short_ctx]
        /\ error_queue' = short_queue
        /\ eh' = [eh EXCEPT ![d] = None]
        /\ UNCHANGED <<kind, status, given, device>>
    BY <1>5
  <2> QED BY <2>1, <2>2, <2>3, ShortKeeps
<1>6. CASE /\ m.do = "wait"
           /\ err_ctx' = [err_ctx EXCEPT ![d] = [c EXCEPT !.eh_state = m.next]]
           /\ eh' = [eh EXCEPT ![d] = "timer"]
           /\ error_queue' = queue
           /\ UNCHANGED <<where, status, given, device, short>>
  <2>1. m.next \in EhState /\ ~m.abort
    BY <1>2, <1>6 DEF Allowed
  <2>2. "timer" \in Outstanding /\ "timer" # None
    BY NoneAssumption DEF Outstanding
  <2>3. Ssp(d) => InSspMachine([c EXCEPT !.eh_state = m.next])
    BY <1>2, <1>6 DEF Allowed
  <2> QED BY <1>3, <1>6, <2>1, <2>2, <2>3, GoOnKeeps
<1>7. CASE m.do = "end" /\ core_complete_error_req(d, c, m.arg, queue)
  <2>1. device' \in [Device -> {"ok", "frozen", "gone"}]
    BY <1>1, <1>7 DEF Types, core_complete_error_req
  <2> QED BY <1>7, <2>1, CompleteKeeps DEF core_complete_error_req
<1>8. CASE /\ m.do = "freeze"
           /\ GiveBack({r})
           /\ err_ctx' = [err_ctx EXCEPT ![d] = completed(c, m.arg)]
           /\ eh' = [eh EXCEPT ![d] = None]
           /\ device' = [device EXCEPT ![d] = "frozen"]
           /\ error_queue' = queue
           /\ UNCHANGED <<status, short>>
  <2>1. device' \in [Device -> {"ok", "frozen", "gone"}]
    BY <1>1, <1>8 DEF Types
  <2> QED BY <1>8, <2>1, CompleteKeeps
<1>9. CASE m.do = "down" /\ pal_set_down_disk(d, c, queue)
  <2>1. eh[d] # "expired"
    BY <1>2, <1>9 DEF Allowed
  <2>2. /\ queue \in Seq(Request) /\ IsInjective(queue) /\ c.error_req \notin ToSet(queue)
        /\ \A q \in Request : DeviceOf[q] # d => (q \in ToSet(queue) <=> q \in ToSet(error_queue))
    BY QueueOf DEF Ready
  <2> QED BY <1>9, <2>1, <2>2, SetDownKeeps
<1>10. CASE /\ m.do = "requeue"
            /\ IF m.abort THEN pal_abort_device_running_req(d) ELSE UNCHANGED where
            /\ status' = [status EXCEPT ![r] = "timeout"]
            /\ err_ctx' = [err_ctx EXCEPT ![d] =
                    [NoError EXCEPT !.scsi_status = "timeout", !.error_count = c.error_count]]
            /\ eh' = [eh EXCEPT ![d] = None]
            /\ error_queue' = <<r>> \o queue
            /\ UNCHANGED <<given, device, short>>
  BY <1>3, <1>10, RequeueKeeps
<1> QED BY <1>4, <1>5, <1>6, <1>7, <1>8, <1>9, <1>10 DEF Run, m, reqVars

-----------------------------------------------------------------------------
(***************************************************************************)
(* The actions.                                                            *)
(***************************************************************************)

LEMMA InitWhole == Init => Whole
<1> SUFFICES ASSUME Init PROVE Whole
  OBVIOUS
<1> USE DEF Init
<1>1. NoError \in Context /\ NoError.state = "none" /\ NoError.eh_type = "none"
      /\ NoError.error_req = None /\ NoError.error_count = 0
  BY DEF NoError, Context, EhState, Status
<1>2. Types
  <2>1. short \in 0..MaxShort
    BY BoundAssumption
  <2> QED BY <1>1, <2>1, Nothing DEF Types, Outstanding
<1>3. Alone
  BY <1>1 DEF Alone
<1>4. Once
  BY DEF Once, GivenBackOnce
<1>5. ASSUME NEW d \in Device PROVE Sound(d)
  <2>1. Failed(d) = {} /\ Out(d) = {} /\ Queued(d) = {}
    BY Nothing DEF Failed, Out, Queued, Of
  <2>2. Fits(kind[d], NoError, None, {}, {}, {})
    BY <1>1, FS_EmptySet DEF Fits, Outstanding, InSspMachine
  <2>3. err_ctx[d] = NoError /\ eh[d] = None
    OBVIOUS
  <2> HIDE DEF Init
  <2> QED BY <2>1, <2>2, <2>3, Zenon DEF Sound
<1> QED BY <1>2, <1>3, <1>4, <1>5 DEF Whole

\* What Sound says of a device that is not being recovered, and of one that is.
LEMMA NotRecovered ==
    ASSUME Whole, NEW d \in Device, err_ctx[d].eh_type = "none"
    PROVE  eh[d] = None /\ err_ctx[d].error_req = None /\ Queued(d) = Failed(d)
  BY DEF Whole, Sound, Fits

LEMMA UnderRecovery ==
    ASSUME Whole, NEW d \in Device, eh[d] # None
    PROVE  /\ err_ctx[d].eh_type # "none" /\ err_ctx[d].state = "handling"
           /\ err_ctx[d].error_req \in Failed(d) /\ err_ctx[d].error_req \notin ToSet(error_queue)
           /\ Out(d) = {} /\ Failed(d) \ {err_ctx[d].error_req} \subseteq ToSet(error_queue)
<1>1. Fits(kind[d], err_ctx[d], eh[d], Failed(d), Out(d), Queued(d))
  BY DEF Whole, Sound
<1> QED BY <1>1, OfDevice DEF Fits, Queued

\* prot_send_request, when it lets the request in.
LEMMA SendKeeps ==
    ASSUME Whole, NEW r \in Request, where[r] = "waiting",
           ~port_has_error_req(DeviceOf[r]),
           kind[DeviceOf[r]] = "atapi" => Out(DeviceOf[r]) = {},
           where' = [where EXCEPT ![r] = "out"], given' = given,
           UNCHANGED <<kind, status, error_queue, devVars, short>>
    PROVE  Whole'
<1>1. PICK d \in Device : d = DeviceOf[r]
  BY RequestAssumption
<1>2. Types /\ Once /\ Fits(kind[d], err_ctx[d], eh[d], Failed(d), Out(d), Queued(d))
  BY DEF Whole, Sound
<1>3. Failed(d) = {}
  <2>1. ~(err_ctx[d].error_count > 0)
    BY <1>1 DEF port_has_error_req, SamePort
  <2>2. Cardinality(Failed(d)) = 0
    BY <1>2, <2>1, OfDevice, FS_CardinalityType DEF Fits
  <2> QED BY <2>2, OfDevice, FS_EmptySet
<1>4. \A q \in Request : where'[q] = IF q = r THEN "out" ELSE where[q]
  BY <1>2 DEF Types
<1>5. /\ Failed(d)' = Failed(d) /\ Out(d)' = Out(d) \cup {r} /\ Queued(d)' = Queued(d)
  <2>1. Of(d)' = Of(d) /\ r \in Of(d) /\ Of(d) \subseteq Request
    BY <1>1 DEF Of
  <2> QED BY <1>4, <2>1 DEF Failed, Out, Queued
<1>6. Types' /\ UNCHANGED <<err_ctx, eh>>
  BY <1>2 DEF Types, devVars
<1>7. Once'
  BY <1>2, <1>4, NotGivenBack
<1>8. kind[d] = "atapi" => Out(d) = {}
  BY <1>1
<1>9. Fits(kind[d], err_ctx[d], eh[d], {}, Out(d) \cup {r}, Queued(d))
  BY <1>2, <1>3, <1>8 DEF Fits
<1>10. Sound(d)'
  BY <1>3, <1>5, <1>6, <1>9 DEF Sound
<1>11. \A q \in Request : DeviceOf[q] # d =>
          where'[q] = where[q] /\ (q \in ToSet(error_queue') <=> q \in ToSet(error_queue))
  BY <1>1, <1>4
<1> QED BY <1>6, <1>7, <1>10, <1>11, Elsewhere

\* A request that has not failed is given back.
LEMMA GiveBackKeeps ==
    ASSUME Whole, NEW r \in Request, where[r] \in {"waiting", "out"}, GiveBack({r}),
           UNCHANGED <<kind, status, error_queue, devVars, short>>
    PROVE  Whole'
<1>1. PICK d \in Device : d = DeviceOf[r]
  BY RequestAssumption
<1>2. Types /\ Once /\ Fits(kind[d], err_ctx[d], eh[d], Failed(d), Out(d), Queued(d))
  BY DEF Whole, Sound
<1>3. /\ where' \in [Request -> {"waiting", "out", "error", "done"}]
      /\ \A q \in Request : where'[q] = IF q \in {r} THEN "done" ELSE where[q]
      /\ Once'
  BY <1>2, GivenBack
<1>4. /\ Failed(d)' = Failed(d) /\ Out(d)' = Out(d) \ {r} /\ Queued(d)' = Queued(d)
  <2>1. Of(d)' = Of(d) /\ r \in Of(d) /\ Of(d) \subseteq Request
    BY <1>1 DEF Of
  <2> QED BY <1>3, <2>1 DEF Failed, Out, Queued
<1>5. Types' /\ UNCHANGED <<err_ctx, eh>>
  BY <1>2, <1>3 DEF Types, devVars
<1>6. Fits(kind[d], err_ctx[d], eh[d], Failed(d), Out(d) \ {r}, Queued(d))
  BY <1>2 DEF Fits
<1>7. Sound(d)'
  BY <1>4, <1>5, <1>6 DEF Sound
<1>8. \A q \in Request : DeviceOf[q] # d =>
          where'[q] = where[q] /\ (q \in ToSet(error_queue') <=> q \in ToSet(error_queue))
  BY <1>1, <1>3
<1> QED BY <1>3, <1>5, <1>7, <1>8, Elsewhere

\* core_queue_error_req of a new error: the device has something sent, so it is not being
\* recovered.
LEMMA NewErrorKeeps ==
    ASSUME Whole, NEW r \in Request, NEW x \in {"timeout", "error", "ncq"},
           core_queue_error_req(r, x)
    PROVE  Whole'
<1> USE DEF core_queue_error_req
<1>1. PICK d \in Device : d = DeviceOf[r]
  BY RequestAssumption
<1>2. Types /\ Once /\ Fits(kind[d], err_ctx[d], eh[d], Failed(d), Out(d), Queued(d))
  BY DEF Whole, Sound
<1>3. where[r] = "out" /\ r \in Out(d) /\ r \notin Failed(d)
  BY <1>1 DEF Out, Of, Failed
<1>4. err_ctx[d].eh_type = "none" /\ eh[d] = None
  BY <1>2, <1>3 DEF Fits
<1>5. \A q \in Request : where'[q] = IF q = r THEN "error" ELSE where[q]
  BY <1>2 DEF Types
<1>6. r \notin ToSet(error_queue)
  <2>1. r \notin Queued(d) /\ r \in Of(d)
    BY <1>1, <1>2, <1>3 DEF Fits, Of
  <2> QED BY <2>1 DEF Queued
<1>7. /\ error_queue' \in Seq(Request) /\ IsInjective(error_queue')
      /\ ToSet(error_queue') = ToSet(error_queue) \cup {r}
  BY <1>2, <1>6, PutLast DEF Types
<1> DEFINE F == Failed(d)
           c1 == [err_ctx[d] EXCEPT !.error_count = @ + 1]
<1>8. /\ Failed(d)' = F \cup {r} /\ Out(d)' = Out(d) \ {r} /\ Queued(d)' = Queued(d) \cup {r}
  <2>1. Of(d)' = Of(d) /\ r \in Of(d) /\ Of(d) \subseteq Request
    BY <1>1 DEF Of
  <2> QED BY <1>5, <1>7, <2>1 DEF Failed, Out, Queued
<1>9. Cardinality(F \cup {r}) = Cardinality(F) + 1 /\ Cardinality(F) \in Nat
  BY <1>3, OfDevice, FS_AddElement, FS_CardinalityType
<1>10. /\ c1 \in Context /\ c1.eh_type = "none" /\ c1.error_req = None
       /\ c1.error_count = Cardinality(F) + 1 /\ c1.state = err_ctx[d].state
       /\ c1.eh_state = err_ctx[d].eh_state
  BY <1>2, <1>4 DEF Fits, Context
<1>11. err_ctx' = [err_ctx EXCEPT ![d] = c1] /\ eh' = eh /\ kind' = kind
  BY <1>1
<1>12. Types'
  <2>1. where' \in [Request -> {"waiting", "out", "error", "done"}]
        /\ status' \in [Request -> {"success", "timeout", "error", "ncq"}]
    BY <1>2 DEF Types
  <2>2. device' = device /\ short' = short
    OBVIOUS
  <2>3. err_ctx' \in [Device -> Context]
    <3> HIDE DEF c1, core_queue_error_req
    <3> QED BY <1>2, <1>10, <1>11 DEF Types
  <2> HIDE DEF c1, core_queue_error_req
  <2> QED BY <1>2, <1>7, <1>11, <2>1, <2>2, <2>3, Zenon DEF Types
<1>13. err_ctx'[d] = c1 /\ \A e \in Device \ {d} : err_ctx'[e] = err_ctx[e]
  BY <1>2, <1>11 DEF Types
<1>14. Once'
  BY <1>2, <1>3, <1>5, NotGivenBack
<1> HIDE DEF c1, F, core_queue_error_req
<1>15. Fits(kind[d], c1, None, F \cup {r}, Out(d) \ {r}, Queued(d) \cup {r})
  <2>1. kind[d] = "atapi" => Out(d) = {r}
    BY <1>2, <1>3 DEF Fits
  <2>2. Queued(d) \subseteq F /\ F \subseteq Queued(d)
    BY <1>2, <1>4 DEF Fits, F
  <2> QED BY <1>9, <1>10, <2>1, <2>2 DEF Fits, Outstanding, InSspMachine
<1>16. Sound(d)'
  BY <1>4, <1>8, <1>11, <1>13, <1>15 DEF Sound, F
<1>17. \A q \in Request : DeviceOf[q] # d =>
          where'[q] = where[q] /\ (q \in ToSet(error_queue') <=> q \in ToSet(error_queue))
  BY <1>1, <1>5, <1>7
<1> QED BY <1>10, <1>11, <1>12, <1>13, <1>14, <1>16, <1>17, Elsewhere

\* The walk passes a request over: it goes to the tail.
LEMMA PassOverKeeps ==
    ASSUME Whole, error_queue # <<>>, NEW d, PassOver(Head(error_queue), d), kind' = kind
    PROVE  Whole'
<1>1. Types /\ Once
  BY DEF Whole
<1>2. /\ Head(error_queue) \in Request /\ Head(error_queue) \in ToSet(error_queue)
      /\ Tail(error_queue) \in Seq(Request) /\ IsInjective(Tail(error_queue))
      /\ ToSet(Tail(error_queue)) = ToSet(error_queue) \ {Head(error_queue)}
  BY <1>1, Behead DEF Types
<1>3. PICK r \in Request : r = Head(error_queue)
  BY <1>2
<1>4. PICK q \in Seq(Request) : q = Tail(error_queue)
  BY <1>2
<1>5. /\ Append(q, r) \in Seq(Request) /\ IsInjective(Append(q, r))
      /\ ToSet(Append(q, r)) = ToSet(q) \cup {r}
  <2>1. IsInjective(q) /\ r \notin ToSet(q)
    BY <1>2, <1>3, <1>4, Zenon
  <2> QED BY <2>1, PutLast
<1>6. error_queue' = Append(q, r) /\ UNCHANGED <<reqVars, devVars, short>>
  BY <1>3, <1>4 DEF PassOver
<1>7. ToSet(error_queue') = ToSet(error_queue)
  BY <1>2, <1>3, <1>4, <1>5, <1>6
<1>8. Types'
  BY <1>1, <1>5, <1>6 DEF Types, reqVars, devVars
<1>9. Once' /\ where' = where /\ err_ctx' = err_ctx /\ eh' = eh
  BY <1>1, <1>6, NotGivenBack DEF reqVars, devVars
<1> QED BY <1>7, <1>8, <1>9, SameDevices

\* What a device with a request at the head of the queue is like.
LEMMA AtHead ==
    ASSUME Whole, error_queue # <<>>, NEW r, r = Head(error_queue), NEW d, d = DeviceOf[r]
    PROVE  /\ r \in Request /\ d \in Device /\ r \in Failed(d) /\ where[r] = "error"
           /\ Tail(error_queue) \in Seq(Request) /\ IsInjective(Tail(error_queue))
           /\ ToSet(Tail(error_queue)) = ToSet(error_queue) \ {r}
           /\ kind[d] = "atapi" => Out(d) = {}
<1>1. /\ Types /\ r \in Request /\ r \in ToSet(error_queue)
      /\ Tail(error_queue) \in Seq(Request) /\ IsInjective(Tail(error_queue))
      /\ ToSet(Tail(error_queue)) = ToSet(error_queue) \ {r}
  BY Behead DEF Whole, Types
<1>2. d \in Device /\ r \in Queued(d)
  BY <1>1, RequestAssumption DEF Queued, Of
<1>3. Fits(kind[d], err_ctx[d], eh[d], Failed(d), Out(d), Queued(d))
  BY <1>2 DEF Whole, Sound
<1>4. r \in Failed(d) /\ where[r] = "error"
  BY <1>2, <1>3 DEF Fits, Failed
<1> QED BY <1>1, <1>2, <1>3, <1>4 DEF Fits

\* The walk gives a request back to its recovered device.
LEMMA SendAgainKeeps ==
    ASSUME Whole, error_queue # <<>>, NEW r, r = Head(error_queue), NEW d, d = DeviceOf[r],
           SendAgain(r, d), kind' = kind
    PROVE  Whole'
<1> USE DEF SendAgain
<1> DEFINE F == Failed(d)
           c1 == [err_ctx[d] EXCEPT !.error_count = @ - 1,
                        !.state = IF err_ctx[d].error_count = 1 THEN "none" ELSE @]
<1>1. /\ r \in Request /\ d \in Device /\ r \in F /\ where[r] = "error"
      /\ Tail(error_queue) \in Seq(Request) /\ IsInjective(Tail(error_queue))
      /\ ToSet(Tail(error_queue)) = ToSet(error_queue) \ {r}
      /\ kind[d] = "atapi" => Out(d) = {}
  BY AtHead
<1>2. Types /\ Once /\ Fits(kind[d], err_ctx[d], eh[d], Failed(d), Out(d), Queued(d))
  BY <1>1 DEF Whole, Sound
<1>3. err_ctx[d].eh_type = "none" /\ eh[d] = None /\ Queued(d) = F
  <2>1. err_ctx[d].eh_type = "none"
    BY <1>2 DEF Fits
  <2> QED BY <1>1, <2>1, NotRecovered
<1>4. \A q \in Request : where'[q] = IF q = r THEN "waiting" ELSE where[q]
  BY <1>2 DEF Types
<1>5. /\ Failed(d)' = F \ {r} /\ Out(d)' = Out(d) /\ Queued(d)' = Queued(d) \ {r}
  <2>1. Of(d)' = Of(d) /\ r \in Of(d) /\ Of(d) \subseteq Request
    BY <1>1 DEF Of
  <2>2. error_queue' = Tail(error_queue)
    OBVIOUS
  <2> QED BY <1>1, <1>4, <2>1, <2>2 DEF Failed, Out, Queued
<1>6. Cardinality(F \ {r}) = Cardinality(F) - 1 /\ Cardinality(F) \in Nat
      /\ Cardinality(F \ {r}) \in Nat
  BY <1>1, OfDevice, FS_RemoveElement, FS_CardinalityType
<1>7. /\ c1 \in Context /\ c1.eh_type = "none" /\ c1.error_req = None
      /\ c1.error_count = Cardinality(F) - 1 /\ c1.state # "handling"
      /\ c1.eh_state = err_ctx[d].eh_state
  BY <1>2, <1>3, <1>6 DEF Fits, Context
<1>8. err_ctx' = [err_ctx EXCEPT ![d] = c1] /\ eh' = eh
  BY <1>2
<1>9. err_ctx'[d] = c1 /\ \A e \in Device \ {d} : err_ctx'[e] = err_ctx[e]
  BY <1>1, <1>2, <1>8 DEF Types
<1>10. Types'
  <2>1. where' \in [Request -> {"waiting", "out", "error", "done"}]
    BY <1>2 DEF Types
  <2>2. UNCHANGED <<status, eh, device, short>> /\ error_queue' = Tail(error_queue)
    OBVIOUS
  <2>3. err_ctx' \in [Device -> Context]
    <3> HIDE DEF c1, SendAgain
    <3> QED BY <1>2, <1>7, <1>8 DEF Types
  <2> HIDE DEF c1, SendAgain
  <2> QED BY <1>1, <1>2, <2>1, <2>2, <2>3 DEF Types
<1>11. Once'
  BY <1>1, <1>2, <1>4, NotGivenBack
<1>12. \A q \in Request : DeviceOf[q] # d =>
          where'[q] = where[q] /\ (q \in ToSet(error_queue') <=> q \in ToSet(error_queue))
  BY <1>1, <1>4
<1> HIDE DEF c1, F, SendAgain
<1>13. Fits(kind[d], c1, None, F \ {r}, Out(d), Queued(d) \ {r})
  BY <1>1, <1>3, <1>6, <1>7 DEF Fits, Outstanding, InSspMachine
<1>14. Sound(d)'
  BY <1>3, <1>5, <1>8, <1>9, <1>13 DEF Sound
<1> QED BY <1>1, <1>7, <1>8, <1>9, <1>10, <1>11, <1>12, <1>14, Elsewhere

\* The context a recovery starts or is resumed with: of the request at the head, and at the
\* beginning of the machine if the device is a SAS disk.
LEMMA BegunIs ==
    ASSUME Whole, error_queue # <<>>, NEW r, r = Head(error_queue), NEW d, d = DeviceOf[r],
           ~port_is_running_error_handling(d), err_ctx[d].state # "handled"
    PROVE  /\ eh[d] = None
           /\ Failed(d) \ {r} \subseteq ToSet(Tail(error_queue))
           /\ Begun(r, d) \in Context
           /\ Begun(r, d).eh_type # "none" /\ Begun(r, d).state = "handling"
           /\ Begun(r, d).error_req = r /\ Begun(r, d).error_count = Cardinality(Failed(d))
           /\ err_ctx[d].eh_type = "none" => Begun(r, d).eh_state = "none"
           /\ Ssp(d) => Begun(r, d).eh_state = "none"
<1> DEFINE c0 == err_ctx[d]
           F == Failed(d)
<1>1. /\ r \in Request /\ d \in Device /\ r \in F
      /\ ToSet(Tail(error_queue)) = ToSet(error_queue) \ {r}
  BY AtHead
<1>2. Types /\ Fits(kind[d], c0, eh[d], F, Out(d), Queued(d))
  BY <1>1 DEF Whole, Sound
<1>3. eh[d] = None /\ c0.state = "none" /\ c0 \in Context
  <2>1. c0.state # "handling" /\ c0.state # "handled"
    BY <1>1 DEF SamePort, port_is_running_error_handling
  <2> QED BY <1>2, <2>1 DEF Fits, Context
<1>4. F = Queued(d) \/ F = {r}
  BY <1>1, <1>2, <1>3 DEF Fits
<1>5. F \ {r} \subseteq ToSet(Tail(error_queue))
  BY <1>1, <1>4 DEF Queued
<1>6. PICK c \in Context : c = Begun(r, d)
  <2>1. status[r] \in Status
    BY <1>1, <1>2 DEF Types, Status
  <2>2. CASE c0.eh_type = "none"
    <3>1. PICK s \in Status : s = IF Ssp(d) THEN c0.scsi_status ELSE status[r]
      BY <1>3, <2>1 DEF Context
    <3>2. PICK t \in {"timeout", "media"} : t = IF status[r] = "timeout" THEN "timeout" ELSE "media"
      OBVIOUS
    <3>3. Begun(r, d) = [c0 EXCEPT !.state = "handling", !.error_req = r, !.eh_state = "none",
                                   !.eh_type = t, !.scsi_status = s]
      BY <2>2, <3>1, <3>2 DEF Begun
    <3> HIDE DEF c0
    <3> QED BY <1>1, <1>3, <3>3 DEF Context, EhState
  <2>3. CASE c0.eh_type # "none"
    <3>1. Begun(r, d) = [c0 EXCEPT !.state = "handling"]
      BY <2>3 DEF Begun
    <3> HIDE DEF c0
    <3> QED BY <1>3, <3>1 DEF Context
  <2> QED BY <2>2, <2>3
<1>7. /\ c.eh_type # "none" /\ c.state = "handling" /\ c.error_req = r
      /\ c.error_count = Cardinality(F)
      /\ c0.eh_type = "none" => c.eh_state = "none"
      /\ c0.eh_type # "none" => c.eh_type = c0.eh_type /\ c.eh_state = c0.eh_state
  <2>1. c0.error_count = Cardinality(F) /\ (c0.eh_type # "none" => c0.error_req = r)
    BY <1>1, <1>2, <1>3 DEF Fits
  <2>2. CASE c0.eh_type = "none"
    <3>1. c = [c0 EXCEPT !.state = "handling", !.error_req = r, !.eh_state = "none",
                   !.eh_type = IF status[r] = "timeout" THEN "timeout" ELSE "media",
                   !.scsi_status = IF Ssp(d) THEN @ ELSE status[r]]
      BY <1>6, <2>2 DEF Begun
    <3> HIDE DEF c0
    <3> QED BY <1>3, <2>1, <2>2, <3>1 DEF Context
  <2>3. CASE c0.eh_type # "none"
    <3>1. c = [c0 EXCEPT !.state = "handling"]
      BY <1>6, <2>3 DEF Begun
    <3> HIDE DEF c0
    <3> QED BY <1>3, <2>1, <2>3, <3>1 DEF Context
  <2> QED BY <2>2, <2>3
<1>8. Ssp(d) => c.eh_state = "none"
  BY <1>2, <1>3, <1>7 DEF Fits, Ssp
<1> HIDE DEF c0, F
<1> QED BY <1>3, <1>5, <1>6, <1>7, <1>8, Zenon DEF c0, F

\* The walk starts or resumes a recovery.
LEMMA RecoverKeeps ==
    ASSUME Whole, LoneShort, error_queue # <<>>, NEW r, r = Head(error_queue), NEW d,
           d = DeviceOf[r], Recover(r, d), kind' = kind
    PROVE  Whole'
<1> DEFINE queue == Tail(error_queue)
           F == Failed(d)
<1>1. /\ r \in Request /\ d \in Device /\ r \in F
      /\ queue \in Seq(Request) /\ IsInjective(queue)
      /\ ToSet(queue) = ToSet(error_queue) \ {r}
      /\ kind[d] = "atapi" => Out(d) = {}
  BY AtHead
<1>2. Fits(kind[d], err_ctx[d], eh[d], F, Out(d), Queued(d))
  BY <1>1 DEF Whole, Sound
<1>3. /\ ~port_is_running_error_handling(d) /\ err_ctx[d].state # "handled"
      /\ \A e \in Device : SamePort(d, e) => err_ctx[e].state # "handling"
  BY DEF Recover, port_is_running_error_handling
<1>4. PICK c \in Context : c = Begun(r, d)
  BY <1>3, BegunIs
<1>5. /\ eh[d] = None /\ F \ {r} \subseteq ToSet(queue)
      /\ c.eh_type # "none" /\ c.state = "handling" /\ c.error_req = r
      /\ c.error_count = Cardinality(F)
      /\ err_ctx[d].eh_type = "none" => c.eh_state = "none"
  BY <1>3, <1>4, BegunIs
<1>6. Ssp(d) => c.eh_state = "none"
  BY <1>3, <1>4, BegunIs
<1>7. Ready(d, c, queue)
  BY <1>1, <1>5, <1>6 DEF Ready, InSspMachine
<1>8. PICK ok \in BOOLEAN : ok <=> Resumed(d)
  BY DEF Resumed
<1>9. Out(d) = {} \/ Machine(d, c, ok).abort
  <2>1. CASE err_ctx[d].eh_type # "none" \/ Ssp(d) \/ kind[d] = "atapi"
    BY <1>1, <1>2, <2>1 DEF Fits, Recover
  <2>2. CASE err_ctx[d].eh_type = "none" /\ ~Ssp(d) /\ kind[d] # "atapi"
    <3>1. Allowed(d, c, ok, Machine(d, c, ok))
      BY <1>1, <1>5, <2>2, MachineAllowed
    <3> QED BY <1>5, <2>2, <3>1 DEF Allowed
  <2> QED BY <2>1, <2>2
<1>10. PICK sc \in Context : sc = [c EXCEPT !.state = "none"]
  BY DEF Context
<1>11. PICK sq \in Seq(Request) :
          /\ sq = Append(queue, r) /\ IsInjective(sq) /\ ToSet(sq) = ToSet(queue) \cup {r}
  <2>1. r \notin ToSet(queue)
    BY <1>1
  <2> HIDE DEF queue
  <2>2. /\ Append(queue, r) \in Seq(Request) /\ IsInjective(Append(queue, r))
        /\ ToSet(Append(queue, r)) = ToSet(queue) \cup {r}
    BY <1>1, <2>1, PutLast
  <2> QED BY <2>2, Zenon
<1>12. Resumable(d, c, queue, sc, sq)
  <2>1. IsInjective(sq) /\ ToSet(sq) = ToSet(queue) \cup {r}
    BY <1>11
  <2>2. /\ sc.eh_type = c.eh_type /\ sc.eh_state = c.eh_state /\ sc.error_req = c.error_req
        /\ sc.error_count = c.error_count /\ sc.state = "none"
    BY <1>10 DEF Context
  <2> QED BY <1>5, <1>6, <2>1, <2>2 DEF Resumable
<1>13. Run(d, c, ok, queue, sc, sq)
  <2>1. NoResource(r, d) = sc /\ Begun(r, d) = c
    BY <1>4, <1>10 DEF NoResource
  <2>2. Run(d, Begun(r, d), Resumed(d), queue, NoResource(r, d), Append(queue, r))
    BY DEF Recover
  <2>3. Resumed(d) = ok
    BY <1>8 DEF Resumed
  <2> QED BY <1>11, <2>1, <2>2, <2>3, Zenon
<1>14. eh[d] # "expired"
  BY <1>5, NoneAssumption
<1> HIDE DEF queue, F
<1> QED BY <1>1, <1>3, <1>7, <1>9, <1>12, <1>13, <1>14, RunKeeps

LEMMA WalkStepKeeps == ASSUME Whole, LoneShort, WalkStep PROVE Whole'
<1>1. CASE UNCHANGED <<kind, reqVars, error_queue, devVars, short>>
  <2>1. Types' /\ Once' /\ UNCHANGED <<kind, err_ctx, eh, where>>
    BY <1>1 DEF Whole, Types, Once, GivenBackOnce, reqVars, devVars
  <2> QED BY <1>1, <2>1, SameDevices
<1>2. CASE error_queue # <<>> /\ \/ PassOver(Head(error_queue), DeviceOf[Head(error_queue)])
                                 \/ SendAgain(Head(error_queue), DeviceOf[Head(error_queue)])
                                 \/ Recover(Head(error_queue), DeviceOf[Head(error_queue)])
  <2>1. kind' = kind
    BY DEF WalkStep
  <2> QED BY <1>2, <2>1, PassOverKeeps, SendAgainKeeps, RecoverKeeps
<1> QED BY <1>1, <1>2, Zenon DEF WalkStep

\* A recovery goes on, in the completion routine of its request or when its timer expires.
LEMMA ContinueKeeps ==
    ASSUME Whole, LoneShort, NEW d \in Device, NEW x \in Status, NEW c \in Context,
           eh[d] # None, x = "success" \/ eh[d] # "expired",
           c = err_ctx[d] \/ c = [err_ctx[d] EXCEPT !.eh_type = "timeout", !.eh_state = "none"],
           Continue(d, c, x), kind' = kind
    PROVE  Whole'
<1> DEFINE c0 == err_ctx[d]
           r == c.error_req
           ok == x = "success"
<1>1. Types /\ Fits(kind[d], c0, eh[d], Failed(d), Out(d), Queued(d))
  BY DEF Whole, Sound
<1>2. /\ c0.eh_type # "none" /\ c0.state = "handling" /\ c0.error_req \in Failed(d)
      /\ c0.error_req \notin ToSet(error_queue) /\ Out(d) = {}
      /\ Failed(d) \ {c0.error_req} \subseteq ToSet(error_queue)
      /\ c0.error_count = Cardinality(Failed(d)) /\ c0 \in Context
  <2>1. c0.error_count = Cardinality(Failed(d)) /\ c0 \in Context
    BY <1>1 DEF Fits
  <2> QED BY <2>1, UnderRecovery
<1>3. /\ c.eh_type # "none" /\ c.state = "handling" /\ r = c0.error_req
      /\ c.error_count = Cardinality(Failed(d)) /\ (Ssp(d) => InSspMachine(c))
  <2>1. CASE c = c0
    BY <1>1, <1>2, <2>1 DEF Fits, Ssp
  <2>2. CASE c = [c0 EXCEPT !.eh_type = "timeout", !.eh_state = "none"]
    <3> HIDE DEF c0
    <3> QED BY <1>2, <2>2 DEF InSspMachine, Context
  <2> QED BY <2>1, <2>2
<1>4. r \in Request
  BY <1>2, <1>3, OfDevice
<1>5. error_queue \in Seq(Request) /\ IsInjective(error_queue)
  BY <1>1 DEF Types
<1>6. Ready(d, c, error_queue)
  BY <1>2, <1>3, <1>5 DEF Ready
<1>7. PICK sc \in Context : sc = PushedBack(d, c, x)
  <2>1. PushedBack(d, c, x) \in Context
    BY DEF PushedBack, Context
  <2> QED BY <2>1
<1>8. /\ sc.eh_type = c.eh_type /\ sc.eh_state = c.eh_state /\ sc.error_req = c.error_req
      /\ sc.error_count = c.error_count /\ sc.state # "handled"
      /\ Ssp(d) => sc.state = "handling"
  BY <1>3, <1>7 DEF PushedBack, Context
<1> DEFINE sq == IF Machine(d, c, ok).do = "send" THEN <<r>> \o error_queue ELSE error_queue
<1>9. /\ <<r>> \o error_queue \in Seq(Request) /\ IsInjective(<<r>> \o error_queue)
      /\ ToSet(<<r>> \o error_queue) = ToSet(error_queue) \cup {r}
  <2>1. r \notin ToSet(error_queue)
    BY <1>2, <1>3
  <2> HIDE DEF r
  <2> QED BY <1>4, <1>5, <2>1, PutFirst
<1>10. Machine(d, c, ok).do = "send" => Resumable(d, c, error_queue, sc, sq)
  BY <1>8, <1>9 DEF Resumable
<1>11. Run(d, c, ok, error_queue, sc, sq)
  BY <1>7, Zenon DEF Continue
<1>12. ok \in BOOLEAN /\ (ok \/ eh[d] # "expired")
  OBVIOUS
<1> HIDE DEF ok, sq
<1> QED BY <1>2, <1>6, <1>10, <1>11, <1>12, RunKeeps

\* Only the timer of a recovery is left to its routine after it has expired.
LEMMA CallbackKeeps ==
    ASSUME Whole, LoneShort, NEW d \in Device,
           NEW x \in {"success", "error", "sense", "timeout", "nodev", "gone"},
           error_handling_callback(d, x)
    PROVE  Whole'
<1> DEFINE c == err_ctx[d]
<1>1. eh[d] # None /\ eh[d] # "expired" /\ kind' = kind
  BY NoneAssumption DEF error_handling_callback, EhRequest
<1>2. Types /\ Fits(kind[d], c, eh[d], Failed(d), Out(d), Queued(d))
  BY DEF Whole, Sound
<1>3. /\ c.eh_type # "none" /\ c.state = "handling" /\ c.error_req \in Failed(d)
      /\ c.error_req \notin ToSet(error_queue)
      /\ Failed(d) \ {c.error_req} \subseteq ToSet(error_queue)
      /\ error_queue \in Seq(Request) /\ IsInjective(error_queue)
      /\ c.error_count = Cardinality(Failed(d)) /\ c \in Context
      /\ Ssp(d) => InSspMachine(c)
  <2>1. /\ error_queue \in Seq(Request) /\ IsInjective(error_queue)
        /\ c.error_count = Cardinality(Failed(d)) /\ c \in Context
        /\ Ssp(d) => InSspMachine(c)
    BY <1>2 DEF Types, Fits, Ssp
  <2> QED BY <1>1, <2>1, UnderRecovery
<1>4. CASE pal_set_down_disk(d, c, error_queue)
  BY <1>1, <1>3, <1>4, SetDownKeeps
<1>5. CASE \E y : core_complete_error_req(d, c, y, error_queue)
  <2>1. Ready(d, c, error_queue)
    BY <1>3 DEF Ready
  <2>2. PICK y : core_complete_error_req(d, c, y, error_queue)
    BY <1>5
  <2>3. device' \in [Device -> {"ok", "frozen", "gone"}]
    BY <1>2, <2>2 DEF Types, core_complete_error_req
  <2> HIDE DEF c
  <2> QED BY <1>1, <1>3, <2>1, <2>2, <2>3, CompleteKeeps DEF core_complete_error_req
<1>6. CASE Continue(d, TimedOut(c, x), x)
  <2>1. TimedOut(c, x) = c \/ TimedOut(c, x) = [c EXCEPT !.eh_type = "timeout", !.eh_state = "none"]
    BY DEF TimedOut
  <2>2. PICK t \in Context : t = TimedOut(c, x)
    <3>1. [c EXCEPT !.eh_type = "timeout", !.eh_state = "none"] \in Context
      BY <1>3 DEF Context, EhState
    <3> QED BY <1>3, <2>1, <3>1
  <2>3. x \in Status
    BY DEF Status
  <2>4. Continue(d, t, x)
    BY <1>6, <2>2, Zenon
  <2> QED BY <1>1, <2>1, <2>2, <2>3, <2>4, ContinueKeeps
<1> QED BY <1>4, <1>5, <1>6, Zenon DEF error_handling_callback

LEMMA ExpireKeeps == ASSUME Whole, NEW d \in Device, Expire(d) PROVE Whole'
<1>1. Types /\ Once /\ Fits(kind[d], err_ctx[d], eh[d], Failed(d), Out(d), Queued(d))
  BY DEF Whole, Sound
<1>2. eh[d] = "timer" /\ eh' = [eh EXCEPT ![d] = "expired"]
      /\ UNCHANGED <<kind, where, status, given, error_queue, err_ctx, device, short>>
  BY DEF Expire, reqVars
<1>3. Types'
  BY <1>1, <1>2 DEF Types, Outstanding
<1>4. Once'
  BY <1>1, <1>2, NotGivenBack
<1>5. eh'[d] = "expired" /\ \A e \in Device \ {d} : eh'[e] = eh[e]
  BY <1>1, <1>2 DEF Types
<1>6. Failed(d)' = Failed(d) /\ Out(d)' = Out(d) /\ Queued(d)' = Queued(d)
  BY <1>2 DEF Failed, Out, Queued, Of
<1>7. Fits(kind[d], err_ctx[d], "expired", Failed(d), Out(d), Queued(d))
  BY <1>1, <1>2, NoneAssumption DEF Fits, Outstanding
<1>8. Sound(d)'
  BY <1>2, <1>5, <1>6, <1>7 DEF Sound
<1> QED BY <1>2, <1>3, <1>4, <1>5, <1>8, Elsewhere

LEMMA WaitKeeps == ASSUME Whole, LoneShort, NEW d \in Device, wait_hard_reset(d) PROVE Whole'
<1>1. eh[d] # None /\ kind' = kind /\ Continue(d, err_ctx[d], "success")
  BY NoneAssumption DEF wait_hard_reset
<1>2. PICK c \in Context : c = err_ctx[d]
  BY DEF Whole, Types
<1>3. Continue(d, c, "success") /\ "success" \in Status
  BY <1>1, <1>2, Zenon DEF Status
<1> QED BY <1>1, <1>2, <1>3, ContinueKeeps

LEMMA UnplugKeeps == ASSUME Whole, QuietUnplug, NEW d \in Device, Unplug(d) PROVE Whole'
<1>1. error_queue \in Seq(Request) /\ IsInjective(error_queue)
  BY DEF Whole, Types
<1>2. PICK c : c = err_ctx[d]
  OBVIOUS
<1>3. pal_set_down_disk(d, c, error_queue)
  BY <1>2, Zenon DEF Unplug
<1>4. c.error_req \notin ToSet(error_queue) /\ eh[d] # "expired" /\ kind' = kind
  BY <1>2 DEF Unplug
<1> QED BY <1>1, <1>3, <1>4, SetDownKeeps

LEMMA StillKeeps ==
    ASSUME Whole, UNCHANGED <<kind, reqVars, error_queue, devVars, short>> PROVE Whole'
<1>1. Types' /\ Once' /\ UNCHANGED <<kind, err_ctx, eh, where, error_queue>>
  BY DEF Whole, Types, Once, GivenBackOnce, reqVars, devVars
<1> QED BY <1>1, SameDevices

LEMMA NextKeeps == ASSUME Whole, LoneShort, QuietUnplug, [Next]_vars PROVE Whole'
<1>1. CASE WalkBegin
  BY <1>1, StillKeeps DEF WalkBegin
<1>2. CASE WalkStep
  BY <1>2, WalkStepKeeps
<1>3. ASSUME NEW r \in Request, prot_send_request(r) PROVE Whole'
  <2>1. kind' = kind /\ UNCHANGED <<status, error_queue, devVars, short>> /\ where[r] = "waiting"
    BY <1>3 DEF prot_send_request
  <2>2. CASE GiveBack({r})
    BY <2>1, <2>2, GiveBackKeeps
  <2>3. CASE ~GiveBack({r})
    BY <1>3, <2>1, <2>3, SendKeeps DEF prot_send_request
  <2> QED BY <2>2, <2>3
<1>4. ASSUME NEW r \in Request, Succeed(r) PROVE Whole'
  BY <1>4, GiveBackKeeps DEF Succeed
<1>5. ASSUME NEW r \in Request, NEW x \in {"timeout", "error", "ncq"}, core_queue_error_req(r, x)
      PROVE  Whole'
  BY <1>5, NewErrorKeeps
<1>6. ASSUME NEW d \in Device,
             \/ \E x \in {"success", "error", "sense", "timeout", "nodev", "gone"} :
                    error_handling_callback(d, x)
             \/ Expire(d) \/ wait_hard_reset(d) \/ Unplug(d)
      PROVE  Whole'
  BY <1>6, CallbackKeeps, ExpireKeeps, WaitKeeps, UnplugKeeps
<1>7. CASE UNCHANGED vars
  BY <1>7, StillKeeps DEF vars
<1> QED BY <1>1, <1>2, <1>3, <1>4, <1>5, <1>6, <1>7, Zenon DEF Next

LEMMA Inductive == Spec => []IInv
<1>1. Init => IInv
  BY InitWhole DEF IInv
<1>2. IInv /\ [Next]_vars => IInv'
  BY NextKeeps DEF IInv
<1> QED BY <1>1, <1>2, PTL DEF Spec

-----------------------------------------------------------------------------
(***************************************************************************)
(* The theorems.                                                           *)
(***************************************************************************)

LEMMA WholeTyped == ASSUME Whole PROVE TypeOK
<1>1. Types /\ given \in [Request -> Nat] /\ GivenBackOnce
  BY DEF Whole, Once
<1>2. given \in [Request -> 0..2]
  <2>1. \A r \in Request : given[r] \in 0..2
    BY <1>1 DEF GivenBackOnce
  <2> QED BY <1>1, <2>1
<1>3. ASSUME NEW d \in Device PROVE err_ctx[d].error_count \in 0..Cardinality(Of(d))
  <2>1. err_ctx[d].error_count = Cardinality(Failed(d))
    BY DEF Whole, Sound, Fits
  <2>2. /\ Cardinality(Failed(d)) \in Nat /\ Cardinality(Of(d)) \in Nat
        /\ Cardinality(Failed(d)) <= Cardinality(Of(d))
    BY OfDevice, FS_Subset, FS_CardinalityType
  <2> QED BY <2>1, <2>2
<1>4. ASSUME NEW d \in Device
      PROVE  /\ err_ctx[d].state \in {"none", "handling", "handled"}
             /\ err_ctx[d].eh_type \in {"none", "timeout", "media"}
             /\ err_ctx[d].error_req \in Request \cup {None}
             /\ eh[d] \in EhRequest \cup {"timer", "expired", None}
             /\ device[d] \in {"ok", "frozen", "gone"}
  <2>1. err_ctx[d] \in Context /\ eh[d] \in Outstanding /\ device[d] \in {"ok", "frozen", "gone"}
    BY <1>1 DEF Types
  <2> QED BY <2>1 DEF Context, Outstanding
<1> QED BY <1>1, <1>2, <1>3, <1>4 DEF TypeOK, Types

LEMMA WholeLosesNone == ASSUME Whole PROVE NoErrorLost
<1>1. Types
  BY DEF Whole
<1>2. ASSUME NEW r \in Request
      PROVE  where[r] = "error" <=>
               (r \in ToSet(error_queue))
                 # (Recovering(DeviceOf[r]) /\ err_ctx[DeviceOf[r]].error_req = r)
  <2>1. PICK d \in Device : d = DeviceOf[r]
    BY RequestAssumption
  <2>2. Fits(kind[d], err_ctx[d], eh[d], Failed(d), Out(d), Queued(d))
    BY DEF Whole, Sound
  <2>3. (r \in Failed(d) <=> where[r] = "error") /\ (r \in Queued(d) <=> r \in ToSet(error_queue))
    BY <2>1 DEF Failed, Queued, Of
  <2>4. /\ r \in Queued(d) => r \in Failed(d)
        /\ r \in Queued(d) => ~(eh[d] # None /\ err_ctx[d].error_req = r)
        /\ r \in Failed(d) => r \in Queued(d) \/ (eh[d] # None /\ err_ctx[d].error_req = r)
        /\ eh[d] # None /\ err_ctx[d].error_req = r => r \in Failed(d)
    BY <2>2 DEF Fits
  <2>5. where[r] = "error" <=>
          ~(r \in ToSet(error_queue) <=> (eh[d] # None /\ err_ctx[d].error_req = r))
    BY <2>3, <2>4, Zenon
  <2> QED BY <2>1, <2>5 DEF Recovering
<1>3. ASSUME NEW d \in Device
      PROVE  /\ Recovering(d) => err_ctx[d].error_req # None
             /\ err_ctx[d].error_count = Cardinality({r \in Of(d) : where[r] = "error"})
  <2>1. Fits(kind[d], err_ctx[d], eh[d], Failed(d), Out(d), Queued(d))
    BY DEF Whole, Sound
  <2>2. None \notin Failed(d)
    BY OfDevice, NoneAssumption
  <2> QED BY <2>1, <2>2 DEF Fits, Recovering, Failed
<1> QED BY <1>1, <1>2, <1>3, WholeTyped DEF NoErrorLost, Types

\* Whatever recoveries bring, of any number of devices of any kinds: a failed request is on
\* the error queue once or under recovery, and error_count counts the failed requests.
THEOREM ErrorsKept == Spec => [](LoneShort /\ QuietUnplug => NoErrorLost)
<1>1. IInv => (LoneShort /\ QuietUnplug => NoErrorLost)
  BY WholeLosesNone DEF IInv
<1> QED BY Inductive, <1>1, PTL

\* The recoveries of a port exclude each other, and the device's ordinary requests.
THEOREM RecoveriesExclude == Spec => [](LoneShort /\ QuietUnplug => RecoversAlone)
<1>1. ASSUME Whole PROVE RecoversAlone
  <2> SUFFICES ASSUME NEW d \in Device, Recovering(d)
               PROVE  /\ Out(d) = {}
                      /\ \A e \in Device \ {d} : SamePort(d, e) => ~Recovering(e)
    BY DEF RecoversAlone
  <2>1. \A e \in Device : Recovering(e) => Out(e) = {} /\ err_ctx[e].state = "handling"
    BY <1>1, UnderRecovery DEF Recovering
  <2>2. \A e \in Device : SamePort(d, e) /\ err_ctx[e].state = "handling" => d = e
    BY <1>1, <2>1 DEF Whole, Alone
  <2> QED BY <2>1, <2>2
<1>2. IInv => (LoneShort /\ QuietUnplug => RecoversAlone)
  BY <1>1 DEF IInv
<1> QED BY Inductive, <1>2, PTL

\* No request is given back twice, nor without having been finished.
THEOREM AllGivenBackOnce == Spec => [](LoneShort /\ QuietUnplug => GivenBackOnce)
<1>1. IInv => (LoneShort /\ QuietUnplug => GivenBackOnce)
  BY DEF IInv, Whole, Once
<1> QED BY Inductive, <1>1, PTL

\* The walk, which holds error_queue_SpinLock, never calls what takes it again: the machines
\* of SAS disks set a disk down only when a recovery request has failed, and the walk starts
\* them from the beginning.
THEOREM WalkSetsNoneDown ==
    ASSUME LoneShort, QuietUnplug PROVE Spec => NoSetDownInWalk
<1>1. ASSUME Whole, [Next]_vars, walk.on PROVE device' = device \/
          \E d \in Device : device' = [device EXCEPT ![d] = "frozen"]
  <2>1. ASSUME NEW r, NEW d, error_queue # <<>>, r = Head(error_queue), d = DeviceOf[r],
               Recover(r, d)
        PROVE  device' = device \/ device' = [device EXCEPT ![d] = "frozen"]
    <3>1. PICK c \in Context : c = Begun(r, d)
      BY <1>1, <2>1, BegunIs DEF Recover
    <3>2. c.eh_type # "none" /\ (Ssp(d) => c.eh_state = "none") /\ d \in Device
      BY <1>1, <2>1, <3>1, BegunIs, AtHead DEF Recover
    <3>3. PICK ok \in BOOLEAN : ok = Resumed(d)
      BY DEF Resumed
    <3>4. Allowed(d, c, ok, Machine(d, c, ok))
      BY <3>2, MachineAllowed DEF InSspMachine
    <3>5. Machine(d, c, ok).do # "down"
      BY <3>2, <3>4 DEF Allowed
    <3>6. Run(d, c, ok, Tail(error_queue), NoResource(r, d), Append(Tail(error_queue), r))
      BY <2>1, <3>1, <3>3, Zenon DEF Recover
    <3> QED BY <3>5, <3>6 DEF Run, core_complete_error_req
  <2>2. CASE WalkStep
    <3>1. CASE error_queue # <<>> /\ Recover(Head(error_queue), DeviceOf[Head(error_queue)])
      BY <1>1, <2>1, <3>1, AtHead
    <3>2. CASE ~(error_queue # <<>> /\ Recover(Head(error_queue), DeviceOf[Head(error_queue)]))
      BY <2>2, <3>2 DEF WalkStep, PassOver, SendAgain, devVars
    <3> QED BY <3>1, <3>2
  <2>3. CASE ~WalkStep
    BY <1>1, <2>3 DEF Next, WalkBegin, prot_send_request, Succeed, core_queue_error_req,
       error_handling_callback, Expire, wait_hard_reset, Unplug, devVars, vars
  <2> QED BY <2>2, <2>3
<1>2. ASSUME Whole, [Next]_vars
      PROVE  walk.on => \A d \in Device : device'[d] = "gone" => device[d] = "gone"
  BY <1>1, <1>2 DEF Whole, Types
<1>3. IInv /\ [Next]_vars =>
         [walk.on => \A d \in Device : device'[d] = "gone" => device[d] = "gone"]_vars
  BY <1>2 DEF IInv
<1> QED BY Inductive, <1>3, PTL DEF Spec, NoSetDownInWalk
=============================================================================
