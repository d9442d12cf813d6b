-------------------------- MODULE BringUp_proofs --------------------------
(***************************************************************************)
(* Proofs about BringUp, for any number of ports and of slots behind a     *)
(* multiplier, any retry limits and any number of failures, plugs and      *)
(* changes: every entry is counted as long as it lives, the machines of a  *)
(* port take turns, and nothing that was found is forgotten.               *)
(*                                                                         *)
(* The invariant is kept per port.  The counts are those of the entries in *)
(* the queue or out with a request or a timer, and part 1 says what each   *)
(* operation of the queue does to them.  At any time a port has nothing to *)
(* be initialised, or its own entry, or that of its multiplier, or disks;  *)
(* part 2 shows of every action that it goes from one of the four to one   *)
(* of the four, and leaves the other ports alone.  Part 3 puts the two     *)
(* together: the invariant always holds, and the properties follow.        *)
(***************************************************************************)
EXTENDS BringUp, Integers, SequenceTheorems, FiniteSetTheorems, WellFoundedInduction, TLAPS

PmRecord == [up : BOOLEAN, state : PmState, active_port : Slot, retry_cnt : Nat,
             srst_retry_cnt : Nat, hot : BOOLEAN, global_serror : SUBSET Slot]
InitRecord == [queue : Seq(Base), count : Nat, port : [Port -> Nat],
               retry : [Base -> 0 .. RetryLimit + 1]]

\* What is there, what it signals, and how far the ports are.
WorldTyped ==
    /\ core_state \in {"STARTING", "STARTED"}
    /\ attached \in [Port -> {"none", "disk", "pm"}]
    /\ present \in [Port -> SUBSET Slot] /\ serror \in [Port -> SUBSET Slot]
    /\ signature \in [Port -> {"none", "disk", "pm"}] /\ owes \in [Port -> BOOLEAN]
    /\ port_state \in [Port -> {"POWER_ON", "SOFT_RESET_1", "SOFT_RESET_0", "WAIT_SIG", "SIG_DONE"}]
    /\ event_queue \in Seq(Port \X {"async", "phy"})
    /\ handling # None =>
          /\ handling.port \in Port
          /\ handling = [port |-> handling.port, irq |-> handling.irq, step |-> handling.step]
MachinesTyped == disk \in [Disk -> DiskState] /\ pm \in [Port -> PmRecord]

\* What is counted, and what of it belongs to a port.
AtPort(entries, p) == {b \in entries : PortOf(b) = p}

\* The counts cover the entries, and are exact unless something was leaked.
Sums(i, entries, leak) ==
    /\ i.count >= Cardinality(entries)
    /\ \A p \in Port : i.port[p] >= Cardinality(AtPort(entries, p))
    /\ ~leak => /\ i.count = Cardinality(entries)
                /\ \A p \in Port : i.port[p] = Cardinality(AtPort(entries, p))

\* Every entry is queued once or out, and counted.
Books(i, out, leak) ==
    /\ i \in InitRecord /\ out \in SUBSET Base
    /\ IsInjective(i.queue) /\ Queued(i) \cap out = {}
    /\ Sums(i, Queued(i) \cup out, leak)

Counted == sent \cap timer = {} /\ Books(init, sent \cup timer, "short" \in lapses)

\* A port has nothing or disks to be initialised, or its multiplier, or itself.
Turn(p) ==
    \/ AtPort(Pending, p) \subseteq DisksOf(p)
    \/ AtPort(Pending, p) = {<<p, Pm>>}
    \/ AtPort(Pending, p) = {<<p, PortPart>>}
DiskRuns(d) ==
    /\ d \in Pending => Known(d)
    /\ d \in sent => disk[d] \in DOMAIN NextSetup
    /\ Known(d) => init.retry[d] <= RetryLimit
    /\ disk[d] = "IDLE" => d[2] \in Slot
PmRuns(p) ==
    /\ <<p, Pm>> \in Pending =>
          /\ init.retry[<<p, Pm>>] <= RetryLimit
          /\ SoftReset(pm[p]) => Known(<<p, pm[p].active_port>>)
    /\ <<p, PortPart>> \in Pending => pm[p] = NewPm
Settled(p) ==
    handling # None /\ handling.port = p /\ handling.step = "settle" => AtPort(Pending, p) = {}
InTurn(p) == Turn(p) /\ (\A d \in DisksOf(p) : DiskRuns(d)) /\ PmRuns(p) /\ Settled(p)

\* While nothing was left unfinished, what is not at rest is being initialised.
Remembered(p) ==
    /\ \A d \in DisksOf(p) :
          /\ disk[d] \notin {"gone", "INIT_DONE", "IDLE"} => d \in Pending
          /\ disk[d] = "IDLE" => d \in Pending \/ <<p, Pm>> \in Pending
    /\ pm[p].up /\ pm[p].state # "DONE" => <<p, Pm>> \in Pending \/ <<p, PortPart>> \in Pending
    /\ <<p, Pm>> \in Pending /\ pm[p].state = "READ_GLOBAL_ERROR" => IdleDisks(p) = {}
Unlapsed == lapses \cap {"short", "srst", "dropped"} = {}

\* Of two disks with one name at most one is past the check.
Past(d) == Identified(d) /\ disk[d] # "IDENTIFY_DONE"
OnePast == \A d, e \in Disk : {d, e} \in Twin => ~(Past(d) /\ Past(e))

Inv == /\ WorldTyped /\ MachinesTyped /\ Counted /\ OnePast
        /\ \A p \in Port : InTurn(p) /\ (Unlapsed => Remembered(p))

-----------------------------------------------------------------------------
(***************************************************************************)
(* Part 1: sequences, numbers, and the books.                              *)
(***************************************************************************)

\* The elements of a sequence are those at its positions.
LEMMA Positions ==
    ASSUME NEW S, NEW q \in Seq(S)
    PROVE  /\ Len(q) \in Nat /\ DOMAIN q = 1..Len(q)
           /\ \A i \in 1..Len(q) : q[i] \in S /\ q[i] \in ToSet(q)
           /\ \A x \in ToSet(q) : x \in S /\ \E i \in 1..Len(q) : q[i] = x
<1>1. Len(q) \in Nat /\ DOMAIN q = 1..Len(q) /\ \A i \in 1..Len(q) : q[i] \in S
  BY LenProperties, ElementOfSeq
<1>2. /\ \A i \in 1..Len(q) : q[i] \in ToSet(q)
      /\ \A x \in ToSet(q) : \E i \in 1..Len(q) : q[i] = x
  BY <1>1 DEF ToSet
<1> QED BY <1>1, <1>2

\* The empty sequence holds nothing, once.
LEMMA Nothing == IsInjective(<<>>) /\ ToSet(<<>>) = {} /\ \A S : <<>> \in Seq(S)
<1>1. DOMAIN <<>> = {}
  BY EmptySeq, LenProperties
<1> QED BY <1>1, EmptySeq DEF IsInjective, ToSet

\* A queue without its first entry holds all the others, each as often as before.
LEMMA Behead ==
    ASSUME NEW S, NEW q \in Seq(S), q # <<>>, IsInjective(q)
    PROVE  /\ Head(q) \in S /\ Head(q) \in ToSet(q)
           /\ Tail(q) \in Seq(S) /\ IsInjective(Tail(q))
           /\ ToSet(Tail(q)) = ToSet(q) \ {Head(q)}
<1> DEFINE n == Len(q)
           t == Tail(q)
<1>1. /\ n \in Nat \ {0} /\ DOMAIN q = 1..n /\ Head(q) = q[1] /\ Head(q) \in S
  BY EmptySeq, LenProperties, HeadTailProperties
<1>2. /\ t \in Seq(S) /\ Len(t) = n - 1 /\ DOMAIN t = 1..n-1
      /\ \A i \in 1..n-1 : t[i] = q[i+1]
  BY HeadTailProperties, LenProperties
<1>3. \A i, j \in 1..n : q[i] = q[j] => i = j
  BY <1>1 DEF IsInjective
<1> HIDE DEF n, t
<1>4. IsInjective(t)
  <2> SUFFICES ASSUME NEW i \in 1..n-1, NEW j \in 1..n-1, t[i] = t[j] PROVE i = j
    BY <1>2 DEF IsInjective
  <2>1. i + 1 \in 1..n /\ j + 1 \in 1..n /\ q[i+1] = q[j+1]
    BY <1>1, <1>2
  <2>2. i + 1 = j + 1
    BY <1>3, <2>1
  <2>3. i \in Int /\ j \in Int
    BY <1>1
  <2> QED BY <2>2, <2>3
<1>5. ToSet(t) = ToSet(q) \ {Head(q)}
  <2>1. ASSUME NEW i \in 1..n-1 PROVE t[i] \in ToSet(q) /\ t[i] # Head(q)
    <3>1. i + 1 \in 1..n /\ 1 \in 1..n /\ i + 1 # 1 /\ t[i] = q[i+1]
      BY <1>1, <1>2
    <3>2. q[i+1] # q[1]
      BY <1>3, <3>1
    <3> QED BY <1>1, <3>1, <3>2 DEF ToSet
  <2>2. ASSUME NEW i \in 1..n, q[i] # Head(q) PROVE q[i] \in ToSet(t)
    <3>1. i - 1 \in 1..n-1 /\ t[i-1] = q[i]
      BY <1>1, <1>2, <2>2
    <3> QED BY <1>2, <3>1 DEF ToSet
  <2>3. \A x \in ToSet(t) : \E i \in 1..n-1 : x = t[i]
    BY <1>2 DEF ToSet
  <2>4. \A x \in ToSet(q) : \E i \in 1..n : x = q[i]
    BY <1>1 DEF ToSet
  <2> QED BY <2>1, <2>2, <2>3, <2>4
<1>6. Head(q) \in ToSet(q)
  BY <1>1 DEF ToSet
<1> QED BY <1>1, <1>2, <1>4, <1>5, <1>6 DEF t

\* A queue with one entry more at its end.
LEMMA PutLast ==
    ASSUME NEW S, NEW q \in Seq(S), NEW m \in S, IsInjective(q), m \notin ToSet(q)
    PROVE  /\ Append(q, m) \in Seq(S) /\ IsInjective(Append(q, m))
           /\ ToSet(Append(q, m)) = ToSet(q) \cup {m}
<1> DEFINE n == Len(q)
           o == Append(q, m)
<1>1. /\ n \in Nat /\ \A i \in 1..n : q[i] \in ToSet(q)
      /\ \A x \in ToSet(q) : \E i \in 1..n : q[i] = x
  BY Positions
<1>2. \A i, j \in 1..n : q[i] = q[j] => i = j
  BY Positions DEF IsInjective
<1>3. o \in Seq(S) /\ Len(o) = n+1 /\ o[n+1] = m /\ \A i \in 1..n : o[i] = q[i]
  BY AppendProperties
<1>4. DOMAIN o = 1..n+1
  BY <1>3, LenProperties
<1> HIDE DEF n, o
<1>5. /\ \A i \in 1..n+1 : i \in 1..n \/ i = n+1
      /\ n+1 \in 1..n+1 /\ 1..n \subseteq 1..n+1
  BY <1>1
<1>6. IsInjective(o)
  <2> SUFFICES ASSUME NEW i \in 1..n+1, NEW j \in 1..n+1, o[i] = o[j] PROVE i = j
    BY <1>4 DEF IsInjective
  <2> QED BY <1>1, <1>2, <1>3, <1>5
<1>7. /\ \A i \in 1..n+1 : o[i] \in ToSet(o)
      /\ \A x \in ToSet(o) : \E i \in 1..n+1 : o[i] = x
  BY <1>4 DEF ToSet
<1>8. \A x : x \in ToSet(o) <=> x \in ToSet(q) \/ x = m
  BY <1>1, <1>3, <1>5, <1>7
<1> QED BY <1>3, <1>6, <1>8 DEF o

\* A queue with one entry more in front.
LEMMA PutFirst ==
    ASSUME NEW S, NEW q \in Seq(S), NEW m \in S, IsInjective(q), m \notin ToSet(q)
    PROVE  /\ <<m>> \o q \in Seq(S) /\ IsInjective(<<m>> \o q)
           /\ ToSet(<<m>> \o q) = ToSet(q) \cup {m} /\ <<m>> \o q # <<>>
<1> DEFINE n == Len(q)
           o == <<m>> \o q
<1>1. /\ n \in Nat /\ \A i \in 1..n : q[i] \in ToSet(q)
      /\ \A x \in ToSet(q) : \E i \in 1..n : q[i] = x
  BY Positions
<1>2. \A i, j \in 1..n : q[i] = q[j] => i = j
  BY Positions DEF IsInjective
<1>3. /\ o \in Seq(S) /\ Len(o) = 1 + n
      /\ \A i \in 1..1+n : o[i] = IF i <= 1 THEN <<m>>[i] ELSE q[i - 1]
  <2>1. <<m>> \in Seq(S) /\ Len(<<m>>) = 1
    OBVIOUS
  <2> QED BY <2>1, ConcatProperties
<1>4. DOMAIN o = 1..1+n
  BY <1>3, LenProperties
<1> HIDE DEF n, o
<1>5. /\ o[1] = m /\ 1 \in 1..1+n /\ \A i \in 2..1+n : i - 1 \in 1..n /\ o[i] = q[i - 1]
      /\ \A i \in 1..1+n : i = 1 \/ i \in 2..1+n
      /\ \A i \in 1..n : i + 1 \in 2..1+n /\ i + 1 \in 1..1+n /\ o[i + 1] = q[i]
  BY <1>1, <1>3
<1>6. IsInjective(o)
  <2> SUFFICES ASSUME NEW i \in 1..1+n, NEW j \in 1..1+n, o[i] = o[j] PROVE i = j
    BY <1>4 DEF IsInjective
  <2>1. CASE i = 1 \/ j = 1
    BY <1>1, <1>5, <2>1
  <2>2. CASE i \in 2..1+n /\ j \in 2..1+n
    <3>1. i - 1 = j - 1
      BY <1>2, <1>5, <2>2
    <3> QED BY <3>1
  <2> QED BY <1>5, <2>1, <2>2
<1>7. /\ \A i \in 1..1+n : o[i] \in ToSet(o)
      /\ \A x \in ToSet(o) : \E i \in 1..1+n : o[i] = x
  BY <1>4 DEF ToSet
<1>8. ASSUME NEW x \in ToSet(o) PROVE x \in ToSet(q) \/ x = m
  <2>1. PICK i \in 1..1+n : o[i] = x
    BY <1>7
  <2> QED BY <1>1, <1>5, <2>1
<1>9. ASSUME NEW x \in ToSet(q) PROVE x \in ToSet(o)
  <2>1. PICK i \in 1..n : q[i] = x
    BY <1>1
  <2> QED BY <1>5, <1>7, <2>1
<1>10. m \in ToSet(o) /\ o # <<>>
  BY <1>5, <1>7, <1>4, Nothing, EmptySeq, LenProperties
<1> QED BY <1>3, <1>6, <1>8, <1>9, <1>10 DEF o

\* Induction over the natural numbers, for sets.
LEMMA Induct ==
    ASSUME NEW S, 0 \in S, \A n \in Nat : n \in S => n + 1 \in S
    PROVE  \A n \in Nat : n \in S
<1> DEFINE Smaller == {ss \in Nat \X Nat : ss[1] < ss[2]}
           Outside == Nat \ S
<1> SUFFICES ASSUME Outside # {} PROVE FALSE
  OBVIOUS
<1>1. IsWellFoundedOn(Smaller, Nat)
  BY NatLessThanWellFounded, Zenon DEF OpToRel
<1>2. PICK m \in Outside : \A t \in Outside : <<t, m>> \notin Smaller
  <2>1. Outside \subseteq Nat
    OBVIOUS
  <2> HIDE DEF Smaller, Outside
  <2> QED BY <1>1, <2>1, WFMin
<1>3. m \in Nat /\ m \notin S /\ m # 0
  BY <1>2
<1>4. m - 1 \in Nat /\ m - 1 < m /\ m = (m - 1) + 1
  BY <1>3
<1>5. m - 1 \notin Outside
  BY <1>2, <1>3, <1>4
<1> QED BY <1>3, <1>4, <1>5

-----------------------------------------------------------------------------
\* What a port consists of.
LEMMA Parts ==
    /\ 0 .. Direct \subseteq Part /\ Pm \in Part /\ PortPart \in Part
    /\ Pm \notin 0 .. Direct /\ PortPart \notin 0 .. Direct /\ Pm # PortPart
    /\ Slot \subseteq 0 .. Direct /\ Direct \in 0 .. Direct /\ Direct \notin Slot
    /\ \A n \in Part : n \in 0 .. Direct \/ n = Pm \/ n = PortPart
    /\ 0 \in Slot /\ NumSlots \in Nat
  BY PartAssumption DEF Direct, Pm, PortPart, Slot

\* Every entry is a disk, a multiplier or a port, and belongs to one port.
LEMMA Bases ==
    /\ Disk \subseteq Base
    /\ \A p \in Port : /\ <<p, Pm>> \in Base /\ <<p, PortPart>> \in Base
                       /\ \A n \in 0 .. Direct : <<p, n>> \in Disk /\ <<p, n>> \in DisksOf(p)
                       /\ DisksOf(p) \subseteq Disk
                       /\ \A d \in DisksOf(p) : d = <<p, d[2]>> /\ d[2] \in 0 .. Direct
    /\ \A b \in Base : /\ b = <<b[1], b[2]>> /\ PortOf(b) = b[1] /\ b[1] \in Port /\ b[2] \in Part
                       /\ b \in Disk \/ b[2] = Pm \/ b[2] = PortPart
    /\ \A d \in Disk : d[1] \in Port /\ d \in DisksOf(d[1]) /\ d[2] # Pm /\ d[2] # PortPart
  BY Parts DEF Base, Disk, DisksOf, PortOf

\* There are finitely many entries, so they can be counted.
LEMMA BaseFinite == IsFiniteSet(Base)
<1>1. IsFiniteSet(Part)
  BY PartAssumption, FS_Interval DEF PortPart
<1> QED BY <1>1, NumberAssumption, FS_Product DEF Base

\* So can any of them, and those of a port.
LEMMA EntriesFinite ==
    \A E \in SUBSET Base :
        /\ IsFiniteSet(E) /\ Cardinality(E) \in Nat
        /\ \A p : /\ AtPort(E, p) \in SUBSET Base
                  /\ IsFiniteSet(AtPort(E, p)) /\ Cardinality(AtPort(E, p)) \in Nat
<1> TAKE E \in SUBSET Base
<1>1. IsFiniteSet(E)
  BY BaseFinite, FS_Subset
<1>2. ASSUME NEW p PROVE /\ AtPort(E, p) \in SUBSET Base /\ IsFiniteSet(AtPort(E, p))
                         /\ Cardinality(AtPort(E, p)) \in Nat
  <2>1. AtPort(E, p) \subseteq E
    BY DEF AtPort
  <2> QED BY <1>1, <2>1, FS_Subset, FS_CardinalityType
<1> QED BY <1>1, <1>2, FS_CardinalityType

\* One entry more, and one less.
LEMMA OneMore ==
    ASSUME NEW E \in SUBSET Base, NEW b \in Base, b \notin E
    PROVE  /\ Cardinality(E \cup {b}) = Cardinality(E) + 1
           /\ \A p : AtPort(E \cup {b}, p) =
                        IF p = PortOf(b) THEN AtPort(E, p) \cup {b} ELSE AtPort(E, p)
           /\ \A p : Cardinality(AtPort(E \cup {b}, p)) =
                        IF p = PortOf(b) THEN Cardinality(AtPort(E, p)) + 1
                        ELSE Cardinality(AtPort(E, p))
<1>1. IsFiniteSet(E) /\ \A p : IsFiniteSet(AtPort(E, p))
  BY EntriesFinite
<1>2. \A p : AtPort(E \cup {b}, p) =
                IF p = PortOf(b) THEN AtPort(E, p) \cup {b} ELSE AtPort(E, p)
  BY DEF AtPort
<1>3. \A p : b \notin AtPort(E, p)
  BY DEF AtPort
<1>4. \A p : Cardinality(AtPort(E, p) \cup {b}) = Cardinality(AtPort(E, p)) + 1
  BY <1>1, <1>3, FS_AddElement
<1>5. Cardinality(E \cup {b}) = Cardinality(E) + 1
  BY <1>1, FS_AddElement
<1> QED BY <1>2, <1>4, <1>5

LEMMA OneLess ==
    ASSUME NEW E \in SUBSET Base, NEW b \in E
    PROVE  /\ Cardinality(E \ {b}) = Cardinality(E) - 1 /\ Cardinality(E) > 0
           /\ \A p : AtPort(E \ {b}, p) =
                        IF p = PortOf(b) THEN AtPort(E, p) \ {b} ELSE AtPort(E, p)
           /\ \A p : Cardinality(AtPort(E \ {b}, p)) =
                        IF p = PortOf(b) THEN Cardinality(AtPort(E, p)) - 1
                        ELSE Cardinality(AtPort(E, p))
           /\ Cardinality(AtPort(E, PortOf(b))) > 0
<1> DEFINE F == E \ {b}
<1>1. F \in SUBSET Base /\ b \in Base /\ b \notin F /\ F \cup {b} = E
  OBVIOUS
<1>2. /\ Cardinality(F) \in Nat /\ \A p : Cardinality(AtPort(F, p)) \in Nat
  BY <1>1, EntriesFinite
<1>3. \A p : AtPort(F, p) = IF p = PortOf(b) THEN AtPort(E, p) \ {b} ELSE AtPort(E, p)
  BY DEF AtPort
<1> HIDE DEF F
<1>4. /\ Cardinality(E) = Cardinality(F) + 1
      /\ \A p : Cardinality(AtPort(E, p)) =
                   IF p = PortOf(b) THEN Cardinality(AtPort(F, p)) + 1
                   ELSE Cardinality(AtPort(F, p))
  <2>1. /\ Cardinality(F \cup {b}) = Cardinality(F) + 1
        /\ \A p : Cardinality(AtPort(F \cup {b}, p)) =
                     IF p = PortOf(b) THEN Cardinality(AtPort(F, p)) + 1
                     ELSE Cardinality(AtPort(F, p))
    BY <1>1, OneMore
  <2> QED BY <1>1, <2>1
<1>5. /\ Cardinality(F) = Cardinality(E) - 1 /\ Cardinality(E) > 0
      /\ Cardinality(AtPort(E, PortOf(b))) > 0
  BY <1>2, <1>4
<1>6. \A p : Cardinality(AtPort(F, p)) =
                IF p = PortOf(b) THEN Cardinality(AtPort(E, p)) - 1
                ELSE Cardinality(AtPort(E, p))
  BY <1>2, <1>4
<1> QED BY <1>3, <1>5, <1>6 DEF F

\* What one entry more does to the sums, and one less.
LEMMA SumsMore ==
    ASSUME NEW E \in SUBSET Base, NEW b \in Base, b \notin E, NEW i \in InitRecord,
           NEW leak, Sums(i, E, leak), NEW j \in InitRecord, j.count = i.count + 1,
           j.port = [i.port EXCEPT ![PortOf(b)] = @ + 1]
    PROVE  Sums(j, E \cup {b}, leak)
<1>1. /\ i.count \in Nat /\ i.port \in [Port -> Nat]
  BY DEF InitRecord
<1>2. /\ Cardinality(E) \in Nat /\ \A p : Cardinality(AtPort(E, p)) \in Nat
  BY EntriesFinite
<1>3. /\ Cardinality(E \cup {b}) = Cardinality(E) + 1
      /\ \A p : Cardinality(AtPort(E \cup {b}, p)) =
                   IF p = PortOf(b) THEN Cardinality(AtPort(E, p)) + 1
                   ELSE Cardinality(AtPort(E, p))
  BY OneMore
<1>4. \A p \in Port : j.port[p] = IF p = PortOf(b) THEN i.port[p] + 1 ELSE i.port[p]
  BY <1>1
<1>5. /\ j.count >= Cardinality(E \cup {b})
      /\ ~leak => j.count = Cardinality(E \cup {b})
  BY <1>1, <1>2, <1>3 DEF Sums
<1>6. ASSUME NEW p \in Port
      PROVE  /\ j.port[p] >= Cardinality(AtPort(E \cup {b}, p))
             /\ ~leak => j.port[p] = Cardinality(AtPort(E \cup {b}, p))
  <2>1. i.port[p] \in Nat /\ Cardinality(AtPort(E, p)) \in Nat
    BY <1>1, <1>2
  <2>2. /\ Cardinality(AtPort(E \cup {b}, p)) =
              IF p = PortOf(b) THEN Cardinality(AtPort(E, p)) + 1 ELSE Cardinality(AtPort(E, p))
        /\ j.port[p] = IF p = PortOf(b) THEN i.port[p] + 1 ELSE i.port[p]
    BY <1>3, <1>4
  <2>3. /\ i.port[p] >= Cardinality(AtPort(E, p))
        /\ ~leak => i.port[p] = Cardinality(AtPort(E, p))
    BY DEF Sums
  <2> QED BY <2>1, <2>2, <2>3
<1> QED BY <1>5, <1>6 DEF Sums

LEMMA SumsLess ==
    ASSUME NEW E \in SUBSET Base, NEW b \in E, NEW i \in InitRecord,
           NEW leak, Sums(i, E, leak), NEW j \in InitRecord, j.count = Less(i.count, 1),
           j.port = [i.port EXCEPT ![PortOf(b)] = Less(@, 1)]
    PROVE  Sums(j, E \ {b}, leak)
<1>1. /\ i.count \in Nat /\ i.port \in [Port -> Nat]
  BY DEF InitRecord
<1>2. /\ Cardinality(E) \in Nat /\ \A p : Cardinality(AtPort(E, p)) \in Nat
  BY EntriesFinite
<1>3. /\ Cardinality(E \ {b}) = Cardinality(E) - 1 /\ Cardinality(E) > 0
      /\ \A p : Cardinality(AtPort(E \ {b}, p)) =
                   IF p = PortOf(b) THEN Cardinality(AtPort(E, p)) - 1
                   ELSE Cardinality(AtPort(E, p))
      /\ Cardinality(AtPort(E, PortOf(b))) > 0
  BY OneLess
<1>4. PortOf(b) \in Port
  BY Bases
<1>5. j.count = i.count - 1
  BY <1>1, <1>2, <1>3 DEF Sums, Less
<1>6. i.port[PortOf(b)] > 0 /\ i.port[PortOf(b)] \in Nat
  BY <1>1, <1>2, <1>3, <1>4 DEF Sums
<1>7. Less(i.port[PortOf(b)], 1) = i.port[PortOf(b)] - 1
  BY <1>6 DEF Less
<1>8. \A p \in Port : j.port[p] = IF p = PortOf(b) THEN i.port[p] - 1 ELSE i.port[p]
  BY <1>1, <1>7
<1> QED BY <1>1, <1>2, <1>3, <1>5, <1>8 DEF Sums

\* Taking an entry off the front of the queue.
LEMMA TakenBooks ==
    ASSUME NEW i, NEW out, NEW leak, Books(i, out, leak), i.queue # <<>>
    PROVE  LET b == Head(i.queue) IN
           /\ Books(Taken(i), out \cup {b}, leak)
           /\ b \in Queued(i) /\ b \in Base /\ b \notin out
           /\ Queued(Taken(i)) = Queued(i) \ {b} /\ Taken(i).retry = i.retry
<1> DEFINE b == Head(i.queue)
           j == Taken(i)
           E == Queued(i) \cup out
<1>1. /\ i \in InitRecord /\ i.queue \in Seq(Base) /\ IsInjective(i.queue)
      /\ out \in SUBSET Base /\ Queued(i) \cap out = {} /\ Sums(i, E, leak)
  BY DEF Books, InitRecord
<1>2. /\ b \in Base /\ b \in Queued(i) /\ Tail(i.queue) \in Seq(Base)
      /\ IsInjective(Tail(i.queue)) /\ ToSet(Tail(i.queue)) = Queued(i) \ {b}
  BY <1>1, Behead DEF Queued
<1>3. /\ j \in InitRecord /\ j.queue = Tail(i.queue) /\ j.count = i.count
      /\ j.port = i.port /\ j.retry = i.retry
  BY <1>1, <1>2 DEF Taken, InitRecord
<1>4. Queued(j) = Queued(i) \ {b}
  BY <1>2, <1>3 DEF Queued
<1> HIDE DEF b, j
<1>5. b \notin out /\ Queued(j) \cup (out \cup {b}) = E /\ Queued(j) \cap (out \cup {b}) = {}
  BY <1>1, <1>2, <1>4
<1>6. Sums(j, E, leak)
  BY <1>1, <1>3 DEF Sums
<1>7. Books(j, out \cup {b}, leak)
  BY <1>1, <1>2, <1>3, <1>5, <1>6 DEF Books
<1> QED BY <1>2, <1>3, <1>4, <1>5, <1>7 DEF b, j

\* Putting one that was out back in front.
LEMMA RequeueBooks ==
    ASSUME NEW i, NEW out, NEW leak, Books(i, out, leak), NEW b \in out
    PROVE  /\ Books(Requeue(i, b), out \ {b}, leak) /\ b \in Base
           /\ Queued(Requeue(i, b)) = Queued(i) \cup {b} /\ Requeue(i, b).retry = i.retry
<1> DEFINE j == Requeue(i, b)
           E == Queued(i) \cup out
<1>1. /\ i \in InitRecord /\ i.queue \in Seq(Base) /\ IsInjective(i.queue) /\ b \in Base
      /\ out \in SUBSET Base /\ Queued(i) \cap out = {} /\ Sums(i, E, leak)
  BY DEF Books, InitRecord
<1>2. b \notin Queued(i)
  BY <1>1
<1>3. /\ <<b>> \o i.queue \in Seq(Base) /\ IsInjective(<<b>> \o i.queue)
      /\ ToSet(<<b>> \o i.queue) = Queued(i) \cup {b}
  BY <1>1, <1>2, PutFirst DEF Queued
<1>4. /\ j \in InitRecord /\ j.queue = <<b>> \o i.queue /\ j.count = i.count
      /\ j.port = i.port /\ j.retry = i.retry
  BY <1>1, <1>2, <1>3 DEF Requeue, InitRecord
<1>5. Queued(j) = Queued(i) \cup {b}
  BY <1>3, <1>4 DEF Queued
<1> HIDE DEF j
<1>6. Queued(j) \cup (out \ {b}) = E /\ Queued(j) \cap (out \ {b}) = {}
  BY <1>1, <1>2, <1>5
<1>7. Sums(j, E, leak)
  BY <1>1, <1>4 DEF Sums
<1>8. Books(j, out \ {b}, leak)
  BY <1>1, <1>3, <1>4, <1>6, <1>7 DEF Books
<1> QED BY <1>1, <1>4, <1>5, <1>8 DEF j

\* A new entry is counted.
LEMMA StartBooks ==
    ASSUME NEW i, NEW out, NEW leak, Books(i, out, leak),
           NEW b \in Base, b \notin Queued(i) \cup out
    PROVE  /\ Books(Start(i, b), out, leak)
           /\ Queued(Start(i, b)) = Queued(i) \cup {b}
           /\ Start(i, b).retry = [i.retry EXCEPT ![b] = 0]
<1> DEFINE j == Start(i, b)
           E == Queued(i) \cup out
<1>1. /\ i \in InitRecord /\ i.queue \in Seq(Base) /\ IsInjective(i.queue)
      /\ i.count \in Nat /\ i.port \in [Port -> Nat]
      /\ i.retry \in [Base -> 0 .. RetryLimit + 1]
      /\ out \in SUBSET Base /\ Queued(i) \cap out = {} /\ Sums(i, E, leak)
  BY DEF Books, InitRecord
<1>2. /\ Append(i.queue, b) \in Seq(Base) /\ IsInjective(Append(i.queue, b))
      /\ ToSet(Append(i.queue, b)) = Queued(i) \cup {b}
  BY <1>1, PutLast DEF Queued
<1>3. j = [i EXCEPT !.queue = Append(i.queue, b), !.count = i.count + 1,
                    !.port = [i.port EXCEPT ![PortOf(b)] = i.port[PortOf(b)] + 1],
                    !.retry = [i.retry EXCEPT ![b] = 0]]
  BY DEF Start
<1>4. /\ i.count + 1 \in Nat /\ [i.port EXCEPT ![PortOf(b)] = i.port[PortOf(b)] + 1] \in [Port -> Nat]
      /\ [i.retry EXCEPT ![b] = 0] \in [Base -> 0 .. RetryLimit + 1]
  <2>1. PortOf(b) \in Port /\ i.port[PortOf(b)] + 1 \in Nat /\ 0 \in 0 .. RetryLimit + 1
    BY <1>1, NumberAssumption, Bases
  <2> QED BY <1>1, <2>1
<1>5. /\ j \in InitRecord /\ j.queue = Append(i.queue, b) /\ j.count = i.count + 1
      /\ j.port = [i.port EXCEPT ![PortOf(b)] = @ + 1] /\ j.retry = [i.retry EXCEPT ![b] = 0]
  <2> HIDE DEF j
  <2> QED BY <1>1, <1>2, <1>3, <1>4 DEF InitRecord
<1>6. Queued(j) = Queued(i) \cup {b}
  BY <1>2, <1>5 DEF Queued
<1> HIDE DEF j
<1>7. b \notin E /\ E \in SUBSET Base
  <2>1. Queued(i) \subseteq Base
    BY <1>1, Positions DEF Queued
  <2> QED BY <1>1, <2>1
<1>8. Sums(j, E \cup {b}, leak)
  <2> HIDE DEF E
  <2> QED BY <1>1, <1>5, <1>7, SumsMore
<1>9. Queued(j) \cup out = E \cup {b} /\ Queued(j) \cap out = {}
  BY <1>1, <1>6
<1>10. Books(j, out, leak)
  <2> HIDE DEF E
  <2> QED BY <1>1, <1>2, <1>5, <1>8, <1>9 DEF Books
<1> QED BY <1>5, <1>6, <1>10 DEF j

\* One that was out is done, and counted no more.
LEMMA DoneBooks ==
    ASSUME NEW i, NEW out, NEW leak, Books(i, out, leak), NEW b \in out
    PROVE  /\ Books(Done(i, PortOf(b)), out \ {b}, leak)
           /\ Queued(Done(i, PortOf(b))) = Queued(i) /\ Done(i, PortOf(b)).retry = i.retry
<1> DEFINE j == Done(i, PortOf(b))
           E == Queued(i) \cup out
<1>1. /\ i \in InitRecord /\ i.queue \in Seq(Base) /\ IsInjective(i.queue)
      /\ i.count \in Nat /\ i.port \in [Port -> Nat]
      /\ out \in SUBSET Base /\ Queued(i) \cap out = {} /\ Sums(i, E, leak)
  BY DEF Books, InitRecord
<1>2. \A n \in Nat : Less(n, 1) \in Nat
  BY DEF Less
<1>3. j = [i EXCEPT !.count = Less(i.count, 1),
                    !.port = [i.port EXCEPT ![PortOf(b)] = Less(i.port[PortOf(b)], 1)]]
  BY DEF Done
<1>4. Less(i.count, 1) \in Nat
      /\ [i.port EXCEPT ![PortOf(b)] = Less(i.port[PortOf(b)], 1)] \in [Port -> Nat]
  <2>1. PortOf(b) \in Port
    BY <1>1, Bases
  <2> QED BY <1>1, <1>2, <2>1
<1>5. /\ j \in InitRecord /\ j.queue = i.queue /\ j.count = Less(i.count, 1)
      /\ j.port = [i.port EXCEPT ![PortOf(b)] = Less(@, 1)] /\ j.retry = i.retry
  <2> HIDE DEF j
  <2> QED BY <1>1, <1>3, <1>4 DEF InitRecord
<1>6. Queued(j) = Queued(i)
  BY <1>5 DEF Queued
<1> HIDE DEF j
<1>7. b \in E /\ E \in SUBSET Base
  <2>1. Queued(i) \subseteq Base
    BY <1>1, Positions DEF Queued
  <2> QED BY <1>1, <2>1
<1>8. Sums(j, E \ {b}, leak)
  <2> HIDE DEF E
  <2> QED BY <1>1, <1>5, <1>7, SumsLess
<1>9. Queued(j) \cup (out \ {b}) = E \ {b} /\ Queued(j) \cap (out \ {b}) = {}
  BY <1>1, <1>6
<1>10. Books(j, out \ {b}, leak)
  <2> HIDE DEF E
  <2> QED BY <1>1, <1>5, <1>8, <1>9 DEF Books
<1> QED BY <1>5, <1>6, <1>10 DEF j

\* One that was out is lost: the counts stay.
LEMMA LeakBooks ==
    ASSUME NEW i, NEW out, NEW leak, Books(i, out, leak), NEW b \in out
    PROVE  Books(i, out \ {b}, TRUE)
<1> DEFINE E == Queued(i) \cup out
<1>1. /\ i \in InitRecord /\ i.queue \in Seq(Base) /\ IsInjective(i.queue)
      /\ i.count \in Nat /\ i.port \in [Port -> Nat]
      /\ out \in SUBSET Base /\ Queued(i) \cap out = {} /\ Sums(i, E, leak)
  BY DEF Books, InitRecord
<1>2. b \in E /\ E \in SUBSET Base
  <2>1. Queued(i) \subseteq Base
    BY <1>1, Positions DEF Queued
  <2> QED BY <1>1, <2>1
<1>3. Queued(i) \cup (out \ {b}) = E \ {b}
  BY <1>1
<1> HIDE DEF E
<1>4. /\ Cardinality(E) \in Nat /\ \A p : Cardinality(AtPort(E, p)) \in Nat
  BY <1>2, EntriesFinite
<1>5. /\ Cardinality(E \ {b}) = Cardinality(E) - 1
      /\ \A p : Cardinality(AtPort(E \ {b}, p)) =
                   IF p = PortOf(b) THEN Cardinality(AtPort(E, p)) - 1
                   ELSE Cardinality(AtPort(E, p))
  BY <1>2, OneLess
<1>6. i.count >= Cardinality(E \ {b})
  BY <1>1, <1>4, <1>5 DEF Sums
<1>7. ASSUME NEW p \in Port PROVE i.port[p] >= Cardinality(AtPort(E \ {b}, p))
  <2>1. i.port[p] \in Nat /\ Cardinality(AtPort(E, p)) \in Nat
        /\ i.port[p] >= Cardinality(AtPort(E, p))
    BY <1>1, <1>4 DEF Sums
  <2>2. Cardinality(AtPort(E \ {b}, p)) =
            IF p = PortOf(b) THEN Cardinality(AtPort(E, p)) - 1 ELSE Cardinality(AtPort(E, p))
    BY <1>5
  <2> QED BY <2>1, <2>2
<1>8. Sums(i, E \ {b}, TRUE)
  BY <1>6, <1>7 DEF Sums
<1> QED BY <1>1, <1>3, <1>8 DEF Books

\* Another one of the port goes on in its place, with its count.
LEMMA SwapBooks ==
    ASSUME NEW i, NEW out, NEW leak, Books(i, out, leak), NEW b \in out,
           NEW c \in Base, c \notin Queued(i) \cup out, PortOf(c) = PortOf(b)
    PROVE  Books(i, (out \ {b}) \cup {c}, leak)
<1> DEFINE E == Queued(i) \cup out
           F == E \ {b}
<1>1. /\ i \in InitRecord /\ i.queue \in Seq(Base) /\ IsInjective(i.queue)
      /\ i.count \in Nat /\ i.port \in [Port -> Nat]
      /\ out \in SUBSET Base /\ Queued(i) \cap out = {} /\ Sums(i, E, leak)
  BY DEF Books, InitRecord
<1>2. b \in E /\ E \in SUBSET Base /\ F \in SUBSET Base /\ c \notin F
  <2>1. Queued(i) \subseteq Base
    BY <1>1, Positions DEF Queued
  <2> QED BY <1>1, <2>1
<1>3. /\ Queued(i) \cup ((out \ {b}) \cup {c}) = F \cup {c}
      /\ Queued(i) \cap ((out \ {b}) \cup {c}) = {} /\ (out \ {b}) \cup {c} \in SUBSET Base
  BY <1>1
<1> HIDE DEF E
<1>4. /\ Cardinality(E) \in Nat /\ \A p : Cardinality(AtPort(E, p)) \in Nat
  BY <1>2, EntriesFinite
<1>5. /\ Cardinality(F) = Cardinality(E) - 1
      /\ \A p : Cardinality(AtPort(F, p)) =
                   IF p = PortOf(b) THEN Cardinality(AtPort(E, p)) - 1
                   ELSE Cardinality(AtPort(E, p))
  BY <1>2, OneLess
<1> HIDE DEF F
<1>6. /\ Cardinality(F \cup {c}) = Cardinality(F) + 1
      /\ \A p : Cardinality(AtPort(F \cup {c}, p)) =
                   IF p = PortOf(c) THEN Cardinality(AtPort(F, p)) + 1
                   ELSE Cardinality(AtPort(F, p))
  BY <1>2, OneMore
<1>7. /\ Cardinality(F \cup {c}) = Cardinality(E)
      /\ \A p : Cardinality(AtPort(F \cup {c}, p)) = Cardinality(AtPort(E, p))
  <2>1. Cardinality(F \cup {c}) = Cardinality(E)
    BY <1>4, <1>5, <1>6
  <2>2. ASSUME NEW p PROVE Cardinality(AtPort(F \cup {c}, p)) = Cardinality(AtPort(E, p))
    <3>1. Cardinality(AtPort(E, p)) \in Nat
      BY <1>4
    <3>2. Cardinality(AtPort(F, p)) =
              IF p = PortOf(b) THEN Cardinality(AtPort(E, p)) - 1 ELSE Cardinality(AtPort(E, p))
      BY <1>5
    <3>3. Cardinality(AtPort(F \cup {c}, p)) =
              IF p = PortOf(b) THEN Cardinality(AtPort(F, p)) + 1 ELSE Cardinality(AtPort(F, p))
      BY <1>6
    <3> QED BY <3>1, <3>2, <3>3
  <2> QED BY <2>1, <2>2
<1>8. Sums(i, F \cup {c}, leak)
  BY <1>1, <1>7 DEF Sums
<1> QED BY <1>1, <1>3, <1>8 DEF Books

\* Retry counts are no part of the sums.
LEMMA RetryBooks ==
    ASSUME NEW i, NEW out, NEW leak, Books(i, out, leak), NEW b \in Base,
           NEW n \in 0 .. RetryLimit + 1
    PROVE  LET j == [i EXCEPT !.retry[b] = n] IN
           /\ Books(j, out, leak) /\ Queued(j) = Queued(i)
           /\ j.retry = [i.retry EXCEPT ![b] = n]
<1> DEFINE j == [i EXCEPT !.retry[b] = n]
<1>1. /\ i \in InitRecord /\ i.retry \in [Base -> 0 .. RetryLimit + 1]
  BY DEF Books, InitRecord
<1>2. [i.retry EXCEPT ![b] = n] \in [Base -> 0 .. RetryLimit + 1]
  BY <1>1
<1>3. /\ j \in InitRecord /\ j.queue = i.queue /\ j.count = i.count /\ j.port = i.port
      /\ j.retry = [i.retry EXCEPT ![b] = n]
  BY <1>1, <1>2 DEF InitRecord
<1> HIDE DEF j
<1>4. Queued(j) = Queued(i)
  BY <1>3 DEF Queued
<1>5. Books(j, out, leak)
  BY <1>3, <1>4 DEF Books, Sums
<1> QED BY <1>3, <1>4, <1>5 DEF j

\* Cleaning the queue of what it does not hold leaves it as it is.
LEMMA CleanNothing ==
    ASSUME NEW i, NEW p, NEW bases, Queued(i) \cap bases = {}
    PROVE  Clean(i, p, bases) = i
  BY DEF Clean

\* When a port's count is 0, nothing of it is queued or out.
LEMMA NothingAt ==
    ASSUME NEW i, NEW out, NEW leak, Books(i, out, leak), NEW p \in Port, i.port[p] = 0
    PROVE  AtPort(Queued(i) \cup out, p) = {}
<1>1. i \in InitRecord /\ i.queue \in Seq(Base) /\ out \in SUBSET Base
  BY DEF Books, InitRecord
<1>2. Queued(i) \cup out \in SUBSET Base
  BY <1>1, Positions DEF Queued
<1> DEFINE at == AtPort(Queued(i) \cup out, p)
<1>3. 0 >= Cardinality(at)
  BY DEF Books, Sums
<1>4. IsFiniteSet(at) /\ Cardinality(at) \in Nat
  BY <1>2, EntriesFinite
<1> HIDE DEF at
<1>5. Cardinality(at) = 0
  BY <1>3, <1>4
<1>6. at = {}
  BY <1>4, <1>5, FS_EmptySet
<1> QED BY <1>6 DEF at

-----------------------------------------------------------------------------
(* The loop that starts the disks a multiplier has found. *)

\* What one turn makes of the queue.
Turned(i, p, new, after, k) ==
    IF k = 0 THEN i
    ELSE IF <<p, k - 1>> \in new THEN Start(after[k - 1], <<p, k - 1>>)
    ELSE after[k - 1]
IsCourse(i, p, new, n, after) == after = [k \in 0 .. n |-> Turned(i, p, new, after, k)]

\* However often it turns, the loop has a course.
LEMMA CourseRuns ==
    ASSUME NEW i, NEW p, NEW new
    PROVE  \A n \in Nat : \E after : IsCourse(i, p, new, n, after)
<1> DEFINE S == {n \in Nat : \E after : IsCourse(i, p, new, n, after)}
<1>1. 0 \in S
  <2> DEFINE f == [k \in 0 .. 0 |-> i]
  <2>1. \A k \in 0 .. 0 : Turned(i, p, new, f, k) = i
    BY DEF Turned
  <2>2. IsCourse(i, p, new, 0, f)
    BY <2>1 DEF IsCourse
  <2> HIDE DEF f
  <2> QED BY <2>2
<1>2. ASSUME NEW n \in Nat, n \in S PROVE n + 1 \in S
  <2>1. PICK g : IsCourse(i, p, new, n, g)
    BY <1>2
  <2> DEFINE f == [k \in 0 .. n + 1 |-> Turned(i, p, new, g, k)]
  <2>2. \A k \in 0 .. n : f[k] = g[k]
    <3>1. \A k \in 0 .. n : g[k] = Turned(i, p, new, g, k)
      BY <2>1, Zenon DEF IsCourse
    <3>2. 0 .. n \subseteq 0 .. n + 1
      OBVIOUS
    <3> QED BY <3>1, <3>2
  <2>3. ASSUME NEW k \in 0 .. n + 1 PROVE Turned(i, p, new, g, k) = Turned(i, p, new, f, k)
    <3>1. k # 0 => k - 1 \in 0 .. n
      OBVIOUS
    <3> HIDE DEF f
    <3> QED BY <2>2, <3>1 DEF Turned
  <2>4. IsCourse(i, p, new, n + 1, f)
    <3>1. f = [k \in 0 .. n + 1 |-> Turned(i, p, new, f, k)]
      BY <2>3, Zenon
    <3> QED BY <3>1, Zenon DEF IsCourse
  <2> HIDE DEF f
  <2> QED BY <2>4
<1> HIDE DEF S
<1>3. \A n \in Nat : n \in S
  BY <1>1, <1>2, Induct
<1> QED BY <1>3 DEF S

\* It starts those that are new, each once.
LEMMA StartNewBooks ==
    ASSUME NEW i, NEW out, NEW leak, Books(i, out, leak), NEW p \in Port,
           NEW new \in SUBSET ({p} \X Slot), new \cap (Queued(i) \cup out) = {}
    PROVE  LET j == StartNew(i, p, NumSlots, new) IN
           /\ Books(j, out, leak) /\ Queued(j) = Queued(i) \cup new
           /\ \A b \in Base : j.retry[b] = IF b \in new THEN 0 ELSE i.retry[b]
<1> DEFINE m == NumSlots
           f == CHOOSE after : IsCourse(i, p, new, m, after)
<1>1. m \in Nat
  BY Parts
<1>2. StartNew(i, p, NumSlots, new) = f[m]
  BY Zenon DEF StartNew, IsCourse, Turned
<1>3. \E after : IsCourse(i, p, new, m, after)
  BY <1>1, CourseRuns
<1>4. IsCourse(i, p, new, m, f)
  BY <1>3, Zenon
<1> HIDE DEF f
<1>5. \A k \in 0 .. m : f[k] = Turned(i, p, new, f, k)
  BY <1>4, Zenon DEF IsCourse
<1> DEFINE Upto(n) == {b \in new : b[2] < n}
           Good(n) == /\ Books(f[n], out, leak) /\ Queued(f[n]) = Queued(i) \cup Upto(n)
                      /\ \A b \in Base : f[n].retry[b] = IF b \in Upto(n) THEN 0 ELSE i.retry[b]
           S == {n \in Nat : n <= m => Good(n)}
<1>6. \A b \in new : b = <<p, b[2]>> /\ b[2] \in 0 .. m - 1 /\ b \in Base
  <2>1. ASSUME NEW b \in new
        PROVE  b = <<p, b[2]>> /\ b[2] \in Slot
    OBVIOUS
  <2>2. Slot = 0 .. m - 1 /\ Slot \subseteq Part
    BY Parts DEF Slot
  <2> QED BY <2>1, <2>2 DEF Base
<1>7. 0 \in S
  <2>1. f[0] = i
    <3>1. 0 \in 0 .. m
      BY <1>1
    <3>2. f[0] = Turned(i, p, new, f, 0)
      BY <1>5, <3>1
    <3>3. Turned(i, p, new, f, 0) = i
      BY DEF Turned
    <3> QED BY <3>2, <3>3
  <2>2. Upto(0) = {}
    BY <1>6
  <2>3. Good(0)
    BY <2>1, <2>2
  <2> HIDE DEF Good
  <2> QED BY <2>3
<1>8. ASSUME NEW n \in Nat, n \in S PROVE n + 1 \in S
  <2> SUFFICES ASSUME n + 1 <= m PROVE Good(n + 1)
    BY DEF S
  <2>1. n + 1 \in 0 .. m /\ n + 1 # 0 /\ (n + 1) - 1 = n /\ n <= m
    BY <1>1
  <2>2. Good(n)
    BY <1>8, <2>1 DEF S
  <2> DEFINE b == <<p, n>>
  <2>3. f[n + 1] = IF b \in new THEN Start(f[n], b) ELSE f[n]
    BY <1>5, <2>1 DEF Turned
  <2>4. CASE b \notin new
    <3>1. Upto(n + 1) = Upto(n)
      BY <1>6, <2>4
    <3> HIDE DEF Upto
    <3> QED BY <2>2, <2>3, <2>4, <3>1
  <2>5. CASE b \in new
    <3>1. Upto(n + 1) = Upto(n) \cup {b} /\ b \notin Upto(n)
      BY <1>6, <2>5
    <3>2. b \in Base /\ b \notin Queued(i) \cup out
      BY <1>6, <2>5
    <3> HIDE DEF Upto, b
    <3>3. b \notin Queued(f[n]) \cup out
      BY <2>2, <3>1, <3>2
    <3>4. PICK g : g = f[n]
      OBVIOUS
    <3>5. Books(g, out, leak) /\ b \notin Queued(g) \cup out
      BY <2>2, <3>3, <3>4
    <3>6. /\ Books(Start(g, b), out, leak) /\ Queued(Start(g, b)) = Queued(g) \cup {b}
          /\ Start(g, b).retry = [g.retry EXCEPT ![b] = 0]
      BY <3>2, <3>5, StartBooks
    <3>7. g.retry \in [Base -> 0 .. RetryLimit + 1]
      BY <3>5 DEF Books, InitRecord
    <3>8. f[n + 1] = Start(g, b)
      BY <2>3, <2>5, <3>4
    <3>9. ASSUME NEW c \in Base
          PROVE  f[n + 1].retry[c] = IF c \in Upto(n + 1) THEN 0 ELSE i.retry[c]
      BY <2>2, <3>1, <3>4, <3>6, <3>7, <3>8
    <3> QED BY <2>2, <3>1, <3>4, <3>6, <3>8, <3>9
  <2> QED BY <2>4, <2>5
<1>9. m \in S
  <2> HIDE DEF S
  <2> QED BY <1>1, <1>7, <1>8, Induct
<1>10. Good(m)
  BY <1>1, <1>9 DEF S
<1>11. Upto(m) = new
  BY <1>1, <1>6
<1> HIDE DEF Upto
<1> QED BY <1>2, <1>10, <1>11

-----------------------------------------------------------------------------
(***************************************************************************)
(* Part 2: the actions.                                                    *)
(***************************************************************************)

\* What a step of port p leaves as it is.
OnlyAt(p) ==
    /\ \A b \in Base : b[1] # p => /\ b \in Pending' <=> b \in Pending
                                   /\ b \in sent' => b \in sent
                                   /\ init'.retry[b] = init.retry[b]
    /\ \A d \in Disk : d[1] # p => disk'[d] = disk[d]
    /\ \A q \in Port \ {p} : pm'[q] = pm[q]
    /\ lapses \subseteq lapses'

\* A handler begins to handle a phy change only when its port has nothing to initialise.
Quiet == handling' # None /\ handling'.step = "settle" =>
             handling' = handling \/ AtPort(Pending', handling'.port) = {}

\* What the books say of the types.
LEMMA BooksTyped ==
    ASSUME NEW i, NEW out, NEW leak, Books(i, out, leak)
    PROVE  i \in InitRecord /\ out \subseteq Base /\ Queued(i) \subseteq Base
<1>1. i \in InitRecord /\ i.queue \in Seq(Base) /\ out \in SUBSET Base
  BY DEF Books, InitRecord
<1> QED BY <1>1, Positions DEF Queued

\* What is pending is queued, sent or waits for a timer.
LEMMA PendingTyped ==
    /\ Counted => /\ Pending \subseteq Base /\ sent \subseteq Base /\ init \in InitRecord
                  /\ Pending = Queued(init) \cup (sent \cup timer)
    /\ Counted' => /\ Pending' \subseteq Base /\ sent' \subseteq Base /\ init' \in InitRecord
                   /\ Pending' = Queued(init') \cup (sent' \cup timer')
  BY BooksTyped DEF Counted, Pending

\* A step of one port keeps what is said of another: its entries, machines and disks.
LEMMA Elsewhere ==
    ASSUME Inv, Counted', NEW p \in Port, OnlyAt(p), Quiet, NEW q \in Port \ {p}
    PROVE  InTurn(q)' /\ (Unlapsed' => Remembered(q)')
<1>1. Pending \subseteq Base /\ Pending' \subseteq Base /\ sent' \subseteq Base
  BY PendingTyped DEF Inv
<1>2. AtPort(Pending', q) = AtPort(Pending, q)
  BY <1>1, Bases DEF OnlyAt, AtPort
<1>3. \A d \in DisksOf(q) : /\ d \in Disk /\ d \in Base /\ d[1] = q
  BY Bases DEF Disk, DisksOf
<1>4. \A d \in DisksOf(q) : /\ d \in Pending' <=> d \in Pending
                            /\ d \in sent' => d \in sent
                            /\ init'.retry[d] = init.retry[d] /\ disk'[d] = disk[d]
  BY <1>3 DEF OnlyAt
<1>5. /\ <<q, Pm>> \in Pending' <=> <<q, Pm>> \in Pending
      /\ <<q, PortPart>> \in Pending' <=> <<q, PortPart>> \in Pending
      /\ init'.retry[<<q, Pm>>] = init.retry[<<q, Pm>>] /\ pm'[q] = pm[q]
  BY Bases DEF OnlyAt
<1>6. InTurn(q) /\ (Unlapsed => Remembered(q))
  BY DEF Inv
<1>7. Turn(q)'
  BY <1>2, <1>6 DEF InTurn, Turn
<1>8. ASSUME NEW d \in DisksOf(q) PROVE DiskRuns(d)'
  BY <1>4, <1>6 DEF InTurn, DiskRuns, Known
<1>9. PmRuns(q)'
  <2>1. pm[q].active_port \in Slot
    BY DEF Inv, MachinesTyped, PmRecord
  <2>2. <<q, pm[q].active_port>> \in DisksOf(q)
    BY <2>1, Parts, Bases
  <2> QED BY <1>4, <1>5, <1>6, <2>2 DEF InTurn, PmRuns, SoftReset, Known
<1>10. Settled(q)'
  <2> SUFFICES ASSUME handling' # None, handling'.port = q, handling'.step = "settle"
               PROVE  AtPort(Pending', q) = {}
    BY DEF Settled
  <2> QED BY <1>2, <1>6 DEF Quiet, InTurn, Settled
<1>11. ASSUME Unlapsed' PROVE Remembered(q)'
  <2>1. Remembered(q)
    BY <1>6, <1>11 DEF Unlapsed, OnlyAt
  <2>2. IdleDisks(q)' = IdleDisks(q)
    <3>1. \A d \in {q} \X Slot : d \in DisksOf(q)
      BY Parts DEF DisksOf
    <3> QED BY <1>4, <3>1 DEF IdleDisks
  <2> QED BY <1>4, <1>5, <2>1, <2>2 DEF Remembered
<1> QED BY <1>7, <1>8, <1>9, <1>10, <1>11 DEF InTurn

\* A step of one port.
LEMMA PortMoves ==
    ASSUME Inv, NEW p \in Port, WorldTyped', MachinesTyped', Counted', OnePast', OnlyAt(p),
           Quiet, InTurn(p)', Unlapsed' => Remembered(p)'
    PROVE  Inv'
  BY Elsewhere DEF Inv

\* A step that moves no machine.
LEMMA NothingMoves ==
    ASSUME Inv, WorldTyped', Counted', Pending' = Pending,
           \A d \in Disk : d \in sent' => d \in sent,
           init'.retry = init.retry, disk' = disk, pm' = pm, lapses \subseteq lapses', Quiet
    PROVE  Inv'
<1>1. MachinesTyped'
  BY DEF Inv, MachinesTyped
<1>2. OnePast'
  BY DEF Inv, OnePast, Past, Identified
<1>3. ASSUME NEW q \in Port PROVE InTurn(q)' /\ (Unlapsed' => Remembered(q)')
  <2>1. Turn(q)' /\ PmRuns(q)'
    BY <1>3 DEF Inv, InTurn, Turn, PmRuns, SoftReset, Known
  <2>2. ASSUME NEW d \in DisksOf(q) PROVE DiskRuns(d)'
    <3>1. d \in Disk /\ DiskRuns(d)
      BY Bases DEF Inv, InTurn
    <3> QED BY <3>1 DEF DiskRuns, Known
  <2>3. Settled(q)'
    BY <1>3 DEF Inv, InTurn, Settled, Quiet
  <2>4. ASSUME Unlapsed' PROVE Remembered(q)'
    <3>1. Remembered(q)
      BY <2>4 DEF Inv, Unlapsed
    <3> QED BY <3>1 DEF Remembered, IdleDisks
  <2> QED BY <2>1, <2>2, <2>3, <2>4 DEF InTurn
<1> QED BY <1>1, <1>2, <1>3 DEF Inv

-----------------------------------------------------------------------------
(* What a handler does to the books. *)

\* Once something was leaked it stays so.
LEMMA LapsesGrow ==
    ASSUME NEW i, NEW out, Books(i, out, "short" \in lapses), lapses \subseteq lapses'
    PROVE  Books(i, out, "short" \in lapses')
<1>1. CASE "short" \in lapses
  <2>1. "short" \in lapses'
    BY <1>1
  <2> QED BY <1>1, <2>1 DEF Books, Sums
<1>2. CASE "short" \notin lapses
  BY <1>2 DEF Books, Sums
<1> QED BY <1>1, <1>2

\* A step that leaves the queue and what is out keeps the books.
LEMMA BooksStay ==
    ASSUME Counted, UNCHANGED <<init, sent, timer>>, lapses \subseteq lapses'
    PROVE  Counted' /\ Pending' = Pending
<1>1. Books(init, sent \cup timer, "short" \in lapses')
  BY LapsesGrow DEF Counted
<1> QED BY <1>1 DEF Counted, Pending

\* Taken off the queue and out.
LEMMA GoesOut ==
    ASSUME Counted, NEW b, AtFront(b), init' = Taken(init), Send(b) \/ Arm(b),
           lapses \subseteq lapses'
    PROVE  /\ Counted' /\ Pending' = Pending /\ init'.retry = init.retry
           /\ b \in Pending /\ b \in Base /\ sent' \subseteq sent \cup {b}
<1> DEFINE out == sent \cup timer
<1>1. /\ Books(init, out, "short" \in lapses) /\ init.queue # <<>> /\ b = Head(init.queue)
  BY DEF Counted, AtFront
<1>2. /\ Books(init', out \cup {b}, "short" \in lapses) /\ b \in Queued(init) /\ b \in Base
      /\ b \notin out /\ Queued(init') = Queued(init) \ {b} /\ init'.retry = init.retry
  BY <1>1, TakenBooks
<1>3. Books(init', out \cup {b}, "short" \in lapses')
  BY <1>2, LapsesGrow
<1>4. sent' \cup timer' = out \cup {b} /\ sent' \cap timer' = {}
  BY <1>2 DEF Send, Arm, Counted
<1>5. Counted'
  BY <1>3, <1>4 DEF Counted
<1>6. Pending' = Pending
  BY <1>2, <1>4 DEF Pending
<1> QED BY <1>2, <1>5, <1>6 DEF Pending, Send, Arm

\* Back from a request or a timer.
Back(b) == \/ b \in sent /\ sent' = sent \ {b} /\ timer' = timer
           \/ b \in timer /\ timer' = timer \ {b} /\ sent' = sent

\* A request is answered, or a timer expires, and its entry is at hand.
LEMMA ComesBack ==
    ASSUME Counted, NEW b, Back(b), init' = Requeue(init, b), lapses \subseteq lapses'
    PROVE  /\ Counted' /\ Pending' = Pending /\ init'.retry = init.retry
           /\ b \in Pending /\ b \in Base /\ sent' \subseteq sent
<1> DEFINE out == sent \cup timer
<1>1. Books(init, out, "short" \in lapses) /\ b \in out
  BY DEF Counted, Back
<1>2. /\ Books(init', out \ {b}, "short" \in lapses) /\ b \in Base
      /\ Queued(init') = Queued(init) \cup {b} /\ init'.retry = init.retry
  BY <1>1, RequeueBooks
<1>3. Books(init', out \ {b}, "short" \in lapses')
  BY <1>2, LapsesGrow
<1>4. sent' \cup timer' = out \ {b} /\ sent' \cap timer' = {}
  BY DEF Back, Counted
<1>5. Counted'
  BY <1>3, <1>4 DEF Counted
<1>6. Pending' = Pending
  BY <1>1, <1>2, <1>4 DEF Pending
<1> QED BY <1>1, <1>2, <1>5, <1>6 DEF Pending, Back

\* Back, and tried again.
LEMMA TriedAgain ==
    ASSUME Counted, NEW b, Back(b), NEW n \in 0 .. RetryLimit + 1,
           init' = Requeue([init EXCEPT !.retry[b] = n], b), lapses \subseteq lapses'
    PROVE  /\ Counted' /\ Pending' = Pending /\ init'.retry = [init.retry EXCEPT ![b] = n]
           /\ b \in Pending /\ b \in Base /\ sent' \subseteq sent
<1> DEFINE out == sent \cup timer
           j == [init EXCEPT !.retry[b] = n]
<1>1. Books(init, out, "short" \in lapses) /\ b \in out
  BY DEF Counted, Back
<1>2. b \in Base
  BY <1>1, BooksTyped
<1>3. /\ Books(j, out, "short" \in lapses) /\ Queued(j) = Queued(init)
      /\ j.retry = [init.retry EXCEPT ![b] = n]
  BY <1>1, <1>2, RetryBooks
<1> HIDE DEF j
<1>4. /\ Books(Requeue(j, b), out \ {b}, "short" \in lapses)
      /\ Queued(Requeue(j, b)) = Queued(j) \cup {b} /\ Requeue(j, b).retry = j.retry
  BY <1>1, <1>3, RequeueBooks
<1>5. init' = Requeue(j, b)
  BY DEF j
<1>6. Books(init', out \ {b}, "short" \in lapses')
  BY <1>4, <1>5, LapsesGrow
<1>7. sent' \cup timer' = out \ {b} /\ sent' \cap timer' = {}
  BY DEF Back, Counted
<1>8. Counted'
  BY <1>6, <1>7 DEF Counted
<1>9. Pending' = Pending
  BY <1>1, <1>3, <1>4, <1>5, <1>7 DEF Pending
<1> QED BY <1>1, <1>2, <1>3, <1>4, <1>5, <1>8, <1>9 DEF Pending, Back

\* Back, and done.
LEMMA EndsWell ==
    ASSUME Counted, NEW b, Back(b), init' = Done(init, PortOf(b)), lapses \subseteq lapses'
    PROVE  /\ Counted' /\ Pending' = Pending \ {b} /\ init'.retry = init.retry
           /\ b \in Pending /\ b \in Base /\ sent' \subseteq sent
<1> DEFINE out == sent \cup timer
<1>1. Books(init, out, "short" \in lapses) /\ b \in out
  BY DEF Counted, Back
<1>2. b \in Base /\ b \notin Queued(init)
  BY <1>1, BooksTyped DEF Books
<1>3. /\ Books(init', out \ {b}, "short" \in lapses)
      /\ Queued(init') = Queued(init) /\ init'.retry = init.retry
  BY <1>1, DoneBooks
<1>4. Books(init', out \ {b}, "short" \in lapses')
  BY <1>3, LapsesGrow
<1>5. sent' \cup timer' = out \ {b} /\ sent' \cap timer' = {}
  BY DEF Back, Counted
<1>6. Counted'
  BY <1>4, <1>5 DEF Counted
<1>7. Pending' = Pending \ {b}
  BY <1>1, <1>2, <1>3, <1>5 DEF Pending
<1> QED BY <1>1, <1>2, <1>3, <1>6, <1>7 DEF Pending, Back

\* Back, and given up.
LEMMA EndsBadly ==
    ASSUME Counted, NEW b, Back(b), NEW n \in 0 .. RetryLimit + 1,
           init' = Done([init EXCEPT !.retry[b] = n], PortOf(b)), lapses \subseteq lapses'
    PROVE  /\ Counted' /\ Pending' = Pending \ {b} /\ init'.retry = [init.retry EXCEPT ![b] = n]
           /\ b \in Pending /\ b \in Base /\ sent' \subseteq sent
<1> DEFINE out == sent \cup timer
           j == [init EXCEPT !.retry[b] = n]
<1>1. Books(init, out, "short" \in lapses) /\ b \in out
  BY DEF Counted, Back
<1>2. b \in Base /\ b \notin Queued(init)
  BY <1>1, BooksTyped DEF Books
<1>3. /\ Books(j, out, "short" \in lapses) /\ Queued(j) = Queued(init)
      /\ j.retry = [init.retry EXCEPT ![b] = n]
  BY <1>1, <1>2, RetryBooks
<1>4. init' = Done(j, PortOf(b))
  OBVIOUS
<1> HIDE DEF j
<1>5. /\ Books(init', out \ {b}, "short" \in lapses)
      /\ Queued(init') = Queued(j) /\ init'.retry = j.retry
  <2>1. Books(j, out, "short" \in lapses)
    BY <1>3
  <2>2. /\ Books(Done(j, PortOf(b)), out \ {b}, "short" \in lapses)
        /\ Queued(Done(j, PortOf(b))) = Queued(j) /\ Done(j, PortOf(b)).retry = j.retry
    BY <1>1, <2>1, DoneBooks
  <2> QED BY <1>4, <2>2
<1>6. Books(init', out \ {b}, "short" \in lapses')
  BY <1>5, LapsesGrow
<1>7. sent' \cup timer' = out \ {b} /\ sent' \cap timer' = {}
  BY DEF Back, Counted
<1>8. Counted'
  BY <1>6, <1>7 DEF Counted
<1>9. Pending' = Pending \ {b}
  BY <1>1, <1>2, <1>3, <1>5, <1>7 DEF Pending
<1> QED BY <1>1, <1>2, <1>3, <1>5, <1>8, <1>9 DEF Pending, Back

\* Taken off the queue, and done.
LEMMA EndsTaken ==
    ASSUME Counted, NEW b, AtFront(b), init' = Done(Taken(init), PortOf(b)),
           UNCHANGED <<sent, timer>>, lapses \subseteq lapses'
    PROVE  /\ Counted' /\ Pending' = Pending \ {b} /\ init'.retry = init.retry
           /\ b \in Pending /\ b \in Base /\ b \notin sent
<1> DEFINE out == sent \cup timer
           j == Taken(init)
<1>1. /\ Books(init, out, "short" \in lapses) /\ init.queue # <<>> /\ b = Head(init.queue)
  BY DEF Counted, AtFront
<1>2. /\ Books(j, out \cup {b}, "short" \in lapses) /\ b \in Queued(init) /\ b \in Base
      /\ b \notin out /\ Queued(j) = Queued(init) \ {b} /\ j.retry = init.retry
  BY <1>1, TakenBooks
<1>3. init' = Done(j, PortOf(b))
  OBVIOUS
<1> HIDE DEF j
<1>4. /\ Books(init', (out \cup {b}) \ {b}, "short" \in lapses)
      /\ Queued(init') = Queued(j) /\ init'.retry = j.retry
  BY <1>2, <1>3, DoneBooks
<1>5. (out \cup {b}) \ {b} = out
  BY <1>2
<1>6. Books(init', out, "short" \in lapses')
  BY <1>4, <1>5, LapsesGrow
<1>7. Counted'
  BY <1>6 DEF Counted
<1>8. Pending' = Pending \ {b}
  BY <1>2, <1>4 DEF Pending
<1> QED BY <1>2, <1>4, <1>7, <1>8 DEF Pending

-----------------------------------------------------------------------------
(* What a machine does to its port. *)

\* A disk's machine: it goes on, or it ends.
LEMMA DiskMoves ==
    ASSUME Inv, NEW d \in Disk, d \in Pending, NEW x \in DiskState \ {"IDLE"},
           WorldTyped', Counted', Pending' = Pending \/ Pending' = Pending \ {d},
           sent' \subseteq sent \cup {d}, disk' = [disk EXCEPT ![d] = x],
           pm' = pm, handling' = handling, lapses \subseteq lapses',
           \A b \in Base : b # d => init'.retry[b] = init.retry[b],
           d \in Pending' => x # "gone", d \notin Pending' => x \in {"gone", "INIT_DONE"},
           d \in sent' => x \in DOMAIN NextSetup,
           x # "gone" => init'.retry[d] <= RetryLimit,
           (Past(d)' => Past(d)) \/ \A e \in Disk : {d, e} \in Twin => ~Past(e)
    PROVE  Inv'
<1> DEFINE p == d[1]
<1>1. p \in Port /\ d \in DisksOf(p) /\ d \in Base /\ d[2] # Pm /\ d[2] # PortPart /\ PortOf(d) = p
  BY Bases
<1>2. /\ Counted /\ MachinesTyped /\ OnePast /\ InTurn(p) /\ (Unlapsed => Remembered(p))
  BY <1>1 DEF Inv
<1>3. disk \in [Disk -> DiskState] /\ pm \in [Port -> PmRecord]
  BY <1>2 DEF MachinesTyped
<1>4. disk'[d] = x /\ \A e \in Disk : e # d => disk'[e] = disk[e]
  BY <1>3
<1>5. MachinesTyped'
  BY <1>3 DEF MachinesTyped
<1>6. d \in AtPort(Pending, p) /\ AtPort(Pending, p) \subseteq DisksOf(p)
  <2>1. d \in AtPort(Pending, p)
    BY <1>1 DEF AtPort
  <2> QED BY <1>1, <1>2, <2>1 DEF InTurn, Turn
<1>7. AtPort(Pending', p) \subseteq AtPort(Pending, p)
  BY DEF AtPort
<1>8. <<p, Pm>> \notin Pending' /\ <<p, PortPart>> \notin Pending'
      /\ <<p, Pm>> \notin Pending /\ <<p, PortPart>> \notin Pending
  <2>1. <<p, Pm>> \notin DisksOf(p) /\ <<p, PortPart>> \notin DisksOf(p)
    BY Parts DEF DisksOf
  <2>2. PortOf(<<p, Pm>>) = p /\ PortOf(<<p, PortPart>>) = p
    BY DEF PortOf
  <2> QED BY <1>6, <1>7, <2>1, <2>2 DEF AtPort
<1>9. OnlyAt(p)
  BY <1>1, <1>4 DEF OnlyAt
<1>10. Quiet
  BY DEF Quiet
<1>11. \A e \in DisksOf(p) : e \in Disk /\ e \in Base
  BY <1>1, Bases
<1>12. InTurn(p)'
  <2>1. Turn(p)'
    BY <1>6, <1>7 DEF Turn
  <2>2. ASSUME NEW e \in DisksOf(p) PROVE DiskRuns(e)'
    <3>1. CASE e = d
      BY <1>4, <3>1 DEF DiskRuns, Known
    <3>2. CASE e # d
      <4>1. /\ e \in Pending' => e \in Pending
            /\ e \in sent' => e \in sent
            /\ disk'[e] = disk[e] /\ init'.retry[e] = init.retry[e]
        BY <1>4, <1>11, <3>2
      <4> QED BY <1>2, <4>1 DEF InTurn, DiskRuns, Known
    <3> QED BY <3>1, <3>2
  <2>3. PmRuns(p)'
    BY <1>8 DEF PmRuns
  <2>4. Settled(p)'
    BY <1>2, <1>6 DEF InTurn, Settled
  <2> QED BY <2>1, <2>2, <2>3, <2>4 DEF InTurn
<1>13. ASSUME Unlapsed' PROVE Remembered(p)'
  <2>1. Remembered(p)
    BY <1>2, <1>13 DEF Unlapsed
  <2>2. ASSUME NEW e \in DisksOf(p)
        PROVE  disk'[e] \notin {"gone", "INIT_DONE"} => e \in Pending'
    <3>1. CASE e = d
      BY <1>4, <3>1
    <3>2. CASE e # d
      <4>1. disk'[e] = disk[e] /\ (e \in Pending => e \in Pending')
        BY <1>4, <1>11, <3>2
      <4> QED BY <1>8, <2>1, <4>1 DEF Remembered
    <3> QED BY <3>1, <3>2
  <2>3. pm[p].up => pm[p].state = "DONE"
    BY <1>8, <2>1 DEF Remembered
  <2> QED BY <1>8, <2>2, <2>3 DEF Remembered
<1>14. OnePast'
  <2> SUFFICES ASSUME NEW e \in Disk, NEW f \in Disk, {e, f} \in Twin, Past(e)', Past(f)'
               PROVE  FALSE
    BY DEF OnePast
  <2>1. \A g \in Disk \ {d} : Past(g)' => Past(g)
    BY <1>4 DEF Past, Identified
  <2>2. e # f
    BY TwinAssumption
  <2>3. CASE e # d /\ f # d
    BY <1>2, <2>1, <2>3 DEF OnePast
  <2>4. CASE e = d
    BY <1>2, <2>1, <2>2, <2>4 DEF OnePast
  <2>5. CASE f = d
    <3>1. {e, f} = {d, e}
      BY <2>5
    <3> QED BY <1>2, <2>1, <2>2, <2>5, <3>1 DEF OnePast
  <2> QED BY <2>3, <2>4, <2>5
<1> HIDE DEF p
<1> QED BY <1>1, <1>5, <1>9, <1>10, <1>12, <1>13, <1>14, PortMoves

\* While a multiplier is being initialised, nothing else of its port is.
LEMMA PmAlone ==
    ASSUME Inv, NEW p \in Port, <<p, Pm>> \in Pending
    PROVE  /\ AtPort(Pending, p) = {<<p, Pm>>} /\ <<p, PortPart>> \notin Pending
           /\ init.retry[<<p, Pm>>] <= RetryLimit
           /\ SoftReset(pm[p]) => Known(<<p, pm[p].active_port>>)
           /\ \A d \in DisksOf(p) :
                 /\ d \notin Pending /\ d \notin sent
                 /\ Known(d) => init.retry[d] <= RetryLimit
                 /\ disk[d] = "IDLE" => d \in IdleDisks(p)
                 /\ Unlapsed => disk[d] \in {"gone", "INIT_DONE", "IDLE"}
<1>1. /\ InTurn(p) /\ (Unlapsed => Remembered(p))
  BY DEF Inv
<1>2. PortOf(<<p, Pm>>) = p /\ PortOf(<<p, PortPart>>) = p /\ \A d \in DisksOf(p) : PortOf(d) = p
  BY DEF PortOf, DisksOf
<1>3. <<p, Pm>> \notin DisksOf(p) /\ <<p, PortPart>> \notin DisksOf(p) /\ <<p, Pm>> # <<p, PortPart>>
  BY Parts DEF DisksOf
<1>4. <<p, Pm>> \in AtPort(Pending, p)
  BY <1>2 DEF AtPort
<1>5. AtPort(Pending, p) = {<<p, Pm>>}
  BY <1>1, <1>3, <1>4 DEF InTurn, Turn
<1>6. <<p, PortPart>> \notin Pending /\ \A d \in DisksOf(p) : d \notin Pending /\ d \notin sent
  <2>1. \A b \in Pending : PortOf(b) = p => b = <<p, Pm>>
    BY <1>5 DEF AtPort
  <2> QED BY <1>2, <1>3, <2>1 DEF Pending
<1>7. ASSUME NEW d \in DisksOf(p), disk[d] = "IDLE" PROVE d \in IdleDisks(p)
  <2>1. d[2] \in Slot /\ d = <<p, d[2]>>
    BY <1>1, <1>7, Bases DEF InTurn, DiskRuns
  <2> QED BY <1>7, <2>1 DEF IdleDisks
<1> QED BY <1>1, <1>5, <1>6, <1>7 DEF InTurn, DiskRuns, PmRuns, Remembered

\* A multiplier's machine goes on.
LEMMA PmMoves ==
    ASSUME Inv, NEW p \in Port, <<p, Pm>> \in Pending, NEW x \in PmRecord,
           WorldTyped', Counted', Pending' = Pending, sent' \subseteq sent \cup {<<p, Pm>>},
           pm' = [pm EXCEPT ![p] = x], disk' = disk, handling' = handling,
           lapses \subseteq lapses',
           \A b \in Base : b # <<p, Pm>> => init'.retry[b] = init.retry[b],
           init'.retry[<<p, Pm>>] <= RetryLimit,
           SoftReset(x) => Known(<<p, x.active_port>>),
           x.state = "READ_GLOBAL_ERROR" => pm[p].state = "READ_GLOBAL_ERROR"
    PROVE  Inv'
<1>1. /\ Counted /\ MachinesTyped /\ OnePast /\ InTurn(p) /\ (Unlapsed => Remembered(p))
  BY DEF Inv
<1>2. disk \in [Disk -> DiskState] /\ pm \in [Port -> PmRecord]
  BY <1>1 DEF MachinesTyped
<1>3. pm'[p] = x /\ \A q \in Port : q # p => pm'[q] = pm[q]
  BY <1>2
<1>4. MachinesTyped'
  BY <1>2 DEF MachinesTyped
<1>5. <<p, Pm>> \in Base /\ <<p, Pm>>[1] = p
  BY Bases
<1>6. OnlyAt(p)
  BY <1>3, <1>5 DEF OnlyAt
<1>7. Quiet
  BY DEF Quiet
<1>8. \A d \in DisksOf(p) : d \in Disk /\ d \in Base /\ d # <<p, Pm>>
  <2>1. \A d \in DisksOf(p) : d \in Disk /\ d \in Base
    BY Bases
  <2>2. <<p, Pm>> \notin DisksOf(p)
    BY Parts DEF DisksOf
  <2> QED BY <2>1, <2>2
<1>9. InTurn(p)'
  <2>1. Turn(p)'
    BY <1>1 DEF InTurn, Turn
  <2>2. ASSUME NEW d \in DisksOf(p) PROVE DiskRuns(d)'
    BY <1>1, <1>8 DEF InTurn, DiskRuns, Known
  <2>3. PmRuns(p)'
    BY <1>3, PmAlone DEF PmRuns, Known
  <2>4. Settled(p)'
    BY <1>1 DEF InTurn, Settled
  <2> QED BY <2>1, <2>2, <2>3, <2>4 DEF InTurn
<1>10. ASSUME Unlapsed' PROVE Remembered(p)'
  <2>1. Remembered(p)
    BY <1>1, <1>10 DEF Unlapsed
  <2> QED BY <1>3, <2>1 DEF Remembered, IdleDisks
<1>11. OnePast'
  BY <1>1 DEF OnePast, Past, Identified
<1> QED BY <1>4, <1>6, <1>7, <1>9, <1>10, <1>11, PortMoves

-----------------------------------------------------------------------------
(* The port's actions, and what happens outside. *)

\* A port that waits, for its signature or for the end of a reset, keeps the invariant.
LEMMA PortWaits ==
    ASSUME Inv, NEW p \in Port, sata_port_state_machine(p), port_state[p] # "SIG_DONE",
           ~(port_state[p] = "WAIT_SIG" /\ signature[p] # "none")
    PROVE  Inv'
<1> DEFINE b == <<p, PortPart>>
<1>1. /\ AtFront(b) /\ init' = Taken(init) /\ (Send(b) \/ Arm(b))
      /\ pm' = pm /\ disk' = disk /\ lapses' = lapses /\ handling' = handling
  BY DEF sata_port_state_machine, eventVars
<1>2. WorldTyped'
  <2>1. WorldTyped
    BY DEF Inv
  <2>2. /\ UNCHANGED <<core_state, attached, present, serror, signature, eventVars>>
        /\ \/ port_state' = port_state
           \/ port_state' = [port_state EXCEPT ![p] = "SOFT_RESET_1"]
        /\ owes' = owes \/ owes' = [owes EXCEPT ![p] = attached[p] # "none"]
    BY DEF sata_port_state_machine
  <2> QED BY <2>1, <2>2 DEF WorldTyped, eventVars
<1>3. /\ Counted' /\ Pending' = Pending /\ init'.retry = init.retry /\ sent' \subseteq sent \cup {b}
  BY <1>1, GoesOut DEF Inv
<1>4. \A d \in Disk : d # b
  BY Bases
<1>5. Quiet
  BY <1>1 DEF Quiet
<1> QED BY <1>1, <1>2, <1>3, <1>4, <1>5, NothingMoves

\* The soft reset of a port is answered (sata_port_intl_req_callback).
LEMMA PortAnswered ==
    ASSUME Inv, NEW p \in Port, sata_port_intl_req_callback(p)
    PROVE  Inv'
<1> DEFINE b == <<p, PortPart>>
<1>1. /\ Back(b) /\ init' = Requeue(init, b)
      /\ pm' = pm /\ disk' = disk /\ lapses' = lapses /\ handling' = handling
  BY DEF sata_port_intl_req_callback, eventVars, Completes, Back
<1>2. WorldTyped'
  <2>1. WorldTyped
    BY DEF Inv
  <2>2. /\ UNCHANGED <<core_state, hwVars, eventVars>>
        /\ \/ port_state' = [port_state EXCEPT ![p] = "SOFT_RESET_0"]
           \/ port_state' = [port_state EXCEPT ![p] = "WAIT_SIG"]
        /\ signature' = signature \/ signature' = [signature EXCEPT ![p] = "none"]
    BY DEF sata_port_intl_req_callback
  <2> QED BY <2>1, <2>2 DEF WorldTyped, eventVars, hwVars
<1>3. /\ Counted' /\ Pending' = Pending /\ init'.retry = init.retry /\ sent' \subseteq sent
  BY <1>1, ComesBack DEF Inv
<1>4. Quiet
  BY <1>1 DEF Quiet
<1> QED BY <1>1, <1>2, <1>3, <1>4, NothingMoves

LEMMA SigDoneTyped ==
    ASSUME WorldTyped, NEW p \in Port, SigDone(p)
    PROVE  port_state' \in [Port -> {"POWER_ON", "SOFT_RESET_1", "SOFT_RESET_0", "WAIT_SIG", "SIG_DONE"}]
  BY DEF WorldTyped, SigDone

\* A port's signature did not come in time (sata_sig_time_out).
LEMMA PortTimedOut ==
    ASSUME Inv, NEW p \in Port, sata_sig_time_out(p)
    PROVE  Inv'
<1> DEFINE b == <<p, PortPart>>
<1>1. /\ Back(b) /\ init' = Requeue(init, b)
      /\ pm' = pm /\ disk' = disk /\ lapses \subseteq lapses' /\ handling' = handling
  BY DEF sata_sig_time_out, SigDone, eventVars, Expires, Back, Lapse
<1>2. WorldTyped'
  <2>1. WorldTyped
    BY DEF Inv
  <2>2. /\ UNCHANGED <<core_state, hwVars, eventVars, signature>> /\ SigDone(p)
    BY DEF sata_sig_time_out
  <2> QED BY <2>1, <2>2, SigDoneTyped DEF WorldTyped, eventVars, hwVars
<1>3. /\ Counted' /\ Pending' = Pending /\ init'.retry = init.retry /\ sent' \subseteq sent
  BY <1>1, ComesBack DEF Inv
<1>4. Quiet
  BY <1>1 DEF Quiet
<1> QED BY <1>1, <1>2, <1>3, <1>4, NothingMoves

\* A signature comes (sata_port_notify_event).
LEMMA SignatureComes ==
    ASSUME Inv, NEW p \in Port, sata_port_notify_event(p)
    PROVE  Inv'
<1> DEFINE b == <<p, PortPart>>
<1>1. /\ pm' = pm /\ disk' = disk /\ lapses' = lapses /\ handling' = handling /\ sent' = sent
      /\ \/ Back(b) /\ init' = Requeue(init, b) /\ SigDone(p)
         \/ UNCHANGED <<init, timer, port_state>>
  BY DEF sata_port_notify_event, SigDone, eventVars, Back
<1>2. WorldTyped'
  <2>1. WorldTyped
    BY DEF Inv
  <2>2. /\ UNCHANGED <<core_state, attached, present, serror, eventVars>>
        /\ owes' = [owes EXCEPT ![p] = FALSE]
        /\ signature' = signature \/ signature' = [signature EXCEPT ![p] = attached[p]]
    BY DEF sata_port_notify_event
  <2>3. port_state' \in [Port -> {"POWER_ON", "SOFT_RESET_1", "SOFT_RESET_0", "WAIT_SIG", "SIG_DONE"}]
    BY <1>1, <2>1, SigDoneTyped DEF WorldTyped
  <2> QED BY <2>1, <2>2, <2>3 DEF WorldTyped, eventVars
<1>3. /\ Counted' /\ Pending' = Pending /\ init'.retry = init.retry
  <2>1. CASE Back(b) /\ init' = Requeue(init, b)
    BY <1>1, <2>1, ComesBack DEF Inv
  <2>2. CASE UNCHANGED <<init, timer, port_state>>
    BY <1>1, <2>2, BooksStay DEF Inv
  <2> QED BY <1>1, <2>1, <2>2
<1>4. Quiet
  BY <1>1 DEF Quiet
<1> QED BY <1>1, <1>2, <1>3, <1>4, NothingMoves

\* An event that is noted is one more in the queue.
LEMMA Noted ==
    ASSUME WorldTyped, NEW p \in Port, NEW event \in {"async", "phy"}, pal_notify_event(p, event)
    PROVE  event_queue' \in Seq(Port \X {"async", "phy"})
<1> DEFINE S == Port \X {"async", "phy"}
<1>1. event_queue \in Seq(S) /\ <<p, event>> \in S
  BY DEF WorldTyped
<1>2. Append(event_queue, <<p, event>>) \in Seq(S)
  BY <1>1, AppendProperties
<1> QED BY <1>1, <1>2 DEF pal_notify_event

\* Nothing the core has changes.
Outside == UNCHANGED <<init, sent, timer, pm, disk>> /\ lapses \subseteq lapses'

\* Then the invariant holds as long as the types do.
LEMMA OutsideKeeps ==
    ASSUME Inv, WorldTyped', Outside, Quiet
    PROVE  Inv'
  BY BooksStay, NothingMoves DEF Inv, Outside

\* Something is plugged in or pulled: only what is there changes.
LEMMA PlugKeeps ==
    ASSUME Inv, NEW p \in Port, Plug(p) \/ Pull(p)
    PROVE  Inv'
<1>1. /\ Outside /\ UNCHANGED <<core_state, signature, handling, port_state>>
      /\ pal_notify_event(p, "phy")
  BY DEF Plug, Pull, PhyChanges, Missed, Outside
<1>2. WorldTyped
  BY DEF Inv
<1>3. event_queue' \in Seq(Port \X {"async", "phy"})
  BY <1>1, <1>2, Noted
<1>4. /\ attached' \in [Port -> {"none", "disk", "pm"}] /\ present' \in [Port -> SUBSET Slot]
      /\ serror' \in [Port -> SUBSET Slot] /\ owes' \in [Port -> BOOLEAN]
  <2>1. CASE Plug(p)
    <3>1. PICK it \in AtPlug : /\ attached' = [attached EXCEPT ![p] = it.attached]
                               /\ present' = [present EXCEPT ![p] = it.present]
                               /\ UNCHANGED <<serror, owes>>
      BY <2>1 DEF Plug
    <3>2. it.attached \in {"disk", "pm"} /\ it.present \in SUBSET Slot
      BY AttachedAssumption
    <3> QED BY <1>2, <3>1, <3>2 DEF WorldTyped
  <2>2. CASE Pull(p)
    BY <1>2, <2>2 DEF WorldTyped, Pull
  <2> QED BY <2>1, <2>2
<1>5. WorldTyped'
  BY <1>1, <1>2, <1>3, <1>4 DEF WorldTyped
<1>6. Quiet
  BY <1>1 DEF Quiet
<1> QED BY <1>1, <1>5, <1>6, OutsideKeeps

\* A disk comes or goes behind a multiplier: only what is there changes.
LEMMA SlotKeeps ==
    ASSUME Inv, NEW p \in Port, NEW s \in Slot, SlotChanges(p, s)
    PROVE  Inv'
<1>1. /\ Outside /\ UNCHANGED <<core_state, attached, owes, signature, handling, port_state>>
      /\ pal_notify_event(p, "async") \/ event_queue' = event_queue
      /\ present' = [present EXCEPT ![p] = (@ \cup {s}) \ (@ \cap {s})]
      /\ serror' = [serror EXCEPT ![p] = @ \cup {s}]
  BY DEF SlotChanges, Outside
<1>2. WorldTyped
  BY DEF Inv
<1>3. event_queue' \in Seq(Port \X {"async", "phy"})
  BY <1>1, <1>2, Noted DEF WorldTyped
<1>4. present' \in [Port -> SUBSET Slot] /\ serror' \in [Port -> SUBSET Slot]
  BY <1>1, <1>2 DEF WorldTyped
<1>5. WorldTyped'
  BY <1>1, <1>2, <1>3, <1>4 DEF WorldTyped
<1>6. Quiet
  BY <1>1 DEF Quiet
<1> QED BY <1>1, <1>5, <1>6, OutsideKeeps

\* The interrupt cleared, the core started, a stuttering step: no machine moves.
LEMMA RestKeeps ==
    ASSUME Inv, IrqCleared \/ Started \/ UNCHANGED vars
    PROVE  Inv'
<1>1. WorldTyped
  BY DEF Inv
<1>2. Outside
  BY DEF IrqCleared, Started, vars, Outside
<1>3. Quiet /\ (handling' = None \/ handling' = handling)
  BY DEF IrqCleared, Started, vars, eventVars, Quiet
<1>4. WorldTyped'
  BY <1>1, <1>3 DEF IrqCleared, Started, core_check_init_done, vars, eventVars, hwVars, WorldTyped
<1> QED BY <1>2, <1>3, <1>4, OutsideKeeps

-----------------------------------------------------------------------------
(* The disks' actions. *)

\* What is put to a disk next, and what the answer leads to.
LEMMA SetupStates ==
    /\ \A d : SetupSent(d) \subseteq DOMAIN NextSetup \cup {"INIT_DONE"}
    /\ \A d : \A x \in SetupSent(d) : disk[d] # "gone"
    /\ \A x \in DOMAIN NextSetup : /\ NextSetup[x] \in DiskState \ {"IDLE", "gone", "INIT_DONE"}
                                   /\ x \in DiskState \ {"IDLE", "gone", "INIT_DONE"}
    /\ "INIT_DONE" \in DiskState /\ "gone" \in DiskState
    /\ DOMAIN NextSetup = {"RESET_DONE", "ENABLE_DIPM_DONE", "SET_PIO_DONE", "SET_UDMA_DONE",
                           "ENABLE_WRITE_CACHE_DONE"}
    /\ "RESET_DONE" \in DiskState
<1>1. DOMAIN NextSetup = {"RESET_DONE", "ENABLE_DIPM_DONE", "SET_PIO_DONE", "SET_UDMA_DONE",
                          "ENABLE_WRITE_CACHE_DONE"}
  BY DEF NextSetup
<1>2. \A x \in DOMAIN NextSetup : /\ NextSetup[x] \in DiskState \ {"IDLE", "gone", "INIT_DONE"}
                                  /\ x \in DiskState \ {"IDLE", "gone", "INIT_DONE"}
  BY <1>1 DEF NextSetup, DiskState
<1>3. \A d : /\ SetupSent(d) \subseteq {"RESET_DONE", "ENABLE_DIPM_DONE", "SET_PIO_DONE",
                   "SET_UDMA_DONE", "ENABLE_WRITE_CACHE_DONE", "INIT_DONE"}
             /\ \A x \in SetupSent(d) : disk[d] # "gone"
  BY DEF SetupSent
<1> QED BY <1>1, <1>2, <1>3 DEF DiskState

\* Past the check comes only what was past it, or has just been checked.
LEMMA PastTheCheck ==
    ASSUME NEW d, NEW x \in SetupSent(d),
           x \notin {"gone", "IDLE", "RESET_DONE", "IDENTIFY_DONE"}, ~Past(d)
    PROVE  disk[d] = "IDENTIFY_DONE"
  BY DEF SetupSent, Past, Identified

\* A disk's machine sends its next request, or is done (sata_device_state_machine).
LEMMA DiskMachine ==
    ASSUME Inv, NEW d \in Disk, sata_device_state_machine(d)
    PROVE  Inv'
<1>1. /\ d \in Base /\ PortOf(d) = d[1] /\ d \in DisksOf(d[1]) /\ d[1] \in Port
  BY Bases
<1>2. /\ Counted /\ disk \in [Disk -> DiskState] /\ DiskRuns(d) /\ WorldTyped
  BY <1>1 DEF Inv, InTurn, MachinesTyped
<1>3. /\ AtFront(d) /\ pm' = pm /\ handling' = handling
      /\ UNCHANGED <<core_state, hwVars, signature, eventVars, port_state>>
  BY DEF sata_device_state_machine, eventVars
<1>4. WorldTyped'
  BY <1>2, <1>3 DEF WorldTyped, hwVars, eventVars
<1>5. d \in Pending
  <2>1. init.queue \in Seq(Base) /\ init.queue # <<>> /\ d = Head(init.queue)
    BY <1>2, <1>3 DEF AtFront, Counted, Books, InitRecord
  <2>2. d \in Queued(init)
    BY <1>2, <2>1, TakenBooks DEF Counted
  <2> QED BY <2>2 DEF Pending
<1>6. Known(d) /\ init.retry[d] <= RetryLimit
  BY <1>2, <1>5 DEF DiskRuns
<1>7. CASE disk[d] = "IDLE" /\ disk' = [disk EXCEPT ![d] = "RESET_DONE"]
           /\ UNCHANGED <<init, sent, timer, lapses>>
  <2>1. Counted' /\ Pending' = Pending
    BY <1>2, <1>7, BooksStay
  <2>2. ~Past(d)'
    BY <1>2, <1>7 DEF Past, Identified
  <2>3. d \notin sent
    BY <1>2, <1>7, SetupStates DEF DiskRuns
  <2> QED BY <1>3, <1>4, <1>5, <1>6, <1>7, <2>1, <2>2, <2>3, SetupStates, DiskMoves
<1>8. CASE /\ pal_set_down_disk(d) /\ init' = Done(Taken(init), d[1]) /\ Lapse("twins")
           /\ UNCHANGED <<sent, timer>>
  <2>1. lapses \subseteq lapses'
    BY <1>8 DEF Lapse
  <2>2. /\ Counted' /\ Pending' = Pending \ {d} /\ init'.retry = init.retry /\ d \notin sent
    BY <1>1, <1>2, <1>3, <1>8, <2>1, EndsTaken
  <2>3. disk' = [disk EXCEPT ![d] = "gone"]
    BY <1>8 DEF pal_set_down_disk
  <2>4. ~Past(d)'
    BY <1>2, <2>3 DEF Past, Identified
  <2> QED BY <1>3, <1>4, <1>5, <1>8, <2>1, <2>2, <2>3, <2>4, SetupStates, DiskMoves
<1>9. ASSUME NEW x \in SetupSent(d), disk' = [disk EXCEPT ![d] = x], lapses' = lapses,
             ~(disk[d] = "IDENTIFY_DONE" /\ core_check_duplicate_device(d)),
             IF x = "INIT_DONE"
             THEN init' = Done(Taken(init), d[1]) /\ UNCHANGED <<sent, timer>>
             ELSE init' = Taken(init) /\ Send(d)
      PROVE  Inv'
  <2>1. (Past(d)' => Past(d)) \/ \A e \in Disk : {d, e} \in Twin => ~Past(e)
    <3> SUFFICES ASSUME Past(d)', ~Past(d), NEW e \in Disk, {d, e} \in Twin
                 PROVE  ~Past(e)
      OBVIOUS
    <3>1. disk'[d] = x
      BY <1>2, <1>9
    <3>2. disk[d] = "IDENTIFY_DONE"
      BY <1>9, <3>1, PastTheCheck DEF Past, Identified
    <3>3. e # d
      BY TwinAssumption
    <3>4. ~Identified(e)
      BY <1>9, <3>2, <3>3 DEF core_check_duplicate_device
    <3> QED BY <3>4 DEF Past
  <2>2. x \in DiskState \ {"IDLE", "gone"} /\ (x # "INIT_DONE" => x \in DOMAIN NextSetup)
    BY <1>9, SetupStates
  <2>3. CASE x = "INIT_DONE"
    <3>1. /\ Counted' /\ Pending' = Pending \ {d} /\ init'.retry = init.retry /\ d \notin sent
      BY <1>1, <1>2, <1>3, <1>9, <2>3, EndsTaken
    <3>2. sent' = sent
      BY <1>9, <2>3
    <3> QED BY <1>3, <1>4, <1>5, <1>6, <1>9, <2>1, <2>2, <2>3, <3>1, <3>2, DiskMoves
  <2>4. CASE x # "INIT_DONE"
    <3>1. /\ Counted' /\ Pending' = Pending /\ init'.retry = init.retry
          /\ sent' \subseteq sent \cup {d}
      BY <1>2, <1>3, <1>9, <2>4, GoesOut
    <3> QED BY <1>3, <1>4, <1>5, <1>6, <1>9, <2>1, <2>2, <2>4, <3>1, DiskMoves
  <2> QED BY <2>3, <2>4
<1> QED BY <1>7, <1>8, <1>9 DEF sata_device_state_machine

\* A disk's request is answered (sata_device_intl_req_callback).
LEMMA DiskAnswered ==
    ASSUME Inv, NEW d \in Disk, sata_device_intl_req_callback(d)
    PROVE  Inv'
<1>1. /\ d \in Base /\ PortOf(d) = d[1] /\ d \in DisksOf(d[1]) /\ d[1] \in Port /\ d[2] # Pm
  BY Bases
<1>2. /\ Counted /\ disk \in [Disk -> DiskState] /\ DiskRuns(d) /\ WorldTyped
  BY <1>1 DEF Inv, InTurn, MachinesTyped
<1>3. /\ Back(d) /\ handling' = handling /\ lapses' = lapses /\ d \in sent /\ sent' = sent \ {d}
      /\ UNCHANGED <<core_state, hwVars, signature, eventVars, port_state>>
  BY DEF sata_device_intl_req_callback, eventVars, Completes, Back
<1>4. WorldTyped'
  BY <1>2, <1>3 DEF WorldTyped, hwVars, eventVars
<1>5. d \in Pending
  BY <1>3 DEF Pending
<1>6. Known(d) /\ init.retry[d] <= RetryLimit /\ disk[d] \in DOMAIN NextSetup
  BY <1>2, <1>3, <1>5 DEF DiskRuns
<1>7. CASE disk' = [disk EXCEPT ![d] = NextSetup[@]] /\ init' = Requeue(init, d) /\ pm' = pm
  <2>1. /\ Counted' /\ Pending' = Pending /\ init'.retry = init.retry
    BY <1>2, <1>3, <1>7, ComesBack
  <2>2. disk' = [disk EXCEPT ![d] = NextSetup[disk[d]]]
    BY <1>7
  <2>3. Past(d)' => Past(d)
    <3>1. disk'[d] = NextSetup[disk[d]]
      BY <1>2, <2>2
    <3>2. disk[d] = "RESET_DONE" => disk'[d] = "IDENTIFY_DONE"
      BY <3>1 DEF NextSetup
    <3>3. disk[d] \notin {"gone", "IDLE", "IDENTIFY_DONE"}
      BY <1>6, SetupStates
    <3> QED BY <3>2, <3>3 DEF Past, Identified
  <2> QED BY <1>3, <1>4, <1>5, <1>6, <1>7, <2>1, <2>2, <2>3, SetupStates, DiskMoves
<1>8. CASE core_handle_init_error(d)
  <2> DEFINE n == init.retry[d] + 1
             i == [init EXCEPT !.retry[d] = n]
  <2>1. /\ init \in InitRecord /\ init.retry \in [Base -> 0 .. RetryLimit + 1]
    BY <1>2 DEF Counted, Books, InitRecord
  <2>2. n \in 0 .. RetryLimit + 1 /\ i.retry[d] = n /\ i.queue = init.queue
    BY <1>1, <1>6, <2>1, NumberAssumption DEF InitRecord
  <2>3. i = [init EXCEPT !.retry[d] = @ + 1]
    OBVIOUS
  <2>4. CASE n <= RetryLimit
    <3>1. init' = Requeue(i, d) /\ UNCHANGED <<disk, pm>>
      BY <1>8, <2>2, <2>3, <2>4 DEF core_handle_init_error
    <3>2. /\ Counted' /\ Pending' = Pending /\ init'.retry = [init.retry EXCEPT ![d] = n]
      BY <1>2, <1>3, <2>2, <3>1, TriedAgain
    <3>3. init'.retry[d] <= RetryLimit /\ \A b \in Base : b # d => init'.retry[b] = init.retry[b]
      BY <1>1, <2>1, <2>4, <3>2
    <3>4. disk' = [disk EXCEPT ![d] = disk[d]] /\ (Past(d)' => Past(d))
      BY <1>2, <3>1 DEF Past, Identified
    <3>5. disk[d] \in DiskState \ {"IDLE", "gone"}
      BY <1>6, SetupStates
    <3>6. d \in Pending' /\ sent' \subseteq sent \cup {d} /\ d \notin sent' /\ pm' = pm
          /\ lapses \subseteq lapses'
      BY <1>3, <1>5, <3>1, <3>2
    <3> QED BY <1>3, <1>4, <1>5, <3>2, <3>3, <3>4, <3>5, <3>6, DiskMoves
  <2>5. CASE ~(n <= RetryLimit)
    <3>1. pal_set_down_disk(d) /\ pm' = pm /\ init' = Done(Clean(i, d[1], {d}), d[1])
      BY <1>1, <1>8, <2>2, <2>3, <2>5 DEF core_handle_init_error
    <3>2. Queued(i) \cap {d} = {}
      <4>1. d \notin Queued(init)
        BY <1>2, <1>3 DEF Counted, Books
      <4> QED BY <2>2, <4>1 DEF Queued
    <3>3. init' = Done(i, PortOf(d))
      BY <1>1, <3>1, <3>2, CleanNothing
    <3>4. /\ Counted' /\ Pending' = Pending \ {d} /\ init'.retry = [init.retry EXCEPT ![d] = n]
      BY <1>2, <1>3, <2>2, <3>3, EndsBadly
    <3>5. \A b \in Base : b # d => init'.retry[b] = init.retry[b]
      BY <2>1, <3>4
    <3>6. disk' = [disk EXCEPT ![d] = "gone"]
      BY <3>1 DEF pal_set_down_disk
    <3>7. ~Past(d)'
      BY <1>2, <3>6 DEF Past, Identified
    <3> QED BY <1>3, <1>4, <1>5, <3>1, <3>4, <3>5, <3>6, <3>7, SetupStates, DiskMoves
  <2> QED BY <2>4, <2>5
<1> QED BY <1>7, <1>8 DEF sata_device_intl_req_callback

-----------------------------------------------------------------------------
(* A multiplier's actions: it goes on. *)

\* The smallest element of a set of numbers is one of them.
LEMMA MinIsElement ==
    ASSUME NEW S, S \subseteq Nat, S # {}
    PROVE  Min(S) \in S
<1> DEFINE Smaller == {ss \in Nat \X Nat : ss[1] < ss[2]}
<1>1. IsWellFoundedOn(Smaller, Nat)
  BY NatLessThanWellFounded, Zenon DEF OpToRel
<1>2. PICK s \in S : \A t \in S : <<t, s>> \notin Smaller
  <2> HIDE DEF Smaller
  <2> QED BY <1>1, WFMin
<1>3. \A t \in S : ~(t < s)
  BY <1>2
<1>4. \A t \in S : s =< t
  BY <1>3
<1> QED BY <1>4 DEF Min

LEMMA MinSlot == \A S \in SUBSET Slot : S # {} => Min(S) \in S /\ Min(S) \in Slot
<1>1. Slot \subseteq Nat
  BY Parts DEF Slot
<1> TAKE S \in SUBSET Slot
<1>2. S # {} => Min(S) \in S
  BY <1>1, MinIsElement
<1> QED BY <1>2

\* The record of a multiplier, field by field.
LEMMA PmFields ==
    \A x \in PmRecord : /\ x.up \in BOOLEAN /\ x.state \in PmState /\ x.active_port \in Slot
                        /\ x.retry_cnt \in Nat /\ x.srst_retry_cnt \in Nat /\ x.hot \in BOOLEAN
                        /\ x.global_serror \in SUBSET Slot
  BY DEF PmRecord

\* Going to another state, or another slot.
LEMMA ToState ==
    ASSUME NEW x \in PmRecord, NEW s \in PmState
    PROVE  /\ [x EXCEPT !.state = s] \in PmRecord /\ [x EXCEPT !.state = s].state = s
           /\ [x EXCEPT !.state = s].active_port = x.active_port
           /\ [x EXCEPT !.state = s].up = x.up
  BY DEF PmRecord

LEMMA ToSlot ==
    ASSUME NEW x \in PmRecord, NEW n \in Slot
    PROVE  /\ [x EXCEPT !.active_port = n] \in PmRecord
           /\ [x EXCEPT !.active_port = n].state = x.state
           /\ [x EXCEPT !.active_port = n].up = x.up
  BY DEF PmRecord

LEMMA SlotAfter ==
    ASSUME NEW x \in PmRecord, ~LastSlot(x)
    PROVE  x.active_port + 1 \in Slot
<1>1. x.active_port \in 0 .. NumSlots - 1 /\ NumSlots \in Nat
  BY Parts, PmFields DEF Slot
<1> QED BY <1>1 DEF LastSlot, Slot

\* The states a step leads to.
LEMMA States ==
    /\ {"DONE", "READ_PORT_ERROR", "PORT_CHECK_PHY_RDY", "CLEAR_X_BIT", "ENABLE_PM_PORT_1",
        "READ_ID_DONE", "SIG_DONE", "SPIN_UP_DONE", "READ_GLOBAL_ERROR", "CLEAR_PORT_ERROR",
        "ISSUE_SOFT_RESET_1", "ISSUE_SOFT_RESET_0", "WAIT_SIG", "RESET_DONE"} \subseteq PmState
    /\ \A s \in DOMAIN NextSetupOfPm :
          /\ NextSetupOfPm[s] \in PmState \ {"READ_GLOBAL_ERROR", "ISSUE_SOFT_RESET_1"}
          /\ NextSetupOfPm[s] = "ISSUE_SOFT_RESET_0" => s = "ISSUE_SOFT_RESET_1"
<1>1. DOMAIN NextSetupOfPm =
        {"RESET_DONE", "READ_INFO_DONE", "READ_ID_DONE", "READ_REV_DONE", "ENABLE_FEATURES",
         "CLEAR_ERROR_INFO", "ENABLE_PM_PORT_1", "ENABLE_PM_PORT_0", "CLEAR_PORT_ERROR",
         "ISSUE_SOFT_RESET_1", "ISSUE_SOFT_RESET_0"}
  BY DEF NextSetupOfPm
<1>2. ASSUME NEW s \in DOMAIN NextSetupOfPm
      PROVE  /\ NextSetupOfPm[s] \in PmState \ {"READ_GLOBAL_ERROR", "ISSUE_SOFT_RESET_1"}
             /\ NextSetupOfPm[s] = "ISSUE_SOFT_RESET_0" => s = "ISSUE_SOFT_RESET_1"
  BY <1>1 DEF NextSetupOfPm, PmState
<1> QED BY <1>2 DEF PmState

\* The states from which nothing special follows.
Plain(x) == ~SoftReset(x) /\ x.state # "READ_GLOBAL_ERROR"

\* The next slot is one there is, and nothing special follows.
LEMMA NextSlotTyped ==
    ASSUME NEW x \in PmRecord
    PROVE  NextSlot(x) \in PmRecord /\ Plain(NextSlot(x))
<1>1. /\ x.up \in BOOLEAN /\ x.state \in PmState /\ x.active_port \in Slot
      /\ x.retry_cnt \in Nat /\ x.srst_retry_cnt \in Nat /\ x.hot \in BOOLEAN
      /\ x.global_serror \in SUBSET Slot
  BY PmFields
<1>2. 0 \in Slot /\ {"DONE", "READ_PORT_ERROR", "PORT_CHECK_PHY_RDY"} \subseteq PmState
  BY Parts, States
<1>3. CASE x.hot /\ x.global_serror = {}
  <2>1. NextSlot(x) = [x EXCEPT !.active_port = 0, !.state = "DONE", !.hot = FALSE]
    BY <1>3 DEF NextSlot
  <2> QED BY <1>1, <1>2, <2>1 DEF PmRecord, Plain, SoftReset
<1>4. CASE x.hot /\ x.global_serror # {}
  <2> DEFINE s == Min(x.global_serror)
  <2>1. s \in Slot
    BY <1>1, <1>4, MinSlot
  <2>2. NextSlot(x) = [x EXCEPT !.active_port = s, !.global_serror = x.global_serror \ {s},
                                !.state = "READ_PORT_ERROR"]
    BY <1>4 DEF NextSlot
  <2> HIDE DEF s
  <2> DEFINE y == [x EXCEPT !.active_port = s, !.global_serror = x.global_serror \ {s},
                            !.state = "READ_PORT_ERROR"]
  <2>3. y \in PmRecord
    BY <1>1, <1>2, <2>1 DEF PmRecord
  <2>4. y.state = "READ_PORT_ERROR"
    BY DEF PmRecord
  <2> QED BY <2>2, <2>3, <2>4 DEF Plain, SoftReset
<1>5. CASE ~x.hot /\ LastSlot(x)
  <2>1. NextSlot(x) = [x EXCEPT !.active_port = 0, !.state = "DONE"]
    BY <1>5 DEF NextSlot
  <2> QED BY <1>1, <1>2, <2>1 DEF PmRecord, Plain, SoftReset
<1>6. CASE ~x.hot /\ ~LastSlot(x)
  <2>1. x.active_port + 1 \in Slot
    BY <1>6, SlotAfter
  <2>2. NextSlot(x) = [x EXCEPT !.active_port = x.active_port + 1, !.state = "PORT_CHECK_PHY_RDY"]
    BY <1>1, <1>6 DEF NextSlot, Looking, PmRecord
  <2> QED BY <1>1, <1>2, <2>1, <2>2 DEF PmRecord, Plain, SoftReset
<1> QED BY <1>3, <1>4, <1>5, <1>6

\* So it is after a look at a slot's phy.
LEMMA LookedAtTyped ==
    ASSUME NEW x \in PmRecord, x.state = "PORT_CHECK_PHY_RDY", NEW ready \in BOOLEAN
    PROVE  LookedAt(x, ready) \in PmRecord /\ Plain(LookedAt(x, ready))
<1>1. /\ x.up \in BOOLEAN /\ x.state \in PmState /\ x.active_port \in Slot
      /\ x.retry_cnt \in Nat /\ x.srst_retry_cnt \in Nat /\ x.hot \in BOOLEAN
      /\ x.global_serror \in SUBSET Slot
  BY PmFields
<1>2. 0 \in Slot /\ {"DONE", "CLEAR_X_BIT", "ENABLE_PM_PORT_1"} \subseteq PmState
  BY Parts, States
<1>3. CASE x.srst_retry_cnt > 0 /\ ready
  <2>1. LookedAt(x, ready) = [x EXCEPT !.state = "CLEAR_X_BIT"]
    BY <1>3 DEF LookedAt
  <2> QED BY <1>1, <1>2, <2>1 DEF PmRecord, Plain, SoftReset
<1>4. CASE ~(x.srst_retry_cnt > 0 /\ ready) /\ x.retry_cnt > 0
  <2>1. LookedAt(x, ready) = [x EXCEPT !.retry_cnt = x.retry_cnt - 1] /\ x.retry_cnt - 1 \in Nat
    BY <1>1, <1>4 DEF LookedAt
  <2> QED BY <1>1, <1>2, <2>1 DEF PmRecord, Plain, SoftReset
<1>5. CASE ~(x.srst_retry_cnt > 0 /\ ready) /\ ~(x.retry_cnt > 0) /\ x.srst_retry_cnt > 0
  <2>1. /\ LookedAt(x, ready) = [x EXCEPT !.srst_retry_cnt = x.srst_retry_cnt - 1,
                                          !.state = "ENABLE_PM_PORT_1"]
        /\ x.srst_retry_cnt - 1 \in Nat
    BY <1>1, <1>5 DEF LookedAt
  <2> QED BY <1>1, <1>2, <2>1 DEF PmRecord, Plain, SoftReset
<1>6. CASE ~(x.srst_retry_cnt > 0 /\ ready) /\ ~(x.retry_cnt > 0) /\ ~(x.srst_retry_cnt > 0)
           /\ LastSlot(x)
  <2>1. LookedAt(x, ready) = [x EXCEPT !.active_port = 0, !.state = "DONE"]
    BY <1>6 DEF LookedAt
  <2> QED BY <1>1, <1>2, <2>1 DEF PmRecord, Plain, SoftReset
<1>7. CASE ~(x.srst_retry_cnt > 0 /\ ready) /\ ~(x.retry_cnt > 0) /\ ~(x.srst_retry_cnt > 0)
           /\ ~LastSlot(x)
  <2>1. LookedAt(x, ready) = [x EXCEPT !.active_port = x.active_port + 1]
        /\ x.active_port + 1 \in Slot
    BY <1>7, SlotAfter DEF LookedAt
  <2> QED BY <1>1, <1>2, <2>1 DEF PmRecord, Plain, SoftReset
<1> QED BY <1>3, <1>4, <1>5, <1>6, <1>7

\* A request or a timer of a multiplier comes back, and it is put back in front.
LEMMA PmGoesOn ==
    ASSUME Inv, NEW p \in Port, Back(<<p, Pm>>), NEW x \in PmRecord, PmGoes(p, x),
           WorldTyped', disk' = disk, handling' = handling, lapses \subseteq lapses',
           SoftReset(x) => Known(<<p, x.active_port>>), x.state # "READ_GLOBAL_ERROR"
    PROVE  Inv'
<1>1. /\ Counted' /\ Pending' = Pending /\ init'.retry = init.retry
      /\ <<p, Pm>> \in Pending /\ sent' \subseteq sent
  BY ComesBack DEF Inv, PmGoes
<1>2. init.retry[<<p, Pm>>] <= RetryLimit
  BY <1>1 DEF Inv, InTurn, PmRuns
<1> QED BY <1>1, <1>2, PmMoves DEF PmGoes

\* A multiplier's machine sends its next request, or waits.
LEMMA PmWaits ==
    ASSUME Inv, NEW p \in Port, pm_state_machine(p), pm[p].state # "DONE"
    PROVE  Inv'
<1> DEFINE b == <<p, Pm>>
           x == pm[p]
<1>1. /\ Counted /\ WorldTyped /\ x \in PmRecord /\ PmRuns(p) /\ pm \in [Port -> PmRecord]
  BY DEF Inv, MachinesTyped, InTurn
<1>2. /\ AtFront(b) /\ handling' = handling /\ lapses' = lapses
      /\ UNCHANGED <<core_state, hwVars, signature, eventVars, port_state>>
  BY DEF pm_state_machine, eventVars
<1>3. WorldTyped'
  BY <1>1, <1>2 DEF WorldTyped, hwVars, eventVars
<1>4. b \in Pending
  <2>1. init.queue # <<>> /\ b = Head(init.queue)
    BY <1>2 DEF AtFront
  <2>2. b \in Queued(init)
    BY <1>1, <2>1, TakenBooks DEF Counted
  <2> QED BY <2>2 DEF Pending
<1>5. init.retry[b] <= RetryLimit /\ (SoftReset(x) => Known(<<p, x.active_port>>))
  BY <1>1, <1>4 DEF PmRuns
<1>6. x.state \in PmState /\ "READ_ID_DONE" \in PmState
  BY <1>1, PmFields, States
<1>7. CASE /\ pm' = [pm EXCEPT ![p].state = IF @ = "AKUPA_WORKAROUND" THEN "READ_ID_DONE" ELSE @]
           /\ init' = Taken(init) /\ Send(b) /\ disk' = disk
  <2> DEFINE s == IF x.state = "AKUPA_WORKAROUND" THEN "READ_ID_DONE" ELSE x.state
             y == [x EXCEPT !.state = s]
  <2>1. pm' = [pm EXCEPT ![p] = y]
    BY <1>1, <1>7
  <2>2. y \in PmRecord /\ y.state = s /\ y.active_port = x.active_port
    BY <1>1, <1>6, ToState
  <2>3. SoftReset(y) => SoftReset(x)
    BY <2>2 DEF SoftReset
  <2>4. y.state = "READ_GLOBAL_ERROR" => x.state = "READ_GLOBAL_ERROR"
    BY <2>2
  <2> HIDE DEF y, s
  <2>5. /\ Counted' /\ Pending' = Pending /\ init'.retry = init.retry /\ sent' \subseteq sent \cup {b}
    BY <1>1, <1>2, <1>7, GoesOut
  <2> QED BY <1>2, <1>3, <1>4, <1>5, <1>7, <2>1, <2>2, <2>3, <2>4, <2>5, PmMoves
<1>8. CASE init' = Taken(init) /\ Arm(b) /\ UNCHANGED <<pm, disk>>
  <2>1. pm' = [pm EXCEPT ![p] = x]
    BY <1>1, <1>8
  <2>2. /\ Counted' /\ Pending' = Pending /\ init'.retry = init.retry /\ sent' \subseteq sent \cup {b}
    BY <1>1, <1>2, <1>8, GoesOut
  <2> QED BY <1>1, <1>2, <1>3, <1>4, <1>5, <1>8, <2>1, <2>2, PmMoves
<1>9. CASE pm' = [pm EXCEPT ![p] = NextSlot(@)] /\ UNCHANGED <<init, sent, timer, disk>>
  <2>1. pm' = [pm EXCEPT ![p] = NextSlot(x)]
    BY <1>9
  <2>2. NextSlot(x) \in PmRecord /\ Plain(NextSlot(x))
    BY <1>1, NextSlotTyped
  <2>3. Counted' /\ Pending' = Pending
    BY <1>1, <1>2, <1>9, BooksStay
  <2> QED BY <1>2, <1>3, <1>4, <1>5, <1>9, <2>1, <2>2, <2>3, PmMoves DEF Plain
<1> QED BY <1>7, <1>8, <1>9 DEF pm_state_machine

\* A multiplier's time is up (pm_sig_time_out).
LEMMA PmTimedOut ==
    ASSUME Inv, NEW p \in Port, pm_time_out(p)
    PROVE  Inv'
<1> DEFINE x == pm[p]
           s == IF x.state = "WAIT_SIG" THEN "SIG_DONE" ELSE "SPIN_UP_DONE"
           y == [x EXCEPT !.state = s]
<1>1. WorldTyped /\ x \in PmRecord
  BY DEF Inv, MachinesTyped
<1>2. /\ Back(<<p, Pm>>) /\ PmGoes(p, y) /\ disk' = disk /\ handling' = handling /\ lapses' = lapses
  BY DEF pm_time_out, eventVars, Expires, Back
<1>3. WorldTyped'
  BY <1>1 DEF WorldTyped, pm_time_out, hwVars, eventVars
<1>4. y \in PmRecord /\ y.state = s
  BY <1>1, ToState, States
<1>5. Plain(y)
  BY <1>4 DEF Plain, SoftReset
<1> HIDE DEF y
<1> QED BY <1>2, <1>3, <1>4, <1>5, PmGoesOn DEF Plain

\* A multiplier's machine goes on, or ends and leaves disks to be set up.
LEMMA PmActs ==
    ASSUME Inv, NEW p \in Port, <<p, Pm>> \in Pending, NEW x \in PmRecord,
           NEW next, next \subseteq DisksOf(p) \/ next = {<<p, Pm>>},
           WorldTyped', Counted', disk' \in [Disk -> DiskState],
           Pending' = (Pending \ {<<p, Pm>>}) \cup next, sent' \subseteq sent,
           pm' = [pm EXCEPT ![p] = x], handling' = handling, lapses \subseteq lapses',
           \A d \in Disk : d[1] # p => disk'[d] = disk[d],
           \A d \in DisksOf(p) : /\ disk'[d] \in {disk[d], "gone", "RESET_DONE", "IDLE"}
                                 /\ disk'[d] = "IDLE" => d[2] \in Slot
                                 /\ disk'[d] # "gone" => init'.retry[d] <= RetryLimit
                                 /\ d \in next => disk'[d] # "gone",
           \A b \in Base : b[1] # p => init'.retry[b] = init.retry[b],
           <<p, Pm>> \in next => /\ init'.retry[<<p, Pm>>] <= RetryLimit
                                 /\ SoftReset(x) => disk'[<<p, x.active_port>>] # "gone"
                                 /\ x.state # "READ_GLOBAL_ERROR",
           Unlapsed' => /\ \A d \in DisksOf(p) :
                              \/ disk'[d] \in {"gone", "INIT_DONE"}
                              \/ disk'[d] = "IDLE" /\ next = {<<p, Pm>>}
                              \/ d \in next
                        /\ x.up /\ x.state # "DONE" => next = {<<p, Pm>>}
    PROVE  Inv'
<1> DEFINE b == <<p, Pm>>
<1>1. /\ Counted /\ MachinesTyped /\ OnePast /\ InTurn(p)
  BY DEF Inv
<1>2. pm \in [Port -> PmRecord]
  BY <1>1 DEF MachinesTyped
<1>3. pm'[p] = x /\ \A q \in Port : q # p => pm'[q] = pm[q]
  BY <1>2
<1>4. MachinesTyped'
  BY <1>2 DEF MachinesTyped
<1>5. /\ b \in Base /\ b[1] = p /\ PortOf(b) = p /\ b \notin DisksOf(p)
      /\ \A c \in next : PortOf(c) = p /\ c[1] = p
  <2>1. b \in Base /\ b[1] = p /\ PortOf(b) = p
    BY Bases DEF PortOf
  <2>2. \A c \in DisksOf(p) : PortOf(c) = p /\ c[1] = p
    BY DEF PortOf, DisksOf
  <2>3. b \notin DisksOf(p)
    BY Parts DEF DisksOf
  <2> QED BY <2>1, <2>2, <2>3
<1>6. AtPort(Pending, p) = {b} /\ \A d \in DisksOf(p) : d \notin Pending /\ d \notin sent
  BY PmAlone
<1>7. AtPort(Pending', p) = next
  BY <1>5, <1>6 DEF AtPort
<1>8. OnlyAt(p)
  <2>1. \A c \in Base : c[1] # p => /\ c \in Pending' <=> c \in Pending
                                    /\ c \in sent' => c \in sent
    BY <1>5
  <2> QED BY <1>3, <2>1 DEF OnlyAt
<1>9. Quiet
  BY DEF Quiet
<1>10. \A d \in DisksOf(p) : d \in Pending' <=> d \in next
  BY <1>6
<1>11. b \in Pending' <=> next = {b}
  BY <1>5
<1>12. InTurn(p)'
  <2>1. Turn(p)'
    BY <1>7 DEF Turn
  <2>2. ASSUME NEW d \in DisksOf(p) PROVE DiskRuns(d)'
    BY <1>6, <1>10 DEF DiskRuns, Known
  <2>3. PmRuns(p)'
    <3>1. <<p, PortPart>> \notin Pending'
      <4>1. <<p, PortPart>> \notin DisksOf(p) \cup {b}
        BY Parts DEF DisksOf
      <4> QED BY <4>1, PmAlone
    <3> QED BY <1>3, <1>11, <3>1 DEF PmRuns, Known
  <2>4. Settled(p)'
    BY <1>1, <1>6 DEF InTurn, Settled
  <2> QED BY <2>1, <2>2, <2>3, <2>4 DEF InTurn
<1>13. ASSUME Unlapsed' PROVE Remembered(p)'
  <2>1. \A d \in DisksOf(p) : /\ disk'[d] \notin {"gone", "INIT_DONE", "IDLE"} => d \in Pending'
                              /\ disk'[d] = "IDLE" => d \in Pending' \/ b \in Pending'
    BY <1>10, <1>11, <1>13
  <2>2. pm'[p].up /\ pm'[p].state # "DONE" => b \in Pending'
    BY <1>3, <1>11, <1>13
  <2>3. ~(b \in Pending' /\ pm'[p].state = "READ_GLOBAL_ERROR")
    BY <1>3, <1>11
  <2> QED BY <2>1, <2>2, <2>3 DEF Remembered
<1>14. OnePast'
  <2>1. ASSUME NEW d \in Disk, Past(d)' PROVE Past(d)
    <3>1. CASE d[1] # p
      BY <2>1, <3>1 DEF Past, Identified
    <3>2. CASE d[1] = p
      <4>1. d \in DisksOf(p)
        BY <3>2, Bases
      <4> QED BY <2>1, <4>1 DEF Past, Identified
    <3> QED BY <3>1, <3>2
  <2> QED BY <1>1, <2>1 DEF OnePast
<1> QED BY <1>4, <1>8, <1>9, <1>12, <1>13, <1>14, PortMoves

-----------------------------------------------------------------------------
(* A multiplier's actions: it ends. *)

\* All slots were looked at: the disks found are started.
LEMMA PmIsDone ==
    ASSUME Inv, NEW p \in Port, pm_state_machine(p), pm[p].state = "DONE"
    PROVE  Inv'
<1> DEFINE b == <<p, Pm>>
           x == pm[p]
           out == sent \cup timer
           new == IdleDisks(p)
<1>1. /\ Counted /\ WorldTyped /\ x \in PmRecord /\ pm \in [Port -> PmRecord]
      /\ disk \in [Disk -> DiskState]
  BY DEF Inv, MachinesTyped
<1>2. /\ AtFront(b) /\ handling' = handling /\ lapses' = lapses
      /\ UNCHANGED <<core_state, hwVars, signature, eventVars, port_state>>
      /\ disk' = [d \in Disk |-> IF d \in new THEN "RESET_DONE" ELSE disk[d]]
      /\ init' = Done(StartNew(Taken(init), p, NumSlots, new), p)
      /\ UNCHANGED <<pm, sent, timer>>
  BY DEF pm_state_machine, eventVars
<1>3. WorldTyped'
  BY <1>1, <1>2 DEF WorldTyped, hwVars, eventVars
<1>4. /\ Books(init, out, "short" \in lapses) /\ init.queue # <<>> /\ b = Head(init.queue)
  BY <1>1, <1>2 DEF Counted, AtFront
<1>5. /\ Books(Taken(init), out \cup {b}, "short" \in lapses) /\ b \in Queued(init) /\ b \notin out
      /\ Queued(Taken(init)) = Queued(init) \ {b} /\ Taken(init).retry = init.retry /\ b \in Base
  <2> HIDE DEF b, out
  <2> QED BY <1>4, TakenBooks
<1>6. b \in Pending
  BY <1>5 DEF Pending
<1>7. new \in SUBSET ({p} \X Slot) /\ new \subseteq DisksOf(p) /\ b \notin new
  <2>1. {p} \X Slot \subseteq DisksOf(p) /\ b \notin DisksOf(p)
    BY Parts DEF DisksOf
  <2> QED BY <2>1 DEF IdleDisks
<1>8. /\ \A d \in DisksOf(p) : /\ d \notin Pending /\ d \notin sent
                               /\ Known(d) => init.retry[d] <= RetryLimit
                               /\ disk[d] = "IDLE" => d \in new
                               /\ Unlapsed => disk[d] \in {"gone", "INIT_DONE", "IDLE"}
  BY <1>6, PmAlone
<1> HIDE DEF new
<1>9. new \cap (Queued(Taken(init)) \cup (out \cup {b})) = {}
  BY <1>5, <1>7, <1>8 DEF Pending
<1>10. PICK i : i = Taken(init)
  OBVIOUS
<1>11. PICK j : j = StartNew(i, p, NumSlots, new)
  OBVIOUS
<1>12. /\ Books(j, out \cup {b}, "short" \in lapses) /\ Queued(j) = Queued(i) \cup new
       /\ \A c \in Base : j.retry[c] = IF c \in new THEN 0 ELSE i.retry[c]
  <2>1. Books(i, out \cup {b}, "short" \in lapses) /\ new \cap (Queued(i) \cup (out \cup {b})) = {}
    BY <1>5, <1>9, <1>10
  <2> QED BY <1>7, <1>11, <2>1, StartNewBooks
<1>13. /\ Books(init', (out \cup {b}) \ {b}, "short" \in lapses) /\ Queued(init') = Queued(j)
       /\ init'.retry = j.retry
  <2>1. PortOf(b) = p /\ init' = Done(j, PortOf(b)) /\ b \in out \cup {b}
    BY <1>2, <1>10, <1>11 DEF PortOf
  <2> QED BY <1>12, <2>1, DoneBooks
<1>14. Counted'
  <2>1. (out \cup {b}) \ {b} = out
    BY <1>5
  <2> QED BY <1>1, <1>2, <1>13, <2>1 DEF Counted
<1>15. Pending' = (Pending \ {b}) \cup new
  BY <1>2, <1>5, <1>7, <1>10, <1>12, <1>13 DEF Pending
<1>16. \A c \in Base : init'.retry[c] = IF c \in new THEN 0 ELSE init.retry[c]
  BY <1>5, <1>10, <1>12, <1>13
<1>17. \A d \in Disk : disk'[d] = IF d \in new THEN "RESET_DONE" ELSE disk[d]
  BY <1>2
<1>18. disk' \in [Disk -> DiskState]
  BY <1>1, <1>2, SetupStates
<1>19. \A d \in DisksOf(p) : (d \in Disk /\ d \in Base /\ d[2] \in Slot) \/ d \notin new
  BY <1>7, Bases
<1>20. ASSUME NEW d \in DisksOf(p)
       PROVE  /\ disk'[d] \in {disk[d], "gone", "RESET_DONE", "IDLE"} /\ disk'[d] # "IDLE"
              /\ disk'[d] # "gone" => init'.retry[d] <= RetryLimit
              /\ d \in new => disk'[d] # "gone"
              /\ Unlapsed => disk'[d] \in {"gone", "INIT_DONE"} \/ d \in new
  <2>1. d \in Disk /\ d \in Base
    BY Bases
  <2>2. CASE d \in new
    <3>1. disk'[d] = "RESET_DONE" /\ init'.retry[d] = 0
      BY <1>16, <1>17, <2>1, <2>2
    <3> QED BY <2>2, <3>1, NumberAssumption
  <2>3. CASE d \notin new
    <3>1. disk'[d] = disk[d] /\ init'.retry[d] = init.retry[d]
      BY <1>16, <1>17, <2>1, <2>3
    <3> QED BY <1>8, <2>3, <3>1 DEF Known
  <2> QED BY <2>2, <2>3
<1>21. \A c \in new : c[1] = p
  BY <1>7 DEF DisksOf
<1>22. /\ \A d \in Disk : d[1] # p => disk'[d] = disk[d]
       /\ \A c \in Base : c[1] # p => init'.retry[c] = init.retry[c]
  BY <1>16, <1>17, <1>21
<1>23. pm' = [pm EXCEPT ![p] = x]
  BY <1>1, <1>2
<1>24. Unlapsed' => Unlapsed
  BY <1>2 DEF Unlapsed
<1>25. /\ \A d \in DisksOf(p) : /\ disk'[d] \in {disk[d], "gone", "RESET_DONE", "IDLE"}
                                /\ disk'[d] = "IDLE" => d[2] \in Slot
                                /\ disk'[d] # "gone" => init'.retry[d] <= RetryLimit
                                /\ d \in new => disk'[d] # "gone"
       /\ b \notin new /\ sent' \subseteq sent /\ lapses \subseteq lapses'
  BY <1>2, <1>7, <1>20
<1>26. Unlapsed' => /\ \A d \in DisksOf(p) : \/ disk'[d] \in {"gone", "INIT_DONE"}
                                             \/ disk'[d] = "IDLE" /\ new = {b}
                                             \/ d \in new
                    /\ x.up /\ x.state # "DONE" => new = {b}
  BY <1>20, <1>24
<1>27. handling' = handling /\ x \in PmRecord /\ (new \subseteq DisksOf(p) \/ new = {b})
  BY <1>1, <1>2, <1>7
<1>28. PICK next : next = new
  OBVIOUS
<1> HIDE DEF x, b, out
<1> QED BY <1>3, <1>6, <1>14, <1>15, <1>18, <1>22, <1>23, <1>25, <1>26, <1>27, <1>28, PmActs DEF b

\* A hot plug is over.
LEMMA HotIsDone ==
    ASSUME Inv, NEW p \in Port, Back(<<p, Pm>>), NEW x \in PmRecord, HotDone(p, x),
           WorldTyped', disk' = disk, handling' = handling, lapses \subseteq lapses',
           Unlapsed' => IdleDisks(p) = {}
    PROVE  Inv'
<1> DEFINE b == <<p, Pm>>
           y == [x EXCEPT !.state = "DONE"]
<1>1. Counted /\ disk \in [Disk -> DiskState]
  BY DEF Inv, MachinesTyped
<1>2. PortOf(b) = p /\ init' = Done(init, p) /\ pm' = [pm EXCEPT ![p] = y]
  BY DEF HotDone, PortOf
<1>3. /\ Counted' /\ Pending' = Pending \ {b} /\ init'.retry = init.retry
      /\ b \in Pending /\ sent' \subseteq sent
  BY <1>1, <1>2, EndsWell
<1>4. y \in PmRecord /\ y.state = "DONE"
  BY ToState, States
<1>5. \A d \in DisksOf(p) : /\ Known(d) => init.retry[d] <= RetryLimit
                            /\ disk[d] = "IDLE" => d \in IdleDisks(p) /\ d[2] \in Slot
                            /\ Unlapsed => disk[d] \in {"gone", "INIT_DONE", "IDLE"}
  BY <1>3, PmAlone DEF IdleDisks
<1>6. Unlapsed' => Unlapsed
  BY DEF Unlapsed
<1> HIDE DEF y, b
<1>7. Pending' = (Pending \ {b}) \cup {} /\ {} \subseteq DisksOf(p)
  BY <1>3
<1>8. /\ \A d \in DisksOf(p) : /\ disk'[d] \in {disk[d], "gone", "RESET_DONE", "IDLE"}
                               /\ disk'[d] = "IDLE" => d[2] \in Slot
                               /\ disk'[d] # "gone" => init'.retry[d] <= RetryLimit
                               /\ d \in {} => disk'[d] # "gone"
      /\ b \notin {}
  BY <1>3, <1>5 DEF Known
<1>9. Unlapsed' => /\ \A d \in DisksOf(p) : \/ disk'[d] \in {"gone", "INIT_DONE"}
                                            \/ disk'[d] = "IDLE" /\ {} = {b}
                                            \/ d \in {}
                   /\ y.up /\ y.state # "DONE" => {} = {b}
  BY <1>4, <1>5, <1>6
<1>10. /\ \A d \in Disk : d[1] # p => disk'[d] = disk[d]
       /\ \A c \in Base : c[1] # p => init'.retry[c] = init.retry[c]
       /\ disk' \in [Disk -> DiskState]
  BY <1>1, <1>3
<1> QED BY <1>2, <1>3, <1>4, <1>7, <1>8, <1>9, <1>10, PmActs DEF b

\* What all answers to a multiplier's requests leave alone.
LEMMA PmAnswerTyped ==
    ASSUME Inv, NEW p \in Port, pm_req_callback(p)
    PROVE  /\ <<p, Pm>> \in sent /\ sent' = sent \ {<<p, Pm>>} /\ handling' = handling
           /\ serror' \in [Port -> SUBSET Slot] => WorldTyped'
           /\ serror' = serror => WorldTyped'
           /\ <<p, Pm>> \in Pending /\ <<p, Pm>> \notin timer
<1>1. WorldTyped /\ sent \cap timer = {}
  BY DEF Inv, Counted
<1>2. /\ UNCHANGED <<core_state, attached, present, owes, signature, eventVars, port_state>>
      /\ <<p, Pm>> \in sent /\ sent' = sent \ {<<p, Pm>>}
  BY DEF pm_req_callback
<1> QED BY <1>1, <1>2 DEF WorldTyped, eventVars, Pending

\* The soft reset of a slot fails: its disk is tried again by itself, or given up.
LEMMA ResetFails ==
    ASSUME Inv, NEW p \in Port, pm_req_callback(p), SoftReset(pm[p]), timer' = timer,
           core_handle_init_error(<<p, pm[p].active_port>>), Lapse("srst"), serror' = serror
    PROVE  Inv'
<1> DEFINE b == <<p, Pm>>
           d == <<p, pm[p].active_port>>
           n == init.retry[d] + 1
           i == [init EXCEPT !.retry[d] = n]
           out == sent \cup timer
<1>1. /\ b \in sent /\ sent' = sent \ {b} /\ handling' = handling /\ WorldTyped'
      /\ b \in Pending /\ b \notin timer
  BY PmAnswerTyped
<1>2. /\ Counted /\ pm[p] \in PmRecord /\ pm \in [Port -> PmRecord]
      /\ disk \in [Disk -> DiskState] /\ init.retry \in [Base -> 0 .. RetryLimit + 1]
      /\ init \in InitRecord
  BY DEF Inv, MachinesTyped, Counted, Books, InitRecord
<1>3. /\ pm[p].active_port \in Slot /\ pm[p].active_port \in 0 .. Direct
  BY <1>2, PmFields, Parts
<1>4. /\ d \in DisksOf(p) /\ d \in Disk /\ d \in Base /\ b \in Base /\ PortOf(d) = p
      /\ PortOf(b) = p /\ d[1] = p /\ d[2] # Pm /\ d # b
  BY <1>3, Bases, Parts DEF PortOf
<1>5. /\ d \notin Pending /\ d \notin sent /\ Known(d) /\ init.retry[d] <= RetryLimit
      /\ \A e \in DisksOf(p) : /\ Known(e) => init.retry[e] <= RetryLimit
                               /\ disk[e] = "IDLE" => e[2] \in Slot
  BY <1>1, <1>4, PmAlone DEF IdleDisks
<1>6. /\ n \in 0 .. RetryLimit + 1 /\ i.retry[d] = n /\ i.queue = init.queue
      /\ i = [init EXCEPT !.retry[d] = @ + 1]
  BY <1>2, <1>4, <1>5, NumberAssumption DEF InitRecord
<1>7. ~Unlapsed' /\ lapses \subseteq lapses'
  BY DEF Lapse, Unlapsed
<1>8. /\ Books(i, out, "short" \in lapses) /\ Queued(i) = Queued(init)
      /\ i.retry = [init.retry EXCEPT ![d] = n]
  <2>1. Books(init, out, "short" \in lapses)
    BY <1>2 DEF Counted
  <2> HIDE DEF d, n, out
  <2> QED BY <1>4, <1>6, <2>1, RetryBooks
<1>9. \A c \in Base : i.retry[c] = IF c = d THEN n ELSE init.retry[c]
  BY <1>2, <1>8
<1>10. b \in out /\ d \notin Queued(i) \cup out /\ Queued(i) \cap {d} = {}
  BY <1>1, <1>5, <1>8 DEF Pending
<1> HIDE DEF i
<1>11. \A e \in DisksOf(p) : e \in Base /\ e \in Disk
  BY Bases
<1>12. CASE n <= RetryLimit
  <2>1. init' = Requeue(i, d) /\ UNCHANGED <<disk, pm>>
    <3>1. [init EXCEPT !.retry[d] = @ + 1].retry[d] <= RetryLimit
      BY <1>6, <1>12
    <3> HIDE DEF d
    <3> QED BY <1>6, <3>1 DEF core_handle_init_error, d
  <2> DEFINE o == (out \ {b}) \cup {d}
  <2>2. Books(i, o, "short" \in lapses)
    <3> HIDE DEF d, b, out
    <3> QED BY <1>4, <1>8, <1>10, SwapBooks
  <2>3. /\ Books(init', o \ {d}, "short" \in lapses) /\ Queued(init') = Queued(i) \cup {d}
        /\ init'.retry = i.retry
    <3>1. d \in o
      OBVIOUS
    <3> HIDE DEF o, d
    <3> QED BY <2>1, <2>2, <3>1, RequeueBooks
  <2>4. o \ {d} = sent' \cup timer' /\ sent' \cap timer' = {}
    BY <1>1, <1>2, <1>10 DEF Counted
  <2>5. Counted'
    <3>1. Books(init', sent' \cup timer', "short" \in lapses)
      BY <2>3, <2>4
    <3>2. Books(init', sent' \cup timer', "short" \in lapses')
      BY <1>7, <3>1, LapsesGrow
    <3> QED BY <2>4, <3>2 DEF Counted
  <2>6. Pending' = (Pending \ {b}) \cup {d}
    <3>1. b \notin Queued(init)
      BY <1>1, <1>2 DEF Counted, Books
    <3> QED BY <1>1, <1>8, <1>10, <2>3, <2>4, <3>1 DEF Pending
  <2>7. \A e \in DisksOf(p) : /\ disk'[e] \in {disk[e], "gone", "RESET_DONE", "IDLE"}
                              /\ disk'[e] = "IDLE" => e[2] \in Slot
                              /\ disk'[e] # "gone" => init'.retry[e] <= RetryLimit
                              /\ e \in {d} => disk'[e] # "gone"
    BY <1>5, <1>9, <1>11, <1>12, <2>1, <2>3 DEF Known
  <2>8. /\ \A e \in Disk : e[1] # p => disk'[e] = disk[e]
        /\ \A c \in Base : c[1] # p => init'.retry[c] = init.retry[c]
        /\ disk' \in [Disk -> DiskState] /\ pm' = [pm EXCEPT ![p] = pm[p]]
        /\ {d} \subseteq DisksOf(p) /\ b \notin {d} /\ sent' \subseteq sent
    BY <1>1, <1>2, <1>4, <1>9, <2>1, <2>3
  <2> HIDE DEF d, o, out, n
  <2> QED BY <1>1, <1>2, <1>7, <2>5, <2>6, <2>7, <2>8, PmActs
<1>13. CASE ~(n <= RetryLimit)
  <2>1. pal_set_down_disk(d) /\ pm' = pm /\ init' = Done(Clean(i, p, {d}), p)
    <3>1. ~([init EXCEPT !.retry[d] = @ + 1].retry[d] <= RetryLimit)
      BY <1>6, <1>13
    <3>2. d[1] = p /\ d[2] # Pm
      BY <1>4
    <3> HIDE DEF d
    <3> QED BY <1>6, <3>1, <3>2 DEF core_handle_init_error, d
  <2>2. init' = Done(i, PortOf(b))
    BY <1>4, <1>10, <2>1, CleanNothing
  <2>3. /\ Books(init', out \ {b}, "short" \in lapses) /\ Queued(init') = Queued(i)
        /\ init'.retry = i.retry
    <3> HIDE DEF out, b
    <3> QED BY <1>8, <1>10, <2>2, DoneBooks
  <2>4. out \ {b} = sent' \cup timer' /\ sent' \cap timer' = {}
    BY <1>1, <1>2 DEF Counted
  <2>5. Counted'
    <3>1. Books(init', sent' \cup timer', "short" \in lapses)
      BY <2>3, <2>4
    <3>2. Books(init', sent' \cup timer', "short" \in lapses')
      BY <1>7, <3>1, LapsesGrow
    <3> QED BY <2>4, <3>2 DEF Counted
  <2>13. PICK next : next = {}
    OBVIOUS
  <2>6. Pending' = (Pending \ {b}) \cup next
    <3>1. b \notin Queued(init)
      BY <1>1, <1>2 DEF Counted, Books
    <3> QED BY <1>1, <1>8, <2>3, <2>4, <2>13, <3>1 DEF Pending
  <2>7. disk' = [disk EXCEPT ![d] = "gone"]
    BY <2>1 DEF pal_set_down_disk
  <2>8. \A e \in Disk : disk'[e] = IF e = d THEN "gone" ELSE disk[e]
    BY <1>2, <2>7
  <2>9. \A e \in DisksOf(p) : /\ disk'[e] \in {disk[e], "gone", "RESET_DONE", "IDLE"}
                              /\ disk'[e] = "IDLE" => e[2] \in Slot
                              /\ disk'[e] # "gone" => init'.retry[e] <= RetryLimit
                              /\ e \in next => disk'[e] # "gone"
    BY <1>5, <1>9, <1>11, <2>3, <2>8, <2>13 DEF Known
  <2>10. /\ \A e \in Disk : e[1] # p => disk'[e] = disk[e]
         /\ \A c \in Base : c[1] # p => init'.retry[c] = init.retry[c]
         /\ pm' = [pm EXCEPT ![p] = pm[p]] /\ sent' \subseteq sent
         /\ next \subseteq DisksOf(p) /\ b \notin next
    BY <1>1, <1>2, <1>4, <1>9, <2>1, <2>3, <2>8, <2>13
  <2>11. disk' \in [Disk -> DiskState]
    BY <1>2, <2>7, SetupStates
  <2>12. ~Unlapsed' /\ WorldTyped' /\ b \in Pending /\ handling' = handling /\ pm[p] \in PmRecord
         /\ lapses \subseteq lapses'
    BY <1>1, <1>2, <1>7
  <2> HIDE DEF d, out, n
  <2> QED BY <2>5, <2>6, <2>9, <2>10, <2>11, <2>12, PmActs
<1> QED BY <1>12, <1>13

\* A multiplier's machine ends, and leaves nothing to be set up.
LEMMA PmEnds ==
    ASSUME Inv, NEW p \in Port, <<p, Pm>> \in Pending, NEW x \in PmRecord,
           WorldTyped', Counted', disk' \in [Disk -> DiskState],
           Pending' = Pending \ {<<p, Pm>>}, sent' \subseteq sent,
           pm' = [pm EXCEPT ![p] = x], handling' = handling, lapses \subseteq lapses',
           \A d \in Disk : d[1] # p => disk'[d] = disk[d],
           \A d \in DisksOf(p) : /\ disk'[d] \in {disk[d], "gone"}
                                 /\ disk'[d] # "gone" => init'.retry[d] = init.retry[d],
           \A b \in Base : b[1] # p => init'.retry[b] = init.retry[b],
           Unlapsed' => /\ \A d \in DisksOf(p) : disk'[d] \in {"gone", "INIT_DONE"}
                        /\ x.up => x.state = "DONE"
    PROVE  Inv'
<1>1. PICK next : next = {}
  OBVIOUS
<1>2. \A d \in DisksOf(p) : /\ Known(d) => init.retry[d] <= RetryLimit
                            /\ disk[d] = "IDLE" => d[2] \in Slot
  BY PmAlone DEF IdleDisks
<1>3. /\ \A d \in DisksOf(p) : /\ disk'[d] \in {disk[d], "gone", "RESET_DONE", "IDLE"}
                               /\ disk'[d] = "IDLE" => d[2] \in Slot
                               /\ disk'[d] # "gone" => init'.retry[d] <= RetryLimit
                               /\ d \in next => disk'[d] # "gone"
      /\ <<p, Pm>> \notin next /\ next \subseteq DisksOf(p)
      /\ Pending' = (Pending \ {<<p, Pm>>}) \cup next
  BY <1>1, <1>2 DEF Known
<1> QED BY <1>3, PmActs

\* A request to a multiplier fails: it is tried again, or its port is set down.
LEMMA PmFails ==
    ASSUME Inv, NEW p \in Port, pm_req_callback(p), core_handle_init_error(<<p, Pm>>),
           ~SoftReset(pm[p]), timer' = timer, serror' = serror, lapses' = lapses
    PROVE  Inv'
<1> DEFINE b == <<p, Pm>>
           x == pm[p]
           n == init.retry[b] + 1
           i == [init EXCEPT !.retry[b] = n]
<1>1. /\ Back(b) /\ b \in Pending /\ handling' = handling /\ WorldTyped' /\ b \in sent
  BY PmAnswerTyped DEF Back
<1>2. /\ Counted /\ x \in PmRecord /\ pm \in [Port -> PmRecord]
      /\ disk \in [Disk -> DiskState] /\ init.retry \in [Base -> 0 .. RetryLimit + 1]
      /\ init \in InitRecord
  BY DEF Inv, MachinesTyped, Counted, Books, InitRecord
<1>3. b \in Base /\ PortOf(b) = p /\ b[1] = p /\ b[2] = Pm
  BY Bases DEF PortOf
<1>4. /\ init.retry[b] <= RetryLimit /\ AtPort(Pending, p) = {b}
      /\ \A d \in DisksOf(p) : d \notin Pending
  BY <1>1, PmAlone
<1>5. /\ n \in 0 .. RetryLimit + 1 /\ i.retry[b] = n /\ i.queue = init.queue
      /\ i = [init EXCEPT !.retry[b] = @ + 1]
  BY <1>2, <1>3, <1>4, NumberAssumption DEF InitRecord
<1>6. CASE n <= RetryLimit
  <2>1. init' = Requeue(i, b) /\ UNCHANGED <<disk, pm>>
    BY <1>5, <1>6 DEF core_handle_init_error
  <2>2. /\ Counted' /\ Pending' = Pending /\ init'.retry = [init.retry EXCEPT ![b] = n]
        /\ sent' \subseteq sent
    BY <1>1, <1>2, <1>5, <2>1, TriedAgain
  <2>3. /\ init'.retry[b] <= RetryLimit /\ pm' = [pm EXCEPT ![p] = x]
        /\ \A c \in Base : c # b => init'.retry[c] = init.retry[c]
    BY <1>2, <1>3, <1>6, <2>1, <2>2
  <2> HIDE DEF n, i
  <2> QED BY <1>1, <1>2, <2>1, <2>2, <2>3, PmMoves
<1>7. CASE ~(n <= RetryLimit)
  <2>1. pal_set_down_port(p) /\ init' = Done(PortCleaned(i, p), p)
    <3>1. ~([init EXCEPT !.retry[b] = @ + 1].retry[b] <= RetryLimit)
      BY <1>5, <1>7
    <3>2. core_handle_init_error(b)
      OBVIOUS
    <3> HIDE DEF b
    <3> QED BY <1>3, <1>5, <3>1, <3>2 DEF core_handle_init_error
  <2>2. Queued(i) \cap (DisksOf(p) \cup {b}) = {}
    <3>1. Queued(i) = Queued(init) /\ b \notin Queued(init)
      BY <1>1, <1>2, <1>5 DEF Counted, Books, Queued
    <3> QED BY <1>4, <3>1 DEF Pending
  <2>3. init' = Done(i, PortOf(b))
    BY <1>3, <2>1, <2>2, CleanNothing DEF PortCleaned
  <2>4. /\ Counted' /\ Pending' = Pending \ {b} /\ init'.retry = [init.retry EXCEPT ![b] = n]
        /\ sent' \subseteq sent
    BY <1>1, <1>2, <1>5, <2>3, EndsBadly
  <2>5. /\ disk' = [d \in Disk |-> IF d[1] = p THEN "gone" ELSE disk[d]]
        /\ pm' = [pm EXCEPT ![p] = NoPm]
    BY <2>1 DEF pal_set_down_port
  <2>6. disk' \in [Disk -> DiskState] /\ NoPm \in PmRecord /\ ~NoPm.up
    BY <1>2, <2>5, SetupStates, States, Parts DEF NoPm, PmRecord
  <2>7. \A d \in DisksOf(p) : disk'[d] = "gone"
    BY <2>5, Bases DEF DisksOf
  <2>8. /\ \A d \in Disk : d[1] # p => disk'[d] = disk[d]
        /\ \A c \in Base : c[1] # p => init'.retry[c] = init.retry[c]
    BY <1>2, <1>3, <2>4, <2>5
  <2> HIDE DEF n, i
  <2> QED BY <1>1, <2>4, <2>5, <2>6, <2>7, <2>8, PmEnds
<1> QED BY <1>6, <1>7

\* A slot's disk is noted: it is idle until the multiplier is done.
LEMMA XBitKeeps ==
    ASSUME Inv, NEW p \in Port, pm_req_callback(p), pm[p].state = "CLEAR_X_BIT",
           XBitCleared(p), timer' = timer
    PROVE  Inv'
<1> DEFINE b == <<p, Pm>>
           x == [pm[p] EXCEPT !.state = "ISSUE_SOFT_RESET_1"]
           d == <<p, pm[p].active_port>>
           out == sent \cup timer
<1>1. /\ Back(b) /\ b \in Pending /\ handling' = handling /\ b \in sent /\ sent' = sent \ {b}
      /\ b \notin timer /\ (serror' \in [Port -> SUBSET Slot] => WorldTyped')
  BY PmAnswerTyped DEF Back
<1>2. /\ Counted /\ pm[p] \in PmRecord /\ pm \in [Port -> PmRecord] /\ WorldTyped
      /\ disk \in [Disk -> DiskState] /\ init.retry \in [Base -> 0 .. RetryLimit + 1]
      /\ Books(init, out, "short" \in lapses)
  BY DEF Inv, MachinesTyped, Counted, Books, InitRecord
<1>3. x \in PmRecord /\ x.state = "ISSUE_SOFT_RESET_1" /\ x.active_port = pm[p].active_port
  BY <1>2, ToState, States
<1>4. WorldTyped'
  <2>1. serror' = [serror EXCEPT ![p] = @ \ {x.active_port}]
    BY DEF XBitCleared, ErrorCleared
  <2>2. serror' \in [Port -> SUBSET Slot]
    BY <1>2, <2>1 DEF WorldTyped
  <2> QED BY <1>1, <2>2
<1>5. /\ d \in DisksOf(p) /\ d \in Disk /\ d \in Base /\ d[2] \in Slot /\ d # b /\ d[1] = p
  <2>1. pm[p].active_port \in Slot /\ pm[p].active_port \in 0 .. Direct
    BY <1>2, PmFields, Parts
  <2> QED BY <2>1, Bases, Parts
<1>6. /\ d \notin Pending /\ init.retry[b] <= RetryLimit /\ AtPort(Pending, p) = {b}
      /\ \A e \in DisksOf(p) : /\ e \in Base /\ e \in Disk /\ e \notin Pending
                               /\ Known(e) => init.retry[e] <= RetryLimit
                               /\ disk[e] = "IDLE" => e[2] \in Slot
                               /\ Unlapsed => disk[e] \in {"gone", "INIT_DONE", "IDLE"}
  <2>1. \A e \in DisksOf(p) : e \in Base /\ e \in Disk
    BY Bases
  <2>2. /\ init.retry[b] <= RetryLimit /\ AtPort(Pending, p) = {b}
        /\ \A e \in DisksOf(p) : /\ e \notin Pending
                                 /\ Known(e) => init.retry[e] <= RetryLimit
                                 /\ disk[e] = "IDLE" => e \in IdleDisks(p)
                                 /\ Unlapsed => disk[e] \in {"gone", "INIT_DONE", "IDLE"}
    BY <1>1, PmAlone
  <2>3. \A e \in IdleDisks(p) : e[2] \in Slot
    BY DEF IdleDisks
  <2> HIDE DEF b, d
  <2> QED BY <1>5, <2>1, <2>2, <2>3
<1>7. CASE Known(d) /\ PmGoes(p, x) /\ disk' = disk /\ lapses \subseteq lapses'
  <2>1. Known(<<p, x.active_port>>) /\ x.state # "READ_GLOBAL_ERROR"
    BY <1>3, <1>7
  <2> HIDE DEF x, d
  <2> QED BY <1>1, <1>3, <1>4, <1>7, <2>1, PmGoesOn
<1>8. CASE /\ disk' = [disk EXCEPT ![d] = "IDLE"] /\ pm' = [pm EXCEPT ![p] = x]
           /\ init' = [Requeue(init, b) EXCEPT !.retry[d] = 0] /\ lapses' = lapses
  <2>1. PICK i : i = Requeue(init, b)
    OBVIOUS
  <2>2. /\ Books(i, out \ {b}, "short" \in lapses) /\ Queued(i) = Queued(init) \cup {b}
        /\ i.retry = init.retry
    <3>1. b \in out
      BY <1>1
    <3> HIDE DEF b, out
    <3> QED BY <1>2, <2>1, <3>1, RequeueBooks
  <2>3. /\ Books(init', out \ {b}, "short" \in lapses) /\ Queued(init') = Queued(i)
        /\ init'.retry = [i.retry EXCEPT ![d] = 0]
    <3> DEFINE j == [i EXCEPT !.retry[d] = 0]
    <3>1. 0 \in 0 .. RetryLimit + 1 /\ init' = j
      BY <1>8, <2>1, NumberAssumption
    <3>2. /\ Books(j, out \ {b}, "short" \in lapses) /\ Queued(j) = Queued(i)
          /\ j.retry = [i.retry EXCEPT ![d] = 0]
      <4>1. PICK n : n = 0
        OBVIOUS
      <4>2. n \in 0 .. RetryLimit + 1 /\ j = [i EXCEPT !.retry[d] = n]
        BY <3>1, <4>1
      <4>3. d \in Base /\ Books(i, out \ {b}, "short" \in lapses)
        BY <1>5, <2>2
      <4> HIDE DEF b, d, out, j
      <4> QED BY <4>1, <4>2, <4>3, RetryBooks
    <3> HIDE DEF j
    <3> QED BY <3>1, <3>2
  <2>4. out \ {b} = sent' \cup timer' /\ sent' \cap timer' = {}
    BY <1>1, <1>2 DEF Counted
  <2>5. Counted'
    BY <1>8, <2>3, <2>4 DEF Counted
  <2>6. PICK next : next = {b}
    OBVIOUS
  <2>7. Pending' = (Pending \ {b}) \cup next
    BY <1>1, <2>2, <2>3, <2>4, <2>6 DEF Pending
  <2>8. \A e \in Disk : disk'[e] = IF e = d THEN "IDLE" ELSE disk[e]
    BY <1>2, <1>8
  <2>9. \A c \in Base : init'.retry[c] = IF c = d THEN 0 ELSE init.retry[c]
    BY <1>2, <2>2, <2>3
  <2>10. \A e \in DisksOf(p) : /\ disk'[e] \in {disk[e], "gone", "RESET_DONE", "IDLE"}
                               /\ disk'[e] = "IDLE" => e[2] \in Slot
                               /\ disk'[e] # "gone" => init'.retry[e] <= RetryLimit
                               /\ e \in next => disk'[e] # "gone"
    <3> TAKE e \in DisksOf(p)
    <3>1. CASE e = d
      <4>1. disk'[e] = "IDLE" /\ init'.retry[e] = 0
        BY <1>5, <2>8, <2>9, <3>1
      <4> QED BY <1>5, <3>1, <4>1, NumberAssumption
    <3>2. CASE e # d
      <4>1. disk'[e] = disk[e] /\ init'.retry[e] = init.retry[e] /\ e # b
        BY <1>1, <1>6, <2>8, <2>9, <3>2
      <4> QED BY <1>6, <2>6, <4>1 DEF Known
    <3> QED BY <3>1, <3>2
  <2>11. /\ \A e \in Disk : e[1] # p => disk'[e] = disk[e]
         /\ \A c \in Base : c[1] # p => init'.retry[c] = init.retry[c]
         /\ disk' \in [Disk -> DiskState] /\ sent' \subseteq sent
    <3>1. "IDLE" \in DiskState
      BY DEF DiskState
    <3> QED BY <1>1, <1>2, <1>5, <1>8, <2>8, <2>9, <3>1
  <2>12. b \in next => /\ init'.retry[b] <= RetryLimit
                       /\ SoftReset(x) => disk'[<<p, x.active_port>>] # "gone"
                       /\ x.state # "READ_GLOBAL_ERROR"
    <3>1. b \in Base
      BY Bases
    <3> QED BY <1>3, <1>5, <1>6, <2>8, <2>9, <3>1
  <2>13. Unlapsed' => /\ \A e \in DisksOf(p) : \/ disk'[e] \in {"gone", "INIT_DONE"}
                                               \/ disk'[e] = "IDLE" /\ next = {b}
                                               \/ e \in next
                      /\ x.up /\ x.state # "DONE" => next = {b}
    <3>1. Unlapsed' => Unlapsed
      BY <1>8 DEF Unlapsed
    <3> QED BY <1>6, <2>6, <2>8, <3>1
  <2> HIDE DEF d, out, x
  <2> QED BY <1>1, <1>3, <1>4, <1>8, <2>5, <2>6, <2>7, <2>10, <2>11, <2>12, <2>13, PmActs
<1>9. CASE /\ pm' = [pm EXCEPT ![p] = x] /\ Lapse("short") /\ UNCHANGED <<init, disk>>
  <2>1. "short" \in lapses' /\ ~Unlapsed' /\ lapses \subseteq lapses'
    BY <1>9 DEF Lapse, Unlapsed
  <2>2. Books(init, out \ {b}, TRUE)
    <3>1. b \in out
      BY <1>1
    <3> HIDE DEF b, out
    <3> QED BY <1>2, <3>1, LeakBooks
  <2>3. out \ {b} = sent' \cup timer' /\ sent' \cap timer' = {}
    BY <1>1, <1>2 DEF Counted
  <2>4. Counted'
    <3>1. ("short" \in lapses') = TRUE
      BY <2>1
    <3> QED BY <1>9, <2>2, <2>3, <3>1 DEF Counted
  <2>5. Pending' = Pending \ {b}
    <3>1. b \notin Queued(init)
      BY <1>1, <1>2 DEF Counted, Books
    <3> QED BY <1>1, <1>9, <2>3, <3>1 DEF Pending
  <2>6. /\ \A e \in DisksOf(p) : /\ disk'[e] \in {disk[e], "gone"}
                                 /\ disk'[e] # "gone" => init'.retry[e] = init.retry[e]
        /\ disk' \in [Disk -> DiskState] /\ sent' \subseteq sent /\ disk' = disk /\ init' = init
    BY <1>1, <1>2, <1>9
  <2> HIDE DEF d, out, x
  <2> QED BY <1>1, <1>3, <1>4, <1>9, <2>1, <2>4, <2>5, <2>6, PmEnds
<1>10. d = <<p, x.active_port>>
  BY <1>3
<1> QED
  <2>1. \/ Known(d) /\ PmGoes(p, x) /\ disk' = disk /\ lapses \subseteq lapses'
        \/ /\ disk' = [disk EXCEPT ![d] = "IDLE"] /\ pm' = [pm EXCEPT ![p] = x]
           /\ init' = [Requeue(init, b) EXCEPT !.retry[d] = 0] /\ lapses' = lapses
        \/ pm' = [pm EXCEPT ![p] = x] /\ Lapse("short") /\ UNCHANGED <<init, disk>>
    BY <1>10 DEF XBitCleared, Lapse
  <2> HIDE DEF x, d, out, b
  <2> QED BY <1>7, <1>8, <1>9, <2>1

\* An answer of the start-up, but for CLEAR_X_BIT.
LEMMA SetUpKeeps ==
    ASSUME Inv, NEW p \in Port, pm_req_callback(p), PmSetUp(p), pm[p].state # "CLEAR_X_BIT"
    PROVE  Inv'
<1> DEFINE b == <<p, Pm>>
           x == pm[p]
<1>1. /\ b \in Pending /\ handling' = handling /\ b \in sent /\ sent' = sent \ {b}
      /\ b \notin timer /\ (serror' \in [Port -> SUBSET Slot] => WorldTyped')
      /\ (serror' = serror => WorldTyped')
  BY PmAnswerTyped
<1>2. /\ Counted /\ x \in PmRecord /\ pm \in [Port -> PmRecord] /\ WorldTyped
  BY DEF Inv, MachinesTyped, Counted
<1>3. /\ init.retry[b] <= RetryLimit /\ (SoftReset(x) => Known(<<p, x.active_port>>))
  BY <1>1, PmAlone
<1>4. timer' = timer => Back(b)
  BY <1>1 DEF Back
<1>5. /\ x.up \in BOOLEAN /\ x.state \in PmState /\ x.active_port \in Slot
      /\ x.retry_cnt \in Nat /\ x.srst_retry_cnt \in Nat /\ x.hot \in BOOLEAN
      /\ x.global_serror \in SUBSET Slot /\ 0 \in Slot
  BY <1>2, PmFields, Parts
<1>6. ASSUME x.state \in DOMAIN NextSetupOfPm,
             PmGoes(p, [x EXCEPT !.state = NextSetupOfPm[@]]),
             ErrorCleared(p, x.active_port) \/ serror' = serror,
             UNCHANGED <<timer, disk, lapses>>
      PROVE  Inv'
  <2> DEFINE s == NextSetupOfPm[x.state]
             y == [x EXCEPT !.state = s]
  <2>1. s \in PmState \ {"READ_GLOBAL_ERROR", "ISSUE_SOFT_RESET_1"}
        /\ (s = "ISSUE_SOFT_RESET_0" => x.state = "ISSUE_SOFT_RESET_1")
    BY <1>6, States
  <2>2. PmGoes(p, y)
    BY <1>6
  <2> HIDE DEF s
  <2>3. y \in PmRecord /\ y.state = s /\ y.active_port = x.active_port
    BY <1>2, <2>1, ToState
  <2>4. WorldTyped'
    <3>1. serror' \in [Port -> SUBSET Slot]
      BY <1>2, <1>6 DEF WorldTyped, ErrorCleared
    <3> QED BY <1>1, <3>1
  <2> HIDE DEF y
  <2>5. SoftReset(y) => SoftReset(x)
    BY <2>1, <2>3 DEF SoftReset
  <2>6. SoftReset(y) => Known(<<p, y.active_port>>)
    BY <1>3, <2>3, <2>5
  <2> HIDE DEF x
  <2> QED BY <1>1, <1>4, <1>6, <2>1, <2>2, <2>3, <2>4, <2>6, PmGoesOn
<1>7. ASSUME x.state = "SPIN_UP_ALL_PORTS", pm' = [pm EXCEPT ![p].active_port = 0],
             timer' = timer \cup {b}, UNCHANGED <<init, serror, disk, lapses>>
      PROVE  Inv'
  <2> DEFINE y == [x EXCEPT !.active_port = 0]
  <2>1. y \in PmRecord /\ y.state = "SPIN_UP_ALL_PORTS"
    BY <1>2, <1>5, <1>7, ToSlot
  <2>2. pm' = [pm EXCEPT ![p] = y]
    BY <1>2, <1>7
  <2>3. sent' \cup timer' = sent \cup timer /\ sent' \cap timer' = {}
    BY <1>1, <1>2, <1>7 DEF Counted
  <2>4. Counted'
    BY <1>2, <1>7, <2>3 DEF Counted
  <2>5. Pending' = Pending
    BY <1>7, <2>3 DEF Pending
  <2>6. ~SoftReset(y) /\ y.state # "READ_GLOBAL_ERROR"
    BY <2>1 DEF SoftReset
  <2> HIDE DEF y
  <2> QED BY <1>1, <1>3, <1>7, <2>1, <2>2, <2>4, <2>5, <2>6, PmMoves
<1>8. ASSUME NEW y \in PmRecord, Plain(y), PmGoes(p, y), lapses \subseteq lapses',
             UNCHANGED <<serror, timer, disk>>
      PROVE  Inv'
  BY <1>1, <1>4, <1>8, PmGoesOn DEF Plain
<1>9. ASSUME x.state = "SPIN_UP_ALL_PORTS" \/ x.state = "SPIN_UP_DONE", ~LastSlot(x)
      PROVE  [x EXCEPT !.active_port = @ + 1] \in PmRecord /\ Plain([x EXCEPT !.active_port = @ + 1])
  <2>1. x.active_port + 1 \in Slot
    BY <1>2, <1>9, SlotAfter
  <2>2. [x EXCEPT !.active_port = @ + 1] = [x EXCEPT !.active_port = x.active_port + 1]
    OBVIOUS
  <2>3. /\ [x EXCEPT !.active_port = x.active_port + 1] \in PmRecord
        /\ [x EXCEPT !.active_port = x.active_port + 1].state = x.state
    BY <1>2, <2>1, ToSlot
  <2> QED BY <1>9, <2>2, <2>3 DEF Plain, SoftReset
<1>10. ASSUME x.state = "SPIN_UP_DONE"
       PROVE  LET y == Looking([x EXCEPT !.active_port = 0, !.retry_cnt = RetryCnt,
                                         !.srst_retry_cnt = 1])
              IN  y \in PmRecord /\ Plain(y)
  BY <1>2, <1>5, NumberAssumption, States DEF PmRecord, Looking, Plain, SoftReset
<1>11. ASSUME x.state = "PORT_CHECK_PHY_RDY", NEW ready \in BOOLEAN
       PROVE  LookedAt(x, ready) \in PmRecord /\ Plain(LookedAt(x, ready))
  BY <1>2, <1>11, LookedAtTyped
<1>12. CASE x.state \in DOMAIN NextSetupOfPm
  <2>1. /\ PmGoes(p, [x EXCEPT !.state = NextSetupOfPm[@]])
        /\ ErrorCleared(p, x.active_port) \/ serror' = serror
        /\ UNCHANGED <<timer, disk, lapses>>
    <3>1. x.state \notin {"SPIN_UP_ALL_PORTS", "SPIN_UP_DONE", "PORT_CHECK_PHY_RDY"}
      BY <1>12 DEF NextSetupOfPm
    <3> QED BY <3>1 DEF PmSetUp
  <2> QED BY <1>6, <1>12, <2>1
<1>13. CASE x.state \notin DOMAIN NextSetupOfPm
  <2>1. CASE x.state = "SPIN_UP_ALL_PORTS"
    <3>1. /\ IF LastSlot(x)
             THEN /\ pm' = [pm EXCEPT ![p].active_port = 0]
                  /\ timer' = timer \cup {<<p, Pm>>} /\ UNCHANGED init
             ELSE PmGoes(p, [x EXCEPT !.active_port = @ + 1]) /\ UNCHANGED timer
          /\ UNCHANGED <<serror, disk, lapses>>
      BY <1>13, <2>1 DEF PmSetUp
    <3> QED BY <1>7, <1>8, <1>9, <2>1, <3>1
  <2>2. CASE x.state = "SPIN_UP_DONE"
    <3>1. /\ PmGoes(p, IF LastSlot(x)
                       THEN Looking([x EXCEPT !.active_port = 0, !.retry_cnt = RetryCnt,
                                              !.srst_retry_cnt = 1])
                       ELSE [x EXCEPT !.active_port = @ + 1])
          /\ UNCHANGED <<serror, timer, disk, lapses>>
      BY <1>13, <2>2 DEF PmSetUp
    <3> QED BY <1>8, <1>9, <1>10, <2>2, <3>1
  <2>3. CASE x.state = "PORT_CHECK_PHY_RDY"
    <3>1. /\ PmGoes(p, LookedAt(x, x.active_port \in present[p]))
          /\ lapses \subseteq lapses' /\ UNCHANGED <<serror, timer, disk>>
      BY <1>13, <2>3 DEF PmSetUp, Lapse
    <3> DEFINE ready == x.active_port \in present[p]
    <3>2. ready \in BOOLEAN
      OBVIOUS
    <3> HIDE DEF ready
    <3>3. LookedAt(x, ready) \in PmRecord /\ Plain(LookedAt(x, ready))
      BY <1>11, <2>3, <3>2, Zenon
    <3>4. PICK y : y = LookedAt(x, ready)
      OBVIOUS
    <3>5. y \in PmRecord /\ Plain(y) /\ PmGoes(p, y)
      BY <3>1, <3>3, <3>4 DEF ready
    <3> QED BY <1>8, <3>1, <3>5
  <2> QED BY <1>13, <2>1, <2>2, <2>3 DEF PmSetUp
<1> QED BY <1>12, <1>13

\* A disk that was pulled is set down, and the multiplier goes on.
LEMMA UnplugKeeps ==
    ASSUME Inv, NEW p \in Port, pm_req_callback(p), timer' = timer, serror' = serror,
           lapses' = lapses, pal_set_down_disk(<<p, pm[p].active_port>>),
           NEW x \in PmRecord, Plain(x), pm' = [pm EXCEPT ![p] = x],
           init' = Requeue(Clean(init, p, {<<p, pm[p].active_port>>}), <<p, Pm>>)
    PROVE  Inv'
<1> DEFINE b == <<p, Pm>>
           d == <<p, pm[p].active_port>>
<1>1. /\ Back(b) /\ b \in Pending /\ handling' = handling /\ WorldTyped'
  BY PmAnswerTyped DEF Back
<1>2. /\ Counted /\ pm[p] \in PmRecord /\ disk \in [Disk -> DiskState]
  BY DEF Inv, MachinesTyped
<1>3. /\ d \in DisksOf(p) /\ d \in Disk /\ d[1] = p
  <2>1. pm[p].active_port \in 0 .. Direct
    BY <1>2, PmFields, Parts
  <2> QED BY <2>1, Bases
<1>4. /\ init.retry[b] <= RetryLimit
      /\ \A e \in DisksOf(p) : /\ e \notin Pending
                               /\ Known(e) => init.retry[e] <= RetryLimit
                               /\ disk[e] = "IDLE" => e \in IdleDisks(p)
                               /\ Unlapsed => disk[e] \in {"gone", "INIT_DONE", "IDLE"}
  BY <1>1, PmAlone
<1>5. \A e \in IdleDisks(p) : e[2] \in Slot
  BY DEF IdleDisks
<1>6. init' = Requeue(init, b)
  <2>1. Queued(init) \cap {d} = {}
    BY <1>3, <1>4 DEF Pending
  <2> QED BY <2>1, CleanNothing
<1>7. Counted' /\ Pending' = Pending /\ init'.retry = init.retry /\ sent' \subseteq sent
  <2> HIDE DEF b
  <2> QED BY <1>1, <1>2, <1>6, ComesBack
<1>8. disk' = [disk EXCEPT ![d] = "gone"]
  BY DEF pal_set_down_disk
<1>9. /\ \A e \in Disk : disk'[e] = IF e = d THEN "gone" ELSE disk[e]
      /\ disk' \in [Disk -> DiskState]
  BY <1>2, <1>8, SetupStates
<1>10. PICK next : next = {b}
  OBVIOUS
<1>11. Pending' = (Pending \ {b}) \cup next /\ b \notin DisksOf(p)
  BY <1>1, <1>7, <1>10, Parts DEF DisksOf
<1>12. \A e \in DisksOf(p) : /\ disk'[e] \in {disk[e], "gone", "RESET_DONE", "IDLE"}
                             /\ disk'[e] = "IDLE" => e[2] \in Slot
                             /\ disk'[e] # "gone" => init'.retry[e] <= RetryLimit
                             /\ e \in next => disk'[e] # "gone"
  <2>1. \A e \in DisksOf(p) : e \in Disk
    BY Bases
  <2> HIDE DEF b, d
  <2> QED BY <1>4, <1>5, <1>7, <1>9, <1>10, <1>11, <2>1 DEF Known
<1>13. Unlapsed' => /\ \A e \in DisksOf(p) : \/ disk'[e] \in {"gone", "INIT_DONE"}
                                             \/ disk'[e] = "IDLE" /\ next = {b}
                                             \/ e \in next
                    /\ x.up /\ x.state # "DONE" => next = {b}
  <2>1. \A e \in DisksOf(p) : e \in Disk
    BY Bases
  <2>2. Unlapsed' => Unlapsed
    BY DEF Unlapsed
  <2> QED BY <1>4, <1>9, <1>10, <2>1, <2>2
<1>14. /\ \A e \in Disk : e[1] # p => disk'[e] = disk[e]
       /\ \A c \in Base : c[1] # p => init'.retry[c] = init.retry[c]
       /\ b \in next => /\ init'.retry[b] <= RetryLimit
                        /\ SoftReset(x) => disk'[<<p, x.active_port>>] # "gone"
                        /\ x.state # "READ_GLOBAL_ERROR"
       /\ lapses \subseteq lapses'
  BY <1>3, <1>4, <1>7, <1>9 DEF Plain
<1> HIDE DEF d
<1> QED BY <1>1, <1>7, <1>9, <1>10, <1>11, <1>12, <1>13, <1>14, PmActs

\* An answer of a hot plug.
LEMMA HotPlugKeeps ==
    ASSUME Inv, NEW p \in Port, pm_req_callback(p), PmHotPlug(p), timer' = timer, serror' = serror
    PROVE  Inv'
<1> DEFINE b == <<p, Pm>>
           x == pm[p]
<1>1. /\ Back(b) /\ b \in Pending /\ handling' = handling /\ WorldTyped'
  BY PmAnswerTyped DEF Back
<1>2. /\ x \in PmRecord /\ serror \in [Port -> SUBSET Slot]
  BY DEF Inv, MachinesTyped, WorldTyped
<1>3. /\ x.up \in BOOLEAN /\ x.state \in PmState /\ x.active_port \in Slot
      /\ x.retry_cnt \in Nat /\ x.srst_retry_cnt \in Nat /\ x.hot \in BOOLEAN
      /\ x.global_serror \in SUBSET Slot
  BY <1>2, PmFields
<1>4. ASSUME NEW y \in PmRecord, Plain(y), PmGoes(p, y), lapses' = lapses, disk' = disk
      PROVE  Inv'
  BY <1>1, <1>4, PmGoesOn DEF Plain
<1>5. ASSUME NEW s \in PmState, s \notin {"ISSUE_SOFT_RESET_1", "ISSUE_SOFT_RESET_0", "READ_GLOBAL_ERROR"},
             PmGoes(p, [x EXCEPT !.state = s]), lapses' = lapses, disk' = disk
      PROVE  Inv'
  <2>1. [x EXCEPT !.state = s] \in PmRecord /\ Plain([x EXCEPT !.state = s])
    BY <1>2, <1>5, ToState DEF Plain, SoftReset
  <2> HIDE DEF x
  <2> QED BY <1>4, <1>5, <2>1
<1>6. ASSUME NEW bits \in SUBSET Slot, GlobalErrorRead(p, bits), x.state = "READ_GLOBAL_ERROR",
             lapses' = lapses, disk' = disk
      PROVE  Inv'
  <2>1. CASE bits = {}
    <3>1. [x EXCEPT !.global_serror = {}] \in PmRecord
      BY <1>2, <1>3 DEF PmRecord
    <3>2. HotDone(p, [x EXCEPT !.global_serror = {}])
      BY <1>6, <2>1 DEF GlobalErrorRead
    <3>3. Unlapsed' => IdleDisks(p) = {}
      BY <1>1, <1>6 DEF Inv, Unlapsed, Remembered
    <3> QED BY <1>1, <1>6, <3>1, <3>2, <3>3, HotIsDone
  <2>2. CASE bits # {}
    <3> DEFINE s == Min(bits)
    <3>1. s \in Slot
      BY <2>2, MinSlot
    <3>2. PmGoes(p, [x EXCEPT !.active_port = s, !.global_serror = bits \ {s},
                              !.state = "READ_PORT_ERROR"])
      BY <1>6, <2>2 DEF GlobalErrorRead
    <3> HIDE DEF s
    <3> DEFINE y == [x EXCEPT !.active_port = s, !.global_serror = bits \ {s},
                              !.state = "READ_PORT_ERROR"]
    <3>3. y \in PmRecord /\ y.state = "READ_PORT_ERROR"
      BY <1>2, <1>3, <3>1, States DEF PmRecord
    <3>4. PmGoes(p, y) /\ Plain(y)
      BY <3>2, <3>3 DEF Plain, SoftReset
    <3> HIDE DEF y
    <3> QED BY <1>4, <1>6, <3>3, <3>4
  <2> QED BY <2>1, <2>2
<1>7. CASE x.state = "READ_GLOBAL_ERROR"
  <2>1. /\ \/ GlobalErrorRead(p, serror[p])
           \/ \E s \in Slot \ serror[p] : GlobalErrorRead(p, serror[p] \cup {s})
        /\ lapses' = lapses /\ disk' = disk
    BY <1>7 DEF PmHotPlug
  <2>2. serror[p] \in SUBSET Slot /\ \A s \in Slot : serror[p] \cup {s} \in SUBSET Slot
    BY <1>2
  <2> HIDE DEF x
  <2> QED BY <1>6, <1>7, <2>1, <2>2
<1>8. CASE x.state = "READ_PORT_ERROR"
  <2>1. CASE x.active_port \in serror[p]
    <3>1. /\ PmGoes(p, [x EXCEPT !.state = "CLEAR_PORT_ERROR"]) /\ lapses' = lapses /\ disk' = disk
      BY <1>8, <2>1 DEF PmHotPlug
    <3> QED BY <1>5, <3>1, States
  <2>2. CASE x.active_port \notin serror[p]
    <3>1. /\ HotDone(p, x) /\ disk' = disk
          /\ IF x.global_serror = {} /\ IdleDisks(p) = {} THEN UNCHANGED lapses
             ELSE Lapse("dropped")
      BY <1>8, <2>2 DEF PmHotPlug
    <3>2. lapses \subseteq lapses' /\ (Unlapsed' => IdleDisks(p) = {})
      BY <3>1 DEF Lapse, Unlapsed
    <3> QED BY <1>1, <1>2, <3>1, <3>2, HotIsDone
  <2> QED BY <2>1, <2>2
<1>9. CASE x.state = "PORT_CHECK_PHY_RDY"
  <2> DEFINE d == <<p, x.active_port>>
             over == [x EXCEPT !.state = "SIG_DONE"]
  <2>1. /\ \/ PmGoes(p, [x EXCEPT !.state = "CLEAR_X_BIT"]) /\ disk' = disk
           \/ /\ PmGoes(p, IF x.retry_cnt > 0 THEN [x EXCEPT !.retry_cnt = @ - 1] ELSE over)
              /\ disk' = disk
           \/ /\ pal_set_down_disk(d)
              /\ pm' = [pm EXCEPT ![p] = over]
              /\ init' = Requeue(Clean(init, p, {d}), <<p, Pm>>)
        /\ lapses' = lapses
    BY <1>9 DEF PmHotPlug
  <2>2. over \in PmRecord /\ Plain(over)
    BY <1>2, ToState, States DEF Plain, SoftReset
  <2>3. CASE PmGoes(p, [x EXCEPT !.state = "CLEAR_X_BIT"]) /\ disk' = disk
    BY <1>5, <2>1, <2>3, States
  <2>4. CASE /\ PmGoes(p, IF x.retry_cnt > 0 THEN [x EXCEPT !.retry_cnt = @ - 1] ELSE over)
             /\ disk' = disk
    <3> DEFINE y == [x EXCEPT !.retry_cnt = x.retry_cnt - 1]
    <3>1. CASE x.retry_cnt > 0
      <4>1. y \in PmRecord /\ y.state = "PORT_CHECK_PHY_RDY"
        <5>1. x.retry_cnt - 1 \in Nat
          BY <1>3, <3>1
        <5> QED BY <1>2, <1>3, <1>9, <5>1 DEF PmRecord
      <4>2. PmGoes(p, y) /\ Plain(y)
        BY <2>4, <3>1, <4>1 DEF Plain, SoftReset
      <4> HIDE DEF y
      <4> QED BY <1>4, <2>1, <2>4, <4>1, <4>2
    <3>2. CASE ~(x.retry_cnt > 0)
      <4>1. PmGoes(p, over)
        BY <2>4, <3>2
      <4> HIDE DEF over
      <4> QED BY <1>4, <2>1, <2>2, <2>4, <4>1
    <3> QED BY <3>1, <3>2
  <2>5. CASE /\ pal_set_down_disk(d)
             /\ pm' = [pm EXCEPT ![p] = over]
             /\ init' = Requeue(Clean(init, p, {d}), <<p, Pm>>)
    <3> HIDE DEF over
    <3> QED BY <2>1, <2>2, <2>5, UnplugKeeps
  <2> HIDE DEF x, d, over
  <2> QED BY <2>1, <2>3, <2>4, <2>5
<1> QED BY <1>7, <1>8, <1>9 DEF PmHotPlug

\* A multiplier's request is answered (pm_req_callback).
LEMMA PmAnswered ==
    ASSUME Inv, NEW p \in Port, pm_req_callback(p)
    PROVE  Inv'
<1>1. CASE PmSetUp(p)
  <2>1. CASE pm[p].state = "CLEAR_X_BIT"
    <3>1. XBitCleared(p) /\ timer' = timer
      BY <1>1, <2>1 DEF PmSetUp, NextSetupOfPm
    <3> QED BY <2>1, <3>1, XBitKeeps
  <2> QED BY <1>1, <2>1, SetUpKeeps
<1>2. CASE PmHotPlug(p) /\ UNCHANGED <<serror, timer>>
  BY <1>2, HotPlugKeeps
<1>3. CASE PmFailed(p) /\ UNCHANGED <<serror, timer>>
  <2>1. CASE SoftReset(pm[p]) /\ pm[p].hot
    <3> DEFINE y == [pm[p] EXCEPT !.state = "SIG_DONE"]
    <3>1. PmGoes(p, y) /\ UNCHANGED <<disk, lapses>>
      BY <1>3, <2>1 DEF PmFailed
    <3>2. y \in PmRecord /\ y.state = "SIG_DONE"
      BY ToState, States DEF Inv, MachinesTyped
    <3>3. ~SoftReset(y) /\ y.state # "READ_GLOBAL_ERROR"
      BY <3>2 DEF SoftReset
    <3>4. Back(<<p, Pm>>) /\ handling' = handling /\ WorldTyped'
      BY <1>3, PmAnswerTyped DEF Back
    <3> HIDE DEF y
    <3> QED BY <3>1, <3>2, <3>3, <3>4, PmGoesOn
  <2>2. CASE SoftReset(pm[p]) /\ ~pm[p].hot
    <3>1. core_handle_init_error(<<p, pm[p].active_port>>) /\ Lapse("srst")
      BY <1>3, <2>2 DEF PmFailed
    <3> QED BY <1>3, <2>2, <3>1, ResetFails
  <2>3. CASE ~SoftReset(pm[p])
    <3>1. core_handle_init_error(<<p, Pm>>) /\ lapses' = lapses
      BY <1>3, <2>3 DEF PmFailed
    <3> QED BY <1>3, <2>3, <3>1, PmFails
  <2> QED BY <2>1, <2>2, <2>3
<1> QED BY <1>1, <1>2, <1>3 DEF pm_req_callback

-----------------------------------------------------------------------------
(* The port's entry, and events. *)

\* What belongs to a port is put in order by one of its own steps.
LEMMA PortActs ==
    ASSUME Inv, NEW p \in Port, NEW next,
           next \subseteq DisksOf(p) \/ next = {<<p, Pm>>} \/ next = {<<p, PortPart>>},
           WorldTyped', MachinesTyped', Counted', OnlyAt(p), Quiet, Settled(p)',
           AtPort(Pending', p) = next, Pending' \subseteq Base,
           \A d \in DisksOf(p) : /\ d \notin sent'
                                 /\ disk'[d] \in {disk[d], "gone", "RESET_DONE"}
                                 /\ disk'[d] = "IDLE" => d[2] \in Slot
                                 /\ disk'[d] # "gone" => init'.retry[d] <= RetryLimit
                                 /\ d \in next => disk'[d] # "gone",
           next = {<<p, Pm>>} => init'.retry[<<p, Pm>>] <= RetryLimit /\ ~SoftReset(pm'[p]),
           next = {<<p, PortPart>>} => pm'[p] = NewPm,
           Unlapsed' =>
              /\ \A d \in DisksOf(p) : disk'[d] \in {"gone", "INIT_DONE"} \/ d \in next
              /\ pm'[p].up /\ pm'[p].state # "DONE" => next = {<<p, Pm>>} \/ next = {<<p, PortPart>>}
    PROVE  Inv'
<1> DEFINE b == <<p, Pm>>
           c == <<p, PortPart>>
<1>1. OnePast
  BY DEF Inv
<1>2. /\ b \notin DisksOf(p) /\ c \notin DisksOf(p) /\ b # c /\ PortOf(b) = p /\ PortOf(c) = p
      /\ \A d \in DisksOf(p) : PortOf(d) = p /\ d \in Base /\ d \in Disk
  <2>1. b \notin DisksOf(p) /\ c \notin DisksOf(p) /\ b # c
    BY Parts DEF DisksOf
  <2>2. PortOf(b) = p /\ PortOf(c) = p /\ \A d \in DisksOf(p) : PortOf(d) = p
    BY DEF PortOf, DisksOf
  <2> QED BY <2>1, <2>2, Bases
<1>3. /\ b \in Pending' <=> next = {b}
      /\ c \in Pending' <=> next = {c}
      /\ \A d \in DisksOf(p) : d \in Pending' <=> d \in next
  <2>1. \A e \in Pending' : PortOf(e) = p => e \in next
    BY DEF AtPort
  <2>2. \A e \in next : e \in Pending'
    BY DEF AtPort
  <2> HIDE DEF b, c
  <2> QED BY <1>2, <2>1, <2>2
<1>4. InTurn(p)'
  <2>1. Turn(p)'
    BY DEF Turn
  <2>2. ASSUME NEW d \in DisksOf(p) PROVE DiskRuns(d)'
    BY <1>3 DEF DiskRuns, Known
  <2>3. PmRuns(p)'
    BY <1>3 DEF PmRuns
  <2> QED BY <2>1, <2>2, <2>3 DEF InTurn
<1>5. ASSUME Unlapsed' PROVE Remembered(p)'
  <2>1. \A d \in DisksOf(p) : disk'[d] \notin {"gone", "INIT_DONE"} => d \in Pending'
    BY <1>3, <1>5
  <2>2. pm'[p].up /\ pm'[p].state # "DONE" => b \in Pending' \/ c \in Pending'
    BY <1>3, <1>5
  <2>3. b \in Pending' => IdleDisks(p)' = {}
    <3> SUFFICES ASSUME b \in Pending', NEW d \in IdleDisks(p)' PROVE FALSE
      OBVIOUS
    <3>1. d \in DisksOf(p) /\ disk'[d] = "IDLE"
      BY Parts DEF IdleDisks, DisksOf
    <3> QED BY <1>2, <1>3, <1>5, <3>1
  <2> QED BY <2>1, <2>2, <2>3 DEF Remembered
<1>6. OnePast'
  <2>1. ASSUME NEW d \in Disk, Past(d)' PROVE Past(d)
    <3>1. CASE d[1] # p
      BY <2>1, <3>1 DEF OnlyAt, Past, Identified
    <3>2. CASE d[1] = p
      <4>1. d \in DisksOf(p)
        BY <3>2, Bases
      <4> QED BY <2>1, <4>1 DEF Past, Identified
    <3> QED BY <3>1, <3>2
  <2> QED BY <1>1, <2>1 DEF OnePast
<1> QED BY <1>4, <1>5, <1>6, PortMoves

\* While a port's own entry is being initialised, nothing else of it is.
LEMMA PortAlone ==
    ASSUME Inv, NEW p \in Port, AtPort(Pending, p) = {<<p, PortPart>>} \/ AtPort(Pending, p) = {}
    PROVE  /\ <<p, Pm>> \notin Pending
           /\ <<p, PortPart>> \in Pending => pm[p] = NewPm
           /\ \A d \in DisksOf(p) :
                 /\ d \in Base /\ d \in Disk
                 /\ d \notin Pending /\ d \notin sent
                 /\ Known(d) => init.retry[d] <= RetryLimit
                 /\ disk[d] = "IDLE" => d[2] \in Slot
                 /\ Unlapsed => disk[d] \in {"gone", "INIT_DONE"}
<1>1. /\ InTurn(p) /\ (Unlapsed => Remembered(p))
  BY DEF Inv
<1>2. PortOf(<<p, Pm>>) = p /\ PortOf(<<p, PortPart>>) = p /\ \A d \in DisksOf(p) : PortOf(d) = p
  BY DEF PortOf, DisksOf
<1>3. <<p, Pm>> \notin DisksOf(p) /\ <<p, PortPart>> \notin DisksOf(p) /\ <<p, Pm>> # <<p, PortPart>>
  BY Parts DEF DisksOf
<1>4. \A e \in Pending : PortOf(e) = p => e = <<p, PortPart>>
  BY DEF AtPort
<1>5. <<p, Pm>> \notin Pending /\ \A d \in DisksOf(p) : d \notin Pending /\ d \notin sent
  BY <1>2, <1>3, <1>4 DEF Pending
<1>6. \A d \in DisksOf(p) : d \in Base /\ d \in Disk
  BY Bases
<1> QED BY <1>1, <1>5, <1>6 DEF InTurn, DiskRuns, PmRuns, Remembered

\* An entry is done, and another one of its port is started.
LEMMA HandsOver ==
    ASSUME Counted, NEW b, NEW c \in Base, AtFront(b), c \notin Pending,
           init' = Done(Start(Taken(init), c), PortOf(b)), UNCHANGED <<sent, timer>>,
           lapses \subseteq lapses'
    PROVE  /\ Counted' /\ Pending' = (Pending \ {b}) \cup {c} /\ b \in Pending /\ b \in Base
           /\ init'.retry = [init.retry EXCEPT ![c] = 0] /\ b \notin sent
<1> DEFINE out == sent \cup timer
<1>1. /\ Books(init, out, "short" \in lapses) /\ init.queue # <<>> /\ b = Head(init.queue)
  BY DEF Counted, AtFront
<1>2. PICK i : i = Taken(init)
  OBVIOUS
<1>3. PICK j : j = Start(i, c)
  OBVIOUS
<1>4. /\ Books(i, out \cup {b}, "short" \in lapses) /\ b \in Queued(init) /\ b \in Base
      /\ b \notin out /\ Queued(i) = Queued(init) \ {b} /\ i.retry = init.retry
  BY <1>1, <1>2, TakenBooks
<1>5. c \notin Queued(i) \cup (out \cup {b}) /\ c \notin Queued(init) \cup out
  BY <1>4 DEF Pending
<1>6. /\ Books(j, out \cup {b}, "short" \in lapses)
      /\ Queued(j) = Queued(i) \cup {c} /\ j.retry = [i.retry EXCEPT ![c] = 0]
  BY <1>3, <1>4, <1>5, StartBooks
<1>7. init' = Done(j, PortOf(b))
  BY <1>2, <1>3
<1>8. /\ Books(init', (out \cup {b}) \ {b}, "short" \in lapses)
      /\ Queued(init') = Queued(j) /\ init'.retry = j.retry
  <2>1. b \in out \cup {b}
    OBVIOUS
  <2> HIDE DEF out
  <2> QED BY <1>6, <1>7, <2>1, DoneBooks
<1>9. (out \cup {b}) \ {b} = out
  BY <1>4
<1>10. Books(init', out, "short" \in lapses')
  BY <1>8, <1>9, LapsesGrow
<1>11. Counted'
  BY <1>10 DEF Counted
<1>12. Pending' = (Pending \ {b}) \cup {c}
  BY <1>4, <1>6, <1>8 DEF Pending
<1> QED BY <1>4, <1>6, <1>8, <1>11, <1>12 DEF Pending

\* A port has its signature: its multiplier or its disk is next.
LEMMA PortProceeds ==
    ASSUME Inv, NEW p \in Port, sata_port_state_machine(p),
           port_state[p] = "SIG_DONE" \/ (port_state[p] = "WAIT_SIG" /\ signature[p] # "none")
    PROVE  Inv'
<1> DEFINE b == <<p, PortPart>>
           c == <<p, Pm>>
           e == <<p, Direct>>
<1>1. /\ AtFront(b) /\ sata_port_process_new(p) /\ handling' = handling
      /\ UNCHANGED <<core_state, attached, present, serror, owes, signature, eventVars, sent, timer>>
      /\ port_state' = [port_state EXCEPT ![p] = "SIG_DONE"]
  BY DEF sata_port_state_machine, eventVars
<1>2. /\ Counted /\ WorldTyped /\ MachinesTyped /\ InTurn(p) /\ OnePast
  BY DEF Inv
<1>3. disk \in [Disk -> DiskState] /\ pm \in [Port -> PmRecord]
      /\ init.retry \in [Base -> 0 .. RetryLimit + 1]
  BY <1>2 DEF MachinesTyped, Counted, Books, InitRecord
<1>4. WorldTyped'
  BY <1>1, <1>2 DEF WorldTyped, eventVars
<1>5. /\ b \in Base /\ PortOf(b) = p /\ c \in Base /\ e \in Base /\ e \in Disk /\ e \in DisksOf(p)
      /\ b[1] = p /\ c[1] = p /\ e[1] = p /\ b # c /\ b # e /\ b \notin DisksOf(p)
      /\ PortOf(c) = p /\ PortOf(e) = p
  BY Bases, Parts DEF PortOf, DisksOf
<1>6. b \in Pending
  <2>1. init.queue # <<>> /\ b = Head(init.queue)
    BY <1>1 DEF AtFront
  <2>2. b \in Queued(init)
    <3> HIDE DEF b
    <3> QED BY <1>2, <2>1, TakenBooks DEF Counted
  <2> QED BY <2>2 DEF Pending
<1>7. AtPort(Pending, p) = {b}
  <2>1. b \in AtPort(Pending, p) /\ b # c /\ b \notin DisksOf(p)
    BY <1>5, <1>6 DEF AtPort
  <2> QED BY <1>2, <2>1 DEF InTurn, Turn
<1>8. /\ c \notin Pending /\ pm[p] = NewPm
      /\ \A d \in DisksOf(p) :
            /\ d \in Base /\ d \in Disk /\ d \notin Pending /\ d \notin sent
            /\ Known(d) => init.retry[d] <= RetryLimit
            /\ disk[d] = "IDLE" => d[2] \in Slot
            /\ Unlapsed => disk[d] \in {"gone", "INIT_DONE"}
  BY <1>6, <1>7, PortAlone
<1>9. \A x \in Pending : PortOf(x) = p => x = b
  BY <1>7 DEF AtPort
<1>10. Pending \subseteq Base /\ Quiet /\ Settled(p)'
  <2>1. Pending \subseteq Base
    BY <1>2, PendingTyped
  <2>2. ~(handling # None /\ handling.port = p /\ handling.step = "settle")
    BY <1>2, <1>7 DEF InTurn, Settled
  <2> QED BY <1>1, <2>1, <2>2 DEF Quiet, Settled
<1>12. ASSUME NEW n \in SUBSET Base, Pending' = (Pending \ {b}) \cup n,
              \A x \in n : PortOf(x) = p
       PROVE  /\ AtPort(Pending', p) = n /\ Pending' \subseteq Base
              /\ \A x \in Base : x[1] # p => (x \in Pending' <=> x \in Pending)
  <2>1. AtPort(Pending', p) = n
    BY <1>9, <1>12 DEF AtPort
  <2>2. \A x \in n : x[1] = p
    BY <1>12 DEF PortOf
  <2> QED BY <1>5, <1>10, <1>12, <2>1, <2>2
<1>13. CASE /\ init' = Done(Start(Taken(init), c), p) /\ UNCHANGED <<pm, disk, lapses>>
  <2>1. /\ Counted' /\ Pending' = (Pending \ {b}) \cup {c} /\ init'.retry = [init.retry EXCEPT ![c] = 0]
    <3> HIDE DEF b, c
    <3> QED BY <1>1, <1>2, <1>5, <1>8, <1>13, HandsOver
  <2>2. /\ AtPort(Pending', p) = {c} /\ Pending' \subseteq Base
        /\ \A x \in Base : x[1] # p => (x \in Pending' <=> x \in Pending)
    <3>1. PICK n : n = {c}
      OBVIOUS
    <3>2. n \in SUBSET Base /\ Pending' = (Pending \ {b}) \cup n /\ \A x \in n : PortOf(x) = p
      BY <1>5, <2>1, <3>1
    <3> QED BY <1>12, <3>1, <3>2
  <2>3. \A x \in Base : init'.retry[x] = IF x = c THEN 0 ELSE init.retry[x]
    BY <1>3, <2>1
  <2>4. OnlyAt(p)
    BY <1>1, <1>5, <1>13, <2>2, <2>3 DEF OnlyAt
  <2>5. init'.retry[c] <= RetryLimit /\ ~SoftReset(pm'[p])
    BY <1>5, <1>8, <1>13, <2>3, NumberAssumption DEF SoftReset, NewPm, NoPm
  <2>6. \A d \in DisksOf(p) : /\ d \notin sent' /\ disk'[d] \in {disk[d], "gone", "RESET_DONE"}
                              /\ disk'[d] = "IDLE" => d[2] \in Slot
                              /\ disk'[d] # "gone" => init'.retry[d] <= RetryLimit
                              /\ d \in {c} => disk'[d] # "gone"
    <3>1. c \notin DisksOf(p)
      BY Parts DEF DisksOf
    <3> HIDE DEF c
    <3> QED BY <1>1, <1>8, <1>13, <2>3, <3>1 DEF Known
  <2>7. /\ MachinesTyped' /\ (Unlapsed' => \A d \in DisksOf(p) : disk'[d] \in {"gone", "INIT_DONE"})
    BY <1>2, <1>8, <1>13 DEF MachinesTyped, Unlapsed
  <2>8. PICK n : n = {c}
    OBVIOUS
  <2>9. ~(n = {b})
    BY <1>5, <2>8
  <2> HIDE DEF e
  <2> QED BY <1>4, <1>10, <2>1, <2>2, <2>4, <2>5, <2>6, <2>7, <2>8, <2>9, PortActs
<1>14. CASE /\ init' = Done(Start(Taken(init), e), p) /\ pm' = [pm EXCEPT ![p] = NoPm]
            /\ disk' = [disk EXCEPT ![e] = "RESET_DONE"] /\ lapses' = lapses
  <2>1. /\ Counted' /\ Pending' = (Pending \ {b}) \cup {e} /\ init'.retry = [init.retry EXCEPT ![e] = 0]
    <3>1. e \notin Pending
      BY <1>5, <1>8
    <3> HIDE DEF b, e
    <3> QED BY <1>1, <1>2, <1>5, <1>14, <3>1, HandsOver
  <2>2. /\ AtPort(Pending', p) = {e} /\ Pending' \subseteq Base
        /\ \A x \in Base : x[1] # p => (x \in Pending' <=> x \in Pending)
    <3>1. PICK n : n = {e}
      OBVIOUS
    <3>2. n \in SUBSET Base /\ Pending' = (Pending \ {b}) \cup n /\ \A x \in n : PortOf(x) = p
      BY <1>5, <2>1, <3>1
    <3> QED BY <1>12, <3>1, <3>2
  <2>3. /\ \A x \in Base : init'.retry[x] = IF x = e THEN 0 ELSE init.retry[x]
        /\ \A d \in Disk : disk'[d] = IF d = e THEN "RESET_DONE" ELSE disk[d]
    BY <1>3, <1>14, <2>1
  <2>4. /\ pm'[p] = NoPm /\ \A q \in Port \ {p} : pm'[q] = pm[q]
    BY <1>3, <1>14
  <2>5. OnlyAt(p)
    BY <1>1, <1>5, <1>14, <2>2, <2>3, <2>4 DEF OnlyAt
  <2>6. \A d \in DisksOf(p) : /\ d \notin sent' /\ disk'[d] \in {disk[d], "gone", "RESET_DONE"}
                              /\ disk'[d] = "IDLE" => d[2] \in Slot
                              /\ disk'[d] # "gone" => init'.retry[d] <= RetryLimit
                              /\ d \in {e} => disk'[d] # "gone"
    <3> TAKE d \in DisksOf(p)
    <3>1. d \in Base /\ d \in Disk /\ d \notin sent
      BY <1>8
    <3>2. CASE d = e
      BY <1>1, <2>3, <3>1, <3>2, NumberAssumption
    <3>3. CASE d # e
      BY <1>1, <1>8, <2>3, <3>1, <3>3 DEF Known
    <3> QED BY <3>2, <3>3
  <2>7. MachinesTyped'
    <3>1. NoPm \in PmRecord
      BY States, Parts DEF NoPm, PmRecord
    <3> QED BY <1>3, <1>14, <3>1, SetupStates DEF MachinesTyped
  <2>8. Unlapsed' => /\ \A d \in DisksOf(p) : disk'[d] \in {"gone", "INIT_DONE"} \/ d \in {e}
                     /\ ~pm'[p].up
    BY <1>8, <1>14, <2>3, <2>4 DEF Unlapsed, NoPm
  <2>9. PICK n : n = {e}
    OBVIOUS
  <2>10. n \subseteq DisksOf(p) /\ n # {b} /\ n # {c}
    <3>1. e # c
      BY Parts
    <3> QED BY <1>5, <2>9, <3>1
  <2> HIDE DEF e
  <2> QED BY <1>4, <1>10, <2>1, <2>2, <2>5, <2>6, <2>7, <2>8, <2>9, <2>10, PortActs
<1>15. CASE /\ init' = Done(Taken(init), p) /\ pm' = [pm EXCEPT ![p] = NoPm]
            /\ disk' = disk /\ Lapse("short")
  <2>1. ~Unlapsed' /\ lapses \subseteq lapses'
    BY <1>15 DEF Unlapsed, Lapse
  <2>2. Counted' /\ Pending' = Pending \ {b} /\ init'.retry = init.retry
    <3> HIDE DEF b
    <3> QED BY <1>1, <1>2, <1>5, <1>15, <2>1, EndsTaken
  <2>3. PICK n : n = {}
    OBVIOUS
  <2>4. Pending' = (Pending \ {b}) \cup n /\ n \in SUBSET Base /\ \A x \in n : PortOf(x) = p
    BY <2>2, <2>3
  <2>5. /\ AtPort(Pending', p) = n /\ Pending' \subseteq Base
        /\ \A x \in Base : x[1] # p => (x \in Pending' <=> x \in Pending)
    BY <1>12, <2>4
  <2>6. /\ pm'[p] = NoPm /\ \A q \in Port \ {p} : pm'[q] = pm[q]
    BY <1>3, <1>15
  <2>7. OnlyAt(p)
    BY <1>1, <1>15, <2>1, <2>2, <2>5, <2>6 DEF OnlyAt
  <2>8. \A d \in DisksOf(p) : /\ d \notin sent' /\ disk'[d] \in {disk[d], "gone", "RESET_DONE"}
                              /\ disk'[d] = "IDLE" => d[2] \in Slot
                              /\ disk'[d] # "gone" => init'.retry[d] <= RetryLimit
                              /\ d \in n => disk'[d] # "gone"
    BY <1>1, <1>8, <1>15, <2>2, <2>3 DEF Known
  <2>9. MachinesTyped'
    <3>1. NoPm \in PmRecord
      BY States, Parts DEF NoPm, PmRecord
    <3> QED BY <1>3, <1>15, <3>1 DEF MachinesTyped
  <2>10. n \subseteq DisksOf(p) /\ n # {b} /\ n # {c}
    BY <2>3
  <2> HIDE DEF b, c
  <2> QED BY <1>4, <1>10, <2>1, <2>2, <2>5, <2>7, <2>8, <2>9, <2>10, PortActs DEF b, c
<1> QED
  <2>1. \/ /\ init' = Done(Start(Taken(init), c), p) /\ UNCHANGED <<pm, disk, lapses>>
        \/ /\ init' = Done(Start(Taken(init), e), p) /\ pm' = [pm EXCEPT ![p] = NoPm]
           /\ disk' = [disk EXCEPT ![e] = "RESET_DONE"] /\ lapses' = lapses
        \/ /\ init' = Done(Taken(init), p) /\ pm' = [pm EXCEPT ![p] = NoPm]
           /\ disk' = disk /\ Lapse("short")
    BY <1>1 DEF sata_port_process_new
  <2> HIDE DEF b, c, e
  <2> QED BY <1>13, <1>14, <1>15, <2>1

\* A new entry of a port at rest.
LEMMA Starts ==
    ASSUME Counted, NEW c \in Base, c \notin Pending, init' = Start(init, c),
           UNCHANGED <<sent, timer>>, lapses \subseteq lapses'
    PROVE  /\ Counted' /\ Pending' = Pending \cup {c}
           /\ init'.retry = [init.retry EXCEPT ![c] = 0]
<1> DEFINE out == sent \cup timer
<1>1. /\ Books(init, out, "short" \in lapses) /\ c \notin Queued(init) \cup out
  BY DEF Counted, Pending
<1>2. /\ Books(init', out, "short" \in lapses)
      /\ Queued(init') = Queued(init) \cup {c} /\ init'.retry = [init.retry EXCEPT ![c] = 0]
  BY <1>1, StartBooks
<1>3. Books(init', out, "short" \in lapses')
  BY <1>2, LapsesGrow
<1> QED BY <1>2, <1>3 DEF Counted, Pending

\* The event taken is one whose port has nothing to initialise, and the others stay.
LEMMA EventTaken ==
    ASSUME Inv, FirstEvent # 0, event_queue' = RemoveAt(event_queue, FirstEvent)
    PROVE  LET p == event_queue[FirstEvent][1] IN
           /\ p \in Port /\ AtPort(Pending, p) = {}
           /\ event_queue' \in Seq(Port \X {"async", "phy"})
<1> DEFINE S == Port \X {"async", "phy"}
           free == {i \in DOMAIN event_queue : ~Waits(event_queue[i][1])}
<1>1. /\ event_queue \in Seq(S) /\ Counted /\ init.port \in [Port -> Nat]
      /\ Books(init, sent \cup timer, "short" \in lapses)
  BY DEF Inv, WorldTyped, Counted, Books, InitRecord
<1>2. /\ Len(event_queue) \in Nat /\ DOMAIN event_queue = 1 .. Len(event_queue)
      /\ \A i \in 1 .. Len(event_queue) : event_queue[i] \in S
  BY <1>1, Positions
<1>3. FirstEvent \in free
  <2>1. free # {} /\ FirstEvent = Min(free)
    BY DEF FirstEvent
  <2>2. free \subseteq Nat
    BY <1>2
  <2> HIDE DEF free
  <2> QED BY <2>1, <2>2, MinIsElement
<1>4. PICK k : k = FirstEvent
  OBVIOUS
<1>5. PICK p : p = event_queue[k][1]
  OBVIOUS
<1>6. k \in 1 .. Len(event_queue) /\ p \in Port /\ ~(init.port[p] > 0)
  BY <1>2, <1>3, <1>4, <1>5 DEF Waits
<1>7. init.port[p] = 0
  BY <1>1, <1>6
<1>8. AtPort(Pending, p) = {}
  <2>1. AtPort(Queued(init) \cup (sent \cup timer), p) = {}
    BY <1>1, <1>6, <1>7, NothingAt
  <2> QED BY <2>1 DEF Pending, AtPort
<1>9. RemoveAt(event_queue, k) \in Seq(S)
  <2> DEFINE q == event_queue
             m == k - 1
             n == k + 1
             o == Len(q)
  <2>1. m \in Int /\ n \in Int /\ o \in Int /\ \A i \in 1 .. m : q[i] \in S
    BY <1>2, <1>6
  <2>2. \A i \in n .. o : q[i] \in S
    BY <1>2, <1>6
  <2>3. RemoveAt(q, k) = SubSeq(q, 1, m) \o SubSeq(q, n, o)
    BY DEF RemoveAt
  <2> HIDE DEF m, n, o, q
  <2>4. SubSeq(q, 1, m) \in Seq(S) /\ SubSeq(q, n, o) \in Seq(S)
    BY <2>1, <2>2, SubSeqProperties
  <2>5. SubSeq(q, 1, m) \o SubSeq(q, n, o) \in Seq(S)
    BY <2>4, ConcatProperties
  <2> QED BY <2>3, <2>5 DEF q
<1> QED BY <1>4, <1>5, <1>6, <1>8, <1>9

\* An event is taken, or its handling goes on (core_handle_event_queue).
LEMMA EventKeeps ==
    ASSUME Inv, core_handle_event_queue
    PROVE  Inv'
<1>1. PICK p : p = event_queue[FirstEvent][1]
  OBVIOUS
<1>2. /\ p \in Port /\ AtPort(Pending, p) = {}
      /\ event_queue' \in Seq(Port \X {"async", "phy"})
  BY <1>1, EventTaken DEF core_handle_event_queue
<1>3. /\ Counted /\ WorldTyped /\ MachinesTyped /\ pm \in [Port -> PmRecord] /\ disk \in [Disk -> DiskState]
      /\ init.retry \in [Base -> 0 .. RetryLimit + 1]
  BY DEF Inv, MachinesTyped, Counted, Books, InitRecord
<1>4. /\ UNCHANGED <<core_state, hwVars, signature, irq, port_state, disk, sent, timer, lapses>>
      /\ handling = None
  BY DEF core_handle_event_queue, Locked
<1>5. CASE UNCHANGED <<pm, init>> /\ (handling' = handling \/ handling' = None
               \/ handling' = [port |-> p, irq |-> irq[p], step |-> "settle"])
  <2>1. WorldTyped'
    BY <1>2, <1>3, <1>4, <1>5 DEF WorldTyped, hwVars
  <2>2. Pending' = Pending
    BY <1>4, <1>5 DEF Pending
  <2>3. Quiet
    BY <1>2, <1>4, <1>5, <2>2 DEF Quiet
  <2> QED BY <1>4, <1>5, <2>1, <2>3, OutsideKeeps DEF Outside
<1>6. CASE /\ pm' = [pm EXCEPT ![p].state = "READ_GLOBAL_ERROR", ![p].hot = TRUE]
           /\ init' = Start(init, <<p, Pm>>) /\ handling' = handling
  <2> DEFINE c == <<p, Pm>>
             x == [pm[p] EXCEPT !.state = "READ_GLOBAL_ERROR", !.hot = TRUE]
  <2>1. WorldTyped'
    BY <1>2, <1>3, <1>4, <1>6 DEF WorldTyped, hwVars
  <2>2. c \in Base /\ PortOf(c) = p /\ c[1] = p /\ c \notin DisksOf(p) /\ c # <<p, PortPart>>
    BY <1>2, Bases, Parts DEF PortOf, DisksOf
  <2>3. x \in PmRecord /\ x.state = "READ_GLOBAL_ERROR"
    BY <1>2, <1>3, States DEF PmRecord
  <2>4. pm' = [pm EXCEPT ![p] = x]
    BY <1>2, <1>3, <1>6
  <2> HIDE DEF x
  <2>5. /\ c \notin Pending
        /\ \A d \in DisksOf(p) :
              /\ d \in Base /\ d \in Disk /\ d \notin Pending /\ d \notin sent
              /\ Known(d) => init.retry[d] <= RetryLimit
              /\ disk[d] = "IDLE" => d[2] \in Slot
              /\ Unlapsed => disk[d] \in {"gone", "INIT_DONE"}
    BY <1>2, PortAlone
  <2>6. /\ Counted' /\ Pending' = Pending \cup {c} /\ init'.retry = [init.retry EXCEPT ![c] = 0]
    <3> HIDE DEF c
    <3> QED BY <1>3, <1>4, <1>6, <2>2, <2>5, Starts DEF c
  <2>7. PICK n : n = {c}
    OBVIOUS
  <2>8. AtPort(Pending', p) = n
    <3>1. \A e \in Pending : PortOf(e) # p
      BY <1>2 DEF AtPort
    <3> QED BY <2>2, <2>6, <2>7, <3>1 DEF AtPort
  <2>9. Pending' \subseteq Base
    BY <1>3, <2>2, <2>6, PendingTyped
  <2>10. \A e \in Base : init'.retry[e] = IF e = c THEN 0 ELSE init.retry[e]
    BY <1>3, <2>6
  <2>11. pm'[p] = x /\ \A q \in Port \ {p} : pm'[q] = pm[q]
    BY <1>2, <1>3, <2>4
  <2>12. OnlyAt(p)
    BY <1>4, <2>2, <2>6, <2>10, <2>11 DEF OnlyAt
  <2>13. MachinesTyped'
    BY <1>3, <1>4, <2>3, <2>4 DEF MachinesTyped
  <2>14. Quiet /\ Settled(p)'
    BY <1>4, <1>6 DEF Quiet, Settled
  <2>15. \A d \in DisksOf(p) : /\ d \notin sent' /\ disk'[d] \in {disk[d], "gone", "RESET_DONE"}
                               /\ disk'[d] = "IDLE" => d[2] \in Slot
                               /\ disk'[d] # "gone" => init'.retry[d] <= RetryLimit
                               /\ d \in n => disk'[d] # "gone"
    <3> HIDE DEF c
    <3> QED BY <1>4, <2>2, <2>5, <2>7, <2>10 DEF Known
  <2>16. init'.retry[c] <= RetryLimit /\ ~SoftReset(pm'[p])
    BY <2>2, <2>3, <2>10, <2>11, NumberAssumption DEF SoftReset
  <2>17. n # {<<p, PortPart>>} /\ (Unlapsed' => \A d \in DisksOf(p) : disk'[d] \in {"gone", "INIT_DONE"})
    BY <1>4, <2>2, <2>5, <2>7 DEF Unlapsed
  <2> QED BY <1>2, <2>1, <2>6, <2>7, <2>8, <2>9, <2>12, <2>13, <2>14, <2>15, <2>16, <2>17, PortActs
<1> QED
  <2>1. \/ /\ pm' = [pm EXCEPT ![p].state = "READ_GLOBAL_ERROR", ![p].hot = TRUE]
           /\ init' = Start(init, <<p, Pm>>) /\ handling' = handling
        \/ /\ UNCHANGED <<pm, init>>
           /\ \/ handling' = handling \/ handling' = None
              \/ handling' = [port |-> p, irq |-> irq[p], step |-> "settle"]
    BY <1>1 DEF core_handle_event_queue
  <2> QED BY <1>5, <1>6, <2>1

\* What a phy change sets down is at rest; what is plugged in is reset.
LEMMA HotPlugEventKeeps ==
    ASSUME Inv, pl_handle_hotplug_event
    PROVE  Inv'
<1> DEFINE gone(p) == [d \in Disk |-> IF d[1] = p THEN "gone" ELSE disk[d]]
<1>1. PICK p : p = handling.port
  OBVIOUS
<1>2. /\ Counted /\ WorldTyped /\ MachinesTyped /\ pm \in [Port -> PmRecord] /\ disk \in [Disk -> DiskState]
      /\ init.retry \in [Base -> 0 .. RetryLimit + 1]
  BY DEF Inv, MachinesTyped, Counted, Books, InitRecord
<1>3. /\ handling # None /\ handling.step = "settle" /\ handling' = [handling EXCEPT !.step = "clear"]
      /\ UNCHANGED <<core_state, attached, present, serror, event_queue, sent, timer>>
  BY DEF pl_handle_hotplug_event
<1>4. p \in Port /\ AtPort(Pending, p) = {}
  <2>1. p \in Port
    BY <1>1, <1>2, <1>3 DEF WorldTyped
  <2> QED BY <1>1, <1>3, <2>1 DEF Inv, InTurn, Settled
<1>5. /\ handling'.port = p /\ handling'.step = "clear"
      /\ handling' = [port |-> handling'.port, irq |-> handling'.irq, step |-> handling'.step]
  <2>1. handling = [port |-> handling.port, irq |-> handling.irq, step |-> handling.step]
    BY <1>2, <1>3 DEF WorldTyped
  <2>2. handling' = [port |-> handling.port, irq |-> handling.irq, step |-> "clear"]
    BY <1>3, <2>1
  <2> QED BY <1>1, <2>2
<1>6. Quiet /\ Settled(p)'
  BY <1>5 DEF Quiet, Settled
<1>7. /\ <<p, Pm>> \notin Pending
      /\ \A d \in DisksOf(p) :
            /\ d \in Base /\ d \in Disk /\ d \notin Pending /\ d \notin sent
            /\ Known(d) => init.retry[d] <= RetryLimit
            /\ disk[d] = "IDLE" => d[2] \in Slot
            /\ Unlapsed => disk[d] \in {"gone", "INIT_DONE"}
  BY <1>4, PortAlone
<1>8. \A e \in Pending : PortOf(e) # p
  BY <1>4 DEF AtPort
<1>9. PortCleaned(init, p) = init
  <2>1. \A e \in DisksOf(p) \cup {<<p, Pm>>} : PortOf(e) = p
    BY DEF PortOf, DisksOf
  <2>2. Queued(init) \cap (DisksOf(p) \cup {<<p, Pm>>}) = {}
    BY <1>8, <2>1 DEF Pending
  <2> QED BY <2>2, CleanNothing DEF PortCleaned
<1>10. /\ NoPm \in PmRecord /\ NewPm \in PmRecord /\ ~NoPm.up
       /\ gone(p) \in [Disk -> DiskState]
       /\ \A d \in Disk : gone(p)[d] = IF d[1] = p THEN "gone" ELSE disk[d]
       /\ \A d \in DisksOf(p) : d[1] = p
  <2>1. NoPm \in PmRecord /\ ~NoPm.up
    BY States, Parts DEF NoPm, PmRecord
  <2>2. NewPm \in PmRecord
    BY <2>1 DEF NewPm, PmRecord
  <2> QED BY <1>2, <2>1, <2>2, SetupStates DEF DisksOf
<1> HIDE DEF gone
<1>11. CASE UNCHANGED <<init, pm, disk, owes, signature, port_state>> /\ lapses \subseteq lapses'
  <2>1. WorldTyped'
    BY <1>1, <1>2, <1>3, <1>4, <1>5, <1>11 DEF WorldTyped
  <2> QED BY <1>3, <1>6, <1>11, <2>1, OutsideKeeps DEF Outside
<1>12. CASE /\ disk' = gone(p) /\ pm' = [pm EXCEPT ![p] = NoPm] /\ init' = init
            /\ UNCHANGED <<owes, signature, port_state, lapses>>
  <2>1. WorldTyped'
    BY <1>1, <1>2, <1>3, <1>4, <1>5, <1>12 DEF WorldTyped
  <2>2. Counted' /\ Pending' = Pending
    BY <1>2, <1>3, <1>12, BooksStay
  <2>3. pm'[p] = NoPm /\ \A q \in Port \ {p} : pm'[q] = pm[q]
    BY <1>2, <1>4, <1>12
  <2>4. OnlyAt(p)
    BY <1>3, <1>10, <1>12, <2>2, <2>3 DEF OnlyAt
  <2>5. MachinesTyped'
    BY <1>2, <1>10, <1>12 DEF MachinesTyped
  <2>6. PICK n : n = {}
    OBVIOUS
  <2>7. /\ AtPort(Pending', p) = n /\ Pending' \subseteq Base
        /\ n \subseteq DisksOf(p) /\ n # {<<p, Pm>>} /\ n # {<<p, PortPart>>}
    BY <1>2, <1>4, <2>2, <2>6, PendingTyped
  <2>8. /\ \A d \in DisksOf(p) : /\ d \notin sent' /\ disk'[d] \in {disk[d], "gone", "RESET_DONE"}
                                 /\ disk'[d] = "IDLE" => d[2] \in Slot
                                 /\ disk'[d] # "gone" => init'.retry[d] <= RetryLimit
                                 /\ d \in n => disk'[d] # "gone"
        /\ \A d \in DisksOf(p) : disk'[d] \in {"gone", "INIT_DONE"} \/ d \in n
    BY <1>3, <1>7, <1>10, <1>12, <2>6
  <2>9. ~pm'[p].up
    BY <1>10, <2>3
  <2> QED BY <1>4, <1>6, <2>1, <2>2, <2>4, <2>5, <2>6, <2>7, <2>8, <2>9, PortActs
<1>13. CASE /\ disk' = gone(p) /\ pm' = [pm EXCEPT ![p] = NewPm]
            /\ init' = Start(init, <<p, PortPart>>) /\ owes' = [owes EXCEPT ![p] = TRUE]
            /\ signature' = [signature EXCEPT ![p] = "none"]
            /\ port_state' = [port_state EXCEPT ![p] = "POWER_ON"] /\ lapses' = lapses
  <2> DEFINE c == <<p, PortPart>>
  <2>1. WorldTyped'
    BY <1>1, <1>2, <1>3, <1>4, <1>5, <1>13 DEF WorldTyped
  <2>2. c \in Base /\ PortOf(c) = p /\ c[1] = p /\ c \notin DisksOf(p) /\ c # <<p, Pm>> /\ c \notin Pending
    BY <1>4, <1>8, Bases, Parts DEF PortOf, DisksOf
  <2>3. /\ Counted' /\ Pending' = Pending \cup {c} /\ init'.retry = [init.retry EXCEPT ![c] = 0]
    <3> HIDE DEF c
    <3> QED BY <1>2, <1>3, <1>13, <2>2, Starts DEF c
  <2>4. PICK n : n = {c}
    OBVIOUS
  <2>5. AtPort(Pending', p) = n
    BY <1>8, <2>2, <2>3, <2>4 DEF AtPort
  <2>6. Pending' \subseteq Base
    BY <1>2, <2>2, <2>3, PendingTyped
  <2>7. \A e \in Base : init'.retry[e] = IF e = c THEN 0 ELSE init.retry[e]
    BY <1>2, <2>3
  <2>8. pm'[p] = NewPm /\ \A q \in Port \ {p} : pm'[q] = pm[q]
    BY <1>2, <1>4, <1>13
  <2>9. OnlyAt(p)
    BY <1>3, <1>10, <1>13, <2>2, <2>3, <2>7, <2>8 DEF OnlyAt
  <2>10. MachinesTyped'
    BY <1>2, <1>10, <1>13 DEF MachinesTyped
  <2>11. \A d \in DisksOf(p) : d \notin sent' /\ disk'[d] = "gone" /\ d \notin n
    BY <1>3, <1>7, <1>10, <1>13, <2>2, <2>4
  <2>12. n # {<<p, Pm>>} /\ n = {<<p, PortPart>>}
    BY <2>2, <2>4
  <2> HIDE DEF c
  <2> QED BY <1>4, <1>6, <2>1, <2>3, <2>5, <2>6, <2>8, <2>9, <2>10, <2>11, <2>12, PortActs
<1> QED
  <2>1. \/ UNCHANGED <<init, pm, disk, owes, signature, port_state>> /\ lapses \subseteq lapses'
        \/ /\ pal_set_down_port(p) /\ init' = PortCleaned(init, p)
           /\ UNCHANGED <<owes, signature, port_state, lapses>>
        \/ /\ disk' = [d \in Disk |-> IF d[1] = p THEN "gone" ELSE disk[d]]
           /\ pl_handle_plugin(PortCleaned(init, p), p) /\ lapses' = lapses
    BY <1>1 DEF pl_handle_hotplug_event, Lapse
  <2> QED BY <1>9, <1>11, <1>12, <1>13, <2>1 DEF gone, pal_set_down_port, pl_handle_plugin

-----------------------------------------------------------------------------
(* The beginning. *)

\* At boot the ports that have a phy are queued, and nothing else is.
LEMMA InitInv == Init => Inv
<1> SUFFICES ASSUME Init PROVE Inv
  OBVIOUS
<1> DEFINE at == {p \in Port : attached[p] # "none"}
           T == at \X {PortPart}
           q == SetToSeq(T)
<1>1. /\ attached \in [Port -> {"none", "disk", "pm"}] /\ present \in [Port -> SUBSET Slot]
  BY AttachedAssumption DEF Init
<1>2. /\ init = [NoInit EXCEPT !.queue = q, !.count = Cardinality(at),
                               !.port = [p \in Port |-> IF p \in at THEN 1 ELSE 0]]
      /\ pm = [p \in Port |-> IF p \in at THEN NewPm ELSE NoPm]
      /\ owes = [p \in Port |-> p \in at]
  BY DEF Init
<1>3. /\ IsFiniteSet(T) /\ Cardinality(T) = Cardinality(at) /\ T \in SUBSET Base
      /\ Cardinality(at) \in Nat
  <2>1. IsFiniteSet(at) /\ IsFiniteSet({PortPart}) /\ Cardinality({PortPart}) = 1
    BY NumberAssumption, FS_Subset, FS_Singleton
  <2>2. IsFiniteSet(T) /\ Cardinality(T) = Cardinality(at) * Cardinality({PortPart})
    BY <2>1, FS_Product
  <2>3. Cardinality(at) \in Nat
    BY <2>1, FS_CardinalityType
  <2>4. T \in SUBSET Base
    BY Parts DEF Base
  <2> QED BY <2>1, <2>2, <2>3, <2>4
<1> HIDE DEF at, T
<1>4. q \in Seq(Base) /\ IsInjective(q) /\ ToSet(q) = T
  <2> DEFINE n == Cardinality(T)
             B == {f \in [1..n -> T] : IsInjective(f)}
  <2>1. n \in Nat /\ ExistsBijection(1..n, T)
    BY <1>3, FS_CardinalityType
  <2>2. \E f \in [1..n -> T] : IsInjective(f)
    BY <2>1 DEF ExistsBijection, Bijection, Injection
  <2>3. q \in [1..n -> T] /\ IsInjective(q)
    BY <2>2 DEF SetToSeq
  <2>4. IsFiniteSet(1..n) /\ Cardinality(1..n) = n
    BY <2>1, FS_Interval
  <2> HIDE DEF q
  <2>5. q \in Injection(1..n, T)
    BY <2>3 DEF Injection, IsInjective
  <2>6. q \in Surjection(1..n, T)
    BY <1>3, <2>4, <2>5, FS_Injection
  <2>7. q \in Seq(Base) /\ DOMAIN q = 1..n
    BY <1>3, <2>1, <2>3, IsASeq
  <2>8. ToSet(q) = T
    BY <2>3, <2>6, <2>7 DEF ToSet, Surjection
  <2> QED BY <2>3, <2>7, <2>8
<1> HIDE DEF q
<1>5. /\ init.queue = q /\ init.count = Cardinality(at)
      /\ init.port = [p \in Port |-> IF p \in at THEN 1 ELSE 0]
      /\ init.retry = [b \in Base |-> 0] /\ init \in InitRecord
  <2>1. 0 \in 0 .. RetryLimit + 1
    BY NumberAssumption
  <2> QED BY <1>2, <1>3, <1>4, <2>1 DEF NoInit, InitRecord
<1>6. sent = {} /\ timer = {} /\ Queued(init) = T /\ Pending = T
  BY <1>4, <1>5 DEF Init, Queued, Pending
<1>7. \A p \in Port : /\ p \in at => AtPort(T, p) = {<<p, PortPart>>}
                      /\ p \notin at => AtPort(T, p) = {}
  BY DEF T, AtPort, PortOf
<1>8. Counted
  <2>1. \A p \in Port : init.port[p] = Cardinality(AtPort(T, p))
    <3>1. \A p : Cardinality({<<p, PortPart>>}) = 1
      BY FS_Singleton
    <3>2. Cardinality({}) = 0
      BY FS_EmptySet
    <3> TAKE p \in Port
    <3>3. init.port[p] = IF p \in at THEN 1 ELSE 0
      BY <1>5
    <3>4. CASE p \in at
      <4>1. AtPort(T, p) = {<<p, PortPart>>}
        BY <1>7, <3>4
      <4> QED BY <3>1, <3>3, <3>4, <4>1
    <3>5. CASE p \notin at
      <4>1. AtPort(T, p) = {}
        BY <1>7, <3>5
      <4> QED BY <3>2, <3>3, <3>5, <4>1
    <3> QED BY <3>4, <3>5
  <2>2. init.count = Cardinality(T) /\ Cardinality(T) \in Nat
    BY <1>3, <1>5
  <2>3. \A p \in Port : Cardinality(AtPort(T, p)) \in Nat
    BY <1>3, EntriesFinite
  <2>4. Sums(init, T, "short" \in lapses)
    BY <2>1, <2>2, <2>3 DEF Sums
  <2> QED BY <1>3, <1>4, <1>5, <1>6, <2>4 DEF Counted, Books
<1>9. /\ NoPm \in PmRecord /\ NewPm \in PmRecord /\ ~NoPm.up
  <2>1. NoPm \in PmRecord /\ ~NoPm.up
    BY States, Parts DEF NoPm, PmRecord
  <2> QED BY <2>1 DEF NewPm, PmRecord
<1>10. MachinesTyped
  BY <1>2, <1>9, SetupStates DEF Init, MachinesTyped
<1>11. WorldTyped
  <2>1. <<>> \in Seq(Port \X {"async", "phy"})
    BY Nothing
  <2>2. owes \in [Port -> BOOLEAN]
    BY <1>2 DEF at
  <2> QED BY <1>1, <2>1, <2>2 DEF Init, WorldTyped
<1>12. \A d \in Disk : disk[d] = "gone"
  BY DEF Init
<1>13. OnePast
  BY <1>12 DEF OnePast, Past, Identified
<1>14. ASSUME NEW p \in Port PROVE InTurn(p) /\ (Unlapsed => Remembered(p))
  <2>1. Turn(p)
    BY <1>6, <1>7 DEF Turn
  <2>2. /\ \A d \in DisksOf(p) : d \in Disk /\ d \notin T
        /\ <<p, Pm>> \notin T
        /\ <<p, PortPart>> \in T <=> p \in at
    BY Bases, Parts DEF T, DisksOf
  <2>3. \A d \in DisksOf(p) : DiskRuns(d)
    BY <1>6, <1>12, <2>2 DEF DiskRuns, Known
  <2>4. PmRuns(p)
    BY <1>2, <1>6, <2>2 DEF PmRuns
  <2>5. Settled(p)
    BY DEF Init, Settled
  <2>6. Remembered(p)
    BY <1>2, <1>6, <1>9, <1>12, <2>2 DEF Remembered
  <2> QED BY <2>1, <2>3, <2>4, <2>5, <2>6 DEF InTurn
<1> QED BY <1>8, <1>10, <1>11, <1>13, <1>14 DEF Inv

-----------------------------------------------------------------------------
(***************************************************************************)
(* Part 3: the theorems.                                                   *)
(***************************************************************************)

\* Every step keeps the invariant.
LEMMA NextInv ==
    ASSUME Inv, [Next]_vars
    PROVE  Inv'
<1>1. CASE InitStep
  <2>1. ASSUME NEW p \in Port, sata_port_state_machine(p) PROVE Inv'
    BY <2>1, PortWaits, PortProceeds
  <2>2. ASSUME NEW p \in Port, pm_state_machine(p) PROVE Inv'
    BY <2>2, PmWaits, PmIsDone
  <2>3. ASSUME NEW d \in Disk, sata_device_state_machine(d) PROVE Inv'
    BY <2>3, DiskMachine
  <2> QED BY <1>1, <2>1, <2>2, <2>3 DEF InitStep
<1>2. CASE EventStep
  BY <1>2, EventKeeps, HotPlugEventKeeps, RestKeeps DEF EventStep
<1>3. CASE Started \/ UNCHANGED vars
  BY <1>3, RestKeeps
<1>4. ASSUME NEW p \in Port, PortStep(p) PROVE Inv'
  BY <1>4, PortAnswered, PortTimedOut DEF PortStep
<1>5. ASSUME NEW p \in Port, PmStep(p) PROVE Inv'
  BY <1>5, PmAnswered, PmTimedOut DEF PmStep
<1>6. ASSUME NEW p \in Port, sata_port_notify_event(p) \/ Plug(p) \/ Pull(p) PROVE Inv'
  BY <1>6, SignatureComes, PlugKeeps
<1>7. ASSUME NEW p \in Port, NEW s \in Slot, SlotChanges(p, s) PROVE Inv'
  BY <1>7, SlotKeeps
<1>8. ASSUME NEW d \in Disk, sata_device_intl_req_callback(d) PROVE Inv'
  BY <1>8, DiskAnswered
<1> QED BY <1>1, <1>2, <1>3, <1>4, <1>5, <1>6, <1>7, <1>8 DEF Next

\* So it always holds.
LEMMA Inductive == Spec => []Inv
  BY InitInv, NextInv, PTL DEF Spec

\* Every entry is counted exactly as long as it lives, and a port, its multiplier and its
\* disks are brought up one after the other: no multiplier sends anything while a disk
\* behind it is being set up (core_event.c:218, core_pm.c:785, core_util.c:168, 389).
THEOREM TurnsAreTaken == Spec => []MachinesTakeTurns
<1>1. Inv => MachinesTakeTurns
  <2> SUFFICES ASSUME Inv PROVE MachinesTakeTurns
    OBVIOUS
  <2>1. /\ WorldTyped /\ MachinesTyped /\ Counted /\ \A p \in Port : InTurn(p)
    BY DEF Inv
  <2>2. /\ Books(init, sent \cup timer, "short" \in lapses) /\ init \in InitRecord
        /\ Pending = Queued(init) \cup (sent \cup timer) /\ Pending \subseteq Base
        /\ sent \in SUBSET Base /\ timer \in SUBSET Base
    BY <2>1, PendingTyped DEF Counted, Books
  <2>3. TypeOK
    <3>1. \A e \in ToSet(event_queue) : e[1] \in Port /\ e[2] \in {"async", "phy"}
      <4>1. \A e \in ToSet(event_queue) : e \in Port \X {"async", "phy"}
        BY <2>1, Positions DEF WorldTyped
      <4> QED BY <4>1
    <3>2. \A p \in Port : pm[p].state \in PmState /\ pm[p].active_port \in Slot
      BY <2>1, PmFields DEF MachinesTyped
    <3> QED BY <2>1, <2>2, <3>1, <3>2 DEF TypeOK, WorldTyped, MachinesTyped, InitRecord
  <2>4. InitCountExact
    <3>1. sent \cap timer = {} /\ Queued(init) \cap (sent \cup timer) = {}
      BY <2>1, <2>2 DEF Counted, Books
    <3>2. ASSUME "short" \notin lapses
          PROVE  /\ init.count = Cardinality(Pending)
                 /\ \A p \in Port : init.port[p] = Cardinality({b \in Pending : PortOf(b) = p})
      BY <2>2, <3>2 DEF Books, Sums, AtPort
    <3> QED BY <3>1, <3>2 DEF InitCountExact
  <2>5. ASSUME NEW b \in Pending, b[2] \in {Pm, PortPart}, NEW c \in Pending \ {b}
        PROVE  PortOf(c) # PortOf(b)
    <3> DEFINE p == PortOf(b)
    <3>1. p \in Port /\ b \notin DisksOf(p)
      <4>1. b \in Base
        BY <2>2, <2>5
      <4>2. p \in Port
        BY <4>1, Bases
      <4>3. b[2] \notin 0 .. Direct
        BY <2>5, Parts
      <4> QED BY <4>2, <4>3, Bases
    <3>2. b \in AtPort(Pending, p)
      BY DEF AtPort
    <3>3. AtPort(Pending, p) = {b}
      BY <2>1, <3>1, <3>2 DEF InTurn, Turn
    <3> QED BY <3>3 DEF AtPort
  <2> QED BY <2>3, <2>4, <2>5 DEF MachinesTakeTurns
<1> QED BY <1>1, Inductive, PTL

\* When nothing of a port is being initialised, its multiplier is done and each of its
\* disks is set up or gone, unless a device object was missing, a soft reset failed or a
\* hot plug ended early; and no two disks of one name are in use (core_pm.c:754-791).
THEOREM NothingIsForgotten == Spec => []NothingForgotten
<1>1. Inv => NothingForgotten
  <2> SUFFICES ASSUME Inv PROVE NothingForgotten
    OBVIOUS
  <2>1. TwinsApart
    BY DEF Inv, OnePast, Past, Identified, TwinsApart
  <2>2. ASSUME NEW p \in Port, init.port[p] = 0, Unlapsed
        PROVE  /\ pm[p].up => pm[p].state = "DONE"
               /\ \A d \in DisksOf(p) : disk[d] \in {"gone", "INIT_DONE"}
    <3>1. AtPort(Pending, p) = {}
      <4>1. Books(init, sent \cup timer, "short" \in lapses)
        BY DEF Inv, Counted
      <4>2. AtPort(Queued(init) \cup (sent \cup timer), p) = {}
        BY <2>2, <4>1, NothingAt
      <4> QED BY <4>2 DEF Pending, AtPort
    <3>2. <<p, PortPart>> \notin Pending
      BY <3>1 DEF AtPort, PortOf
    <3>3. /\ <<p, Pm>> \notin Pending /\ Remembered(p)
          /\ \A d \in DisksOf(p) : disk[d] \in {"gone", "INIT_DONE"}
      BY <2>2, <3>1, PortAlone DEF Inv
    <3> QED BY <3>2, <3>3 DEF Remembered
  <2> QED BY <2>1, <2>2 DEF NothingForgotten, Unlapsed
<1> QED BY <1>1, Inductive, PTL

=============================================================================
