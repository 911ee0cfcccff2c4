--------------------------- MODULE ApplicationProofs --------------------------
(***************************************************************************)
(* main() for any configurations, any number of devices, scanners,         *)
(* detections, captures and broken connections: on_detection() finds its   *)
(* objects, the exit leaves nothing behind, and the scanners' bands are    *)
(* the configured ones, shared out.  The inductive invariant SafetyInv     *)
(* ties the place of the main thread to those of the scanners' threads, to *)
(* the objects that are alive and to what the publisher's work queue still *)
(* holds.                                                                  *)
(***************************************************************************)
EXTENDS Application, FiniteSetTheorems, SequenceTheorems, TLAPS

Before  == {"amqp", "db", "gps", "probe", "closeProbe", "spawn", "start"}   \* no thread yet
During  == {"startP25", "run", "stopP25", "stopScanners"}
After   == {"resetGps", "resetAmqp", "joinAmqp", "resetDb", "destroy", "exited"}   \* no thread any more
Calling == {"stamp", "log", "publish", "post"}                    \* in on_detection()

FlagsOK == {running, workQueue, stopping} \subseteq BOOLEAN

MainOK ==
  /\ mainPc \in Before \cup During \cup After
  /\ cfg \in Configs /\ devices \in 0..MaxDevices
  /\ scanners \in Seq(Band) /\ Len(scanners) <= MaxScanners
  /\ mainPc = "amqp" => ok = {}

\* The scanners have threads from StartScanners until they are joined; the voice scanner
\* has one while a P25 capture runs, which is only while the consumer does.
ThreadsOK ==
  /\ thread \in [Threads -> Calling \cup {"none", "sweeping", "joined"}]
  /\ mainPc \in Before => \A t \in Threads : thread[t] = "none"
  /\ mainPc \in During => \A t \in Threads : t > Len(scanners) => thread[t] = "none"
  /\ mainPc \in After => \A t \in Threads : thread[t] \notin Calling \cup {"sweeping"}

VoiceOK ==
  /\ capture = 0 => thread[Voice] = "none"
  /\ mainPc \notin {"run", "stopP25"} => p25 = "off" /\ capture = 0

\* main() destroys the position cache, the publisher and the log in this order.
AliveOK ==
  /\ gps # "absent" => \/ "gps" \in alive
                     \/ mainPc \in {"resetAmqp", "joinAmqp", "resetDb", "destroy", "exited"}
  /\ "amqp" \in ok => "amqp" \in alive \/ mainPc \in {"resetDb", "destroy", "exited"}
  /\ "db" \in ok => "db" \in alive \/ mainPc \in {"destroy", "exited"}
  /\ mainPc \in {"amqp", "db", "gps"} => gps = "absent"

\* With a log, a detection is in the log's queue or its thread is on the way there.
LoggedOK ==
  /\ emitted \in Nat /\ inHand \in [Threads -> Nat] /\ log \subseteq 1..emitted
  /\ mainPc \in Before => emitted = 0
  /\ \A t \in Threads : thread[t] \in Calling => inHand[t] \in 1..emitted
  /\ "db" \in ok => \A d \in 1..emitted :
       d \in log \/ \E t \in Threads : thread[t] \in {"stamp", "log"} /\ inHand[t] = d

\* What was posted is in the work queue, or was run.  Close is the last closure, and
\* the container runs until it has run, or until it is stopped with an empty queue.
Among(s) == {s[i] : i \in 1..Len(s)}

JobsOK ==
  /\ jobs \in Seq(Nat) /\ container \in {"absent", "running", "stopping", "ended"}
  /\ posted = sent \cup spoilt \cup (Among(jobs) \ {Close})
  /\ \A i \in 1..Len(jobs) : jobs[i] = Close => stopping /\ i = Len(jobs)
  /\ jobs # <<>> => container = "running" /\ workQueue

StopOK ==
  /\ stopping => mainPc \in {"joinAmqp", "resetDb", "destroy", "exited"}
  /\ workQueue /\ ~stopping => container = "running"
  /\ "amqp" \notin ok => container = "absent"
  /\ mainPc \in {"resetDb", "destroy", "exited"} => container = "absent"
  /\ \A t \in Threads : thread[t] = "post" => workQueue

SafetyInv == /\ FlagsOK /\ MainOK /\ ThreadsOK /\ VoiceOK /\ AliveOK /\ LoggedOK /\ JobsOK /\ StopOK

-----------------------------------------------------------------------------
(* The bands of the scanners.                                               *)

LEMMA LessThanIsWellFounded ==
  \E R : IsWellFoundedOn(R, Nat) /\ \A m, n \in Nat : m < n => <<m, n>> \in R
<1>1. \A m, n \in Nat : m < n => <<m, n>> \in OpToRel(<, Nat)
  BY DEF OpToRel
<1>. QED
  BY <1>1, NatLessThanWellFounded, Zenon

\* Induction: a set of naturals without a least element is empty.
LEMMA LeastElement ==
  ASSUME NEW T, T \subseteq Nat, T # {}
  PROVE  \E n \in T : \A m \in T : n <= m
<1>1. PICK R : IsWellFoundedOn(R, Nat) /\ \A m, n \in Nat : m < n => <<m, n>> \in R
  BY LessThanIsWellFounded
<1>2. \A S : IsWellFoundedOn(R, S) /\ T \subseteq S => \E n \in T : \A m \in T : ~ (<<m, n>> \in R)
  BY WFMin, Zenon
<1>3. PICK n \in T : \A m \in T : ~ (<<m, n>> \in R)
  BY <1>1, <1>2
<1>4. \A m \in T : n \in Nat /\ m \in Nat /\ ~ (m < n)
  BY <1>1, <1>3
<1>. QED
  BY <1>4

\* The recursion of FlattenSeq(), for the first n of the sequences.
Flattens(seqs, n, g) == g = [i \in 1..n |-> IF i = 1 THEN seqs[i] ELSE g[i - 1] \o seqs[i]]

LEMMA FlattenSeqIs ==
  ASSUME NEW seqs, Len(seqs) # 0
  PROVE  FlattenSeq(seqs) = (CHOOSE g : Flattens(seqs, Len(seqs), g))[Len(seqs)]
BY DEF FlattenSeq, Flattens

LEMMA FlattensExist ==
  ASSUME NEW seqs, NEW n \in Nat
  PROVE  \E g : Flattens(seqs, n, g)
<1>. DEFINE Bad == {k \in Nat : ~ \E g : Flattens(seqs, k, g)}
<1>1. SUFFICES ASSUME Bad # {} PROVE FALSE
  OBVIOUS
<1>2. PICK k \in Bad : \A m \in Bad : k <= m
  BY <1>1, LeastElement
<1>3. CASE k = 0
  <2>1. Flattens(seqs, 0, [i \in 1..0 |-> 0])
    BY DEF Flattens
  <2>. QED
    BY <1>2, <1>3, <2>1
<1>4. CASE k # 0
  <2>1. k \in Nat /\ k - 1 \in Nat /\ k - 1 \notin Bad
    <3>1. k \in Nat
      OBVIOUS
    <3>. HIDE DEF Bad
    <3>2. k - 1 \in Nat /\ ~(k <= k - 1)
      BY <1>4, <3>1
    <3>. QED
      BY <1>2, <3>1, <3>2
  <2>2. PICK g : Flattens(seqs, k - 1, g)
    BY <2>1
  <2>. DEFINE h == [i \in 1..k |-> IF i = 1 THEN seqs[i] ELSE g[i - 1] \o seqs[i]]
  <2>3. ASSUME NEW i \in 1..(k - 1) PROVE g[i] = h[i]
    <3>1. g[i] = IF i = 1 THEN seqs[i] ELSE g[i - 1] \o seqs[i]
      BY <2>2 DEF Flattens
    <3>2. i \in 1..k
      BY <2>1
    <3>. QED
      BY <3>1, <3>2
  <2>4. ASSUME NEW i \in 1..k, i # 1 PROVE i - 1 \in 1..(k - 1)
    BY <2>1, <2>4
  <2>5. \A i \in 1..k : h[i] = IF i = 1 THEN seqs[i] ELSE h[i - 1] \o seqs[i]
    BY <2>3, <2>4
  <2>6. h = [i \in 1..k |-> h[i]]
    OBVIOUS
  <2>. HIDE DEF h
  <2>7. Flattens(seqs, k, h)
    BY <2>5, <2>6 DEF Flattens
  <2>. QED
    BY <1>2, <2>7
<1>. QED
  BY <1>3, <1>4

\* A property of the first sequence that each further sequence keeps, of the whole.
LEMMA Flattened ==
  ASSUME NEW seqs, NEW n \in Nat \ {0}, Len(seqs) = n
  PROVE  \E g : /\ FlattenSeq(seqs) = g[n] /\ g[1] = seqs[1]
                /\ \A i \in 2..n : g[i] = g[i - 1] \o seqs[i]
<1>. DEFINE g == CHOOSE g : Flattens(seqs, n, g)
<1>1. Flattens(seqs, n, g)
  BY FlattensExist
<1>2. FlattenSeq(seqs) = g[n]
  BY FlattenSeqIs
<1>. HIDE DEF g
<1>3. \A i \in 1..n : g[i] = IF i = 1 THEN seqs[i] ELSE g[i - 1] \o seqs[i]
  BY <1>1 DEF Flattens
<1>4. g[1] = seqs[1]
  BY <1>3
<1>5. ASSUME NEW i \in 2..n PROVE g[i] = g[i - 1] \o seqs[i]
  <2>1. i \in 1..n /\ i # 1
    OBVIOUS
  <2>. QED
    BY <1>3, <2>1
<1>. QED
  BY <1>2, <1>4, <1>5

-----------------------------------------------------------------------------
(* How many bands of a sequence contain a frequency.                        *)

LEMMA CountConcat ==
  ASSUME NEW s \in Seq(Band), NEW t \in Seq(Band), NEW f
  PROVE  Scanning(f, s \o t) = Scanning(f, s) + Scanning(f, t)
         /\ Scanning(f, s) \in Nat /\ Scanning(f, t) \in Nat
<1>. DEFINE A == {i \in 1..Len(s) : f \in Within(s[i])}
            B == {i \in 1..Len(t) : f \in Within(t[i])}
            C == {i \in 1..(Len(s) + Len(t)) : f \in Within((s \o t)[i])}
            D == {i \in C : i > Len(s)}
<1>1. Len(s) \in Nat /\ Len(t) \in Nat /\ Len(s \o t) = Len(s) + Len(t) /\ s \o t \in Seq(Band)
  BY ConcatProperties
<1>2. DOMAIN s = 1..Len(s) /\ DOMAIN t = 1..Len(t) /\ DOMAIN (s \o t) = 1..(Len(s) + Len(t))
  BY <1>1
<1>3. /\ \A i \in 1..Len(s) : (s \o t)[i] = s[i]
      /\ \A i \in 1..Len(t) : (s \o t)[i + Len(s)] = t[i]
  <2>1. \A i \in 1..Len(s) + Len(t) : (s \o t)[i] = IF i <= Len(s) THEN s[i] ELSE t[i - Len(s)]
    BY ConcatProperties
  <2>2. ASSUME NEW i \in 1..Len(s) PROVE (s \o t)[i] = s[i]
    <3>1. i \in 1..Len(s) + Len(t) /\ i <= Len(s)
      BY <1>1
    <3>. QED
      BY <2>1, <3>1
  <2>3. ASSUME NEW i \in 1..Len(t) PROVE (s \o t)[i + Len(s)] = t[i]
    <3>1. i + Len(s) \in 1..Len(s) + Len(t) /\ ~(i + Len(s) <= Len(s)) /\ (i + Len(s)) - Len(s) = i
      BY <1>1
    <3>. QED
      BY <2>1, <3>1
  <2>. QED
    BY <2>2, <2>3
<1>4. IsFiniteSet(A) /\ IsFiniteSet(B) /\ IsFiniteSet(C) /\ IsFiniteSet(D)
  <2>1. IsFiniteSet(1..Len(s)) /\ IsFiniteSet(1..Len(t)) /\ IsFiniteSet(1..(Len(s) + Len(t)))
    BY <1>1, FS_Interval
  <2>2. A \in SUBSET (1..Len(s)) /\ B \in SUBSET (1..Len(t)) /\ C \in SUBSET (1..(Len(s) + Len(t)))
        /\ D \in SUBSET C
    OBVIOUS
  <2>. HIDE DEF A, B, C, D
  <2>. QED
    BY <2>1, <2>2, FS_Subset
<1>5. C = A \cup D /\ A \cap D = {}
  BY <1>1, <1>3
<1>6. Cardinality(D) = Cardinality(B)
  <2>. DEFINE m == [i \in B |-> i + Len(s)]
  <2>1. ASSUME NEW i \in B PROVE m[i] \in D
    <3>1. i \in 1..Len(t) /\ f \in Within(t[i]) /\ (s \o t)[i + Len(s)] = t[i]
      BY <1>3
    <3>2. i + Len(s) \in 1..(Len(s) + Len(t)) /\ i + Len(s) > Len(s)
      BY <1>1, <3>1
    <3>. QED
      BY <3>1, <3>2
  <2>2. \A i, j \in B : m[i] = m[j] => i = j
    BY <1>1
  <2>3. ASSUME NEW d \in D PROVE \E i \in B : m[i] = d
    <3>1. d \in 1..(Len(s) + Len(t)) /\ d > Len(s) /\ f \in Within((s \o t)[d])
      OBVIOUS
    <3>2. d - Len(s) \in 1..Len(t) /\ (d - Len(s)) + Len(s) = d
      BY <1>1, <3>1
    <3>3. d - Len(s) \in B
      BY <1>3, <3>1, <3>2
    <3>4. m[d - Len(s)] = d
      BY <3>2, <3>3
    <3>. QED
      BY <3>3, <3>4
  <2>4. m = [i \in B |-> m[i]]
    OBVIOUS
  <2>. HIDE DEF m, B, D
  <2>5. m \in [B -> D]
    BY <2>1, <2>4
  <2>6. m \in Bijection(B, D)
    BY <2>2, <2>3, <2>5 DEF Bijection, Injection, Surjection, IsInjective
  <2>. QED
    BY <1>4, <2>6, FS_Bijection DEF ExistsBijection
<1>7. Scanning(f, s) = Cardinality(A) /\ Scanning(f, t) = Cardinality(B)
      /\ Scanning(f, s \o t) = Cardinality(C)
  BY <1>2, Zenon DEF Scanning
<1>. HIDE DEF A, B, C, D
<1>8. Cardinality(C) = Cardinality(A) + Cardinality(D) - Cardinality({})
  BY <1>4, <1>5, FS_Union
<1>9. Cardinality({}) = 0 /\ Cardinality(A) \in Nat /\ Cardinality(B) \in Nat
  BY <1>4, FS_EmptySet, FS_CardinalityType
<1>. QED
  BY <1>6, <1>7, <1>8, <1>9

LEMMA Division ==
  ASSUME NEW a \in Nat, NEW p \in Nat \ {0}
  PROVE  a \div p \in Nat /\ a % p \in Nat /\ a % p < p /\ a = p * (a \div p) + (a % p)
<1>1. a \div p \in Int /\ a % p \in 0..(p - 1) /\ a = p * (a \div p) + (a % p)
  OBVIOUS
<1>2. a \div p >= 0
  OBVIOUS
<1>. QED
  BY <1>1, <1>2

LEMMA ProductGrows ==
  \A x, y \in Int, n \in Nat : x <= y => x * n <= y * n
<1>1. SUFFICES ASSUME NEW x \in Int, NEW y \in Int, NEW n \in Nat, x <= y PROVE x * n <= y * n
  OBVIOUS
<1>2. (y - x) * n >= 0 /\ (y - x) * n = y * n - x * n /\ x * n \in Int /\ y * n \in Int
  BY <1>1
<1>. QED
  BY <1>1, <1>2

Between(b, x, y) == [b EXCEPT !.lo = x, !.hi = y]

LEMMA Edges ==
  ASSUME NEW b \in Band, NEW x \in Nat, NEW y \in Nat
  PROVE  Between(b, x, y) \in Band /\ Between(b, x, y).lo = x /\ Between(b, x, y).hi = y
BY DEF Band, Between

Slices(b, p) == [j \in 1..p |-> Slice(b, p, j)]

\* The slices of a band: each of its frequencies is in one of them, no other frequency is.
LEMMA SlicesAre ==
  ASSUME NEW b \in Band, b.lo < b.hi, NEW p \in Nat \ {0}, (b.hi - b.lo) % p = 0
  PROVE  /\ Slices(b, p) \in Seq(Band) /\ Len(Slices(b, p)) = p
         /\ \A f : Scanning(f, Slices(b, p)) = IF f \in Within(b) THEN 1 ELSE 0
<1>. DEFINE lo == b.lo
            w == b.hi - b.lo
            step == w \div p
<1>1. lo \in Nat /\ w \in Nat /\ w >= 1 /\ b.hi = lo + w
  BY DEF Band
<1>2. step \in Nat /\ w = p * step /\ step >= 1
  <2>1. step \in Nat /\ w = p * step + 0
    BY <1>1, Division
  <2>2. step # 0
    <3>. HIDE DEF step, w
    <3>1. ASSUME step = 0 PROVE FALSE
      BY <1>1, <2>1, <3>1
    <3>. QED
      BY <3>1
  <2>. HIDE DEF step
  <2>3. p * step \in Nat
    BY <2>1
  <2>. QED
    BY <2>1, <2>2, <2>3
<1>. HIDE DEF step, w, lo
<1>5. \A j \in 1..p : /\ (j - 1) * step \in Nat /\ j * step \in Nat /\ j * step = (j - 1) * step + step
                      /\ j * step <= w
  <2>1. ASSUME NEW j \in 1..p
        PROVE  /\ (j - 1) * step \in Nat /\ j * step \in Nat /\ j * step = (j - 1) * step + step
    <3>1. j \in Nat /\ j - 1 \in Nat
      OBVIOUS
    <3>. QED
      BY <1>2, <3>1
  <2>2. ASSUME NEW j \in 1..p PROVE j * step <= w
    BY <1>2, ProductGrows
  <2>. QED
    BY <2>1, <2>2
<1>6. \A j \in 1..p : /\ Slice(b, p, j) \in Band
                      /\ Slice(b, p, j).lo = lo + (j - 1) * step /\ Slice(b, p, j).hi = lo + j * step
  <2>1. ASSUME NEW j \in 1..p
        PROVE  /\ Slice(b, p, j) \in Band
               /\ Slice(b, p, j).lo = lo + (j - 1) * step /\ Slice(b, p, j).hi = lo + j * step
    <3>. DEFINE x == lo + (j - 1) * step
                y == lo + j * step
    <3>1. x \in Nat /\ y \in Nat
      BY <1>1, <1>5
    <3>2. Slice(b, p, j) = Between(b, x, y)
      BY Zenon DEF Slice, Between, lo, step, w
    <3>3. Slice(b, p, j) \in Band /\ Slice(b, p, j).lo = x /\ Slice(b, p, j).hi = y
      <4>. HIDE DEF x, y
      <4>. QED
        BY <3>1, <3>2, Edges
    <3>. QED
      BY <3>3
  <2>. QED
    BY <2>1
<1>7. Slices(b, p) \in Seq(Band) /\ Len(Slices(b, p)) = p /\ DOMAIN Slices(b, p) = 1..p
  <2>1. Slices(b, p) \in [1..p -> Band]
    BY <1>6 DEF Slices
  <2>. QED
    BY <2>1
<1>8. \A j \in 1..p : Slices(b, p)[j] = Slice(b, p, j)
  BY DEF Slices
<1>9. \A j \in 1..p : Within(Slices(b, p)[j]) = (lo + (j - 1) * step)..((lo + j * step) - 1)
  <2>1. \A j \in 1..p : Within(Slices(b, p)[j]) = Slice(b, p, j).lo..(Slice(b, p, j).hi - 1)
    BY <1>8 DEF Within
  <2>2. ASSUME NEW j \in 1..p
        PROVE  Within(Slices(b, p)[j]) = (lo + (j - 1) * step)..((lo + j * step) - 1)
    <3>. DEFINE x == lo + (j - 1) * step
                y == lo + j * step
    <3>1. Slice(b, p, j).lo = x /\ Slice(b, p, j).hi = y
      BY <1>6
    <3>2. Within(Slices(b, p)[j]) = Slice(b, p, j).lo..(Slice(b, p, j).hi - 1)
      BY <2>1
    <3>3. Within(Slices(b, p)[j]) = x..(y - 1)
      <4>. HIDE DEF x, y
      <4>. QED
        BY <3>1, <3>2
    <3>. QED
      BY <3>3
  <2>. QED
    BY <2>2
<1>10. Within(b) = lo..(lo + w - 1)
  BY <1>1 DEF Within, lo
<1>11. ASSUME NEW f PROVE Scanning(f, Slices(b, p)) = IF f \in Within(b) THEN 1 ELSE 0
  <2>. DEFINE H == {j \in 1..p : f \in Within(Slices(b, p)[j])}
  <2>1. Scanning(f, Slices(b, p)) = Cardinality(H)
    BY <1>7, Zenon DEF Scanning
  <2>2. CASE f \in Within(b)
    <3>0. f \in Int /\ f - lo \in Nat /\ f - lo < w /\ f = lo + (f - lo)
      BY <1>1, <1>10, <2>2
    <3>1. PICK d \in Nat : f = lo + d /\ d < w
      BY <3>0
    <3>2. step \in Nat \ {0} /\ d \div step \in Nat /\ d % step \in Nat /\ d % step < step /\ d = step * (d \div step) + (d % step)
      BY <1>2, Division
    <3>3. PICK q \in Nat, r \in Nat : d = q * step + r /\ r < step
      <4>1. PICK q \in Nat, r \in Nat : d = step * q + r /\ r < step
        BY <3>2
      <4>2. step * q = q * step
        BY <1>2
      <4>. QED
        BY <4>1, <4>2
    <3>4. q + 1 \in 1..p
      <4>1. q < p
        <5>1. SUFFICES ASSUME p <= q PROVE FALSE
          BY <3>3
        <5>2. p * step <= q * step
          BY <1>2, <5>1, ProductGrows
        <5>3. q * step \in Nat /\ p * step \in Nat
          BY <1>2
        <5>. QED
          BY <1>2, <3>1, <3>3, <5>2, <5>3
      <4>. QED
        BY <4>1
    <3>5. f \in Within(Slices(b, p)[q + 1])
      <4>1. (q + 1) * step = q * step + step /\ ((q + 1) - 1) * step = q * step /\ q * step \in Nat
        BY <1>2
      <4>2. f \in (lo + ((q + 1) - 1) * step)..((lo + (q + 1) * step) - 1)
        BY <1>1, <1>2, <3>1, <3>3, <4>1
      <4>. QED
        BY <1>9, <3>4, <4>2
    <3>6. ASSUME NEW j \in 1..p, f \in Within(Slices(b, p)[j]) PROVE j = q + 1
      <4>1. PICK x \in Nat, y \in Nat, z \in Nat : x = (j - 1) * step /\ y = j * step /\ z = q * step /\ y = x + step
        BY <1>2, <1>5
      <4>2. lo + x <= lo + d /\ lo + d < lo + y
        <5>1. f \in (lo + x)..((lo + y) - 1)
          BY <1>9, <3>6, <4>1, Zenon
        <5>2. lo + d \in (lo + x)..((lo + y) - 1)
          BY <3>1, <5>1, Zenon
        <5>. HIDE DEF lo
        <5>. QED
          BY <1>1, <5>2
      <4>3. CASE j < q + 1
        <5>1. y <= z
          <6>1. j <= q /\ j \in Int
            BY <4>3
          <6>. QED
            BY <1>2, <4>1, <6>1, ProductGrows
        <5>. QED
          BY <1>1, <3>3, <4>1, <4>2, <5>1
      <4>4. CASE j > q + 1
        <5>1. z + step <= x
          <6>1. q + 1 <= j - 1 /\ j - 1 \in Int
            BY <4>4
          <6>2. (q + 1) * step <= (j - 1) * step /\ (q + 1) * step = q * step + step
            BY <1>2, <6>1, ProductGrows
          <6>. QED
            BY <4>1, <6>2
        <5>. QED
          BY <1>1, <1>2, <3>1, <3>3, <4>1, <4>2, <5>1
      <4>. QED
        BY <4>3, <4>4
    <3>7. H = {q + 1}
      BY <3>4, <3>5, <3>6
    <3>. QED
      BY <2>1, <2>2, <3>7, FS_Singleton
  <2>3. CASE f \notin Within(b)
    <3>1. ASSUME NEW j \in 1..p, f \in Within(Slices(b, p)[j]) PROVE FALSE
      <4>1. f \in (lo + (j - 1) * step)..((lo + j * step) - 1)
        BY <1>9, <3>1
      <4>2. f \in lo..(lo + w - 1)
        BY <1>1, <1>5, <4>1
      <4>. QED
        BY <1>10, <2>3, <4>2
    <3>2. H = {}
      BY <3>1
    <3>. QED
      BY <2>1, <2>3, <3>2, FS_EmptySet
  <2>. QED
    BY <2>2, <2>3
<1>. QED
  BY <1>7, <1>11

\* Bands of which none requires its device.
Plain(bands) == \A i \in DOMAIN bands : ~bands[i].required

LEMMA PlainConcat ==
  ASSUME NEW s \in Seq(Band), NEW t \in Seq(Band), Plain(s), Plain(t)
  PROVE  Plain(s \o t)
<1>1. /\ s \o t \in Seq(Band) /\ Len(s \o t) = Len(s) + Len(t) /\ Len(s) \in Nat /\ Len(t) \in Nat
      /\ \A i \in 1..Len(s) + Len(t) : (s \o t)[i] = IF i <= Len(s) THEN s[i] ELSE t[i - Len(s)]
  BY ConcatProperties
<1>2. DOMAIN s = 1..Len(s) /\ DOMAIN t = 1..Len(t) /\ DOMAIN (s \o t) = 1..Len(s \o t)
  BY <1>1
<1>3. ASSUME NEW i \in 1..Len(s) + Len(t) PROVE ~(s \o t)[i].required
  <2>1. CASE i <= Len(s)
    BY <1>1, <1>2, <2>1 DEF Plain
  <2>2. CASE i > Len(s)
    <3>1. i - Len(s) \in DOMAIN t /\ (s \o t)[i] = t[i - Len(s)]
      BY <1>1, <1>2, <2>2
    <3>. QED
      BY <3>1 DEF Plain
  <2>. QED
    BY <1>1, <2>1, <2>2
<1>. QED
  BY <1>1, <1>2, <1>3, Zenon DEF Plain

LEMMA SlicesArePlain ==
  ASSUME NEW b \in Band, NEW p, ~b.required
  PROVE  Plain(Slices(b, p))
<1>1. \A j : Slice(b, p, j).required = b.required
  BY DEF Slice, Band
<1>. QED
  BY <1>1 DEF Plain, Slices

\* As many devices can be at work on plain bands as there are of them.
LEMMA UsableIs ==
  ASSUME NEW s \in Seq(Band), Plain(s)
  PROVE  Usable(s) = Len(s)
<1>1. {i \in DOMAIN s : s[i].required} = {}
  BY DEF Plain
<1>2. Usable(s) = Cardinality({}) + Cardinality(DOMAIN s)
  <2>1. {s[i].device : i \in {}} = {} /\ DOMAIN s \ {} = DOMAIN s
    OBVIOUS
  <2>. QED
    BY <1>1, <2>1, Zenon DEF Usable
<1>3. Len(s) \in Nat /\ DOMAIN s = 1..Len(s)
  BY LenProperties
<1>4. Cardinality(1..Len(s)) = Len(s)
  <2>1. \A n \in Nat : Cardinality(1..n) = IF 1 > n THEN 0 ELSE n - 1 + 1
    BY FS_Interval
  <2>2. \A n \in Nat : Cardinality(1..n) = n
    BY <2>1
  <2>. QED
    BY <1>3, <2>2, Zenon
<1>. QED
  BY <1>2, <1>3, <1>4, FS_EmptySet

\* How many of the first i of the bands contain f; how many devices serve them.
CountTo(f, bands, i) == Cardinality({k \in 1..i : f \in Within(bands[k])})
ServeTo(n, nb, i) == i * (n \div nb) + (IF i <= n % nb THEN i ELSE n % nb)

LEMMA CountOneMore ==
  ASSUME NEW f, NEW bands, NEW i \in Nat \ {0}
  PROVE  /\ CountTo(f, bands, 0) = 0 /\ CountTo(f, bands, i - 1) \in Nat
         /\ CountTo(f, bands, i) = CountTo(f, bands, i - 1) + (IF f \in Within(bands[i]) THEN 1 ELSE 0)
<1>. DEFINE H(k) == {j \in 1..k : f \in Within(bands[j])}
<1>1. IsFiniteSet(H(i - 1)) /\ Cardinality(H(i - 1)) \in Nat
  <2>1. IsFiniteSet(1..(i - 1)) /\ H(i - 1) \in SUBSET (1..(i - 1))
    BY FS_Interval
  <2>. HIDE DEF H
  <2>. QED
    BY <2>1, FS_Subset, FS_CardinalityType
<1>2. H(0) = {} /\ i \notin H(i - 1)
  OBVIOUS
<1>3. H(i) = IF f \in Within(bands[i]) THEN H(i - 1) \cup {i} ELSE H(i - 1)
  <2>1. 1..i = (1..(i - 1)) \cup {i}
    OBVIOUS
  <2>. QED
    BY <2>1
<1>4. \A k : CountTo(f, bands, k) = Cardinality(H(k))
  BY Zenon DEF CountTo
<1>. HIDE DEF H
<1>5. CASE f \in Within(bands[i])
  <2>1. Cardinality(H(i)) = Cardinality(H(i - 1)) + 1
    BY <1>1, <1>2, <1>3, <1>5, FS_AddElement
  <2>. QED
    BY <1>1, <1>2, <1>4, <1>5, <2>1, FS_EmptySet
<1>6. CASE f \notin Within(bands[i])
  <2>1. H(i) = H(i - 1)
    BY <1>3, <1>6
  <2>2. CountTo(f, bands, i) = CountTo(f, bands, i - 1) + 0
    BY <1>1, <1>4, <2>1
  <2>3. CountTo(f, bands, 0) = 0
    BY <1>2, <1>4, FS_EmptySet
  <2>. QED
    BY <1>1, <1>4, <1>6, <2>2, <2>3
<1>. QED
  BY <1>5, <1>6

LEMMA PiecesAre ==
  ASSUME NEW nb \in Nat \ {0}, NEW n \in Nat, n > nb
  PROVE  /\ \A i \in 1..nb : Pieces(n, nb, i) \in Nat \ {0}
         /\ ServeTo(n, nb, 0) = 0 /\ ServeTo(n, nb, nb) = n
         /\ \A i \in 1..nb : /\ ServeTo(n, nb, i - 1) \in Nat
                             /\ ServeTo(n, nb, i) = ServeTo(n, nb, i - 1) + Pieces(n, nb, i)
<1>1. PICK q \in Nat, r \in Nat : q = n \div nb /\ r = n % nb /\ r < nb /\ n = nb * q + r
  BY Division
<1>2. q >= 1
  <2>1. CASE q = 0
    <3>1. nb * q = 0
      BY <2>1
    <3>. QED
      BY <1>1, <3>1
  <2>2. CASE q # 0
    BY <2>2
  <2>. QED
    BY <2>1, <2>2
<1>3. ASSUME NEW i \in 1..nb PROVE Pieces(n, nb, i) = q + (IF i <= r THEN 1 ELSE 0)
  BY <1>1 DEF Pieces
<1>4. \A i : ServeTo(n, nb, i) = i * q + (IF i <= r THEN i ELSE r)
  BY <1>1 DEF ServeTo
<1>5. ASSUME NEW i \in 1..nb
      PROVE  /\ ServeTo(n, nb, i - 1) \in Nat
             /\ ServeTo(n, nb, i) = ServeTo(n, nb, i - 1) + Pieces(n, nb, i)
  <2>1. i * q = (i - 1) * q + q /\ (i - 1) * q \in Nat
    <3>1. PICK m \in Nat : m = i - 1 /\ i = m + 1
      OBVIOUS
    <3>2. (m + 1) * q = m * q + q /\ m * q \in Nat
      BY <1>1
    <3>. QED
      BY <3>1, <3>2
  <2>2. CASE i <= r
    <3>1. i - 1 <= r
      BY <2>2
    <3>. QED
      BY <1>3, <1>4, <2>1, <2>2, <3>1
  <2>3. CASE i = r + 1
    <3>1. i - 1 <= r /\ i - 1 = r /\ ~(i <= r)
      BY <2>3
    <3>. QED
      BY <1>3, <1>4, <2>1, <3>1
  <2>4. CASE i > r + 1
    <3>1. ~(i - 1 <= r) /\ ~(i <= r)
      BY <2>4
    <3>. QED
      BY <1>3, <1>4, <2>1, <3>1
  <2>. QED
    BY <2>2, <2>3, <2>4
<1>6. ServeTo(n, nb, 0) = 0 /\ ServeTo(n, nb, nb) = n
  <2>1. 0 * q = 0 /\ nb * q \in Nat
    BY <1>1
  <2>2. ~(nb <= r)
    BY <1>1
  <2>. QED
    BY <1>1, <1>4, <2>1, <2>2
<1>7. \A i \in 1..nb : Pieces(n, nb, i) \in Nat \ {0}
  BY <1>1, <1>2, <1>3
<1>. QED
  BY <1>5, <1>6, <1>7

\* SplitBands() hands the bands out to all devices and covers each frequency as often
\* as the bands do; plain bands have plain slices.
LEMMA SplitBandsIs ==
  ASSUME NEW bands \in Seq(Band), bands # <<>>, NEW n \in Nat, n > Len(bands),
         \A i \in DOMAIN bands : /\ bands[i].lo < bands[i].hi
                                 /\ (bands[i].hi - bands[i].lo) % Pieces(n, Len(bands), i) = 0
  PROVE  /\ SplitBands(bands, n) \in Seq(Band) /\ Len(SplitBands(bands, n)) = n
         /\ \A f : Scanning(f, SplitBands(bands, n)) = Scanning(f, bands)
         /\ Plain(bands) => Plain(SplitBands(bands, n))
<1>. DEFINE nb == Len(bands)
            P(i) == Pieces(n, nb, i)
            seqs == [i \in 1..nb |-> Slices(bands[i], P(i))]
<1>1. nb \in Nat \ {0} /\ DOMAIN bands = 1..nb
  BY EmptySeq
<1>2. \A i \in 1..nb : bands[i] \in Band /\ bands[i].lo < bands[i].hi
                       /\ P(i) \in Nat \ {0} /\ (bands[i].hi - bands[i].lo) % P(i) = 0
  <2>1. \A i \in 1..nb : P(i) \in Nat \ {0}
    <3>1. n > nb
      OBVIOUS
    <3>. HIDE DEF nb
    <3>. QED
      BY <1>1, <3>1, PiecesAre
  <2>. QED
    BY <1>1, <2>1
<1>3. SplitBands(bands, n) = FlattenSeq(seqs)
  <2>1. ~(n <= nb)
    BY <1>1
  <2>2. SplitBands(bands, n) = FlattenSeq([i \in DOMAIN bands |->
         [j \in 1..P(i) |-> Slice(bands[i], P(i), j)]])
    BY <2>1 DEF SplitBands
  <2>3. [i \in DOMAIN bands |-> [j \in 1..P(i) |-> Slice(bands[i], P(i), j)]] = seqs
    BY <1>1 DEF Slices
  <2>. QED
    BY <2>2, <2>3
<1>. HIDE DEF P
<1>4. \A i \in 1..nb : /\ seqs[i] \in Seq(Band) /\ Len(seqs[i]) = P(i)
                       /\ \A f : Scanning(f, seqs[i]) = IF f \in Within(bands[i]) THEN 1 ELSE 0
                       /\ Plain(bands) => Plain(seqs[i])
  <2>1. \A i \in 1..nb : Plain(bands) => ~bands[i].required
    BY <1>1, Zenon DEF Plain
  <2>. HIDE DEF nb
  <2>. QED
    BY <1>2, <2>1, SlicesAre, SlicesArePlain
<1>5. Len(seqs) = nb
  BY <1>1
<1>. HIDE DEF nb, seqs
<1>6. PICK g : /\ FlattenSeq(seqs) = g[nb] /\ g[1] = seqs[1]
               /\ \A i \in 2..nb : g[i] = g[i - 1] \o seqs[i]
  BY <1>1, <1>5, Flattened
<1>. DEFINE Good(i) == /\ g[i] \in Seq(Band) /\ Len(g[i]) = ServeTo(n, nb, i)
                       /\ \A f : Scanning(f, g[i]) = CountTo(f, bands, i)
                       /\ Plain(bands) => Plain(g[i])
            Bad == {i \in 1..nb : ~ Good(i)}
<1>7. nb \in Nat /\ n > nb
  BY <1>1 DEF nb
<1>8. \A i \in 1..nb : Pieces(n, nb, i) = P(i)
  BY DEF P
<1>9. Bad = {}
  <2>1. SUFFICES ASSUME Bad # {} PROVE FALSE
    OBVIOUS
  <2>2. \A i \in Bad : i \in Nat
    OBVIOUS
  <2>3. PICK k \in Bad : \A m \in Bad : k <= m
    <3>. HIDE DEF Bad
    <3>. QED
      BY <2>1, <2>2, LeastElement
  <2>4. k \in 1..nb /\ k \in Nat \ {0} /\ ~ Good(k)
    OBVIOUS
  <2>5. ServeTo(n, nb, k) = ServeTo(n, nb, k - 1) + P(k) /\ ServeTo(n, nb, k - 1) \in Nat
        /\ ServeTo(n, nb, 0) = 0 /\ P(k) \in Nat
    BY <1>1, <1>2, <1>7, <1>8, <2>4, PiecesAre
  <2>6. ASSUME NEW f
        PROVE  /\ CountTo(f, bands, k) = CountTo(f, bands, k - 1) + Scanning(f, seqs[k])
               /\ CountTo(f, bands, 0) = 0 /\ CountTo(f, bands, k - 1) \in Nat
               /\ Scanning(f, seqs[k]) \in Nat
    <3>1. Scanning(f, seqs[k]) = IF f \in Within(bands[k]) THEN 1 ELSE 0
      BY <1>4, <2>4
    <3>2. /\ CountTo(f, bands, 0) = 0 /\ CountTo(f, bands, k - 1) \in Nat
          /\ CountTo(f, bands, k) = CountTo(f, bands, k - 1) + (IF f \in Within(bands[k]) THEN 1 ELSE 0)
      BY <2>4, CountOneMore
    <3>. QED
      BY <3>1, <3>2
  <2>7. CASE k = 1
    <3>1. k - 1 = 0
      BY <2>7
    <3>2. ServeTo(n, nb, 1) = P(1) /\ \A f : CountTo(f, bands, 1) = Scanning(f, seqs[1])
      BY <2>5, <2>6, <2>7, <3>1
    <3>3. Good(1)
      BY <1>4, <1>6, <2>4, <2>7, <3>2
    <3>. QED
      BY <2>4, <2>7, <3>3
  <2>8. CASE k # 1
    <3>1. k \in 2..nb /\ k - 1 \in 1..nb /\ ~(k <= k - 1)
      BY <1>7, <2>4, <2>8
    <3>2. Good(k - 1)
      <4>. HIDE DEF Good
      <4>. QED
        BY <2>3, <3>1
    <3>3. g[k] = g[k - 1] \o seqs[k]
      BY <1>6, <3>1
    <3>4. g[k] \in Seq(Band) /\ Len(g[k]) = Len(g[k - 1]) + Len(seqs[k])
      <4>1. g[k - 1] \in Seq(Band) /\ seqs[k] \in Seq(Band)
        BY <1>4, <2>4, <3>2
      <4>. HIDE DEF Good
      <4>. QED
        BY <3>3, <4>1, ConcatProperties
    <3>5. Len(g[k]) = ServeTo(n, nb, k)
      BY <1>4, <2>4, <2>5, <3>2, <3>4
    <3>6. ASSUME NEW f PROVE Scanning(f, g[k]) = CountTo(f, bands, k)
      <4>1. PICK x \in Seq(Band), y \in Seq(Band) : x = g[k - 1] /\ y = seqs[k]
        BY <1>4, <2>4, <3>2
      <4>2. Scanning(f, x \o y) = Scanning(f, x) + Scanning(f, y)
        BY CountConcat
      <4>3. Scanning(f, g[k]) = Scanning(f, g[k - 1]) + Scanning(f, seqs[k])
        BY <3>3, <4>1, <4>2, Zenon
      <4>. QED
        BY <2>6, <3>2, <4>3
    <3>7. Plain(bands) => Plain(g[k])
      BY <1>4, <2>4, <3>2, <3>3, PlainConcat
    <3>8. Good(k)
      BY <3>4, <3>5, <3>6, <3>7
    <3>. QED
      BY <2>4, <3>8
  <2>. QED
    BY <2>7, <2>8
<1>10. Good(nb)
  <2>1. nb \in 1..nb
    BY <1>1
  <2>. HIDE DEF Good
  <2>. QED
    BY <1>9, <2>1
<1>11. \A f : Scanning(f, bands) = CountTo(f, bands, nb)
  BY <1>1, Zenon DEF Scanning, CountTo
<1>12. ServeTo(n, nb, nb) = n
  BY <1>1, <1>7, PiecesAre
<1>. QED
  BY <1>3, <1>6, <1>10, <1>11, <1>12

\* How many positions a plan from lo to hi has.
Length(lo, hi) == IF lo + Half > hi THEN 0 ELSE (hi - Half - lo) \div (2 * Half) + 1

LEMMA PlanIs ==
  ASSUME NEW lo \in Nat, NEW hi \in Nat, lo < hi
  PROVE  /\ Length(lo, hi) \in Nat
         /\ DOMAIN Plan(lo, hi)!Entries(lo) = 1..Length(lo, hi)
         /\ \A i \in 1..Length(lo, hi) :
              Plan(lo, hi)!Entries(lo)[i] = lo + (i - 1) * (2 * Half) + Half
<1>. DEFINE n == Length(lo, hi)
            s == [i \in 1..n |-> lo + (i - 1) * (2 * Half) + Half]
<1>1. Half \in Nat \ {0} /\ 2 * Half \in Nat \ {0} /\ lo + Half > lo
  BY ConfigAssumption
<1>2. n \in Nat
  <2>1. CASE lo + Half > hi
    BY <2>1 DEF Length
  <2>2. CASE ~(lo + Half > hi)
    <3>1. hi - Half - lo \in Nat
      BY <1>1, <2>2
    <3>. QED
      BY <1>1, <2>2, <3>1, Division DEF Length
  <2>. QED
    BY <2>1, <2>2
<1>3. Plan(lo, hi)!Positions(lo, lo) = <<>>
  BY <1>1 DEF Plan!Positions
<1>4. Plan(lo, hi)!Positions(lo, hi) = s
  BY DEF Plan!Positions, Plan!Step, Length
<1>5. Plan(lo, hi)!Entries(lo) = s \o <<>>
  BY <1>3, <1>4 DEF Plan!Entries
<1>. HIDE DEF n
<1>6. s \in Seq(Int) /\ Len(s) = n
  <2>1. ASSUME NEW i \in 1..n PROVE lo + (i - 1) * (2 * Half) + Half \in Int
    BY <1>1
  <2>. QED
    BY <1>2, <2>1
<1>7. s \o <<>> = s
  <2>. HIDE DEF s
  <2>. QED
    BY <1>6, ConcatEmptySeq
<1>. QED
  BY <1>2, <1>5, <1>7 DEF n

\* What a scanner never tunes over lies at the end of its band.
LEMMA UntunedIsNearTheEnd ==
  ASSUME NEW b \in Band, NEW f \in Within(b)
  PROVE  f \in TunedIn(b) \/ b.hi - f < Half
<1>. DEFINE lo == b.lo
            hi == b.hi
            n == Length(lo, hi)
            step == 2 * Half
            entries == Plan(lo, hi)!Entries(lo)
<1>1. lo \in Nat /\ hi \in Nat /\ f \in Int /\ lo <= f /\ f < hi /\ lo < hi
  BY DEF Band, Within
<1>2. Half \in Nat \ {0} /\ step \in Nat \ {0}
  BY ConfigAssumption
<1>3. n \in Nat /\ DOMAIN entries = 1..n /\ \A i \in 1..n : entries[i] = lo + (i - 1) * step + Half
  BY <1>1, PlanIs
<1>4. \A i \in 1..n : \A c \in Plan(lo, hi)!Cells(entries[i]) : c \in TunedIn(b)
  BY <1>3, Zenon DEF TunedIn
<1>5. \A x : Plan(lo, hi)!Cells(x) = (x - Half)..(x + Half - 1)
  BY DEF Plan!Cells
<1>. HIDE DEF lo, hi, n, step, entries
<1>6. PICK d \in Nat : f = lo + d
  <2>1. f - lo \in Nat /\ f = lo + (f - lo)
    BY <1>1
  <2>. QED
    BY <2>1
<1>7. PICK q \in Nat, r \in Nat : d = step * q + r /\ r < step
  BY <1>2, Division
<1>8. CASE q + 1 <= n
  <2>1. q + 1 \in 1..n /\ (q + 1) - 1 = q
    BY <1>3, <1>8
  <2>2. entries[q + 1] = lo + q * step + Half
    BY <1>3, <2>1
  <2>3. PICK x \in Nat : x = q * step /\ d = x + r
    <3>1. q * step = step * q /\ q * step \in Nat
      BY <1>2
    <3>. QED
      BY <1>7, <3>1
  <2>4. step = 2 * Half
    BY DEF step
  <2>5. f \in ((lo + x + Half) - Half)..((lo + x + Half) + Half - 1)
    BY <1>1, <1>2, <1>6, <1>7, <2>3, <2>4
  <2>6. f \in Plan(lo, hi)!Cells(entries[q + 1])
    BY <1>5, <2>2, <2>3, <2>5
  <2>. QED
    BY <1>4, <2>1, <2>6
<1>9. CASE n <= q
  <2>1. CASE lo + Half > hi
    BY <1>1, <1>2, <2>1 DEF hi
  <2>2. CASE ~(lo + Half > hi)
    <3>1. PICK w \in Nat : w = hi - Half - lo
      BY <1>1, <1>2, <2>2
    <3>2. PICK m \in Nat, e \in Nat : m = w \div step /\ w = step * m + e /\ e < step
      BY <1>2, Division
    <3>3. n = m + 1
      BY <2>2, <3>1, <3>2 DEF n, Length, step
    <3>4. (m + 1) * step <= q * step /\ (m + 1) * step = m * step + step
      BY <1>2, <1>9, <3>3, ProductGrows
    <3>5. PICK x \in Nat, y \in Nat : x = m * step /\ y = q * step /\ w = x + e /\ d = y + r
      <4>1. m * step = step * m /\ q * step = step * q /\ m * step \in Nat /\ q * step \in Nat
        BY <1>2
      <4>. QED
        BY <1>7, <3>2, <4>1
    <3>6. w < d
      BY <1>2, <3>2, <3>4, <3>5
    <3>. QED
      BY <1>1, <1>2, <1>6, <3>1, <3>6 DEF hi
  <2>. QED
    BY <2>1, <2>2
<1>. QED
  BY <1>3, <1>8, <1>9

LEMMA ConfiguredIs ==
  ASSUME NEW c \in Configs
  PROVE  /\ Configured(c) \in Seq(Band) /\ Configured(c) # <<>>
         /\ \A i \in DOMAIN Configured(c) : Configured(c)[i].lo < Configured(c)[i].hi
<1>1. /\ c.bands \in Seq(Band) /\ c.sweep \in Band /\ c.pin \in STRING /\ c.sweep.lo < c.sweep.hi
      /\ \A i \in DOMAIN c.bands : c.bands[i].lo < c.bands[i].hi
  BY ConfigAssumption DEF Accepted
<1>2. CASE c.bands # <<>>
  BY <1>1, <1>2 DEF Configured
<1>3. CASE c.bands = <<>>
  <2>. DEFINE w == [c.sweep EXCEPT !.device = c.pin, !.required = c.pin # NoDevice]
  <2>1. w \in Band /\ w.lo = c.sweep.lo /\ w.hi = c.sweep.hi
    BY <1>1 DEF Band
  <2>2. Configured(c) = <<w>>
    BY <1>3 DEF Configured
  <2>. HIDE DEF w
  <2>. QED
    BY <1>1, <2>1, <2>2
<1>. QED
  BY <1>2, <1>3

\* Without device ids: each frequency is in as many of the scanners' bands as in configured
\* ones; bands that all require a device stay as they are, plain ones suffice for all devices.
LEMMA EffectiveIs ==
  ASSUME NEW c \in Configs, NEW n \in 0..MaxDevices
  PROVE  LET bands == Configured(c) IN
         /\ Effective(bands, n) \in Seq(Band)
         /\ \A f : Scanning(f, Effective(bands, n)) = Scanning(f, bands)
         /\ (\A i \in DOMAIN bands : bands[i].required) => Effective(bands, n) = bands
         /\ Usable(Effective(bands, n)) >= n \/ \E i \in DOMAIN bands : bands[i].required
<1>. DEFINE bands == Configured(c)
<1>1. /\ bands \in Seq(Band) /\ bands # <<>> /\ Len(bands) \in Nat /\ n \in Nat
      /\ \A i \in DOMAIN bands : bands[i].lo < bands[i].hi
  BY ConfiguredIs, ConfigAssumption
<1>2. n > Len(bands) =>
        \A i \in DOMAIN bands : (bands[i].hi - bands[i].lo) % Pieces(n, Len(bands), i) = 0
  BY UnitAssumption
<1>. HIDE DEF bands
<1>3. CASE \A i \in DOMAIN bands : bands[i].required
  <2>1. Effective(bands, n) = bands
    BY <1>3 DEF Effective
  <2>2. \E i \in DOMAIN bands : bands[i].required
    <3>1. 1 \in DOMAIN bands
      BY <1>1
    <3>. QED
      BY <1>3, <3>1
  <2>. QED
    BY <1>1, <2>1, <2>2 DEF bands
<1>4. CASE ~ \A i \in DOMAIN bands : bands[i].required
  <2>1. Effective(bands, n) = SplitBands(bands, n)
    BY <1>4 DEF Effective
  <2>2. /\ SplitBands(bands, n) \in Seq(Band) /\ Len(SplitBands(bands, n)) >= n
        /\ \A f : Scanning(f, SplitBands(bands, n)) = Scanning(f, bands)
        /\ Plain(bands) => Plain(SplitBands(bands, n))
    <3>1. CASE n <= Len(bands)
      BY <1>1, <3>1 DEF SplitBands
    <3>2. CASE n > Len(bands)
      BY <1>1, <1>2, <3>2, SplitBandsIs
    <3>. QED
      BY <1>1, <3>1, <3>2
  <2>3. Plain(bands) => Usable(Effective(bands, n)) >= n
    BY <2>1, <2>2, UsableIs
  <2>. QED
    BY <1>4, <2>1, <2>2, <2>3 DEF Plain, bands
<1>. QED
  BY <1>3, <1>4

LEMMA AssignmentsAre ==
  ASSUME NEW c \in Configs, NEW n \in 0..MaxDevices
  PROVE  Assignments(c, n) \in Seq(Band) /\ Len(Assignments(c, n)) <= MaxScanners
<1>1. CASE c.devices # <<>>
  <2>1. Assignments(c, n) = [i \in DOMAIN c.devices |-> [c.sweep EXCEPT !.device = c.devices[i]]]
    BY <1>1 DEF Assignments
  <2>2. c.sweep \in Band /\ c.devices \in Seq(STRING)
    BY ConfigAssumption
  <2>3. \A d \in STRING : [c.sweep EXCEPT !.device = d] \in Band
    BY <2>2 DEF Band
  <2>4. Assignments(c, n) \in [1..Len(c.devices) -> Band] /\ Len(c.devices) \in Nat
    BY <2>1, <2>2, <2>3
  <2>. QED
    BY <2>4, ApplicationAssumption
<1>2. CASE c.devices = <<>>
  BY <1>2, EffectiveIs, ApplicationAssumption DEF Assignments
<1>. QED
  BY <1>1, <1>2

-----------------------------------------------------------------------------
(* Each part is kept by every step.                                         *)

(* The steps main() takes in one place and those of the other threads.      *)
MainSteps == StartUp \/ QueryAnswered \/ Shutdown
Messages  == Signal \/ BrokerBack
Captures  == BeginCapture \/ EndCapture \/ WorkerMissesStop
Callbacks == \E t \in Threads : Detect(t) \/ OnDetection(t)
Broker    == Network(Reconnects) \/ Network(ConnectionBreaks) \/ Network(Proton)

LEMMA Steps ==
  [Next]_vars => MainSteps \/ Messages \/ Captures \/ Callbacks \/ Broker \/ UNCHANGED vars
BY Zenon DEF Next, MainSteps, Messages, Captures, Callbacks, Broker

LEMMA FlagsStep == FlagsOK /\ [Next]_vars => FlagsOK'
<1>. SUFFICES ASSUME FlagsOK, [Next]_vars PROVE FlagsOK'
  OBVIOUS
<1>. USE Zenon DEF FlagsOK, setup, callback, peers, grant, publisher, vars
<1>1. CASE MainSteps
  <2>1. CASE StartUp
    BY <2>1 DEF StartUp, StartPublisher, OpenLog, StartGps, QueryUnanswered, CloseProbe, Spawn, StartScanners,
      StartP25, PublisherStart
  <2>2. CASE QueryAnswered \/ SeeSignal \/ StopP25 \/ StopScanner \/ ResetGps \/ ResetDb \/ DestroySources
    BY <2>2 DEF QueryAnswered, SeeSignal, StopP25, StopScanner, ResetGps, ResetDb, DestroySources
  <2>3. CASE ResetAmqp \/ JoinAmqp
    BY <2>3 DEF ResetAmqp, JoinAmqp, StopBegins, StopEnds
  <2>. QED
    BY <1>1, <2>1, <2>2, <2>3 DEF MainSteps, Shutdown
<1>2. CASE Messages \/ Captures
  BY <1>2 DEF Messages, Captures, Signal, BrokerBack, BeginCapture, EndCapture, WorkerMissesStop
<1>3. ASSUME NEW t \in Threads, Detect(t) \/ OnDetection(t) PROVE FlagsOK'
  BY <1>3 DEF Detect, OnDetection, Stamp, Log, PublishTests, PublishPosts, Post
<1>4. CASE Broker
  BY <1>4 DEF Broker, Network, others, Reconnects, ConnectionOpens, SenderOpens, ConnectionBreaks,
    Proton, RunJob, ContainerStops
<1>. QED
  BY <1>1, <1>2, <1>3, <1>4, Steps DEF Callbacks

LEMMA MainStep == MainOK /\ [Next]_vars => MainOK'
<1>. SUFFICES ASSUME MainOK, [Next]_vars PROVE MainOK'
  OBVIOUS
<1>. USE ApplicationAssumption, ConfigAssumption
     DEF MainOK, Go, Before, During, After, setup, callback, peers, grant, vars
<1>1. CASE StartPublisher \/ OpenLog \/ StartGps
  BY <1>1 DEF StartPublisher, OpenLog, StartGps
<1>2. CASE QueryUnanswered \/ QueryAnswered \/ CloseProbe
  <2>1. /\ mainPc' \in {"probe", "closeProbe", "spawn"} /\ UNCHANGED <<cfg, scanners>>
        /\ devices' \in {devices, 1} \cup 1..MaxDevices
    BY <1>2 DEF QueryUnanswered, QueryAnswered, CloseProbe
  <2>2. devices' \in 0..MaxDevices
    BY <2>1
  <2>3. mainPc' \in Before /\ mainPc' # "amqp" /\ cfg' = cfg /\ scanners' = scanners
    BY <2>1
  <2>. QED
    BY <2>2, <2>3, Zenon
<1>3. CASE Spawn
  BY <1>3, AssignmentsAre DEF Spawn
<1>4. CASE StartScanners \/ StartP25
  BY <1>4 DEF StartScanners, StartP25
<1>5. CASE SeeSignal \/ StopP25 \/ ResetGps \/ ResetAmqp \/ JoinAmqp \/ ResetDb \/ DestroySources
  BY <1>5 DEF SeeSignal, StopP25, ResetGps, ResetAmqp, JoinAmqp, ResetDb, DestroySources
<1>6. CASE StopScanner
  <2>1. mainPc = "stopScanners" /\ mainPc' \in {"stopScanners", "resetGps"} /\ UNCHANGED setup
    BY <1>6, Zenon DEF StopScanner
  <2>. QED
    BY <2>1
<1>7. ASSUME NEW t \in Threads, Detect(t) \/ OnDetection(t) PROVE UNCHANGED <<mainPc, setup>>
  BY <1>7, Zenon DEF Detect, OnDetection, Stamp, Log, PublishTests, PublishPosts
<1>8. CASE Messages \/ Captures \/ Broker \/ UNCHANGED vars
  <2>1. UNCHANGED <<mainPc, setup>>
    BY <1>8, Zenon DEF Messages, Captures, Broker, Signal, BrokerBack, BeginCapture, EndCapture, WorkerMissesStop,
      Network, others
  <2>. QED
    BY <2>1
<1>. QED
  BY <1>1, <1>2, <1>3, <1>4, <1>5, <1>6, <1>7, <1>8, Steps
  DEF MainSteps, StartUp, Shutdown, Callbacks

(* A step of on_detection() is that of a thread main() has not joined.      *)
LEMMA CallbackMoves ==
  ASSUME MainOK, ThreadsOK, NEW t \in Threads, Detect(t) \/ OnDetection(t)
  PROVE  /\ UNCHANGED <<mainPc, running, setup, alive, peers, grant>>
         /\ mainPc \in During /\ thread[t] \in Calling \cup {"sweeping"}
         /\ thread'[t] \in Calling \cup {"sweeping"}
         /\ thread' = [thread EXCEPT ![t] = thread'[t]]
<1>1. PICK p \in Calling \cup {"sweeping"} :
        /\ thread[t] \in Calling \cup {"sweeping"} /\ thread' = [thread EXCEPT ![t] = p]
        /\ UNCHANGED <<mainPc, running, setup, alive, peers, grant>>
  <2>1. CASE Detect(t)
    BY <2>1, Zenon DEF Detect, Move, Calling
  <2>2. CASE Stamp(t)
    BY <2>2, Zenon DEF Stamp, Move, Calling
  <2>3. CASE Log(t)
    BY <2>3, Zenon DEF Log, Move, Calling
  <2>4. CASE PublishTests(t)
    BY <2>4, Zenon DEF PublishTests, Move, Done, Calling
  <2>5. CASE PublishPosts(t)
    BY <2>5, Zenon DEF PublishPosts, Move, Done, Calling
  <2>. QED
    BY <2>1, <2>2, <2>3, <2>4, <2>5 DEF OnDetection
<1>2. mainPc \in During
  BY <1>1 DEF MainOK, ThreadsOK, Calling
<1>. QED
  BY <1>1, <1>2 DEF ThreadsOK

(* main() itself moves the threads when it starts and when it joins them.   *)
Starts ==
  /\ mainPc = "start" /\ mainPc' = "startP25" /\ UNCHANGED <<scanners, p25, capture>>
  /\ thread' = [t \in Threads |-> IF t \in DOMAIN scanners THEN "sweeping" ELSE "none"]

Joins ==
  /\ mainPc = "stopScanners" /\ UNCHANGED <<scanners, p25, capture>>
  /\ \E t \in DOMAIN scanners :
       /\ thread[t] = "sweeping" /\ \A u \in 1..(t - 1) : thread[u] = "joined"
       /\ thread' = [thread EXCEPT ![t] = "joined"]
       /\ mainPc' = IF t = Len(scanners) THEN "resetGps" ELSE mainPc

LeavesThreads ==
  /\ UNCHANGED <<thread, capture>>
  /\ \/ mainPc \in Before /\ mainPc' \in Before \cup {"exited"} /\ UNCHANGED p25
     \/ mainPc \in During /\ mainPc' \in {"run", "stopP25"} /\ UNCHANGED scanners
     \/ /\ mainPc = "stopP25" /\ mainPc' = "stopScanners" /\ capture = 0 /\ p25' = "off"
        /\ UNCHANGED scanners
     \/ {mainPc, mainPc'} \subseteq After /\ UNCHANGED p25

LEMMA MainMoves == MainSteps => Starts \/ Joins \/ LeavesThreads
<1>. SUFFICES ASSUME MainSteps PROVE Starts \/ Joins \/ LeavesThreads
  OBVIOUS
<1>. USE DEF Go, setup, callback, peers, grant, Before, During, After
<1>1. CASE StartPublisher \/ OpenLog \/ StartGps \/ QueryUnanswered \/ QueryAnswered \/ CloseProbe \/ Spawn
  BY <1>1 DEF StartPublisher, OpenLog, StartGps, QueryUnanswered, QueryAnswered, CloseProbe, Spawn, LeavesThreads
<1>2. CASE StartScanners
  BY <1>2, Zenon DEF StartScanners, Starts
<1>3. CASE StartP25 \/ SeeSignal \/ StopP25
  BY <1>3 DEF StartP25, SeeSignal, StopP25, LeavesThreads
<1>4. CASE StopScanner
  BY <1>4, Zenon DEF StopScanner, Move, Joins
<1>5. CASE ResetGps \/ ResetAmqp \/ JoinAmqp \/ ResetDb \/ DestroySources
  BY <1>5 DEF ResetGps, ResetAmqp, JoinAmqp, ResetDb, DestroySources, LeavesThreads
<1>. QED
  BY <1>1, <1>2, <1>3, <1>4, <1>5, Zenon DEF MainSteps, StartUp, Shutdown

(* No thread is in a callback before or after main()'s step if it is not both times. *)
LEMMA CallingStays ==
  ASSUME ThreadsOK, MainSteps, NEW t \in Threads
  PROVE  thread[t] \in Calling \/ thread'[t] \in Calling => thread'[t] = thread[t]
<1>1. CASE Starts
  <2>1. thread[t] = "none" /\ thread'[t] \in {"sweeping", "none"}
    BY <1>1 DEF Starts, ThreadsOK, Before
  <2>. QED
    BY <2>1 DEF Calling
<1>2. CASE Joins
  <2>1. PICK u \in DOMAIN scanners : thread[u] = "sweeping" /\ thread' = [thread EXCEPT ![u] = "joined"]
    BY <1>2, Zenon DEF Joins
  <2>2. CASE t = u
    BY <2>1, <2>2 DEF ThreadsOK, Calling
  <2>3. CASE t # u
    BY <2>1, <2>3 DEF ThreadsOK
  <2>. QED
    BY <2>2, <2>3
<1>3. CASE LeavesThreads
  BY <1>3, Zenon DEF LeavesThreads
<1>. QED
  BY <1>1, <1>2, <1>3, MainMoves

LEMMA ThreadsStep == MainOK /\ ThreadsOK /\ VoiceOK /\ [Next]_vars => ThreadsOK'
<1>. SUFFICES ASSUME MainOK, ThreadsOK, VoiceOK, [Next]_vars PROVE ThreadsOK'
  OBVIOUS
<1>. USE ApplicationAssumption DEF ThreadsOK, Before, During, After, Calling, Threads, Voice
<1>1. CASE Starts
  <2>1. 1..Len(scanners) = DOMAIN scanners /\ Len(scanners) \in Nat
    BY LenProperties DEF MainOK
  <2>2. /\ mainPc' = "startP25" /\ UNCHANGED scanners
        /\ thread' = [t \in Threads |-> IF t \in 1..Len(scanners) THEN "sweeping" ELSE "none"]
    BY <1>1, <2>1, Zenon DEF Starts
  <2>3. \A t \in Threads : t > Len(scanners) => thread'[t] = "none"
    BY <2>1, <2>2
  <2>4. thread' \in [Threads -> Calling \cup {"none", "sweeping", "joined"}]
    BY <2>2
  <2>. QED
    BY <2>2, <2>3, <2>4
<1>2. CASE Joins
  <2>1. PICK t \in DOMAIN scanners :
          /\ \A u \in 1..(t - 1) : thread[u] = "joined"
          /\ thread' = [thread EXCEPT ![t] = "joined"]
          /\ mainPc' = IF t = Len(scanners) THEN "resetGps" ELSE mainPc
    BY <1>2, Zenon DEF Joins
  <2>2. mainPc = "stopScanners" /\ UNCHANGED scanners
    BY <1>2, Zenon DEF Joins
  <2>3. t \in 1..Len(scanners) /\ t \in Threads /\ Len(scanners) \in Nat
    BY LenProperties DEF MainOK
  <2>4. thread' \in [Threads -> Calling \cup {"none", "sweeping", "joined"}]
    BY <2>1, <2>3
  <2>5. \A u \in Threads : u > Len(scanners) => thread'[u] = "none"
    BY <2>1, <2>2, <2>3
  <2>6. ASSUME t = Len(scanners), NEW u \in Threads
        PROVE  thread'[u] \notin Calling \cup {"sweeping"}
    <3>1. CASE u = 0
      BY <2>1, <2>2, <2>3, <3>1 DEF VoiceOK
    <3>2. CASE u \in 1..(t - 1)
      BY <2>1, <2>3, <3>2
    <3>3. CASE u = t
      BY <2>1, <2>3, <3>3
    <3>4. CASE u > t
      BY <2>5, <2>6, <3>4
    <3>. QED
      BY <2>3, <3>1, <3>2, <3>3, <3>4
  <2>7. CASE t = Len(scanners)
    <3>1. mainPc' = "resetGps"
      BY <2>1, <2>7
    <3>. QED
      BY <2>4, <2>6, <2>7, <3>1
  <2>8. CASE t # Len(scanners)
    <3>1. mainPc' = "stopScanners"
      BY <2>1, <2>2, <2>8
    <3>. QED
      BY <2>2, <2>4, <2>5, <3>1
  <2>. QED
    BY <2>7, <2>8
<1>3. CASE LeavesThreads
  <2>1. /\ UNCHANGED thread
        /\ \/ mainPc \in Before /\ mainPc' \in Before \cup {"exited"}
           \/ mainPc \in During /\ mainPc' \in During /\ UNCHANGED scanners
           \/ mainPc \in After /\ mainPc' \in After
    BY <1>3 DEF LeavesThreads
  <2>2. CASE mainPc \in Before /\ mainPc' \in Before \cup {"exited"}
    BY <2>1, <2>2
  <2>3. CASE mainPc \in During /\ mainPc' \in During /\ UNCHANGED scanners
    BY <2>1, <2>3
  <2>4. CASE mainPc \in After /\ mainPc' \in After
    BY <2>1, <2>4
  <2>. QED
    BY <2>1, <2>2, <2>3, <2>4, Zenon
<1>4. ASSUME NEW t \in Threads, Detect(t) \/ OnDetection(t) PROVE ThreadsOK'
  <2>1. /\ UNCHANGED <<mainPc, setup>> /\ mainPc \in During
        /\ thread[t] \in Calling \cup {"sweeping"} /\ thread'[t] \in Calling \cup {"sweeping"}
        /\ thread' = [thread EXCEPT ![t] = thread'[t]]
    BY <1>4, CallbackMoves
  <2>2. UNCHANGED scanners
    BY <2>1 DEF setup
  <2>. QED
    BY <2>1, <2>2
<1>5. CASE BeginCapture \/ EndCapture
  <2>1. /\ UNCHANGED <<mainPc, scanners>> /\ mainPc \in During
        /\ \/ thread' = [thread EXCEPT ![Voice] = "sweeping"]
           \/ thread' = [thread EXCEPT ![Voice] = "none"]
    BY <1>5 DEF BeginCapture, EndCapture, Move, VoiceOK, setup
  <2>2. 0 \in Threads /\ Len(scanners) \in Nat
    BY LenProperties DEF MainOK
  <2>3. thread' \in [Threads -> Calling \cup {"none", "sweeping", "joined"}]
    BY <2>1, <2>2
  <2>4. \A u \in Threads : u > Len(scanners) => thread'[u] = thread[u]
    BY <2>1, <2>2
  <2>. QED
    BY <2>1, <2>3, <2>4
<1>6. CASE WorkerMissesStop \/ Messages \/ Broker \/ UNCHANGED vars
  <2>1. UNCHANGED <<mainPc, scanners, thread>>
    BY <1>6, Zenon DEF WorkerMissesStop, Messages, Broker, Signal, BrokerBack, Network, others, vars, setup, callback
  <2>. QED
    BY <2>1
<1>. QED
  BY <1>1, <1>2, <1>3, <1>4, <1>5, <1>6, MainMoves, Steps DEF Callbacks, Captures

LEMMA VoiceStep == MainOK /\ ThreadsOK /\ VoiceOK /\ [Next]_vars => VoiceOK'
<1>. SUFFICES ASSUME MainOK, ThreadsOK, VoiceOK, [Next]_vars PROVE VoiceOK'
  OBVIOUS
<1>. USE ApplicationAssumption DEF VoiceOK, Before, During, After, Threads, Voice
<1>1. CASE MainSteps
  <2>1. 0 \notin DOMAIN scanners /\ 0 \in Threads
    BY LenProperties DEF MainOK
  <2>2. CASE Starts
    <3>1. mainPc' = "startP25" /\ UNCHANGED <<p25, capture>> /\ thread'[0] = "none" /\ mainPc = "start"
      BY <2>1, <2>2 DEF Starts
    <3>. QED
      BY <3>1
  <2>3. CASE Joins
    <3>1. /\ UNCHANGED <<p25, capture>> /\ thread'[0] = thread[0] /\ mainPc = "stopScanners"
          /\ mainPc' \in {"resetGps", "stopScanners"}
      BY <2>1, <2>3 DEF Joins, ThreadsOK
    <3>. QED
      BY <3>1
  <2>4. CASE LeavesThreads
    BY <2>4 DEF LeavesThreads
  <2>. QED
    BY <1>1, <2>2, <2>3, <2>4, MainMoves
<1>2. ASSUME NEW t \in Threads, Detect(t) \/ OnDetection(t) PROVE VoiceOK'
  <2>1. /\ UNCHANGED <<mainPc, grant>> /\ thread[t] \in Calling \cup {"sweeping"}
        /\ thread' = [thread EXCEPT ![t] = thread'[t]]
    BY <1>2, CallbackMoves
  <2>. QED
    BY <2>1 DEF grant, Calling, ThreadsOK
<1>3. CASE Captures
  BY <1>3 DEF Captures, BeginCapture, EndCapture, WorkerMissesStop, Move, ThreadsOK, callback
<1>4. CASE Messages \/ Broker \/ UNCHANGED vars
  <2>1. UNCHANGED <<mainPc, thread, grant>>
    BY <1>4, Zenon DEF Messages, Broker, Signal, BrokerBack, Network, others, vars, callback
  <2>. QED
    BY <2>1 DEF grant
<1>. QED
  BY <1>1, <1>2, <1>3, <1>4, Steps DEF Callbacks, Captures

LEMMA AliveStep == MainOK /\ ThreadsOK /\ AliveOK /\ [Next]_vars => AliveOK'
<1>. SUFFICES ASSUME MainOK, ThreadsOK, AliveOK, [Next]_vars PROVE AliveOK'
  OBVIOUS
<1>. USE DEF AliveOK, Go, setup, callback, peers, grant, vars
<1>1. CASE StartPublisher \/ OpenLog \/ StartGps
  BY <1>1, Zenon DEF StartPublisher, OpenLog, StartGps, MainOK
<1>2. CASE QueryUnanswered \/ QueryAnswered \/ CloseProbe \/ Spawn \/ StartScanners \/ StartP25
  <2>1. /\ UNCHANGED <<ok, alive, gps>> /\ mainPc \in {"probe", "closeProbe", "spawn", "start", "startP25"}
        /\ mainPc' \in {"probe", "closeProbe", "spawn", "start", "startP25", "run"}
    BY <1>2 DEF QueryUnanswered, QueryAnswered, CloseProbe, Spawn, StartScanners, StartP25
  <2>. QED
    BY <2>1
<1>3. CASE SeeSignal \/ StopP25 \/ StopScanner
  <2>1. /\ UNCHANGED <<ok, alive, gps>> /\ mainPc \in During
        /\ mainPc' \in {"stopP25", "stopScanners", "resetGps"}
    BY <1>3 DEF SeeSignal, StopP25, StopScanner, During
  <2>. QED
    BY <2>1 DEF During
<1>4. CASE ResetGps \/ ResetAmqp \/ JoinAmqp \/ ResetDb \/ DestroySources
  BY <1>4 DEF ResetGps, ResetAmqp, JoinAmqp, ResetDb, DestroySources
<1>5. ASSUME NEW t \in Threads, Detect(t) \/ OnDetection(t) PROVE UNCHANGED <<mainPc, ok, alive, gps>>
  BY <1>5, CallbackMoves, Zenon
<1>6. CASE Messages \/ Captures \/ Broker \/ UNCHANGED vars
  <2>1. UNCHANGED <<mainPc, ok, alive, gps>>
    BY <1>6, Zenon DEF Messages, Captures, Broker, Signal, BrokerBack, BeginCapture, EndCapture, WorkerMissesStop,
      Network, others
  <2>. QED
    BY <2>1
<1>. QED
  BY <1>1, <1>2, <1>3, <1>4, <1>5, <1>6, Steps DEF MainSteps, StartUp, Shutdown, Callbacks

(* A thread in its callback takes its detection from Detect to the log.     *)
LEMMA LoggedStep == MainOK /\ ThreadsOK /\ VoiceOK /\ LoggedOK /\ [Next]_vars => LoggedOK'
<1>. SUFFICES ASSUME MainOK, ThreadsOK, VoiceOK, LoggedOK, [Next]_vars PROVE LoggedOK'
  OBVIOUS
<1>1. CASE MainSteps
  <2>1. UNCHANGED <<emitted, inHand, log>>
    BY <1>1, Zenon DEF MainSteps, StartUp, Shutdown, StartPublisher, OpenLog, StartGps,
      QueryUnanswered, QueryAnswered, CloseProbe, Spawn, StartScanners, StartP25, SeeSignal, StopP25, StopScanner,
      ResetGps, ResetAmqp, JoinAmqp, ResetDb, DestroySources, callback
  <2>2. mainPc' \in Before => mainPc \in Before
    BY <1>1, MainMoves DEF Before, During, After, Starts, Joins, LeavesThreads
  <2>3. mainPc \in Before \/ UNCHANGED ok
    BY <1>1 DEF MainSteps, StartUp, Shutdown, StartPublisher, OpenLog, StartGps,
      QueryUnanswered, QueryAnswered, CloseProbe, Spawn, StartScanners, StartP25, SeeSignal, StopP25, StopScanner,
      ResetGps, ResetAmqp, JoinAmqp, ResetDb, DestroySources, setup, Before, Go
  <2>4. ASSUME NEW t \in Threads
        PROVE  /\ thread'[t] \in Calling => thread[t] \in Calling
               /\ thread[t] \in {"stamp", "log"} => thread'[t] = thread[t]
    BY <1>1, CallingStays DEF Calling
  <2>5. CASE mainPc \in Before
    BY <2>1, <2>2, <2>4, <2>5 DEF LoggedOK
  <2>6. CASE UNCHANGED ok
    BY <2>1, <2>2, <2>4, <2>6 DEF LoggedOK
  <2>. QED
    BY <2>3, <2>5, <2>6
<1>2. ASSUME NEW t \in Threads, Detect(t) \/ OnDetection(t) PROVE LoggedOK'
  <2>1. /\ UNCHANGED <<mainPc, setup>> /\ mainPc \notin Before
    BY <1>2, CallbackMoves DEF During, Before
  <2>. USE DEF ThreadsOK, LoggedOK, Calling, Move, Done, setup
  <2>2. CASE Detect(t)
    BY <2>1, <2>2 DEF Detect
  <2>3. CASE Stamp(t)
    BY <2>1, <2>3 DEF Stamp
  <2>4. CASE Log(t)
    <3>1. /\ thread[t] = "log" /\ thread' = [thread EXCEPT ![t] = "publish"]
          /\ UNCHANGED <<emitted, inHand, ok>>
          /\ log' = IF "db" \in ok THEN log \cup {inHand[t]} ELSE log
      BY <2>4, Zenon DEF Log
    <3>2. inHand[t] \in 1..emitted /\ emitted \in Nat /\ inHand \in [Threads -> Nat]
      BY <3>1
    <3>3. \A u \in Threads : thread'[u] = IF u = t THEN "publish" ELSE thread[u]
      BY <3>1
    <3>4. log' \subseteq 1..emitted
      BY <3>1, <3>2
    <3>5. \A u \in Threads : thread'[u] \in Calling => inHand[u] \in 1..emitted
      BY <3>2, <3>3
    <3>6. ASSUME "db" \in ok, NEW d \in 1..emitted, d \notin log'
          PROVE  \E u \in Threads : thread'[u] \in {"stamp", "log"} /\ inHand[u] = d
      <4>1. d \notin log /\ d # inHand[t]
        BY <3>1, <3>6
      <4>2. PICK u \in Threads : thread[u] \in {"stamp", "log"} /\ inHand[u] = d
        BY <3>6, <4>1
      <4>3. thread'[u] = thread[u]
        BY <3>3, <4>1, <4>2
      <4>. QED
        BY <4>2, <4>3
    <3>7. emitted' = emitted /\ inHand' = inHand /\ ok' = ok /\ mainPc' \notin Before
      BY <2>1, <3>1
    <3>. QED
      BY <3>2, <3>4, <3>5, <3>6, <3>7, Zenon
  <2>5. CASE PublishTests(t) \/ PublishPosts(t)
    <3>1. /\ UNCHANGED <<emitted, log>> /\ thread[t] \in {"publish", "post"}
          /\ \/ Move(t, "post") /\ UNCHANGED inHand
             \/ Done(t)
      BY <2>5, Zenon DEF PublishTests, PublishPosts
    <3>. QED
      BY <2>1, <3>1
  <2>. QED
    BY <1>2, <2>2, <2>3, <2>4, <2>5 DEF OnDetection
<1>3. CASE BeginCapture \/ EndCapture
  <2>1. /\ UNCHANGED <<mainPc, ok, emitted, inHand, log>>
        /\ thread[Voice] \notin Calling /\ thread'[Voice] \notin Calling
        /\ \A u \in Threads \ {Voice} : thread'[u] = thread[u]
    BY <1>3 DEF BeginCapture, EndCapture, Move, ThreadsOK, VoiceOK, Threads, Voice, setup, Calling
  <2>. QED
    BY <2>1 DEF LoggedOK, Calling
<1>4. CASE WorkerMissesStop \/ Messages \/ Broker \/ UNCHANGED vars
  <2>1. UNCHANGED <<mainPc, ok, thread, emitted, inHand, log>>
    BY <1>4, Zenon DEF WorkerMissesStop, Messages, Broker, Signal, BrokerBack, Network, others, vars, callback, setup
  <2>. QED
    BY <2>1 DEF LoggedOK
<1>. QED
  BY <1>1, <1>2, <1>3, <1>4, Steps DEF Callbacks, Captures

-----------------------------------------------------------------------------
(* The publisher's work queue.                                              *)

(* The steps of other threads leave the publisher and its context alone.    *)
LEMMA PublisherUntouched ==
  ASSUME Messages \/ Captures \/ UNCHANGED vars
  PROVE  UNCHANGED <<mainPc, ok, publisher>>
BY Zenon DEF Messages, Captures, Signal, BrokerBack, BeginCapture, EndCapture, WorkerMissesStop, vars, setup

\* u is s with d at its end; u is s without its first.
Longer(s, d, u) ==
  /\ u \in Seq(Nat) /\ Len(u) = Len(s) + 1 /\ u # <<>>
  /\ \A i \in 1..Len(u) : u[i] = IF i = Len(s) + 1 THEN d ELSE s[i]
  /\ Among(u) = Among(s) \cup {d}
Shorter(s, u) ==
  /\ u \in Seq(Nat) /\ Len(u) = Len(s) - 1 /\ Head(s) = s[1] /\ Len(s) \in Nat \ {0}
  /\ \A i \in 1..Len(u) : u[i] = s[i + 1]
  /\ Among(s) = Among(u) \cup {Head(s)}

LEMMA JobsAppend == ASSUME NEW s \in Seq(Nat), NEW d \in Nat PROVE Longer(s, d, Append(s, d))
<1>. DEFINE u == Append(s, d)
            n == Len(s)
<1>1. /\ u \in Seq(Nat) /\ Len(u) = n + 1 /\ n \in Nat
      /\ \A i \in 1..n : u[i] = s[i]
      /\ u[n + 1] = d
  BY AppendProperties, LenProperties
<1>2. u # <<>>
  BY <1>1, EmptySeq
<1>. HIDE DEF u, n
<1>3. \A i \in 1..(n + 1) : u[i] = IF i = n + 1 THEN d ELSE s[i]
  <2>1. \A i \in 1..(n + 1) : i # n + 1 => i \in 1..n
    BY <1>1
  <2>. QED
    BY <1>1, <2>1, Zenon
<1>4. {u[i] : i \in 1..(n + 1)} = {s[i] : i \in 1..n} \cup {d}
  <2>1. \A i \in 1..n : i \in 1..(n + 1) /\ i # n + 1
    BY <1>1
  <2>2. n + 1 \in 1..(n + 1)
    BY <1>1
  <2>3. \A i \in 1..(n + 1) : i = n + 1 \/ i \in 1..n
    BY <1>1
  <2>. QED
    BY <1>1, <2>1, <2>2, <2>3, Zenon
<1>. QED
  BY <1>1, <1>2, <1>3, <1>4, Zenon DEF u, n, Among, Longer

LEMMA JobsTail == ASSUME NEW s \in Seq(Nat), s # <<>> PROVE Shorter(s, Tail(s))
<1>. DEFINE u == Tail(s)
            n == Len(s)
<1>1. /\ u \in Seq(Nat) /\ Len(u) = n - 1 /\ Head(s) = s[1] /\ n \in Nat \ {0}
      /\ \A i \in 1..Len(u) : u[i] = s[i + 1]
  BY HeadTailProperties, EmptySeq, LenProperties
<1>. HIDE DEF u, n
<1>2. ASSUME NEW i \in 1..n PROVE s[i] \in {u[k] : k \in 1..(n - 1)} \cup {s[1]}
  <2>1. CASE i = 1
    BY <2>1
  <2>2. CASE i # 1
    <3>1. i - 1 \in 1..(n - 1) /\ (i - 1) + 1 = i
      BY <1>1, <2>2
    <3>2. u[i - 1] = s[i]
      BY <1>1, <3>1
    <3>. QED
      BY <3>1, <3>2, Zenon
  <2>. QED
    BY <2>1, <2>2
<1>3. ASSUME NEW i \in 1..(n - 1) PROVE u[i] \in {s[k] : k \in 1..n}
  <2>1. i + 1 \in 1..n /\ u[i] = s[i + 1]
    BY <1>1
  <2>. QED
    BY <2>1, Zenon
<1>4. s[1] \in {s[k] : k \in 1..n}
  <2>1. 1 \in 1..n
    BY <1>1
  <2>. QED
    BY <2>1, Zenon
<1>5. {s[k] : k \in 1..n} = {u[k] : k \in 1..(n - 1)} \cup {s[1]}
  BY <1>2, <1>3, <1>4, Zenon
<1>. QED
  BY <1>1, <1>5, Zenon DEF u, n, Among, Shorter

LEMMA PublishPostsKeeps ==
  ASSUME FlagsOK, MainOK, ThreadsOK, LoggedOK, JobsOK, StopOK, NEW t \in Threads, PublishPosts(t)
  PROVE  JobsOK'
<1>. DEFINE d == inHand[t]
<1>1. /\ d \in Nat \ {Close} /\ workQueue /\ ~stopping /\ container = "running"
      /\ mainPc \in During
  <2>1. thread[t] = "post" /\ mainPc \in During
    BY CallbackMoves DEF PublishPosts, OnDetection
  <2>2. d \in 1..emitted /\ emitted \in Nat
    BY <2>1 DEF LoggedOK, Calling
  <2>3. workQueue /\ ~stopping
    BY <2>1 DEF StopOK, During
  <2>4. container = "running"
    BY <2>3, Zenon DEF StopOK
  <2>. QED
    BY <2>1, <2>2, <2>3, <2>4 DEF Close
<1>2. /\ jobs' = Append(jobs, d) /\ posted' = posted \cup {d}
      /\ UNCHANGED <<container, workQueue, stopping, sent, spoilt>>
  BY Zenon DEF PublishPosts, Post
<1>. HIDE DEF d
<1>3. /\ jobs' \in Seq(Nat) /\ jobs' # <<>> /\ jobs \in Seq(Nat) /\ Len(jobs') = Len(jobs) + 1
      /\ \A i \in 1..Len(jobs') : jobs'[i] = IF i = Len(jobs) + 1 THEN d ELSE jobs[i]
      /\ Among(jobs') = Among(jobs) \cup {d}
  <2>1. jobs \in Seq(Nat) /\ d \in Nat
    BY <1>1, Zenon DEF JobsOK
  <2>2. Longer(jobs, d, Append(jobs, d))
    BY <2>1, JobsAppend, Zenon
  <2>3. Longer(jobs, d, jobs')
    BY <1>2, <2>2, Zenon
  <2>. QED
    BY <2>1, <2>3, Zenon DEF Longer
<1>4. \A i \in 1..Len(jobs) : jobs[i] # Close
  BY <1>1, Zenon DEF JobsOK
<1>5. \A i \in 1..Len(jobs') : jobs'[i] # Close
  <2>1. \A i \in 1..Len(jobs') : i = Len(jobs) + 1 \/ i \in 1..Len(jobs)
    BY <1>3, LenProperties
  <2>. QED
    BY <1>1, <1>3, <1>4, <2>1, Zenon
<1>6. posted' = sent' \cup spoilt' \cup (Among(jobs') \ {Close})
  <2>1. posted = sent \cup spoilt \cup (Among(jobs) \ {Close})
    BY Zenon DEF JobsOK
  <2>2. d # Close /\ posted' = posted \cup {d} /\ sent' = sent /\ spoilt' = spoilt
    BY <1>1, <1>2, Zenon
  <2>. QED
    BY <1>3, <2>1, <2>2, Zenon
<1>. QED
  BY <1>1, <1>2, <1>3, <1>5, <1>6, Zenon DEF JobsOK

LEMMA StopBeginsKeeps ==
  ASSUME FlagsOK, JobsOK, StopOK, mainPc = "resetAmqp", StopBegins
  PROVE  JobsOK'
<1>1. ~stopping /\ stopping' /\ UNCHANGED <<workQueue, posted, sent, spoilt>>
  BY Zenon DEF StopBegins, StopOK
<1>2. CASE container = "running" /\ workQueue
  <2>1. jobs' = Append(jobs, Close) /\ UNCHANGED container
    BY <1>2, Zenon DEF StopBegins
  <2>2. /\ jobs' \in Seq(Nat) /\ jobs' # <<>> /\ jobs \in Seq(Nat) /\ Len(jobs') = Len(jobs) + 1
        /\ \A i \in 1..Len(jobs') : jobs'[i] = IF i = Len(jobs) + 1 THEN Close ELSE jobs[i]
        /\ Among(jobs') = Among(jobs) \cup {Close}
    <3>1. jobs \in Seq(Nat)
      BY Zenon DEF JobsOK
    <3>2. Close \in Nat
      BY DEF Close
    <3>3. Longer(jobs, Close, Append(jobs, Close))
      BY <3>1, <3>2, JobsAppend, Zenon
    <3>4. Longer(jobs, Close, jobs')
      BY <2>1, <3>3, Zenon
    <3>. QED
      BY <3>1, <3>4, Zenon DEF Longer
  <2>3. \A i \in 1..Len(jobs) : jobs[i] # Close
    BY <1>1, Zenon DEF JobsOK
  <2>4. \A i \in 1..Len(jobs') : jobs'[i] = Close => i = Len(jobs')
    <3>1. \A i \in 1..Len(jobs') : i = Len(jobs') \/ (i \in 1..Len(jobs) /\ i # Len(jobs) + 1)
      BY <2>2, LenProperties
    <3>. QED
      BY <2>2, <2>3, <3>1, Zenon
  <2>5. posted' = sent' \cup spoilt' \cup (Among(jobs') \ {Close})
    <3>1. /\ posted = sent \cup spoilt \cup (Among(jobs) \ {Close})
          /\ posted' = posted /\ sent' = sent /\ spoilt' = spoilt
      BY <1>1, Zenon DEF JobsOK
    <3>. QED
      BY <2>2, <3>1, Zenon
  <2>. QED
    BY <1>1, <1>2, <2>1, <2>2, <2>4, <2>5, Zenon DEF JobsOK
<1>3. CASE ~(container = "running" /\ workQueue)
  <2>1. UNCHANGED jobs /\ container' \in {"stopping", container}
    BY <1>3, Zenon DEF StopBegins
  <2>. QED
    BY <1>1, <1>3, <2>1 DEF JobsOK
<1>. QED
  BY <1>2, <1>3

LEMMA RunJobKeeps == ASSUME FlagsOK, JobsOK, RunJob PROVE JobsOK'
<1>1. /\ jobs # <<>> /\ jobs' = Tail(jobs) /\ container = "running" /\ workQueue
      /\ UNCHANGED <<workQueue, stopping, posted>>
  BY Zenon DEF RunJob, JobsOK
<1>2. /\ jobs' \in Seq(Nat) /\ Len(jobs') = Len(jobs) - 1 /\ Head(jobs) = jobs[1]
      /\ Len(jobs) \in Nat \ {0} /\ \A i \in 1..Len(jobs') : jobs'[i] = jobs[i + 1]
      /\ Among(jobs) = Among(jobs') \cup {Head(jobs)}
  <2>1. jobs \in Seq(Nat)
    BY Zenon DEF JobsOK
  <2>2. Shorter(jobs, Tail(jobs))
    BY <1>1, <2>1, JobsTail, Zenon
  <2>3. Shorter(jobs, jobs')
    BY <1>1, <2>2, Zenon
  <2>. QED
    BY <2>3, Zenon DEF Shorter
<1>3. \A i \in 1..Len(jobs') : jobs'[i] = Close => stopping /\ i = Len(jobs')
  <2>1. \A i \in 1..Len(jobs') : i + 1 \in 1..Len(jobs) /\ (i + 1 = Len(jobs) => i = Len(jobs'))
    BY <1>2
  <2>. QED
    BY <1>2, <2>1, Zenon DEF JobsOK
<1>4. CASE Head(jobs) = Close
  <2>1. container' = "ended" /\ UNCHANGED <<sent, spoilt>>
    BY <1>4, Zenon DEF RunJob
  <2>2. Len(jobs') = 0
    <3>1. 1 \in 1..Len(jobs) /\ jobs[1] = Close
      BY <1>2, <1>4
    <3>2. 1 = Len(jobs)
      BY <3>1, Zenon DEF JobsOK
    <3>3. Len(jobs') = Len(jobs) - 1
      BY <1>2, Zenon
    <3>. QED
      BY <3>2, <3>3
  <2>3. jobs' = <<>>
    BY <1>2, <2>2, EmptySeq
  <2>4. Among(jobs') = {}
    BY <2>2 DEF Among
  <2>5. Among(jobs) = {Close}
    BY <1>2, <1>4, <2>4
  <2>6. posted' = sent' \cup spoilt' \cup (Among(jobs') \ {Close})
    <3>1. posted = sent \cup spoilt \cup (Among(jobs) \ {Close})
      BY Zenon DEF JobsOK
    <3>. QED
      BY <1>1, <2>1, <2>4, <2>5, <3>1, Zenon
  <2>7. container' \in {"absent", "running", "stopping", "ended"} /\ 1..Len(jobs') = {}
    BY <2>1, <2>2
  <2>. QED
    BY <1>2, <2>3, <2>6, <2>7, Zenon DEF JobsOK
<1>5. CASE Head(jobs) # Close
  <2>1. UNCHANGED container /\ sent' \cup spoilt' = sent \cup spoilt \cup {Head(jobs)}
    BY <1>5 DEF RunJob
  <2>2. posted' = sent' \cup spoilt' \cup (Among(jobs') \ {Close})
    <3>1. posted = sent \cup spoilt \cup (Among(jobs) \ {Close})
      BY Zenon DEF JobsOK
    <3>. QED
      BY <1>1, <1>2, <1>5, <2>1, <3>1, Zenon
  <2>. QED
    BY <1>1, <1>2, <1>3, <2>1, <2>2, Zenon DEF JobsOK
<1>. QED
  BY <1>4, <1>5

LEMMA JobsStep ==
  FlagsOK /\ MainOK /\ ThreadsOK /\ LoggedOK /\ JobsOK /\ StopOK /\ [Next]_vars => JobsOK'
<1>. SUFFICES ASSUME FlagsOK, MainOK, ThreadsOK, LoggedOK, JobsOK, StopOK, [Next]_vars PROVE JobsOK'
  OBVIOUS
<1>1. CASE UNCHANGED publisher
  BY <1>1 DEF JobsOK, publisher
<1>2. CASE StartPublisher
  <2>1. UNCHANGED publisher \/ PublisherStart
    BY <1>2, Zenon DEF StartPublisher
  <2>. QED
    BY <1>1, <2>1 DEF PublisherStart, JobsOK
<1>3. CASE ResetAmqp
  BY <1>3, StopBeginsKeeps DEF ResetAmqp, Go
<1>4. CASE JoinAmqp
  BY <1>4 DEF JoinAmqp, StopEnds, JobsOK
<1>5. CASE MainSteps
  <2>1. StartPublisher \/ ResetAmqp \/ JoinAmqp \/ UNCHANGED publisher
    BY <1>5, Zenon DEF MainSteps, StartUp, Shutdown, OpenLog, StartGps, QueryUnanswered, QueryAnswered,
      CloseProbe, Spawn, StartScanners, StartP25, SeeSignal, StopP25, StopScanner, ResetGps, ResetDb, DestroySources
  <2>. QED
    BY <1>1, <1>2, <1>3, <1>4, <2>1
<1>6. ASSUME NEW t \in Threads, Detect(t) \/ OnDetection(t) PROVE JobsOK'
  <2>1. PublishPosts(t) \/ UNCHANGED publisher
    BY <1>6, Zenon DEF Detect, OnDetection, Stamp, Log, PublishTests
  <2>. QED
    BY <1>1, <2>1, PublishPostsKeeps
<1>7. CASE Broker
  <2>1. RunJob \/ ConnectionOpens \/ SenderOpens \/ ConnectionBreaks \/ ContainerStops
    BY <1>7, Zenon DEF Broker, Network, Reconnects, Proton
  <2>. QED
    BY <2>1, RunJobKeeps
    DEF ConnectionOpens, SenderOpens, ConnectionBreaks, ContainerStops, JobsOK
<1>. QED
  BY <1>1, <1>5, <1>6, <1>7, Steps, PublisherUntouched DEF Callbacks

LEMMA StopStep ==
  FlagsOK /\ MainOK /\ ThreadsOK /\ VoiceOK /\ JobsOK /\ StopOK /\ [Next]_vars => StopOK'
<1>. SUFFICES ASSUME FlagsOK, MainOK, ThreadsOK, VoiceOK, JobsOK, StopOK, [Next]_vars PROVE StopOK'
  OBVIOUS
<1>. USE DEF Go, setup, callback, peers, grant, publisher, vars
<1>1. CASE StartPublisher
  <2>1. mainPc = "amqp" /\ mainPc' = "db" /\ UNCHANGED <<thread, workQueue, stopping>>
    BY <1>1, Zenon DEF StartPublisher, PublisherStart
  <2>2. \/ "amqp" \in ok' /\ container' = "running"
        \/ UNCHANGED <<ok, container>>
    BY <1>1 DEF StartPublisher, PublisherStart
  <2>. QED
    BY <2>1, <2>2 DEF StopOK
<1>2. CASE OpenLog
  <2>1. /\ mainPc = "db" /\ mainPc' \in {"gps", "exited"}
        /\ "amqp" \notin ok' => "amqp" \notin ok
        /\ mainPc' = "exited" => ok = {}
        /\ UNCHANGED <<thread, workQueue, stopping, container>>
    BY <1>2 DEF OpenLog
  <2>. QED
    BY <2>1 DEF StopOK
<1>3. CASE \/ StartGps \/ QueryUnanswered \/ QueryAnswered \/ CloseProbe \/ Spawn \/ StartScanners \/ StartP25
           \/ SeeSignal \/ StopP25 \/ StopScanner \/ ResetGps
  <2>1. /\ mainPc \notin {"joinAmqp", "resetDb", "destroy", "exited"}
        /\ mainPc' \notin {"joinAmqp", "resetDb", "destroy", "exited"}
    BY <1>3 DEF StartGps, QueryUnanswered, QueryAnswered, CloseProbe, Spawn, StartScanners, StartP25, SeeSignal,
      StopP25, StopScanner, ResetGps
  <2>2. UNCHANGED <<ok, workQueue, stopping, container>>
    BY <1>3, Zenon DEF StartGps, QueryUnanswered, QueryAnswered, CloseProbe, Spawn, StartScanners, StartP25,
      SeeSignal, StopP25, StopScanner, ResetGps
  <2>3. \A t \in Threads : thread'[t] = "post" => thread[t] = "post"
    <3>1. MainSteps
      BY <1>3, Zenon DEF MainSteps, StartUp, Shutdown
    <3>. QED
      BY <3>1, CallingStays DEF Calling
  <2>. QED
    BY <2>1, <2>2, <2>3 DEF StopOK
<1>4. CASE ResetAmqp
  <2>1. /\ mainPc = "resetAmqp" /\ mainPc' = "joinAmqp" /\ stopping' /\ UNCHANGED <<ok, thread, workQueue>>
        /\ container = "absent" => container' = "absent"
    BY <1>4 DEF ResetAmqp, StopBegins
  <2>. QED
    BY <2>1 DEF StopOK
<1>5. CASE JoinAmqp
  <2>1. /\ mainPc = "joinAmqp" /\ mainPc' = "resetDb" /\ ~workQueue' /\ UNCHANGED <<ok, thread, stopping>>
        /\ container' = "absent"
    BY <1>5 DEF JoinAmqp, StopEnds
  <2>2. \A t \in Threads : thread[t] # "post"
    BY <2>1 DEF ThreadsOK, After, Calling
  <2>. QED
    BY <2>1, <2>2 DEF StopOK
<1>6. CASE ResetDb \/ DestroySources
  <2>1. /\ mainPc \in {"resetDb", "destroy"} /\ mainPc' \in {"destroy", "exited"}
        /\ UNCHANGED <<ok, thread, workQueue, stopping, container>>
    BY <1>6 DEF ResetDb, DestroySources
  <2>. QED
    BY <2>1 DEF StopOK
<1>7. ASSUME NEW t \in Threads, Detect(t) \/ OnDetection(t) PROVE StopOK'
  <2>1. UNCHANGED <<mainPc, ok, workQueue, stopping, container>>
    BY <1>7, Zenon DEF Detect, OnDetection, Stamp, Log, PublishTests, PublishPosts, Post
  <2>2. thread'[t] = "post" => workQueue
    <3>1. CASE PublishTests(t)
      BY <3>1 DEF PublishTests, Publishable, Done, Move, ThreadsOK
    <3>2. CASE Detect(t) \/ Stamp(t) \/ Log(t) \/ PublishPosts(t)
      BY <3>2 DEF Detect, Stamp, Log, PublishPosts, Done, Move, ThreadsOK
    <3>. QED
      BY <1>7, <3>1, <3>2 DEF OnDetection
  <2>3. \A u \in Threads \ {t} : thread'[u] = thread[u]
    BY <1>7, CallbackMoves DEF ThreadsOK
  <2>. QED
    BY <2>1, <2>2, <2>3 DEF StopOK
<1>8. CASE Captures
  <2>1. UNCHANGED <<mainPc, ok, workQueue, stopping, container>>
    BY <1>8, Zenon DEF Captures, BeginCapture, EndCapture, WorkerMissesStop
  <2>2. \A u \in Threads : thread'[u] = "post" => thread[u] = "post"
    BY <1>8 DEF Captures, BeginCapture, EndCapture, WorkerMissesStop, Move, ThreadsOK, callback
  <2>. QED
    BY <2>1, <2>2 DEF StopOK
<1>9. CASE Broker
  <2>1. UNCHANGED <<mainPc, ok, thread, stopping>>
    BY <1>9, Zenon DEF Broker, Network, others, Reconnects, ConnectionOpens, SenderOpens,
      ConnectionBreaks, Proton, RunJob, ContainerStops
  <2>2. CASE RunJob
    <3>1. container = "running" /\ UNCHANGED workQueue /\ jobs # <<>>
      BY <2>2, Zenon DEF RunJob
    <3>2. UNCHANGED container \/ (Head(jobs) = Close /\ container' = "ended")
      BY <2>2, Zenon DEF RunJob
    <3>3. Head(jobs) = Close => stopping
      BY <3>1, JobsTail DEF JobsOK
    <3>. QED
      BY <2>1, <3>1, <3>2, <3>3 DEF StopOK
  <2>3. CASE ContainerStops
    <3>1. container = "stopping" /\ container' = "ended" /\ UNCHANGED workQueue
      BY <2>3, Zenon DEF ContainerStops
    <3>. QED
      BY <2>1, <3>1 DEF StopOK
  <2>4. CASE Reconnects \/ ConnectionBreaks
    <3>1. container = "running" /\ UNCHANGED container /\ (UNCHANGED workQueue \/ workQueue')
      BY <2>4, Zenon DEF Reconnects, ConnectionOpens, SenderOpens, ConnectionBreaks
    <3>. QED
      BY <2>1, <3>1 DEF StopOK
  <2>. QED
    BY <1>9, <2>2, <2>3, <2>4 DEF Broker, Network, Proton
<1>10. CASE Messages \/ UNCHANGED vars
  <2>1. UNCHANGED <<mainPc, ok, thread, workQueue, stopping, container>>
    BY <1>10, Zenon DEF Messages, Signal, BrokerBack
  <2>. QED
    BY <2>1 DEF StopOK
<1>. QED
  BY <1>1, <1>2, <1>3, <1>4, <1>5, <1>6, <1>7, <1>8, <1>9, <1>10, Steps
  DEF MainSteps, StartUp, Shutdown, Callbacks

-----------------------------------------------------------------------------

\* At every place of the main thread: which threads run, which objects exist, and where
\* each detection is, in a thread's hands, in the log or in the publisher's work queue.
THEOREM SafetyInvariant == Spec => []SafetyInv
<1>1. Init => SafetyInv
  <2>. SUFFICES ASSUME Init PROVE SafetyInv
    OBVIOUS
  <2>. USE ApplicationAssumption, ConfigAssumption DEF Init, PublisherInit
  <2>1. FlagsOK /\ AliveOK /\ StopOK
    BY DEF FlagsOK, AliveOK, StopOK
  <2>2. MainOK
    BY DEF MainOK, Before
  <2>3. ThreadsOK /\ VoiceOK
    BY DEF ThreadsOK, VoiceOK, Before, During, After, Calling, Threads, Voice
  <2>4. LoggedOK
    BY DEF LoggedOK, Calling
  <2>5. JobsOK
    BY DEF JobsOK, Among
  <2>. QED
    BY <2>1, <2>2, <2>3, <2>4, <2>5 DEF SafetyInv
<1>2. SafetyInv /\ [Next]_vars => SafetyInv'
  BY FlagsStep, MainStep, ThreadsStep, VoiceStep, AliveStep, LoggedStep, JobsStep, StopStep
  DEF SafetyInv
<1>. QED
  BY <1>1, <1>2, PTL DEF Spec

\* on_detection() finds the position cache, the log and the publisher it uses, and the
\* work queue while it posts, for any number of scanners, devices and P25 captures.
THEOREM ObjectsOutliveCallbacks == Spec => []CallbacksFindTheirObjects
<1>1. SafetyInv => CallbacksFindTheirObjects
  <2>. SUFFICES ASSUME SafetyInv, NEW t \in Threads
                PROVE  /\ Uses(thread[t]) \subseteq alive
                       /\ thread[t] = "post" => workQueue /\ container = "running"
    BY Zenon DEF CallbacksFindTheirObjects
  <2>1. thread[t] \in Calling => mainPc \in During
    BY DEF SafetyInv, MainOK, ThreadsOK, Calling
  <2>2. CASE thread[t] \notin Calling
    BY <2>2 DEF Uses, Calling
  <2>3. CASE thread[t] \in Calling
    <3>1. /\ gps # "absent" => "gps" \in alive
          /\ "db" \in ok => "db" \in alive
          /\ "amqp" \in ok => "amqp" \in alive
      BY <2>1, <2>3 DEF SafetyInv, AliveOK, During
    <3>2. thread[t] = "post" => workQueue /\ container = "running"
      <4>1. ~stopping
        BY <2>1, <2>3 DEF SafetyInv, StopOK, During
      <4>. QED
        BY <4>1, Zenon DEF SafetyInv, StopOK
    <3>3. Uses(thread[t]) \subseteq alive
      BY <2>3, <3>1 DEF Uses, Calling
    <3>. QED
      BY <3>2, <3>3
  <2>. QED
    BY <2>2, <2>3
<1>. QED
  BY <1>1, SafetyInvariant, PTL

\* At the exit the log has every detection, and every detection that was posted has been
\* sent or spoilt: no closure is left behind.
THEOREM NothingLeftAtExit == Spec => []DrainedAtExit
<1>1. SafetyInv => DrainedAtExit
  <2>. SUFFICES ASSUME SafetyInv, mainPc = "exited"
                PROVE  ("db" \in ok => log = 1..emitted) /\ posted = sent \cup spoilt
    BY Zenon DEF DrainedAtExit
  <2>1. \A t \in Threads : thread[t] \notin Calling
    BY DEF SafetyInv, ThreadsOK, After
  <2>2. "db" \in ok => log = 1..emitted
    BY <2>1 DEF SafetyInv, LoggedOK, Calling
  <2>3. jobs = <<>>
    BY DEF SafetyInv, StopOK, JobsOK
  <2>4. Among(jobs) = {}
    BY <2>3 DEF Among
  <2>5. posted = sent \cup spoilt
    BY <2>4 DEF SafetyInv, JobsOK
  <2>. QED
    BY <2>2, <2>5
<1>. QED
  BY <1>1, SafetyInvariant, PTL

-----------------------------------------------------------------------------
(* The scanners' bands, once main() has spawned them.                       *)

SpawnedOK == mainPc = "start" => scanners = Assignments(cfg, devices)

LEMMA SpawnedStep == MainOK /\ SpawnedOK /\ [Next]_vars => SpawnedOK'
<1>. SUFFICES ASSUME MainOK, SpawnedOK, [Next]_vars PROVE SpawnedOK'
  OBVIOUS
<1>. USE DEF SpawnedOK, Go, setup, callback, peers, grant, vars
<1>1. CASE StartPublisher \/ OpenLog \/ StartGps \/ QueryUnanswered \/ QueryAnswered \/ CloseProbe
  BY <1>1, Zenon DEF StartPublisher, OpenLog, StartGps, QueryUnanswered, QueryAnswered, CloseProbe,
    MainOK, Before, During, After
<1>2. CASE Spawn
  BY <1>2, Zenon DEF Spawn
<1>3. CASE StartScanners \/ StartP25
  BY <1>3 DEF StartScanners, StartP25
<1>4. CASE SeeSignal \/ StopP25 \/ StopScanner \/ ResetGps \/ ResetAmqp \/ JoinAmqp \/ ResetDb \/ DestroySources
  <2>1. mainPc' # "start"
    <3>1. CASE StopScanner
      <4>1. mainPc' \in {"stopScanners", "resetGps"}
        BY <3>1, Zenon DEF StopScanner
      <4>. QED
        BY <4>1
    <3>. QED
      BY <1>4, <3>1 DEF SeeSignal, StopP25, ResetGps, ResetAmqp, JoinAmqp, ResetDb, DestroySources
  <2>. QED
    BY <2>1
<1>5. ASSUME NEW t \in Threads, Detect(t) \/ OnDetection(t) PROVE UNCHANGED <<mainPc, setup>>
  BY <1>5, Zenon DEF Detect, OnDetection, Stamp, Log, PublishTests, PublishPosts
<1>6. CASE Messages \/ Captures \/ Broker \/ UNCHANGED vars
  <2>1. UNCHANGED <<mainPc, setup>>
    BY <1>6, Zenon DEF Messages, Captures, Broker, Signal, BrokerBack, BeginCapture, EndCapture, WorkerMissesStop,
      Network, others
  <2>. QED
    BY <2>1
<1>7. UNCHANGED <<mainPc, setup>> => SpawnedOK'
  BY Zenon
<1>. QED
  BY <1>1, <1>2, <1>3, <1>4, <1>5, <1>6, <1>7, Steps DEF MainSteps, StartUp, Shutdown, Callbacks

\* When main() starts the scanners, their bands are those it computed.
THEOREM ScannersAreSpawned == Spec => []SpawnedOK
<1>1. Init => SpawnedOK
  BY DEF Init, SpawnedOK
<1>2. MainOK /\ SpawnedOK /\ [Next]_vars => SpawnedOK'
  BY SpawnedStep
<1>3. SafetyInv => MainOK
  BY DEF SafetyInv
<1>. QED
  BY <1>1, <1>2, <1>3, SafetyInvariant, PTL DEF Spec

\* For any bands and any number of devices: the scanners' bands cover each frequency as
\* often as the configured bands; those that all require a device are left alone, and if
\* none does, all devices that were reported can be at work.
THEOREM BandsAreShared == Spec => []DevicesShareTheBands
<1>1. MainOK /\ SpawnedOK => DevicesShareTheBands
  <2>1. SUFFICES ASSUME MainOK, SpawnedOK, mainPc = "start", cfg.devices = <<>>
        PROVE  /\ \A f \in Bounds(Configured(cfg)) \cup Bounds(scanners) :
                    Scanning(f, Configured(cfg)) = Scanning(f, scanners)
               /\ (\A i \in DOMAIN Configured(cfg) : Configured(cfg)[i].required)
                    => scanners = Configured(cfg)
               /\ \/ Usable(scanners) >= devices
                  \/ \E i \in DOMAIN Configured(cfg) : Configured(cfg)[i].required
    BY Zenon DEF DevicesShareTheBands
  <2>2. scanners = Effective(Configured(cfg), devices) /\ cfg \in Configs /\ devices \in 0..MaxDevices
    BY <2>1 DEF SpawnedOK, Assignments, MainOK
  <2>. QED
    BY <2>2, EffectiveIs
<1>2. SafetyInv => MainOK
  BY DEF SafetyInv
<1>. QED
  BY <1>1, <1>2, SafetyInvariant, ScannersAreSpawned, PTL

\* For any bands and any number of devices: what no scanner ever tunes over lies less than
\* half a step below the end of a scanner's band.
THEOREM GapsAreNearTheEnds == Spec => []GapsAreAtSliceEnds
<1>1. MainOK /\ SpawnedOK => GapsAreAtSliceEnds
  <2>1. SUFFICES ASSUME MainOK, SpawnedOK, mainPc = "start", cfg.devices = <<>>,
                        NEW f \in Bounds(Configured(cfg))
        PROVE  \E i \in DOMAIN scanners :
                 f \in TunedIn(scanners[i]) \/ (f \in Within(scanners[i]) /\ scanners[i].hi - f < Half)
    BY Zenon DEF GapsAreAtSliceEnds
  <2>2. scanners = Effective(Configured(cfg), devices) /\ cfg \in Configs /\ devices \in 0..MaxDevices
        /\ scanners \in Seq(Band)
    BY <2>1 DEF SpawnedOK, Assignments, MainOK
  <2>3. \E i \in DOMAIN scanners : f \in Within(scanners[i])
    <3>1. Scanning(f, Configured(cfg)) # 0
      <4>. DEFINE H == {i \in DOMAIN Configured(cfg) : f \in Within(Configured(cfg)[i])}
      <4>1. H # {}
        BY <2>1 DEF Bounds
      <4>2. IsFiniteSet(H)
        <5>1. Configured(cfg) \in Seq(Band)
          BY <2>2, ConfiguredIs
        <5>2. IsFiniteSet(1..Len(Configured(cfg))) /\ H \in SUBSET (1..Len(Configured(cfg)))
          BY <5>1, FS_Interval
        <5>. HIDE DEF H
        <5>. QED
          BY <5>2, FS_Subset
      <4>3. Scanning(f, Configured(cfg)) = Cardinality(H)
        BY Zenon DEF Scanning
      <4>. HIDE DEF H
      <4>. QED
        BY <4>1, <4>2, <4>3, FS_EmptySet
    <3>2. Scanning(f, scanners) # 0
      BY <2>2, <3>1, EffectiveIs
    <3>3. {i \in DOMAIN scanners : f \in Within(scanners[i])} # {}
      BY <3>2, FS_EmptySet DEF Scanning
    <3>. QED
      BY <3>3
  <2>4. PICK i \in DOMAIN scanners : f \in Within(scanners[i])
    BY <2>3
  <2>5. scanners[i] \in Band
    BY <2>2, <2>4
  <2>. QED
    BY <2>4, <2>5, UntunedIsNearTheEnd
<1>2. SafetyInv => MainOK
  BY DEF SafetyInv
<1>. QED
  BY <1>1, <1>2, SafetyInvariant, ScannersAreSpawned, PTL
=============================================================================
