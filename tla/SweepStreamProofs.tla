--------------------------- MODULE SweepStreamProofs --------------------------
(***************************************************************************)
(* The data path of a scanner for any band, any numbers of channels,       *)
(* samples and tasks, and any losses, delays, repeats and strangers: its   *)
(* tasks cover the band, next() gives every sample out once and mixes only *)
(* what the network mixed, and the long timeout is granted once per task.  *)
(* Packets are numbered in the order they arrive, so the socket's buffer   *)
(* is treated as a set.                                                    *)
(***************************************************************************)
EXTENDS SweepStream, FiniteSetTheorems, SequenceTheorems, TLAPS

CentreRange == (Start + Half)..Stop
Packets == [kind : {"good", "truncated"}, center : CentreRange, pos : Nat, ch : Chs,
            change : BOOLEAN, id : Nat]
Samples == [id : Nat, pos : Nat, center : Nat]

\* The controller's packets in a buffer, and the samples of an accumulator.
From(buffer)   == {buffer[i] : i \in 1..Len(buffer)} \ {Foreign}
SamplesIn(acc) == UNION {{acc[ch][i] : i \in 1..Len(acc[ch])} : ch \in Chs}
InFlight == From(network)
Waiting  == SamplesIn(accum)

FlagsOK == {streaming, firstTaskPacket, sending, started} \subseteq BOOLEAN

DataOK ==
  /\ resume \in Start..(Stop - 1)
  /\ current \in Nat /\ noData \in Nat /\ base \in Nat
  /\ streamed \in StreamLengths /\ plan \in Seq(CentreRange)
  /\ sent \in 0..(Len(plan) * PerPosition)
  /\ network \in Seq(Packets \cup {Foreign}) /\ accum \in [Chs -> Seq(Samples)]
  /\ accepted \in [Chs -> Nat] /\ returned \in [Chs -> Nat] /\ lastReturned \in [Chs -> Nat]
  /\ tasks \in 0..MaxTasks /\ faults \in 0..MaxFaults
  /\ arrivals \in Nat /\ late \subseteq Packets /\ \A p \in late : p.pos = 0

\* Frequencies the sweep meets are half steps from Start.
OnGrid(f) == \E m \in Nat : f = Start + m * Half
GridOK ==
  /\ OnGrid(resume) /\ \A i \in 1..Len(plan) : OnGrid(plan[i])
  /\ \A p \in InFlight \cup late : OnGrid(p.center)
PlanOK == streaming => \E r \in Start..(Stop - 1) : OnGrid(r) /\ plan = Entries(r)

TimeoutOK == streaming /\ started => ~firstTaskPacket /\ noData < StreamTimeout

\* Packets are numbered in the order they enter the buffer, through all tasks.
InOrder(buffer) == \A i, j \in 1..Len(buffer) :
  i < j /\ buffer[i] # Foreign /\ buffer[j] # Foreign => buffer[i].id < buffer[j].id
IdsOK ==
  /\ InOrder(network) /\ \A p \in InFlight : p.id <= arrivals
  /\ \A s \in Waiting : s.id <= arrivals /\ \A p \in InFlight : s.id < p.id
  /\ \A ch \in Chs : lastReturned[ch] <= arrivals /\ \A p \in InFlight : lastReturned[ch] < p.id

\* Positions of packets in their place are met in order too; those of the running task
\* are numbered above base, and packets out of their place have position 0.
Position == base + sent \div PerPosition + 1
Placed(x) == /\ x.pos <= Position /\ x.pos <= base + Len(plan)
             /\ x.pos > base => x.center = plan[x.pos - base]
Follows(x, p) == p.pos # 0 => x.pos <= p.pos /\ (x.pos = p.pos => x.center = p.center)
PositionsOK ==
  /\ \A p \in InFlight : Placed(p) /\ \A q \in InFlight : q.id <= p.id => Follows(q, p)
  /\ \A s \in Waiting : Placed(s) /\ \A p \in InFlight : Follows(s, p)
  /\ current = 0 => Waiting = {}

\* Ahead of the other packets of a position there is the one that opens it, or it was
\* lost, or it has been received and nothing older is left.
Openers(n)    == {p \in InFlight : p.kind = "good" /\ p.change /\ p.pos = n}
Reached(n)    == \A x \in Waiting \cup InFlight : x.pos >= n \/ x.pos = 0
OpenersOK ==
  /\ sent % PerPosition # 0 =>
       Position \in lostChanges \/ Openers(Position) # {} \/ Reached(Position)
  /\ \A p \in InFlight : p.kind = "good" /\ ~p.change /\ p.pos # 0 =>
       \/ p.pos \in lostChanges \/ Reached(p.pos)
       \/ \E q \in Openers(p.pos) : q.id < p.id

\* OneDwell, of the samples as a set and of the positions whose opener was lost.
OneBand(center, S, lost) ==
  /\ \A s, t \in S : s.pos # 0 /\ s.pos < t.pos => t.pos \in lost
  /\ (\A s \in S : s.pos # 0) =>
       \A s \in S : (\A t \in S : t.pos <= s.pos) => s.center = center

SafetyInv == /\ FlagsOK /\ DataOK /\ GridOK /\ PlanOK /\ TimeoutOK /\ IdsOK /\ SamplesConserved
             /\ PositionsOK /\ OpenersOK /\ MixesOnlyAfterLoss

\* As long as nothing is lost, the buffer holds packets of earlier tasks and then the
\* running task's from the one after the first a.
InLine(a) == \E m \in 0..Len(network) :
  /\ a = sent - (Len(network) - m) /\ (m > 0 => a = 0)
  /\ \A i \in 1..m : network[i].pos <= base
  /\ \A i \in (m + 1)..Len(network) : network[i] = Numbered(Packet(a + (i - m - 1)), network[i].id)
\* After a packets the positions before the last one met are returned, and that one
\* is, or its samples wait, as many of channel 0 as have been sent.
Collected(a) ==
  LET j == (a - 1) \div PerPosition IN
  /\ \A i \in 1..j : base + i \in reported
  /\ \/ base + j + 1 \in reported
     \/ /\ current # 0 /\ \E s \in Waiting : s.pos = base + j + 1
        /\ Len(accum[0]) + j * streamed = (a - 1) \div Channels + 1
        /\ Len(accum[0]) < DwellSamples \/ (a - 1) % PerPosition = 0
\* With one channel no complete dwell waits.
NoneFull == Channels = 1 => Len(accum[0]) < DwellSamples
ProgressInv ==
  NoneFull /\ (faults = 0 => late = {} /\ \E a \in 0..sent : InLine(a) /\ (a > 0 => Collected(a)))

-----------------------------------------------------------------------------
(* Arithmetic of the numbering.                                             *)

LEMMA Products ==
  /\ \A a, b, d \in Nat : a <= b => a * d <= b * d
  /\ \A a, b \in Nat : a * b \in Nat
  /\ \A a, b \in Nat \ {0} : a * b \in Nat \ {0}
  /\ \A a, b, d \in Nat : (a + b) * d = a * d + b * d
<1>1. \A a, b, d \in Nat : a <= b => a * d <= b * d
  OBVIOUS
<1>2. \A a, b \in Nat : a * b \in Nat
  OBVIOUS
<1>3. \A a, b \in Nat \ {0} : a * b \in Nat \ {0}
  OBVIOUS
<1>4. \A a, b, d \in Nat : (a + b) * d = a * d + b * d
  OBVIOUS
<1>. QED
  BY <1>1, <1>2, <1>3, <1>4

LEMMA DivMod ==
  ASSUME NEW a \in Nat, NEW d \in Nat \ {0}
  PROVE  /\ a \div d \in Nat /\ a % d \in 0..(d - 1)
         /\ a = d * (a \div d) + (a % d)
<1>1. a \div d \in Int /\ a % d \in 0..(d - 1) /\ a = d * (a \div d) + (a % d)
  OBVIOUS
<1>2. a \div d >= 0
  BY <1>1
<1>. QED
  BY <1>1, <1>2

LEMMA DivZero ==
  ASSUME NEW d \in Nat \ {0}
  PROVE  0 \div d = 0 /\ 0 % d = 0
  OBVIOUS

LEMMA DivBelow ==
  ASSUME NEW a \in Nat, NEW d \in Nat \ {0}, NEW n \in Nat, a < n * d
  PROVE  a \div d < n
<1>1. SUFFICES ASSUME a \div d >= n PROVE FALSE
  BY DivMod
<1>2. (a \div d) * d >= n * d
  BY <1>1, DivMod, Products
<1>. QED
  BY <1>2, DivMod

LEMMA DivMonotone ==
  ASSUME NEW a \in Nat, NEW b \in Nat, NEW d \in Nat \ {0}, a <= b
  PROVE  a \div d <= b \div d
<1>1. SUFFICES ASSUME b \div d + 1 <= a \div d PROVE FALSE
  BY DivMod
<1>2. (b \div d + 1) * d <= (a \div d) * d
  BY <1>1, DivMod, Products
<1>3. (b \div d + 1) * d = d * (b \div d) + d
  BY DivMod, Products
<1>. QED
  BY <1>2, <1>3, DivMod

LEMMA DivNext ==
  ASSUME NEW a \in Nat, NEW d \in Nat \ {0}, NEW b \in Nat, b = a + 1, b % d # 0
  PROVE  b \div d = a \div d
<1>1. b \div d \in Nat /\ b % d \in 0..(d - 1) /\ b = d * (b \div d) + (b % d)
  BY DivMod
<1>2. a \div d \in Nat /\ a % d \in 0..(d - 1) /\ a = d * (a \div d) + (a % d)
  BY DivMod
<1>3. a \div d <= b \div d
  BY DivMonotone
<1>4. ASSUME a \div d + 1 <= b \div d PROVE FALSE
  <2>1. (a \div d + 1) * d <= (b \div d) * d
    BY <1>1, <1>2, <1>4, Products
  <2>2. (a \div d + 1) * d = d * (a \div d) + d
    BY <1>2, Products
  <2>3. b >= d * (a \div d) + d + (b % d)
    BY <1>1, <1>2, <2>1, <2>2
  <2>. QED
    BY <1>1, <1>2, <2>3
<1>. QED
  BY <1>1, <1>2, <1>3, <1>4

\* b begins the next d.
Begun(a, b, d) == b = a + 1 /\ b % d = 0 => b \div d = a \div d + 1

LEMMA DivStep == ASSUME NEW a \in Nat, NEW d \in Nat \ {0}, NEW b \in Nat PROVE Begun(a, b, d)
<1>0. SUFFICES ASSUME b = a + 1, b % d = 0 PROVE b \div d = a \div d + 1
  BY Zenon DEF Begun
<1>1. b \div d \in Nat /\ b = d * (b \div d)
  BY <1>0, DivMod
<1>2. a \div d \in Nat /\ a % d \in 0..(d - 1) /\ a = d * (a \div d) + (a % d)
  BY DivMod
<1>3. PICK x \in Nat, y \in Nat : x = a \div d /\ y = b \div d
  BY <1>1, <1>2
<1>4. d * y = d * x + (a % d) + 1
  <2>1. d * x \in Nat /\ d * y \in Nat
    BY Products
  <2>. QED
    BY <1>0, <1>1, <1>2, <1>3, <2>1
<1>5. x < y
  <2>1. SUFFICES ASSUME y <= x PROVE FALSE
    BY <1>3
  <2>2. y * d <= x * d
    BY <2>1, Products
  <2>3. d * x \in Nat /\ d * y \in Nat /\ y * d = d * y /\ x * d = d * x
    BY Products
  <2>. QED
    BY <1>2, <1>4, <2>2, <2>3
<1>6. y <= x + 1
  <2>1. SUFFICES ASSUME x + 2 <= y PROVE FALSE
    BY <1>3
  <2>2. (x + 2) * d <= y * d
    BY <2>1, Products
  <2>3. (x + 2) * d = x * d + 2 * d
    BY Products
  <2>4. d * x \in Nat /\ d * y \in Nat /\ y * d = d * y /\ x * d = d * x
    BY Products
  <2>. QED
    BY <1>2, <1>4, <2>2, <2>3, <2>4
<1>. QED
  BY <1>3, <1>5, <1>6

\* x and r are the quotient and the remainder of a by d.
Parted(a, d, x, r) == a = x * d + r => a \div d = x /\ a % d = r

LEMMA DivUnique ==
  ASSUME NEW a \in Nat, NEW d \in Nat \ {0}, NEW x \in Nat, NEW r \in 0..(d - 1)
  PROVE  Parted(a, d, x, r)
<1>0. SUFFICES ASSUME a = x * d + r PROVE a \div d = x /\ a % d = r
  BY Zenon DEF Parted
<1>1. a \div d \in Nat /\ a % d \in 0..(d - 1) /\ a = d * (a \div d) + (a % d)
  BY DivMod
<1>2. PICK y \in Nat : y = a \div d
  BY <1>1
<1>3. PICK s \in 0..(d - 1) : s = a % d
  BY <1>1
<1>4. x * d + r = y * d + s /\ x * d \in Nat /\ y * d \in Nat
  <2>1. y * d = d * y /\ y * d \in Nat /\ x * d \in Nat
    BY Products
  <2>. QED
    BY <1>0, <1>1, <1>2, <1>3, <2>1
<1>5. x = y
  <2>1. ASSUME x + 1 <= y PROVE FALSE
    <3>1. (x + 1) * d <= y * d /\ (x + 1) * d = x * d + d
      BY <2>1, Products
    <3>. QED
      BY <1>4, <3>1
  <2>2. ASSUME y + 1 <= x PROVE FALSE
    <3>1. (y + 1) * d <= x * d /\ (y + 1) * d = y * d + d
      BY <2>2, Products
    <3>. QED
      BY <1>4, <3>1
  <2>. QED
    BY <2>1, <2>2
<1>. QED
  BY <1>2, <1>3, <1>4, <1>5

(* Where a position begins, channel 0 is next and has been sent its share so far. *)
Shared(k, c, n) ==
  k % (c * n) = 0 => /\ k % c = 0 /\ k \div c = (k \div (c * n)) * n
                     /\ k = (k \div (c * n)) * (c * n)

LEMMA PositionStarts ==
  ASSUME NEW k \in Nat, NEW c \in Nat \ {0}, NEW n \in Nat \ {0} PROVE Shared(k, c, n)
<1>0. SUFFICES ASSUME k % (c * n) = 0
               PROVE  /\ k % c = 0 /\ k \div c = (k \div (c * n)) * n
                      /\ k = (k \div (c * n)) * (c * n)
  BY Zenon DEF Shared
<1>1. c * n \in Nat \ {0}
  BY Products
<1>2. PICK d \in Nat \ {0} : d = c * n
  BY <1>1
<1>3. PICK q \in Nat : q = k \div d /\ k = d * q
  BY <1>0, <1>2, DivMod
<1>4. k = (q * n) * c /\ q * n \in Nat
  <2>1. d * q = (q * n) * c
    BY <1>2
  <2>. QED
    BY <1>3, <2>1, Products
<1>5. PICK x \in Nat : x = q * n
  BY <1>4
<1>6. k = x * c + 0 /\ 0 \in 0..(c - 1)
  BY <1>4, <1>5
<1>7. k \div c = x /\ k % c = 0
  <2>1. Parted(k, c, x, 0)
    BY <1>6, DivUnique, Zenon
  <2>. QED
    BY <1>6, <2>1, Zenon DEF Parted
<1>. QED
  BY <1>2, <1>3, <1>5, <1>7

-----------------------------------------------------------------------------
(* The frequency plan.                                                      *)

LEMMA StepIs == Step \in Nat \ {0} /\ Half \in Nat \ {0} /\ Step = 2 * Half
  BY BandAssumption DEF Step

(* A place in a row of steps, and the last place with room. *)
LEMMA Places ==
  ASSUME NEW room \in Nat, NEW d \in Nat \ {0}, NEW k \in Nat
  PROVE  /\ room \div d \in Nat /\ k * d \in Nat
         /\ k <= room \div d <=> k * d <= room
<1>1. room \div d \in Nat /\ room % d \in 0..(d - 1) /\ room = d * (room \div d) + (room % d)
  BY DivMod
<1>2. k * d \in Nat
  BY Products
<1>3. ASSUME k <= room \div d PROVE k * d <= room
  <2>1. k * d <= (room \div d) * d
    BY <1>1, <1>3, Products
  <2>. QED
    BY <1>1, <1>2, <2>1
<1>4. ASSUME room \div d + 1 <= k PROVE k * d > room
  <2>1. (room \div d + 1) * d <= k * d
    BY <1>1, <1>4, Products
  <2>2. (room \div d + 1) * d = d * (room \div d) + d
    BY <1>1, Products
  <2>. QED
    BY <1>1, <1>2, <2>1, <2>2
<1>. QED
  BY <1>1, <1>2, <1>3, <1>4

(* Positions lie a step apart from its first one up to the limit. *)
LEMMA PositionsAre ==
  ASSUME NEW from \in Start..Stop, NEW limit \in Start..Stop
  PROVE  /\ Positions(from, limit) \in Seq(CentreRange)
         /\ Len(Positions(from, limit)) =
              IF from + Half > limit THEN 0 ELSE (limit - Half - from) \div Step + 1
         /\ \A i \in 1..Len(Positions(from, limit)) :
              Positions(from, limit)[i] = from + (i - 1) * Step + Half
<1>. USE BandAssumption, StepIs
<1>. DEFINE room == limit - Half - from
            n == IF from + Half > limit THEN 0 ELSE room \div Step + 1
            at(i) == from + (i - 1) * Step + Half
<1>0. Positions(from, limit) = [i \in 1..n |-> at(i)]
  BY Zenon DEF Positions
<1>1. n \in Nat
  <2>1. CASE from + Half > limit
    BY <2>1
  <2>2. CASE ~(from + Half > limit)
    <3>1. room \in Nat
      BY <2>2
    <3>. HIDE DEF room
    <3>2. room \div Step \in Nat
      BY <3>1, DivMod
    <3>. QED
      BY <2>2, <3>2
  <2>. QED
    BY <2>1, <2>2
<1>2. ASSUME NEW i \in 1..n PROVE at(i) \in CentreRange
  <2>1. from + Half <= limit /\ room \in Nat /\ i <= room \div Step + 1 /\ i \in Nat /\ i >= 1
    BY <1>1, <1>2
  <2>. DEFINE k == i - 1
  <2>2. k \in Nat
    BY <2>1
  <2>3. room \div Step \in Nat /\ (k <= room \div Step <=> k * Step <= room) /\ k * Step \in Nat
    <3>. HIDE DEF room, n, k
    <3>. QED
      BY <2>1, <2>2, Places
  <2>4. k <= room \div Step
    <3>. HIDE DEF room, n
    <3>. QED
      BY <2>1, <2>3
  <2>. DEFINE kd == k * Step
  <2>5. kd <= room /\ kd \in Nat
    BY <2>3, <2>4
  <2>6. from + kd + Half \in CentreRange
    <3>. HIDE DEF kd
    <3>. QED
      BY <2>5 DEF CentreRange
  <2>. QED
    BY <2>6
<1>. HIDE DEF n, at
<1>3. Positions(from, limit) \in Seq(CentreRange) /\ Len(Positions(from, limit)) = n
  BY <1>0, <1>1, <1>2
<1>4. \A i \in 1..n : Positions(from, limit)[i] = at(i)
  BY <1>0
<1>. QED
  BY <1>3, <1>4 DEF at, n

(* A frequency whose position does not pass the limit is covered. *)
LEMMA PositionsCover ==
  ASSUME NEW from \in Start..Stop, NEW limit \in Start..Stop, NEW f \in Nat, f >= from,
         from + ((f - from) \div Step) * Step + Half <= limit
  PROVE  \E i \in 1..Len(Positions(from, limit)) : f \in Cells(Positions(from, limit)[i])
<1>. USE BandAssumption, StepIs
<1>1. PICK g \in Nat : g = f - from
  OBVIOUS
<1>2. /\ g \div Step \in Nat /\ g % Step \in 0..(Step - 1)
      /\ g = Step * (g \div Step) + (g % Step)
  BY DivMod
<1>3. PICK q \in Nat : q = g \div Step
  BY <1>2
<1>4. PICK kd \in Nat : kd = q * Step
  BY Products
<1>5. kd <= g /\ g <= kd + Step - 1 /\ from + kd + Half <= limit
  BY <1>1, <1>2, <1>3, <1>4
<1>6. PICK room \in Nat : room = limit - Half - from
  BY <1>5
<1>7. room \div Step \in Nat /\ q <= room \div Step
  <2>1. q * Step <= room
    BY <1>4, <1>5, <1>6
  <2>. QED
    BY <2>1, Places
<1>8. Len(Positions(from, limit)) = room \div Step + 1
  <2>1. ~(from + Half > limit)
    BY <1>5
  <2>. QED
    BY <1>6, <2>1, PositionsAre
<1>9. PICK i \in 1..Len(Positions(from, limit)) : i = q + 1
  BY <1>7, <1>8
<1>10. Positions(from, limit)[i] = from + (i - 1) * Step + Half
  BY PositionsAre
<1>11. Positions(from, limit)[i] = from + kd + Half
  <2>1. i - 1 = q
    BY <1>9
  <2>. QED
    BY <1>4, <1>10, <2>1
<1>12. f \in Cells(Positions(from, limit)[i])
  BY <1>1, <1>5, <1>11 DEF Cells
<1>. QED
  BY <1>12

(* The next half step of the grid. *)
LEMMA GridStep ==
  ASSUME NEW m \in Nat, NEW k \in Nat, k * Step < m * Half
  PROVE  k * Step + Half <= m * Half
<1>. USE StepIs
<1>1. k * Step = (2 * k) * Half
  OBVIOUS
<1>2. PICK j \in Nat : j = 2 * k
  OBVIOUS
<1>3. j < m
  <2>1. SUFFICES ASSUME m <= j PROVE FALSE
    BY <1>2
  <2>2. m * Half <= j * Half
    BY <2>1, Products
  <2>3. m * Half \in Nat /\ j * Half \in Nat
    BY Products
  <2>. QED
    BY <1>1, <1>2, <2>2, <2>3
<1>4. (j + 1) * Half <= m * Half
  <2>1. j + 1 <= m
    BY <1>3
  <2>. QED
    BY <2>1, Products
<1>5. (j + 1) * Half = j * Half + Half
  BY Products
<1>. QED
  BY <1>1, <1>2, <1>4, <1>5

LEMMA StartOnGrid == OnGrid(Start)
<1>1. 0 \in Nat /\ Start = Start + 0 * Half
  BY BandAssumption
<1>. QED
  BY <1>1, Zenon DEF OnGrid

(* Positions that begin on the grid lie on it. *)
LEMMA PositionsOnGrid ==
  ASSUME NEW from \in Start..Stop, NEW limit \in Start..Stop, OnGrid(from)
  PROVE  \A i \in 1..Len(Positions(from, limit)) : OnGrid(Positions(from, limit)[i])
<1>. USE BandAssumption, StepIs
<1>1. TAKE i \in 1..Len(Positions(from, limit))
<1>2. PICK m \in Nat : from = Start + m * Half
  BY DEF OnGrid
<1>3. Positions(from, limit) \in Seq(CentreRange)
      /\ Positions(from, limit)[i] = from + (i - 1) * Step + Half
  BY PositionsAre
<1>4. PICK k \in Nat : k = i - 1
  BY <1>3, LenProperties
<1>5. PICK n \in Nat : n = m + 2 * k + 1
  OBVIOUS
<1>6. n * Half = m * Half + (2 * k) * Half + Half
  <2>1. PICK j \in Nat : j = 2 * k
    OBVIOUS
  <2>2. (m + j) * Half = m * Half + j * Half
    BY Products
  <2>3. ((m + j) + 1) * Half = (m + j) * Half + Half
    BY Products
  <2>4. n = (m + j) + 1
    BY <1>5, <2>1
  <2>. QED
    BY <2>1, <2>2, <2>3, <2>4
<1>7. k * Step = (2 * k) * Half
  OBVIOUS
<1>8. Positions(from, limit)[i] = from + k * Step + Half
  BY <1>3, <1>4
<1>9. Positions(from, limit)[i] = Start + n * Half
  <2>1. m * Half \in Nat /\ k * Step \in Nat /\ n * Half \in Nat
    BY Products
  <2>. QED
    BY <1>2, <1>6, <1>7, <1>8, <2>1
<1>. QED
  BY <1>9 DEF OnGrid

(* A task's entries, wherever it resumes: centres of the band, on the grid, that
   cover the band up to half a step below Stop. *)
LEMMA EntriesAre ==
  ASSUME NEW r \in Start..(Stop - 1), OnGrid(r)
  PROVE  /\ Entries(r) \in Seq(CentreRange)
         /\ \A i \in 1..Len(Entries(r)) : OnGrid(Entries(r)[i])
         /\ \A f \in Start..(Stop - Half - 1) : Covering(Entries(r), f) # {}
<1>. USE BandAssumption, StepIs
<1>. DEFINE up == Positions(r, Stop)
            rest == Positions(Start, r)
<1>1. r \in Start..Stop /\ Start \in Start..Stop /\ Stop \in Start..Stop
  OBVIOUS
<1>2. OnGrid(Start)
  BY StartOnGrid
<1>3. up \in Seq(CentreRange) /\ rest \in Seq(CentreRange)
  BY <1>1, PositionsAre
<1>4. /\ \A i \in 1..Len(up) : OnGrid(up[i])
      /\ \A i \in 1..Len(rest) : OnGrid(rest[i])
  BY <1>1, <1>2, PositionsOnGrid
<1>5. ASSUME NEW f \in Start..(Stop - Half - 1)
      PROVE  \/ \E i \in 1..Len(up) : f \in Cells(up[i])
             \/ \E i \in 1..Len(rest) : f \in Cells(rest[i])
  <2>1. CASE f >= r
    <3>1. PICK g \in Nat : g = f - r
      BY <2>1
    <3>2. g \div Step \in Nat /\ g % Step \in 0..(Step - 1) /\ g = Step * (g \div Step) + (g % Step)
      BY DivMod
    <3>3. PICK kd \in Nat : kd = (g \div Step) * Step
      BY <3>2, Products
    <3>4. r + kd + Half <= Stop
      <4>1. kd <= g
        BY <3>2, <3>3
      <4>. QED
        BY <3>1, <4>1
    <3>5. f \in Nat /\ f >= r /\ r + ((f - r) \div Step) * Step + Half <= Stop
      BY <2>1, <3>1, <3>3, <3>4
    <3>. QED
      BY <1>1, <3>5, PositionsCover
  <2>2. CASE f < r
    <3>1. PICK g \in Nat : g = f - Start
      OBVIOUS
    <3>2. g \div Step \in Nat /\ g % Step \in 0..(Step - 1) /\ g = Step * (g \div Step) + (g % Step)
      BY DivMod
    <3>3. PICK m \in Nat : r = Start + m * Half
      BY DEF OnGrid
    <3>4. PICK k \in Nat : k = g \div Step
      BY <3>2
    <3>5. k * Step \in Nat /\ m * Half \in Nat
      BY Products
    <3>6. k * Step < m * Half
      <4>1. k * Step <= g
        BY <3>2, <3>4, <3>5
      <4>2. g < m * Half
        BY <2>2, <3>1, <3>3, <3>5
      <4>. QED
        BY <3>5, <4>1, <4>2
    <3>7. k * Step + Half <= m * Half
      BY <3>6, GridStep
    <3>8. f \in Nat /\ f >= Start /\ Start + ((f - Start) \div Step) * Step + Half <= r
      <4>1. Start + k * Step + Half <= r
        BY <3>3, <3>5, <3>7
      <4>. QED
        BY <3>1, <3>4, <4>1
    <3>. QED
      BY <1>1, <3>8, PositionsCover
  <2>. QED
    BY <1>1, <2>1, <2>2
<1>. HIDE DEF up, rest
<1>6. Entries(r) = up \o rest
  BY DEF Entries, up, rest
<1>7. /\ up \o rest \in Seq(CentreRange) /\ Len(up \o rest) = Len(up) + Len(rest)
      /\ \A i \in 1..Len(up) + Len(rest) :
           (up \o rest)[i] = IF i <= Len(up) THEN up[i] ELSE rest[i - Len(up)]
  BY <1>3, ConcatProperties
<1>8. Len(up) \in Nat /\ Len(rest) \in Nat
  BY <1>3, LenProperties
<1>9. \A i \in 1..Len(Entries(r)) : OnGrid(Entries(r)[i])
  BY <1>4, <1>6, <1>7, <1>8
<1>10. ASSUME NEW f \in Start..(Stop - Half - 1) PROVE Covering(Entries(r), f) # {}
  <2>1. \E i \in 1..Len(Entries(r)) : f \in Cells(Entries(r)[i])
    <3>1. CASE \E i \in 1..Len(up) : f \in Cells(up[i])
      BY <1>6, <1>7, <1>8, <3>1
    <3>2. CASE \E i \in 1..Len(rest) : f \in Cells(rest[i])
      <4>1. PICK i \in 1..Len(rest) : f \in Cells(rest[i])
        BY <3>2
      <4>2. PICK j \in 1..Len(up) + Len(rest) : j = i + Len(up)
        BY <1>8
      <4>3. (up \o rest)[j] = rest[i]
        BY <1>7, <1>8, <4>2
      <4>. QED
        BY <1>6, <1>7, <4>1, <4>3
    <3>. QED
      BY <1>5, <3>1, <3>2
  <2>. QED
    BY <2>1 DEF Covering
<1>. QED
  BY <1>6, <1>7, <1>9, <1>10

(* The sweep resumes in the band and on the grid, whatever packet arrives. *)
LEMMA ResumeIs ==
  ASSUME NEW center \in CentreRange, OnGrid(center)
  PROVE  Resume(center) \in Start..(Stop - 1) /\ OnGrid(Resume(center))
<1>. USE BandAssumption, StepIs
<1>1. Start \in Start..(Stop - 1) /\ OnGrid(Start)
  BY StartOnGrid
<1>2. center + Step >= Start /\ OnGrid(center + Step)
  <2>1. PICK m \in Nat : center = Start + m * Half
    BY DEF OnGrid
  <2>2. (m + 2) * Half = m * Half + Step
    BY Products
  <2>3. m * Half \in Nat
    BY Products
  <2>4. center + Step = Start + (m + 2) * Half
    BY <2>1, <2>2, <2>3
  <2>. QED
    BY <2>4 DEF OnGrid, CentreRange
<1>. QED
  BY <1>1, <1>2 DEF Resume, CentreRange

-----------------------------------------------------------------------------
(* The controller's packets and the socket's buffer.                        *)

LEMMA SizesAre ==
  ASSUME streamed \in StreamLengths
  PROVE  PerPosition \in Nat \ {0}
<1>1. Channels \in Nat \ {0} /\ streamed \in Nat \ {0}
  BY StreamAssumption
<1>. QED
  BY <1>1, Products DEF PerPosition

LEMMA DataFacts ==
  ASSUME DataOK
  PROVE  /\ base \in Nat /\ sent \in Nat /\ Len(plan) \in Nat /\ arrivals \in Nat
         /\ Position \in Nat /\ Position > base
         /\ PerPosition \in Nat \ {0} /\ sent <= Len(plan) * PerPosition
<1>. USE DEF DataOK
<1>1. PerPosition \in Nat \ {0}
  BY SizesAre
<1>2. Len(plan) \in Nat
  BY LenProperties
<1>3. Len(plan) * PerPosition \in Nat
  BY <1>1, <1>2, Products
<1>4. sent \in Nat /\ sent <= Len(plan) * PerPosition
  BY <1>3
<1>5. PICK q \in Nat : q = sent \div PerPosition
  BY <1>1, <1>4, DivMod
<1>6. Position \in Nat /\ Position > base
  BY <1>5 DEF Position
<1>. QED
  BY <1>1, <1>2, <1>4, <1>6

(* The next packet of the task: of the next position, not numbered yet. *)
LEMMA PacketIs ==
  ASSUME DataOK, sent < Len(plan) * PerPosition, NEW p, p = Packet(sent)
  PROVE  /\ p \in Packets /\ p.kind = "good"
         /\ p.pos = Position /\ Position <= base + Len(plan)
         /\ p.center = plan[Position - base]
         /\ p.change <=> sent % PerPosition = 0
<1>. USE DataFacts
<1>1. PICK q \in Nat : q = sent \div PerPosition /\ q < Len(plan)
  BY DivMod, DivBelow
<1>2. PICK i \in 1..Len(plan) : i = q + 1 /\ i = sent \div PerPosition + 1
  <2>1. q + 1 \in 1..Len(plan)
    BY <1>1
  <2>2. q + 1 = sent \div PerPosition + 1
    BY <1>1, Zenon
  <2>. QED
    BY <2>1, <2>2, Zenon
<1>3. base + i = Position /\ Position - base = i
  <2>1. Position = base + q + 1
    BY <1>1 DEF Position
  <2>. QED
    BY <1>2, <2>1
<1>4. plan[i] \in CentreRange
  BY ElementOfSeq DEF DataOK
<1>5. sent % Channels \in Chs
  BY DivMod, StreamAssumption DEF Chs
<1>6. p = [kind |-> "good", center |-> plan[i], pos |-> base + i, ch |-> sent % Channels,
           change |-> sent % PerPosition = 0, id |-> 0]
  BY <1>2 DEF Packet
<1>7. base + i \in Nat /\ (sent % PerPosition = 0) \in BOOLEAN
  OBVIOUS
<1>8. p \in Packets
  BY <1>4, <1>5, <1>6, <1>7 DEF Packets
<1>9. p.kind = "good" /\ p.pos = base + i /\ p.center = plan[i]
      /\ p.change = (sent % PerPosition = 0)
  BY <1>6
<1>10. base + i <= base + Len(plan)
  BY <1>2
<1>. QED
  BY <1>3, <1>8, <1>9, <1>10

(* A number changes nothing else. *)
LEMMA NumberedIs ==
  ASSUME NEW p \in Packets, NEW n \in Nat
  PROVE  /\ Numbered(p, n) \in Packets /\ Numbered(p, n).id = n
         /\ Numbered(p, n).kind = p.kind /\ Numbered(p, n).center = p.center
         /\ Numbered(p, n).pos = p.pos /\ Numbered(p, n).change = p.change
  BY DEF Packets, Numbered

LEMMA ForeignIsNone == \A p \in Packets \cup {Foreign} : p = Foreign <=> p.kind = "foreign"
  BY DEF Packets, Foreign

LEMMA InFlightAre ==
  ASSUME DataOK
  PROVE  InFlight \subseteq Packets /\ \A p \in InFlight : p.id \in Nat /\ p.pos \in Nat
<1>1. \A i \in 1..Len(network) : network[i] \in Packets \cup {Foreign}
  BY ElementOfSeq DEF DataOK
<1>2. InFlight \subseteq Packets
  BY <1>1 DEF InFlight, From
<1>. QED
  BY <1>2 DEF Packets

(* A packet with a higher number than all before it keeps the buffer in order. *)
LEMMA Appended ==
  ASSUME NEW b \in Seq(Packets \cup {Foreign}), NEW p \in Packets \cup {Foreign},
         InOrder(b), p = Foreign \/ \A q \in From(b) : q.id < p.id
  PROVE  /\ Append(b, p) \in Seq(Packets \cup {Foreign}) /\ InOrder(Append(b, p))
         /\ From(Append(b, p)) = From(b) \cup ({p} \ {Foreign})
<1>1. /\ Append(b, p) \in Seq(Packets \cup {Foreign}) /\ Len(Append(b, p)) = Len(b) + 1
      /\ Append(b, p)[Len(b) + 1] = p
      /\ \A i \in 1..Len(b) : Append(b, p)[i] = b[i]
  BY AppendProperties
<1>2. Len(b) \in Nat
  BY LenProperties
<1>. DEFINE c == Append(b, p)
<1>. HIDE DEF c
<1>3. 1..Len(c) = 1..Len(b) \cup {Len(b) + 1}
  BY <1>1, <1>2 DEF c
<1>4. \A i \in 1..Len(b) : c[i] = b[i]
  BY <1>1 DEF c
<1>5. c[Len(b) + 1] = p
  BY <1>1 DEF c
<1>6. {c[i] : i \in 1..Len(c)} = {b[i] : i \in 1..Len(b)} \cup {p}
  <2>1. ASSUME NEW i \in 1..Len(c) PROVE c[i] \in {b[k] : k \in 1..Len(b)} \cup {p}
    BY Zenon, <1>3, <1>4, <1>5
  <2>2. ASSUME NEW i \in 1..Len(b) PROVE b[i] \in {c[k] : k \in 1..Len(c)}
    <3>1. i \in 1..Len(c) /\ b[i] = c[i]
      BY Zenon, <1>3, <1>4
    <3>. QED
      BY Zenon, <3>1
  <2>3. p \in {c[k] : k \in 1..Len(c)}
    BY Zenon, <1>3, <1>5
  <2>. QED
    BY Zenon, <2>1, <2>2, <2>3
<1>7. From(c) = From(b) \cup ({p} \ {Foreign})
  BY <1>6 DEF From
<1>8. InOrder(c)
  <2>1. SUFFICES ASSUME NEW i \in 1..Len(c), NEW j \in 1..Len(c), i < j,
                        c[i] # Foreign, c[j] # Foreign
                 PROVE  c[i].id < c[j].id
    BY DEF InOrder
  <2>2. CASE j \in 1..Len(b)
    <3>1. i \in 1..Len(b)
      BY <1>2, <2>1, <2>2, <1>3
    <3>. QED
      BY <1>4, <2>1, <2>2, <3>1 DEF InOrder
  <2>3. CASE j = Len(b) + 1
    <3>1. i \in 1..Len(b)
      BY <1>2, <2>1, <2>3, <1>3
    <3>2. c[i] \in From(b)
      BY <1>4, <2>1, <3>1 DEF From
    <3>. QED
      BY <1>5, <2>1, <2>3, <3>2
  <2>. QED
    BY <1>3, <2>2, <2>3
<1>. QED
  BY <1>1, <1>7, <1>8 DEF c

(* The head of the buffer has the lowest number. *)
LEMMA Taken ==
  ASSUME NEW b \in Seq(Packets \cup {Foreign}), b # <<>>, InOrder(b)
  PROVE  /\ Tail(b) \in Seq(Packets \cup {Foreign}) /\ InOrder(Tail(b))
         /\ Head(b) \in Packets \cup {Foreign}
         /\ From(b) = From(Tail(b)) \cup ({Head(b)} \ {Foreign})
         /\ Head(b) # Foreign => \A q \in From(Tail(b)) : Head(b).id < q.id
<1>1. /\ Head(b) \in Packets \cup {Foreign} /\ Tail(b) \in Seq(Packets \cup {Foreign})
      /\ Len(Tail(b)) = Len(b) - 1 /\ \A i \in 1..Len(Tail(b)) : Tail(b)[i] = b[i + 1]
      /\ Head(b) = b[1]
  BY HeadTailProperties
<1>2. Len(b) \in Nat /\ Len(b) >= 1
  BY LenProperties, EmptySeq
<1>. DEFINE t == Tail(b)
            h == Head(b)
<1>. HIDE DEF t, h
<1>3. \A i \in 1..Len(t) : i + 1 \in 1..Len(b) /\ t[i] = b[i + 1]
  BY <1>1, <1>2 DEF t
<1>4. \A i \in 1..Len(b) : i = 1 \/ (i - 1 \in 1..Len(t) /\ b[i] = t[i - 1])
  <2>1. TAKE i \in 1..Len(b)
  <2>2. CASE i # 1
    <3>1. i - 1 \in 1..Len(t) /\ (i - 1) + 1 = i
      BY <1>1, <1>2, <2>2 DEF t
    <3>. QED
      BY <1>3, <3>1
  <2>. QED
    BY <2>2
<1>5. b[1] = h /\ 1 \in 1..Len(b)
  BY <1>1, <1>2 DEF h
<1>6. {b[i] : i \in 1..Len(b)} = {t[i] : i \in 1..Len(t)} \cup {h}
  <2>1. \A i \in 1..Len(b) : b[i] = h \/ \E j \in 1..Len(t) : b[i] = t[j]
    BY <1>4, <1>5
  <2>2. \A j \in 1..Len(t) : \E i \in 1..Len(b) : b[i] = t[j]
    BY <1>3
  <2>3. ASSUME NEW x \in {b[i] : i \in 1..Len(b)} PROVE x \in {t[i] : i \in 1..Len(t)} \cup {h}
    BY <2>1
  <2>4. ASSUME NEW x \in {t[i] : i \in 1..Len(t)} \cup {h} PROVE x \in {b[i] : i \in 1..Len(b)}
    BY <2>2, <1>5
  <2>. QED
    BY Zenon, <2>3, <2>4
<1>7. From(b) = From(t) \cup ({h} \ {Foreign})
  BY <1>6 DEF From
<1>8. InOrder(t)
  <2>1. SUFFICES ASSUME NEW i \in 1..Len(t), NEW j \in 1..Len(t), i < j,
                        t[i] # Foreign, t[j] # Foreign
                 PROVE  t[i].id < t[j].id
    BY DEF InOrder
  <2>2. i + 1 \in 1..Len(b) /\ j + 1 \in 1..Len(b) /\ i + 1 < j + 1
    BY <1>3, <2>1
  <2>. QED
    BY <1>3, <2>1, <2>2 DEF InOrder
<1>9. ASSUME h # Foreign, NEW q \in From(t) PROVE h.id < q.id
  <2>1. PICK j \in 1..Len(t) : q = t[j] /\ q # Foreign
    BY <1>9 DEF From
  <2>2. j + 1 \in 1..Len(b) /\ 1 < j + 1 /\ b[j + 1] = q
    BY <1>3, <2>1
  <2>. QED
    BY <1>5, <1>9, <2>1, <2>2 DEF InOrder
<1>. QED
  BY <1>1, <1>7, <1>8, <1>9 DEF t, h

-----------------------------------------------------------------------------
(* Accumulators.                                                            *)

LEMMA ChannelZero == 0 \in Chs
  BY StreamAssumption DEF Chs

LEMMA SamplesInEmpty == Empty \in [Chs -> Seq(Samples)] /\ SamplesIn(Empty) = {}
<1>1. <<>> \in Seq(Samples) /\ Len(<<>>) = 0
  BY EmptySeq
<1>2. Empty \in [Chs -> Seq(Samples)]
  BY <1>1 DEF Empty
<1>3. \A ch \in Chs : {Empty[ch][i] : i \in 1..Len(Empty[ch])} = {}
  <2>1. TAKE ch \in Chs
  <2>2. Len(Empty[ch]) = 0
    BY <1>1 DEF Empty
  <2>3. 1..Len(Empty[ch]) = {}
    BY <2>2
  <2>. QED
    BY Zenon, <2>3
<1>. QED
  BY <1>2, <1>3 DEF SamplesIn

LEMMA SamplesInAre ==
  ASSUME NEW acc \in [Chs -> Seq(Samples)]
  PROVE  /\ SamplesIn(acc) \subseteq Samples
         /\ \A ch \in Chs : \A i \in 1..Len(acc[ch]) : acc[ch][i] \in SamplesIn(acc)
         /\ \A s \in SamplesIn(acc) : \E ch \in Chs : \E i \in 1..Len(acc[ch]) : s = acc[ch][i]
<1>1. \A ch \in Chs : \A i \in 1..Len(acc[ch]) : acc[ch][i] \in Samples
  BY ElementOfSeq
<1>2. ASSUME NEW ch \in Chs, NEW i \in 1..Len(acc[ch]) PROVE acc[ch][i] \in SamplesIn(acc)
  <2>1. acc[ch][i] \in {acc[ch][k] : k \in 1..Len(acc[ch])}
    BY Zenon
  <2>. QED
    BY <2>1 DEF SamplesIn
<1>3. \A s \in SamplesIn(acc) : \E ch \in Chs : \E i \in 1..Len(acc[ch]) : s = acc[ch][i]
  BY Zenon DEF SamplesIn
<1>. QED
  BY <1>1, <1>2, <1>3

(* A packet's sample is appended to its channel. *)
LEMMA AddedIs ==
  ASSUME NEW acc \in [Chs -> Seq(Samples)], NEW p \in Packets
  PROVE  /\ Added(acc, p) \in [Chs -> Seq(Samples)] /\ Sample(p) \in Samples
         /\ SamplesIn(Added(acc, p)) = SamplesIn(acc) \cup {Sample(p)}
         /\ \A ch \in Chs : ch # p.ch => Added(acc, p)[ch] = acc[ch]
         /\ Len(Added(acc, p)[p.ch]) = Len(acc[p.ch]) + 1
         /\ Added(acc, p)[p.ch][Len(acc[p.ch]) + 1] = Sample(p)
         /\ \A i \in 1..Len(acc[p.ch]) : Added(acc, p)[p.ch][i] = acc[p.ch][i]
<1>1. Sample(p) \in Samples /\ p.ch \in Chs
  <2>1. CentreRange \subseteq Nat
    BY BandAssumption DEF CentreRange
  <2>. QED
    BY <2>1 DEF Sample, Samples, Packets
<1>. DEFINE new == Added(acc, p)
<1>2. /\ new[p.ch] = Append(acc[p.ch], Sample(p))
      /\ \A ch \in Chs : ch # p.ch => new[ch] = acc[ch]
      /\ new = [ch \in Chs |-> new[ch]]
  BY <1>1 DEF Added
<1>. HIDE DEF new
<1>3. /\ Append(acc[p.ch], Sample(p)) \in Seq(Samples)
      /\ Len(Append(acc[p.ch], Sample(p))) = Len(acc[p.ch]) + 1
      /\ \A i \in 1..Len(acc[p.ch]) : Append(acc[p.ch], Sample(p))[i] = acc[p.ch][i]
      /\ Append(acc[p.ch], Sample(p))[Len(acc[p.ch]) + 1] = Sample(p)
  BY <1>1, AppendProperties
<1>4. new \in [Chs -> Seq(Samples)]
  <2>1. \A ch \in Chs : new[ch] \in Seq(Samples)
    BY <1>1, <1>2, <1>3
  <2>. QED
    BY <1>2, <2>1
<1>5. Len(acc[p.ch]) \in Nat
  BY <1>1, LenProperties
<1>6. SamplesIn(new) \subseteq SamplesIn(acc) \cup {Sample(p)}
  <2>1. SUFFICES ASSUME NEW s \in SamplesIn(new) PROVE s \in SamplesIn(acc) \cup {Sample(p)}
    OBVIOUS
  <2>9. PICK ch \in Chs : \E i \in 1..Len(new[ch]) : s = new[ch][i]
    BY <1>4, SamplesInAre
  <2>2. PICK i \in 1..Len(new[ch]) : s = new[ch][i]
    BY <2>9
  <2>3. CASE ch # p.ch
    BY <1>2, <2>2, <2>3, SamplesInAre
  <2>4. CASE ch = p.ch
    <3>1. i \in 1..Len(acc[p.ch]) \/ i = Len(acc[p.ch]) + 1
      BY <1>2, <1>3, <1>5, <2>2, <2>4
    <3>2. CASE i \in 1..Len(acc[p.ch])
      <4>1. s = acc[p.ch][i]
        BY <1>2, <1>3, <2>2, <2>4, <3>2
      <4>. QED
        BY <1>1, <3>2, <4>1, SamplesInAre
    <3>3. CASE i = Len(acc[p.ch]) + 1
      BY <1>2, <1>3, <2>2, <2>4, <3>3
    <3>. QED
      BY <3>1, <3>2, <3>3
  <2>. QED
    BY <2>3, <2>4
<1>7. SamplesIn(acc) \subseteq SamplesIn(new)
  <2>1. SUFFICES ASSUME NEW s \in SamplesIn(acc) PROVE s \in SamplesIn(new)
    OBVIOUS
  <2>9. PICK ch \in Chs : \E i \in 1..Len(acc[ch]) : s = acc[ch][i]
    BY SamplesInAre
  <2>2. PICK i \in 1..Len(acc[ch]) : s = acc[ch][i]
    BY <2>9
  <2>3. i \in 1..Len(new[ch]) /\ new[ch][i] = s
    <3>1. CASE ch # p.ch
      BY <1>2, <2>2, <3>1
    <3>2. CASE ch = p.ch
      BY <1>2, <1>3, <1>5, <2>2, <3>2
    <3>. QED
      BY <3>1, <3>2
  <2>. QED
    BY <1>4, <2>3, SamplesInAre
<1>8. Sample(p) \in SamplesIn(new)
  <2>1. Len(acc[p.ch]) + 1 \in 1..Len(new[p.ch]) /\ new[p.ch][Len(acc[p.ch]) + 1] = Sample(p)
    BY <1>2, <1>3, <1>5
  <2>. QED
    BY <1>1, <1>4, <2>1, SamplesInAre, SMTT(30)
<1>9. SamplesIn(new) = SamplesIn(acc) \cup {Sample(p)}
  BY <1>6, <1>7, <1>8
<1>. QED
  BY <1>1, <1>2, <1>3, <1>4, <1>9 DEF new

LEMMA PositionsInAre ==
  ASSUME NEW acc \in [Chs -> Seq(Samples)]
  PROVE  PositionsIn(acc) = {s.pos : s \in SamplesIn(acc)}
<1>1. ASSUME NEW n \in PositionsIn(acc) PROVE \E s \in SamplesIn(acc) : n = s.pos
  <2>1. PICK ch \in Chs : n \in {acc[ch][i].pos : i \in 1..Len(acc[ch])}
    BY DEF PositionsIn
  <2>2. PICK i \in 1..Len(acc[ch]) : n = acc[ch][i].pos
    BY <2>1
  <2>. QED
    BY <2>2, SamplesInAre
<1>2. ASSUME NEW s \in SamplesIn(acc) PROVE s.pos \in PositionsIn(acc)
  <2>9. PICK ch \in Chs : \E i \in 1..Len(acc[ch]) : s = acc[ch][i]
    BY SamplesInAre
  <2>1. PICK i \in 1..Len(acc[ch]) : s = acc[ch][i]
    BY <2>9
  <2>2. s.pos \in {acc[ch][k].pos : k \in 1..Len(acc[ch])}
    BY Zenon, <2>1
  <2>. QED
    BY <2>2 DEF PositionsIn
<1>. QED
  BY <1>1, <1>2

LEMMA OneDwellIs ==
  ASSUME NEW acc \in [Chs -> Seq(Samples)], NEW center
  PROVE  OneDwell(center, acc) <=> OneBand(center, SamplesIn(acc), lostChanges)
<1>. DEFINE S == SamplesIn(acc)
            P == PositionsIn(acc)
            Alone == \A s \in S : (\A q \in P : q <= s.pos) => s.center = center
<1>1. P = {s.pos : s \in S}
  BY PositionsInAre
<1>2. (\A p, q \in P \ {0} : p < q => q \in lostChanges)
        <=> \A s, t \in S : s.pos # 0 /\ s.pos < t.pos => t.pos \in lostChanges
  <2>1. \A s \in S : s.pos \in Nat
    BY SamplesInAre DEF Samples
  <2>. HIDE DEF P, S
  <2>. QED
    BY <1>1, <2>1
<1>3. (\A ch \in Chs : \A i \in 1..Len(acc[ch]) :
         (\A q \in P : q <= acc[ch][i].pos) => acc[ch][i].center = center)
        <=> Alone
  <2>1. /\ \A ch \in Chs : \A i \in 1..Len(acc[ch]) : acc[ch][i] \in S
        /\ \A s \in S : \E ch \in Chs : \E i \in 1..Len(acc[ch]) : s = acc[ch][i]
    BY SamplesInAre
  <2>. HIDE DEF P, S
  <2>. QED
    BY <2>1
<1>4. /\ \A s \in S : (\A q \in P : q <= s.pos) <=> \A t \in S : t.pos <= s.pos
      /\ 0 \notin P <=> \A s \in S : s.pos # 0
  <2>. HIDE DEF P, S
  <2>. QED
    BY <1>1
<1>. HIDE DEF P, S
<1>5. OneBand(center, S, lostChanges)
        <=> /\ \A s, t \in S : s.pos # 0 /\ s.pos < t.pos => t.pos \in lostChanges
            /\ 0 \notin P => Alone
  BY <1>4 DEF OneBand
<1>6. OneDwell(center, acc)
        <=> /\ \A p, q \in P \ {0} : p < q => q \in lostChanges
            /\ 0 \notin P => \A ch \in Chs : \A i \in 1..Len(acc[ch]) :
                 (\A q \in P : q <= acc[ch][i].pos) => acc[ch][i].center = center
  BY DEF OneDwell, P
<1>. HIDE DEF Alone
<1>. QED
  BY <1>2, <1>3, <1>5, <1>6 DEF S

-----------------------------------------------------------------------------
(* The initial states.                                                      *)

LEMMA StartIsSafe == Init => SafetyInv
<1>. SUFFICES ASSUME Init PROVE SafetyInv
  OBVIOUS
<1>. USE DEF Init
<1>1. accum = Empty /\ accum \in [Chs -> Seq(Samples)] /\ Waiting = {}
  BY SamplesInEmpty DEF Waiting
<1>2. Len(<<>>) = 0 /\ 1..Len(<<>>) = {}
  BY EmptySeq
<1>3. InFlight = {}
  <2>1. {network[i] : i \in 1..Len(network)} = {}
    BY Zenon, <1>2
  <2>. QED
    BY <2>1 DEF InFlight, From
<1>4. PerPosition \in Nat \ {0}
  BY SizesAre
<1>5. 0 % PerPosition = 0 /\ 0 * PerPosition = 0
  BY <1>4
<1>6. FlagsOK /\ TimeoutOK /\ PlanOK
  BY DEF FlagsOK, TimeoutOK, PlanOK
<1>7. DataOK
  <2>1. sent \in 0..(Len(plan) * PerPosition)
    BY <1>2, <1>5
  <2>2. resume \in Start..(Stop - 1) /\ 0 \in 0..MaxTasks /\ 0 \in 0..MaxFaults
    BY BandAssumption, StreamAssumption
  <2>3. plan \in Seq(CentreRange) /\ network \in Seq(Packets \cup {Foreign})
    BY EmptySeq
  <2>4. [ch \in Chs |-> 0] \in [Chs -> Nat]
    OBVIOUS
  <2>. QED
    BY <1>1, <2>1, <2>2, <2>3, <2>4 DEF DataOK
<1>8. GridOK
  BY <1>2, <1>3, StartOnGrid DEF GridOK
<1>9. IdsOK
  BY <1>1, <1>2, <1>3 DEF IdsOK, InOrder
<1>10. SamplesConserved
  <2>1. \A ch \in Chs : Len(accum[ch]) = 0 /\ 1..Len(accum[ch]) = {}
    BY <1>2 DEF Empty
  <2>2. \A ch \in Chs : accepted[ch] = 0 /\ returned[ch] = 0
    OBVIOUS
  <2>. QED
    BY <2>1, <2>2 DEF SamplesConserved
<1>11. PositionsOK
  BY <1>1, <1>3 DEF PositionsOK
<1>12. OpenersOK
  BY <1>3, <1>5 DEF OpenersOK
<1>13. MixesOnlyAfterLoss
  <2>1. OneBand(0, SamplesIn(Empty), lostChanges)
    BY SamplesInEmpty DEF OneBand
  <2>2. OneDwell(0, Empty)
    BY <2>1, SamplesInEmpty, OneDwellIs
  <2>3. dwell.center = 0 /\ dwell.samples = Empty
    BY DEF NoDwell
  <2>4. current = 0
    OBVIOUS
  <2>. QED
    BY Zenon, <1>1, <2>2, <2>3, <2>4 DEF MixesOnlyAfterLoss
<1>. QED
  BY <1>6, <1>7, <1>8, <1>9, <1>10, <1>11, <1>12, <1>13 DEF SafetyInv

-----------------------------------------------------------------------------
(* Steps that leave the packets of the controller and the samples alone.    *)

LEMMA QuietStep ==
  ASSUME SafetyInv, InFlight' = InFlight, InOrder(network)',
         UNCHANGED <<resume, accumVars, plan, streamed, sent, base, lostChanges, accepted,
                     returned, lastReturned, late, arrivals>>
  PROVE  (GridOK /\ IdsOK /\ SamplesConserved /\ PositionsOK /\ OpenersOK /\ MixesOnlyAfterLoss)'
<1>. USE DEF accumVars
<1>1. /\ UNCHANGED <<resume, current, accum, dwell, plan, streamed, sent, base>>
      /\ UNCHANGED <<lostChanges, accepted, returned, lastReturned, late, arrivals>>
  BY Zenon
<1>2. Waiting' = Waiting /\ Position' = Position /\ PerPosition' = PerPosition
  BY Zenon, <1>1 DEF Waiting, Position, PerPosition
<1>3. GridOK'
  BY Zenon, <1>1 DEF SafetyInv, GridOK
<1>4. IdsOK'
  BY Zenon, <1>1, <1>2 DEF SafetyInv, IdsOK
<1>5. SamplesConserved'
  BY Zenon, <1>1 DEF SafetyInv, SamplesConserved
<1>6. \A x : Placed(x) => Placed(x)'
  BY Zenon, <1>1, <1>2 DEF Placed
<1>7. PositionsOK'
  BY Zenon, <1>1, <1>2, <1>6 DEF SafetyInv, PositionsOK
<1>8. \A n : Openers(n)' = Openers(n) /\ (Reached(n) => Reached(n)')
  BY Zenon, <1>2 DEF Openers, Reached
<1>9. OpenersOK'
  <2>1. sent % PerPosition # 0 =>
          Position \in lostChanges \/ Openers(Position) # {} \/ Reached(Position)
    BY Zenon DEF SafetyInv, OpenersOK
  <2>2. (sent % PerPosition # 0 =>
          Position \in lostChanges \/ Openers(Position) # {} \/ Reached(Position))'
    BY Zenon, <1>1, <1>2, <1>8, <2>1
  <2>. QED
    BY Zenon, <1>1, <1>2, <1>8, <2>2 DEF SafetyInv, OpenersOK
<1>10. MixesOnlyAfterLoss'
  BY Zenon, <1>1 DEF SafetyInv, MixesOnlyAfterLoss, OneDwell
<1>. QED
  BY <1>3, <1>4, <1>5, <1>7, <1>9, <1>10

-----------------------------------------------------------------------------
(* What a packet of the controller does when next() takes it.               *)

HeadIs(p) == /\ p = Head(network) /\ network # <<>> /\ network' = Tail(network)
             /\ p \in Packets /\ p \in InFlight /\ p.kind \in {"good", "truncated"}
             /\ p.center \in CentreRange /\ p.center \in Nat \ {0} /\ p.id \in Nat /\ p.pos \in Nat
             /\ p.ch \in Chs
             /\ InFlight' \subseteq InFlight /\ InFlight = InFlight' \cup {p}
             /\ \A q \in InFlight' : p.id < q.id
             /\ network' \in Seq(Packets \cup {Foreign}) /\ InOrder(network)'

\* What changes when next() takes packet p, in four cases.
Damaged(p)   == p.kind = "truncated" /\ UNCHANGED <<current, accum, dwell, accepted, returned,
                                                    lastReturned, reported>>
Counted(p)   == p.kind = "good" /\ accepted' = [accepted EXCEPT ![p.ch] = @ + 1]
Begins(p)    == /\ Counted(p) /\ EndsDwell(p) /\ Return(current, accum) /\ current' = p.center
                /\ accum' = Added(Empty, p)
Joins(p)     == /\ Counted(p) /\ ~EndsDwell(p) /\ Len(Added(accum, p)[0]) < DwellSamples
                /\ UNCHANGED <<dwell, returned, lastReturned, reported>>
                /\ current' = p.center /\ accum' = Added(accum, p)
Completes(p) == /\ Counted(p) /\ ~EndsDwell(p) /\ Return(p.center, Added(accum, p))
                /\ current' = 0 /\ accum' = Empty

LEMMA Received ==
  ASSUME SafetyInv, ReceivePacket
  PROVE  \E p \in Packets : /\ HeadIs(p) /\ resume' = Resume(p.center)
                            /\ Damaged(p) \/ Begins(p) \/ Joins(p) \/ Completes(p)
<1>. DEFINE p == Head(network)
<1>1. network \in Seq(Packets \cup {Foreign}) /\ InOrder(network) /\ network # <<>>
      /\ network' = Tail(network) /\ p.kind # "foreign"
  BY DEF SafetyInv, DataOK, IdsOK, ReceivePacket
<1>2. /\ p \in Packets \cup {Foreign} /\ Tail(network) \in Seq(Packets \cup {Foreign})
      /\ InOrder(Tail(network))
      /\ From(network) = From(Tail(network)) \cup ({p} \ {Foreign})
      /\ p # Foreign => \A q \in From(Tail(network)) : p.id < q.id
  BY <1>1, Taken
<1>3. p \in Packets /\ p # Foreign
  BY <1>1, <1>2, ForeignIsNone
<1>4. InOrder(network)' /\ InFlight' = From(Tail(network)) /\ InFlight = From(network)
  BY Zenon, <1>1, <1>2 DEF InFlight, InOrder, From
<1>5. p.kind \in {"good", "truncated"} /\ p.center \in CentreRange /\ p.id \in Nat
      /\ p.pos \in Nat /\ p.ch \in Chs /\ p.center \in Nat \ {0}
  <2>1. CentreRange \subseteq Nat \ {0}
    BY BandAssumption DEF CentreRange
  <2>. QED
    BY <1>3, <2>1 DEF Packets
<1>6. resume' = Resume(p.center)
      /\ \/ /\ p.kind = "truncated" /\ Collect(current, accum) /\ UNCHANGED accepted
         \/ /\ p.kind = "good" /\ accepted' = [accepted EXCEPT ![p.ch] = @ + 1]
            /\ \/ EndsDwell(p) /\ NewPosition(p)
               \/ ~EndsDwell(p) /\ SamePosition(p)
  BY Zenon DEF ReceivePacket
<1>. HIDE DEF p
<1>7. HeadIs(p)
  <2>1. InFlight = InFlight' \cup {p}
    BY Zenon, <1>2, <1>3, <1>4
  <2>2. \A q \in InFlight' : p.id < q.id
    BY Zenon, <1>2, <1>3, <1>4
  <2>3. network' \in Seq(Packets \cup {Foreign})
    BY Zenon, <1>1, <1>2
  <2>. QED
    BY Zenon, <1>1, <1>3, <1>4, <1>5, <2>1, <2>2, <2>3 DEF HeadIs, p
<1>8. Damaged(p) \/ Begins(p) \/ Joins(p) \/ Completes(p)
  <2>1. CASE p.kind = "truncated" /\ Collect(current, accum) /\ UNCHANGED accepted
    BY Zenon, <2>1 DEF Collect, Damaged
  <2>2. CASE p.kind = "good" /\ accepted' = [accepted EXCEPT ![p.ch] = @ + 1]
             /\ EndsDwell(p) /\ NewPosition(p)
    BY Zenon, <2>2 DEF NewPosition, Begins, Counted
  <2>3. CASE p.kind = "good" /\ accepted' = [accepted EXCEPT ![p.ch] = @ + 1]
             /\ ~EndsDwell(p) /\ SamePosition(p)
    BY Zenon, <2>3 DEF SamePosition, Collect, Joins, Completes, Counted
  <2>. QED
    BY Zenon, <1>6, <2>1, <2>2, <2>3
<1>. QED
  BY Zenon, <1>3, <1>6, <1>7, <1>8

-----------------------------------------------------------------------------
(* Flags, plans and timeouts.                                               *)

LEMMA FlagsKept == SafetyInv /\ [Next]_vars => FlagsOK'
<1>. SUFFICES ASSUME SafetyInv, [Next]_vars PROVE FlagsOK'
  OBVIOUS
<1>1. streaming \in BOOLEAN /\ firstTaskPacket \in BOOLEAN /\ sending \in BOOLEAN
      /\ started \in BOOLEAN
  BY DEF SafetyInv, FlagsOK
<1>2. CASE ReceivePacket
  <2>1. firstTaskPacket' = FALSE /\ started' = TRUE /\ streaming' = streaming
        /\ sending' = sending
    BY Zenon, <1>2 DEF ReceivePacket, Collect, NewPosition, SamePosition, Return, controllerVars
  <2>. QED
    BY <1>1, <2>1 DEF FlagsOK
<1>3. CASE ReceiveTimesOut
  <2>1. noData \in Nat
    BY DEF SafetyInv, DataOK
  <2>2. Limit \in Nat
    BY StreamAssumption DEF Limit
  <2>3. (noData + 1 < Limit) \in BOOLEAN
    BY <2>1, <2>2
  <2>4. streaming' \in BOOLEAN
    BY <1>3, <2>3 DEF ReceiveTimesOut
  <2>5. UNCHANGED <<firstTaskPacket, sending, started>>
    BY Zenon, <1>3 DEF ReceiveTimesOut, controllerVars, historyVars
  <2>. QED
    BY <1>1, <2>4, <2>5 DEF FlagsOK
<1>4. CASE ~ReceivePacket /\ ~ReceiveTimesOut
  <2>1. /\ streaming' \in {TRUE, FALSE, streaming}
        /\ sending' \in {TRUE, FALSE, sending} /\ started' \in {TRUE, FALSE, started}
        /\ firstTaskPacket' \in {TRUE, FALSE, firstTaskPacket}
    BY Zenon, <1>4 DEF Next, Open, Abort, ReceiveForeign, Send, LateArrives, StaleArrives,
       Preempt, ForeignArrives, Finished, vars, controllerVars, historyVars, accumVars
  <2>. QED
    BY <1>1, <2>1 DEF FlagsOK
<1>. QED
  BY <1>2, <1>3, <1>4

LEMMA TimeoutKept == SafetyInv /\ [Next]_vars => TimeoutOK'
<1>. SUFFICES ASSUME SafetyInv, [Next]_vars, streaming', started'
              PROVE  ~firstTaskPacket' /\ noData' < StreamTimeout
  BY DEF TimeoutOK
<1>1. streaming /\ started => ~firstTaskPacket /\ noData < StreamTimeout
  BY DEF SafetyInv, TimeoutOK
<1>2. 0 < StreamTimeout
  BY StreamAssumption
<1>3. CASE ReceivePacket
  <2>1. ~firstTaskPacket' /\ noData' = 0
    BY Zenon, <1>3 DEF ReceivePacket, Collect, NewPosition, SamePosition, Return
  <2>. QED
    BY <1>2, <2>1
<1>4. CASE ReceiveForeign
  <2>1. ~firstTaskPacket' /\ noData' = 0
    BY Zenon, <1>4 DEF ReceiveForeign
  <2>. QED
    BY <1>2, <2>1
<1>5. CASE ReceiveTimesOut
  <2>1. streaming /\ started /\ firstTaskPacket' = firstTaskPacket /\ noData' < Limit
    BY Zenon, <1>5 DEF ReceiveTimesOut, historyVars
  <2>2. ~firstTaskPacket
    BY Zenon, <1>1, <2>1
  <2>3. Limit = StreamTimeout
    BY Zenon, <2>2 DEF Limit
  <2>. QED
    BY Zenon, <2>1, <2>2, <2>3
<1>6. ASSUME Open \/ Abort PROVE FALSE
  BY Zenon, <1>6 DEF Open, Abort
<1>7. CASE \/ Send \/ LateArrives \/ StaleArrives \/ Preempt \/ ForeignArrives
           \/ Finished \/ UNCHANGED vars
  <2>1. UNCHANGED <<streaming, started, firstTaskPacket, noData>>
    BY Zenon, <1>7 DEF Send, LateArrives, StaleArrives, Preempt, ForeignArrives, Finished,
       vars, historyVars
  <2>. QED
    BY Zenon, <1>1, <2>1
<1>. QED
  BY Zenon, <1>3, <1>4, <1>5, <1>6, <1>7 DEF Next

LEMMA PlanKept == SafetyInv /\ [Next]_vars => PlanOK'
<1>. SUFFICES ASSUME SafetyInv, [Next]_vars PROVE PlanOK'
  OBVIOUS
<1>1. streaming => \E r \in Start..(Stop - 1) : OnGrid(r) /\ plan = Entries(r)
  BY Zenon DEF SafetyInv, PlanOK
<1>2. CASE Open
  <2>1. resume \in Start..(Stop - 1) /\ OnGrid(resume) /\ plan' = Entries(resume)
    BY <1>2 DEF SafetyInv, DataOK, GridOK, Open
  <2>. QED
    BY Zenon, <2>1 DEF PlanOK
<1>3. CASE ~Open
  <2>1. plan' = plan /\ (streaming' => streaming)
    <3>1. CASE ReceiveTimesOut \/ Abort
      BY Zenon, <3>1 DEF ReceiveTimesOut, Abort, controllerVars
    <3>2. CASE ReceivePacket
      BY Zenon, <3>2 DEF ReceivePacket, controllerVars
    <3>3. CASE ReceiveForeign \/ ForeignArrives
      BY Zenon, <3>3 DEF ReceiveForeign, ForeignArrives, controllerVars
    <3>4. CASE Send \/ Preempt
      BY <3>4 DEF Send, Preempt
    <3>5. CASE Finished \/ UNCHANGED vars
      BY <3>5 DEF Finished, vars, controllerVars
    <3>6. CASE LateArrives \/ StaleArrives
      BY <3>6 DEF LateArrives, StaleArrives, controllerVars
    <3>. QED
      BY Zenon, <1>3, <3>1, <3>2, <3>3, <3>4, <3>5, <3>6 DEF Next
  <2>. QED
    BY Zenon, <1>1, <2>1 DEF PlanOK
<1>. QED
  BY Zenon, <1>2, <1>3

-----------------------------------------------------------------------------
(* A task begins.                                                           *)

LEMMA OpenKeeps ==
  ASSUME SafetyInv, Open
  PROVE  (DataOK /\ GridOK /\ IdsOK /\ SamplesConserved /\ PositionsOK /\ OpenersOK
          /\ MixesOnlyAfterLoss)'
<1>1. DataOK /\ GridOK /\ IdsOK /\ SamplesConserved /\ PositionsOK /\ OpenersOK
      /\ MixesOnlyAfterLoss
  BY Zenon DEF SafetyInv
<1>2. /\ plan' = Entries(resume) /\ base' = base + Len(plan) /\ tasks < MaxTasks
      /\ tasks' = tasks + 1 /\ streamed' \in StreamLengths /\ sent' = 0 /\ noData' = 0
      /\ current' = 0 /\ accum' = Empty /\ accepted' = returned
      /\ network' \in {<<>>, network}
      /\ UNCHANGED <<resume, dwell, late, arrivals, faults, lostChanges, returned, lastReturned>>
  BY DEF Open
<1>3. PerPosition' \in Nat \ {0}
  <2>1. Channels \in Nat \ {0} /\ streamed' \in Nat \ {0}
    BY <1>2, StreamAssumption
  <2>2. Channels * streamed' \in Nat \ {0}
    BY <2>1, Products
  <2>. QED
    BY <2>2 DEF PerPosition
<1>4. /\ base \in Nat /\ sent \in Nat /\ Len(plan) \in Nat /\ arrivals \in Nat
      /\ Position \in Nat /\ PerPosition \in Nat \ {0} /\ sent <= Len(plan) * PerPosition
  BY <1>1, DataFacts
<1>5. /\ plan' \in Seq(CentreRange) /\ \A i \in 1..Len(plan') : OnGrid(plan'[i])
  <2>1. resume \in Start..(Stop - 1) /\ OnGrid(resume)
    BY <1>1 DEF DataOK, GridOK
  <2>. QED
    BY <1>2, <2>1, EntriesAre
<1>6. accum' \in [Chs -> Seq(Samples)] /\ Waiting' = {}
  BY <1>2, SamplesInEmpty DEF Waiting
<1>7. network' \in Seq(Packets \cup {Foreign}) /\ InOrder(network)' /\ InFlight' \subseteq InFlight
  <2>1. CASE network' = network
    BY Zenon, <1>1, <2>1 DEF InFlight, InOrder, IdsOK, DataOK
  <2>2. CASE network' = <<>>
    <3>1. network' \in Seq(Packets \cup {Foreign}) /\ 1..Len(network') = {}
      BY <2>2, EmptySeq
    <3>2. {network'[i] : i \in 1..Len(network')} = {}
      BY Zenon, <3>1
    <3>. QED
      BY Zenon, <3>1, <3>2 DEF InFlight, From, InOrder
  <2>. QED
    BY Zenon, <1>2, <2>1, <2>2
<1>8. DataOK'
  <2>1. sent' \in 0..(Len(plan') * PerPosition')
    <3>1. Len(plan') * PerPosition' \in Nat
      BY <1>3, <1>5, LenProperties, Products
    <3>. QED
      BY <1>2, <3>1
  <2>2. tasks' \in 0..MaxTasks
    <3>1. tasks \in 0..MaxTasks /\ tasks' = tasks + 1 /\ tasks < MaxTasks
      BY <1>1, <1>2, Zenon DEF DataOK
    <3>2. MaxTasks \in Nat
      BY StreamAssumption
    <3>. QED
      BY <3>1, <3>2
  <2>3. base' \in Nat
    BY <1>2, <1>4
  <2>. QED
    BY <1>1, <1>2, <1>5, <1>6, <1>7, <2>1, <2>2, <2>3 DEF DataOK
<1>9. GridOK'
  BY <1>1, <1>2, <1>5, <1>7 DEF GridOK
<1>11. IdsOK'
  BY Zenon, <1>1, <1>2, <1>6, <1>7 DEF IdsOK
<1>12. SamplesConserved'
  <2>1. \A ch \in Chs : Len(accum'[ch]) = 0 /\ 1..Len(accum'[ch]) = {}
    BY <1>2, EmptySeq DEF Empty
  <2>2. \A ch \in Chs : accepted'[ch] = returned'[ch] /\ returned'[ch] \in Nat
    BY <1>1, <1>2 DEF DataOK
  <2>. QED
    BY <2>1, <2>2 DEF SamplesConserved
<1>13. PositionsOK'
  <2>1. \A p \in InFlight : p.pos \in Nat /\ p.pos <= base'
    BY <1>1, <1>2, InFlightAre DEF PositionsOK, Placed
  <2>2. Position' = base' + 1
    <3>1. 0 \div PerPosition' = 0
      BY <1>3, DivZero
    <3>. QED
      BY <1>2, <1>4, <3>1 DEF Position
  <2>3. Len(plan') \in Nat
    BY <1>5, LenProperties
  <2>4. \A p \in InFlight' : Placed(p)'
    <3>1. base' \in Nat /\ Len(plan') \in Nat
      BY <1>2, <1>4, <2>3
    <3>2. \A p \in InFlight' : p.pos \in Nat /\ p.pos <= base'
      BY <1>7, <2>1, Zenon
    <3>3. \A p \in InFlight' : p.pos <= base' + 1 /\ p.pos <= base' + Len(plan')
                              /\ ~(p.pos > base')
      BY <3>1, <3>2
    <3>. QED
      BY <2>2, <3>3, Zenon DEF Placed
  <2>5. \A p \in InFlight', q \in InFlight' : q.id <= p.id => Follows(q, p)
    BY Zenon, <1>1, <1>7 DEF PositionsOK
  <2>. QED
    BY Zenon, <1>6, <2>4, <2>5 DEF PositionsOK
<1>14. OpenersOK'
  <2>1. 0 % PerPosition' = 0
    BY <1>3, DivZero
  <2>2. CASE network' = network
    <3>1. InFlight' = InFlight
      BY <2>2 DEF InFlight
    <3>2. \A n : Openers(n)' = Openers(n) /\ (Reached(n) => Reached(n)')
      BY Zenon, <1>6, <3>1 DEF Openers, Reached
    <3>. QED
      BY Zenon, <1>1, <1>2, <2>1, <3>1, <3>2 DEF OpenersOK
  <2>3. CASE network' = <<>>
    <3>1. 1..Len(network') = {}
      BY <2>3, EmptySeq
    <3>2. {network'[i] : i \in 1..Len(network')} = {}
      BY Zenon, <3>1
    <3>3. InFlight' = {}
      BY Zenon, <3>2 DEF InFlight, From
    <3>. QED
      BY Zenon, <1>2, <2>1, <3>3 DEF OpenersOK
  <2>. QED
    BY Zenon, <1>2, <2>2, <2>3
<1>15. MixesOnlyAfterLoss'
  <2>1. OneBand(0, {}, lostChanges)
    BY DEF OneBand
  <2>2. OneDwell(0, Empty)
    BY <2>1, SamplesInEmpty, OneDwellIs
  <2>3. OneDwell(0, Empty)' /\ OneDwell(dwell.center, dwell.samples)'
    BY Zenon, <1>1, <1>2, <2>2 DEF OneDwell, MixesOnlyAfterLoss
  <2>4. OneDwell(current, accum)'
    BY Zenon, <1>2, <2>3
  <2>. QED
    BY Zenon, <2>3, <2>4 DEF MixesOnlyAfterLoss
<1>. QED
  BY <1>8, <1>9, <1>11, <1>12, <1>13, <1>14, <1>15

-----------------------------------------------------------------------------
(* The controller sends a packet.                                           *)

(* A packet of the controller enters the buffer as the newest. *)
LEMMA Delivered ==
  ASSUME DataOK, IdsOK, NEW p \in Packets, network' = Append(network, Numbered(p, arrivals + 1))
  PROVE  /\ network' \in Seq(Packets \cup {Foreign}) /\ InOrder(network)'
         /\ InFlight' = InFlight \cup {Numbered(p, arrivals + 1)}
<1>1. network \in Seq(Packets \cup {Foreign}) /\ InOrder(network) /\ InFlight = From(network)
  BY DEF DataOK, IdsOK, InFlight
<1>2. arrivals \in Nat /\ \A q \in From(network) : q.id \in Nat /\ q.id <= arrivals
  BY <1>1, DataFacts, InFlightAre DEF IdsOK
<1>. DEFINE x == Numbered(p, arrivals + 1)
<1>3. x \in Packets /\ x.id = arrivals + 1
  BY <1>2, NumberedIs
<1>. HIDE DEF x
<1>4. x # Foreign /\ \A q \in From(network) : q.id < x.id
  BY <1>2, <1>3 DEF Packets, Foreign
<1>5. /\ Append(network, x) \in Seq(Packets \cup {Foreign}) /\ InOrder(Append(network, x))
      /\ From(Append(network, x)) = From(network) \cup ({x} \ {Foreign})
  BY <1>1, <1>3, <1>4, Appended
<1>6. network' = Append(network, x)
  BY DEF x
<1>. QED
  BY Zenon, <1>1, <1>4, <1>5, <1>6 DEF InFlight, InOrder, x

(* Whether it arrives, is damaged or held up: x is the packet as it would arrive next. *)
LEMMA SentIs ==
  ASSUME SafetyInv, Send
  PROVE  /\ sent' = sent + 1 /\ sent < Len(plan) * PerPosition
         /\ UNCHANGED <<streaming, resume, accumVars, noData, plan, streamed, base, tasks,
                        accepted, returned, lastReturned>>
         /\ faults' \in 0..MaxFaults /\ network' \in Seq(Packets \cup {Foreign})
         /\ InOrder(network)' /\ InFlight \subseteq InFlight' /\ lostChanges \subseteq lostChanges'
         /\ late' \subseteq Packets
         /\ \A q \in late' : q.pos = 0 /\ (q \in late \/ q.center = plan[Position - base])
         /\ \E x \in Packets :
              /\ x.id = arrivals + 1 /\ x.pos = Position /\ x.center = plan[Position - base]
              /\ Position <= base + Len(plan) /\ InFlight' \subseteq InFlight \cup {x}
              /\ x.change <=> sent % PerPosition = 0
              /\ \/ arrivals' = arrivals + 1
                 \/ arrivals' = arrivals /\ InFlight' = InFlight
              /\ \/ x.kind = "good" /\ x \in InFlight'
                 \/ x.change => Position \in lostChanges'
<1>1. DataOK /\ IdsOK
  BY Zenon DEF SafetyInv
<1>2. /\ sent' = sent + 1 /\ sent < Len(plan) * PerPosition
      /\ UNCHANGED <<streaming, resume, accumVars, noData, plan, streamed, base, tasks,
                     accepted, returned, lastReturned>>
  BY DEF Send
<1>. DEFINE p == Packet(sent)
            d == [p EXCEPT !.kind = "truncated"]
            l == [p EXCEPT !.pos = 0, !.id = faults]
            x == Numbered(p, arrivals + 1)
            y == Numbered(d, arrivals + 1)
<1>3. /\ p \in Packets /\ p.kind = "good"
      /\ p.pos = Position /\ Position <= base + Len(plan)
      /\ p.center = plan[Position - base]
      /\ p.change <=> sent % PerPosition = 0
  BY <1>1, <1>2, PacketIs
<1>4. \/ Deliver(p) /\ UNCHANGED <<late, faults, lostChanges>>
      \/ /\ faults < MaxFaults /\ faults' = faults + 1
         /\ \/ Deliver(p) /\ late' = late \cup {l} /\ UNCHANGED lostChanges
            \/ /\ \/ Deliver(d) /\ UNCHANGED late
                  \/ late' = late \cup {l} /\ UNCHANGED <<network, arrivals>>
               /\ lostChanges' = IF p.change THEN lostChanges \cup {p.pos} ELSE lostChanges
  BY Zenon DEF Send, Delayed
<1>5. /\ faults \in 0..MaxFaults /\ arrivals \in Nat /\ network \in Seq(Packets \cup {Foreign})
      /\ InOrder(network) /\ late \subseteq Packets /\ \A q \in late : q.pos = 0
      /\ MaxFaults \in Nat
  BY <1>1, StreamAssumption DEF DataOK, IdsOK
<1>. HIDE DEF p
<1>6. d \in Packets /\ d.kind = "truncated" /\ d.pos = p.pos
      /\ d.center = p.center /\ d.change = p.change
  BY <1>3 DEF Packets
<1>7. l \in Packets /\ l.pos = 0 /\ l.center = p.center
  <2>1. faults \in Nat
    BY <1>5
  <2>. QED
    BY <1>3, <2>1 DEF Packets
<1>. HIDE DEF d, l
<1>8. /\ x \in Packets /\ x.id = arrivals + 1 /\ x.kind = "good" /\ x.pos = p.pos
      /\ x.center = p.center /\ x.change = p.change
      /\ y \in Packets /\ y.id = arrivals + 1 /\ y.pos = p.pos
      /\ y.center = p.center /\ y.change = p.change
  <2>1. PICK n \in Nat : n = arrivals + 1
    BY <1>5
  <2>. QED
    BY <1>3, <1>6, <2>1, NumberedIs
<1>9. Deliver(p) => /\ network' \in Seq(Packets \cup {Foreign}) /\ InOrder(network)'
                    /\ InFlight' = InFlight \cup {x} /\ arrivals' = arrivals + 1
  BY <1>1, <1>3, Delivered DEF Deliver
<1>10. Deliver(d) => /\ network' \in Seq(Packets \cup {Foreign}) /\ InOrder(network)'
                     /\ InFlight' = InFlight \cup {y} /\ arrivals' = arrivals + 1
  BY <1>1, <1>6, Delivered DEF Deliver
<1>. HIDE DEF x, y
<1>11. UNCHANGED network => /\ network' \in Seq(Packets \cup {Foreign}) /\ InOrder(network)'
                            /\ InFlight' = InFlight
  BY Zenon, <1>5 DEF InFlight, InOrder
<1>12. faults' \in 0..MaxFaults /\ lostChanges \subseteq lostChanges'
  BY <1>4, <1>5
<1>13. /\ late' \subseteq Packets
       /\ \A q \in late' : q.pos = 0 /\ (q \in late \/ q.center = plan[Position - base])
  BY <1>3, <1>4, <1>5, <1>7
<1>14. CASE Deliver(p)
  <2>1. x \in InFlight' /\ InFlight' \subseteq InFlight \cup {x} /\ InFlight \subseteq InFlight'
    BY <1>9, <1>14
  <2>. QED
    BY <1>2, <1>3, <1>8, <1>9, <1>12, <1>13, <1>14, <2>1
<1>15. CASE ~Deliver(p) /\ Deliver(d)
  <2>1. y.change => Position \in lostChanges'
    BY <1>3, <1>4, <1>8, <1>15
  <2>2. InFlight' \subseteq InFlight \cup {y} /\ InFlight \subseteq InFlight'
    BY <1>10, <1>15
  <2>. QED
    BY <1>2, <1>3, <1>8, <1>10, <1>12, <1>13, <1>15, <2>1, <2>2
<1>16. CASE ~Deliver(p) /\ ~Deliver(d)
  <2>1. (x.change => Position \in lostChanges') /\ UNCHANGED <<network, arrivals>>
    BY <1>3, <1>4, <1>8, <1>16
  <2>2. InFlight' \subseteq InFlight \cup {x} /\ InFlight \subseteq InFlight'
    BY <1>11, <2>1
  <2>. QED
    BY <1>2, <1>3, <1>8, <1>11, <1>12, <1>13, <2>1, <2>2
<1>. QED
  BY <1>14, <1>15, <1>16

LEMMA SendKeeps ==
  ASSUME SafetyInv, Send
  PROVE  (DataOK /\ GridOK /\ IdsOK /\ SamplesConserved /\ PositionsOK /\ OpenersOK
          /\ MixesOnlyAfterLoss)'
<1>1. DataOK /\ GridOK /\ IdsOK /\ SamplesConserved /\ PositionsOK /\ OpenersOK
      /\ MixesOnlyAfterLoss
  BY Zenon DEF SafetyInv
<1>2. /\ sent' = sent + 1 /\ sent < Len(plan) * PerPosition
      /\ UNCHANGED <<streaming, resume, accumVars, noData, plan, streamed, base, tasks,
                     accepted, returned, lastReturned>>
      /\ faults' \in 0..MaxFaults /\ network' \in Seq(Packets \cup {Foreign})
      /\ InOrder(network)' /\ InFlight \subseteq InFlight' /\ lostChanges \subseteq lostChanges'
      /\ late' \subseteq Packets
      /\ \A q \in late' : q.pos = 0 /\ (q \in late \/ q.center = plan[Position - base])
  BY SentIs
<1>3. PICK x \in Packets :
        /\ x.id = arrivals + 1 /\ x.pos = Position /\ x.center = plan[Position - base]
        /\ Position <= base + Len(plan) /\ InFlight' \subseteq InFlight \cup {x}
        /\ x.change <=> sent % PerPosition = 0
        /\ \/ arrivals' = arrivals + 1
           \/ arrivals' = arrivals /\ InFlight' = InFlight
        /\ \/ x.kind = "good" /\ x \in InFlight'
           \/ x.change => Position \in lostChanges'
  BY SentIs
<1>4. UNCHANGED <<current, accum, dwell>> /\ Waiting' = Waiting /\ PerPosition' = PerPosition
  BY Zenon, <1>2 DEF accumVars, Waiting, PerPosition
<1>5. /\ base \in Nat /\ sent \in Nat /\ Len(plan) \in Nat /\ arrivals \in Nat
      /\ Position \in Nat /\ Position > base /\ PerPosition \in Nat \ {0}
  BY <1>1, DataFacts
<1>6. InFlight \subseteq Packets /\ \A p \in InFlight : p.id \in Nat /\ p.pos \in Nat
  BY <1>1, InFlightAre
<1>7. Waiting \subseteq Samples
  BY <1>1, SamplesInAre DEF Waiting, DataOK
<1>8. arrivals' \in Nat /\ arrivals <= arrivals' /\ \A p \in InFlight' \ InFlight : p = x /\ arrivals' = x.id
  BY <1>3, <1>5
<1>9. Position' >= Position /\ Position' \in Nat /\ (sent' % PerPosition # 0 => Position' = Position)
  <2>1. sent' \in Nat /\ sent <= sent'
    BY <1>2, <1>5
  <2>2. /\ sent \div PerPosition \in Nat /\ sent' \div PerPosition \in Nat
        /\ sent \div PerPosition <= sent' \div PerPosition
    BY <1>5, <2>1, DivMod, DivMonotone
  <2>3. sent' % PerPosition # 0 => sent' \div PerPosition = sent \div PerPosition
    BY <1>2, <1>5, <2>1, DivNext
  <2>4. PICK a \in Nat, b \in Nat : a = sent \div PerPosition /\ b = sent' \div PerPosition
    BY <2>2
  <2>5. Position = base + a + 1 /\ Position' = base + b + 1
    BY <1>2, <1>4, <2>4 DEF Position
  <2>. QED
    BY <1>5, <2>2, <2>3, <2>4, <2>5, SMTT(30)
<1>10. DataOK'
  <2>1. Len(plan) * PerPosition \in Nat
    BY <1>5, Products
  <2>2. sent' \in 0..(Len(plan') * PerPosition')
    BY <1>2, <1>4, <1>5, <2>1
  <2>. QED
    BY <1>1, <1>2, <1>4, <1>8, <2>2 DEF DataOK
<1>11. GridOK'
  <2>1. Position - base \in 1..Len(plan)
    BY <1>3, <1>5
  <2>2. OnGrid(x.center)
    BY <1>1, <1>3, <2>1 DEF GridOK
  <2>. QED
    BY <1>1, <1>2, <1>3, <2>2 DEF GridOK
<1>12. IdsOK'
  <2>1. \A p \in InFlight' : p.id <= arrivals'
    BY <1>1, <1>3, <1>5, <1>6, <1>8 DEF IdsOK
  <2>2. \A s \in Waiting' : s.id <= arrivals' /\ \A p \in InFlight' : s.id < p.id
    BY <1>1, <1>3, <1>4, <1>5, <1>7, <1>8 DEF IdsOK, Samples
  <2>3. \A ch \in Chs : lastReturned'[ch] <= arrivals' /\ \A p \in InFlight' : lastReturned'[ch] < p.id
    <3>1. lastReturned' = lastReturned /\ \A ch \in Chs : lastReturned[ch] \in Nat
      BY <1>1, <1>2 DEF DataOK
    <3>. QED
      BY <1>1, <1>3, <1>5, <1>8, <3>1 DEF IdsOK
  <2>. QED
    BY <1>2, <2>1, <2>2, <2>3 DEF IdsOK
<1>13. SamplesConserved'
  BY Zenon, <1>1, <1>2, <1>4 DEF SamplesConserved
<1>14. PositionsOK'
  <2>1. \A y : y.pos \in Nat /\ Placed(y) => Placed(y)'
    BY <1>2, <1>5, <1>9 DEF Placed
  <2>2. Placed(x)'
    BY <1>2, <1>3, <1>5, <1>9 DEF Placed
  <2>3. \A y : y.pos \in Nat /\ Placed(y) => Follows(y, x)
    BY <1>3, <1>5 DEF Placed, Follows
  <2>4. \A p \in InFlight' : Placed(p)'
    BY <1>1, <1>3, <1>6, <2>1, <2>2 DEF PositionsOK
  <2>5. \A s \in Waiting : s.pos \in Nat
    BY <1>7 DEF Samples
  <2>6. ASSUME NEW p \in InFlight', NEW q \in InFlight', q.id <= p.id PROVE Follows(q, p)
    <3>1. CASE p \in InFlight
      <4>1. q # x
        BY <1>1, <1>3, <1>5, <1>6, <2>6, <3>1 DEF IdsOK
      <4>. QED
        BY <1>1, <1>3, <2>6, <3>1, <4>1 DEF PositionsOK
    <3>2. CASE p = x /\ q \in InFlight
      BY <1>1, <1>6, <2>3, <3>2 DEF PositionsOK
    <3>3. CASE p = x /\ q = x
      BY <1>3, <1>5, <3>3 DEF Follows
    <3>. QED
      BY <1>3, <3>1, <3>2, <3>3
  <2>7. \A s \in Waiting' : Placed(s)' /\ \A p \in InFlight' : Follows(s, p)
    BY <1>1, <1>3, <1>4, <2>1, <2>3, <2>5 DEF PositionsOK
  <2>. QED
    BY Zenon, <1>1, <1>4, <2>4, <2>6, <2>7 DEF PositionsOK
<1>15. OpenersOK'
  <2>1. \A n : Openers(n) \subseteq Openers(n)'
    BY Zenon, <1>2 DEF Openers
  <2>2. ASSUME NEW n \in Nat, n <= Position, Reached(n) PROVE Reached(n)'
    BY <1>3, <1>4, <1>5, <2>2 DEF Reached
  <2>3. sent % PerPosition # 0 =>
          Position \in lostChanges \/ Openers(Position) # {} \/ Reached(Position)
    BY Zenon, <1>1 DEF OpenersOK
  <2>4. ASSUME sent' % PerPosition # 0, NEW n \in Nat, n = Position
        PROVE  n \in lostChanges' \/ Openers(n)' # {} \/ Reached(n)'
    <3>1. CASE sent % PerPosition # 0
      <4>1. n \in lostChanges \/ Openers(n) # {} \/ Reached(n)
        BY Zenon, <2>3, <2>4, <3>1
      <4>2. n <= Position
        BY <2>4
      <4>. QED
        BY <1>2, <2>1, <2>2, <4>1, <4>2
    <3>2. CASE sent % PerPosition = 0
      <4>1. x.change /\ x.pos = n
        BY <1>3, <2>4, <3>2
      <4>2. x.kind = "good" /\ x \in InFlight' => x \in Openers(n)'
        BY Zenon, <1>3, <4>1 DEF Openers
      <4>. QED
        BY <1>3, <2>4, <4>1, <4>2
    <3>. QED
      BY <3>1, <3>2
  <2>5. ASSUME NEW p \in InFlight', p.kind = "good", ~p.change, p.pos # 0
        PROVE  \/ p.pos \in lostChanges' \/ Reached(p.pos)'
               \/ \E q \in Openers(p.pos)' : q.id < p.id
    <3>1. CASE p \in InFlight
      <4>1. p.pos \in Nat /\ p.pos <= Position
        BY <1>1, <1>6, <3>1 DEF PositionsOK, Placed
      <4>2. p.pos \in lostChanges \/ Reached(p.pos) \/ \E q \in Openers(p.pos) : q.id < p.id
        BY Zenon, <1>1, <2>5, <3>1 DEF OpenersOK
      <4>. QED
        BY <1>2, <2>1, <2>2, <4>1, <4>2
    <3>2. CASE p = x
      <4>1. sent % PerPosition # 0
        BY <1>3, <2>5, <3>2
      <4>2. CASE Openers(Position) # {}
        <5>1. PICK q \in Openers(Position) : q \in InFlight
          BY <4>2 DEF Openers
        <5>2. q.id < x.id
          BY <1>1, <1>3, <1>5, <1>6, <5>1 DEF IdsOK
        <5>. QED
          BY <1>3, <2>1, <3>2, <5>1, <5>2
      <4>. QED
        BY <1>2, <1>3, <1>5, <2>2, <2>3, <3>2, <4>1, <4>2
    <3>. QED
      BY <1>3, <3>1, <3>2
  <2>6. (sent % PerPosition # 0 =>
          Position \in lostChanges \/ Openers(Position) # {} \/ Reached(Position))'
    <3>1. SUFFICES ASSUME sent' % PerPosition' # 0
                   PROVE (Position \in lostChanges \/ Openers(Position) # {} \/ Reached(Position))'
      OBVIOUS
    <3>2. Position' = Position /\ sent' % PerPosition # 0
      BY <1>4, <1>9, <3>1
    <3>3. PICK n \in Nat : n = Position
      BY <1>5
    <3>4. n \in lostChanges' \/ Openers(n)' # {} \/ Reached(n)'
      BY Zenon, <2>4, <3>2, <3>3
    <3>. QED
      BY Zenon, <3>2, <3>3, <3>4
  <2>. QED
    BY Zenon, <2>5, <2>6 DEF OpenersOK
<1>16. MixesOnlyAfterLoss'
  BY Zenon, <1>1, <1>2, <1>4 DEF MixesOnlyAfterLoss, OneDwell
<1>. QED
  BY <1>10, <1>11, <1>12, <1>13, <1>14, <1>15, <1>16

-----------------------------------------------------------------------------
(* A packet out of its place arrives.                                       *)

LEMMA StrayIs ==
  ASSUME SafetyInv, LateArrives \/ StaleArrives
  PROVE  /\ UNCHANGED <<resume, accumVars, noData, plan, streamed, sent, base, tasks,
                        lostChanges, accepted, returned, lastReturned>>
         /\ faults' \in 0..MaxFaults /\ late' \subseteq late /\ arrivals' = arrivals + 1
         /\ network' \in Seq(Packets \cup {Foreign}) /\ InOrder(network)'
         /\ \E x \in Packets : /\ x.pos = 0 /\ x.id = arrivals + 1 /\ OnGrid(x.center)
                               /\ InFlight' = InFlight \cup {x}
<1>1. DataOK /\ IdsOK /\ GridOK
  BY Zenon DEF SafetyInv
<1>2. UNCHANGED <<resume, accumVars, noData, plan, streamed, sent, base, tasks,
                  lostChanges, accepted, returned, lastReturned>>
  BY DEF LateArrives, StaleArrives, controllerVars, historyVars
<1>3. faults' \in 0..MaxFaults
  <2>1. faults \in 0..MaxFaults /\ MaxFaults \in Nat
    BY <1>1, StreamAssumption DEF DataOK
  <2>. QED
    BY <2>1 DEF LateArrives, StaleArrives
<1>4. PICK p \in Packets : p.pos = 0 /\ OnGrid(p.center) /\ Deliver(p) /\ late' \subseteq late
  <2>1. CASE LateArrives
    BY <1>1, <2>1 DEF LateArrives, DataOK, GridOK
  <2>2. CASE StaleArrives
    <3>1. PICK center \in Centres, ch \in Chs, change \in BOOLEAN :
            /\ Deliver([kind |-> "good", center |-> center, pos |-> 0, ch |-> ch,
                        change |-> change, id |-> 0])
            /\ late' = late
      BY Zenon, <2>2 DEF StaleArrives
    <3>2. [kind |-> "good", center |-> center, pos |-> 0, ch |-> ch,
           change |-> change, id |-> 0] \in Packets
      BY DEF Packets, Centres, CentreRange
    <3>3. OnGrid(center)
      <4>1. center \in Nat /\ Start \in Nat /\ center - Start \in Nat /\ Half \in Nat \ {0}
            /\ (center - Start) % Half = 0
        BY BandAssumption DEF Centres
      <4>2. PICK a \in Nat : a = center - Start
        BY <4>1
      <4>3. a \div Half \in Nat /\ a = Half * (a \div Half)
        <5>1. a % Half = 0
          BY <4>1, <4>2
        <5>2. a \div Half \in Nat /\ a = Half * (a \div Half) + (a % Half)
          BY <4>1, DivMod
        <5>3. Half * (a \div Half) \in Nat
          BY <4>1, <5>2, Products
        <5>. QED
          BY <5>1, <5>2, <5>3
      <4>4. PICK m \in Nat : m = a \div Half /\ a = Half * m
        BY <4>3
      <4>5. center = Start + m * Half
        BY <4>1, <4>2, <4>4
      <4>. QED
        BY <4>5 DEF OnGrid
    <3>. QED
      BY <3>1, <3>2, <3>3
  <2>. QED
    BY <2>1, <2>2
<1>5. network' = Append(network, Numbered(p, arrivals + 1)) /\ arrivals' = arrivals + 1
  BY <1>4 DEF Deliver
<1>6. /\ network' \in Seq(Packets \cup {Foreign}) /\ InOrder(network)'
      /\ InFlight' = InFlight \cup {Numbered(p, arrivals + 1)}
  BY <1>1, <1>5, Delivered
<1>7. /\ Numbered(p, arrivals + 1) \in Packets /\ Numbered(p, arrivals + 1).pos = 0
      /\ Numbered(p, arrivals + 1).id = arrivals + 1
      /\ OnGrid(Numbered(p, arrivals + 1).center)
  <2>1. PICK n \in Nat : n = arrivals + 1
    BY <1>1, DataFacts
  <2>. QED
    BY <1>4, <2>1, NumberedIs
<1>. QED
  BY <1>2, <1>3, <1>4, <1>5, <1>6, <1>7

LEMMA StrayKeeps ==
  ASSUME SafetyInv, LateArrives \/ StaleArrives
  PROVE  (DataOK /\ GridOK /\ IdsOK /\ SamplesConserved /\ PositionsOK /\ OpenersOK
          /\ MixesOnlyAfterLoss)'
<1>1. DataOK /\ GridOK /\ IdsOK /\ SamplesConserved /\ PositionsOK /\ OpenersOK
      /\ MixesOnlyAfterLoss
  BY Zenon DEF SafetyInv
<1>2. /\ UNCHANGED <<resume, current, accum, dwell, noData, plan, streamed, sent, base, tasks,
                     lostChanges, accepted, returned, lastReturned>>
      /\ faults' \in 0..MaxFaults /\ late' \subseteq late /\ arrivals' = arrivals + 1
      /\ network' \in Seq(Packets \cup {Foreign}) /\ InOrder(network)'
  BY StrayIs DEF accumVars
<1>3. PICK x \in Packets : /\ x.pos = 0 /\ x.id = arrivals + 1 /\ OnGrid(x.center)
                           /\ InFlight' = InFlight \cup {x}
  BY StrayIs
<1>4. Waiting' = Waiting /\ PerPosition' = PerPosition /\ Position' = Position
  BY Zenon, <1>2 DEF Waiting, PerPosition, Position
<1>5. /\ base \in Nat /\ Len(plan) \in Nat /\ arrivals \in Nat /\ Position \in Nat
  BY <1>1, DataFacts
<1>6. \A p \in InFlight : p.id \in Nat /\ p.pos \in Nat
  BY <1>1, InFlightAre
<1>7. Waiting \subseteq Samples
  BY <1>1, SamplesInAre DEF Waiting, DataOK
<1>8. DataOK'
  BY <1>1, <1>2, <1>4, <1>5 DEF DataOK
<1>9. GridOK'
  BY <1>1, <1>2, <1>3 DEF GridOK
<1>10. IdsOK'
  <2>1. \A p \in InFlight' : p.id <= arrivals'
    BY <1>1, <1>2, <1>3, <1>5, <1>6 DEF IdsOK
  <2>2. \A s \in Waiting' : s.id <= arrivals' /\ \A p \in InFlight' : s.id < p.id
    BY <1>1, <1>2, <1>3, <1>4, <1>5, <1>7 DEF IdsOK, Samples
  <2>3. \A ch \in Chs : lastReturned'[ch] <= arrivals' /\ \A p \in InFlight' : lastReturned'[ch] < p.id
    <3>1. \A ch \in Chs : lastReturned[ch] \in Nat
      BY <1>1 DEF DataOK
    <3>. QED
      BY <1>1, <1>2, <1>3, <1>5, <3>1 DEF IdsOK
  <2>. QED
    BY <1>2, <2>1, <2>2, <2>3 DEF IdsOK
<1>11. SamplesConserved'
  BY Zenon, <1>1, <1>2 DEF SamplesConserved
<1>12. PositionsOK'
  <2>1. Placed(x)
    BY <1>3, <1>5 DEF Placed
  <2>2. \A y : (Placed(y)' <=> Placed(y)) /\ Follows(y, x)
    BY Zenon, <1>2, <1>3, <1>4 DEF Placed, Follows
  <2>3. \A p \in InFlight' : Placed(p)'
    BY Zenon, <1>1, <1>3, <2>1, <2>2 DEF PositionsOK
  <2>4. ASSUME NEW p \in InFlight', NEW q \in InFlight', q.id <= p.id PROVE Follows(q, p)
    <3>1. CASE p = x
      BY <2>2, <3>1
    <3>2. CASE p # x
      <4>1. p \in InFlight /\ q # x
        BY <1>1, <1>3, <1>5, <1>6, <2>4, <3>2 DEF IdsOK
      <4>. QED
        BY <1>1, <1>3, <2>4, <4>1 DEF PositionsOK
    <3>. QED
      BY <3>1, <3>2
  <2>5. \A s \in Waiting' : Placed(s)' /\ \A p \in InFlight' : Follows(s, p)
    BY Zenon, <1>1, <1>3, <1>4, <2>2 DEF PositionsOK
  <2>. QED
    BY Zenon, <1>1, <1>2, <1>4, <2>3, <2>4, <2>5 DEF PositionsOK
<1>13. OpenersOK'
  <2>1. \A n : Openers(n) \subseteq Openers(n)'
    BY Zenon, <1>3 DEF Openers
  <2>2. \A n : Reached(n) => Reached(n)'
    BY Zenon, <1>3, <1>4 DEF Reached
  <2>3. sent % PerPosition # 0 =>
          Position \in lostChanges \/ Openers(Position) # {} \/ Reached(Position)
    BY Zenon, <1>1 DEF OpenersOK
  <2>4. (sent % PerPosition # 0 =>
          Position \in lostChanges \/ Openers(Position) # {} \/ Reached(Position))'
    <3>1. SUFFICES ASSUME sent' % PerPosition' # 0
                   PROVE  (Position \in lostChanges \/ Openers(Position) # {} \/ Reached(Position))'
      OBVIOUS
    <3>2. PICK n : n = Position
      OBVIOUS
    <3>3. n \in lostChanges \/ Openers(n) # {} \/ Reached(n)
      BY Zenon, <1>2, <1>4, <2>3, <3>1, <3>2
    <3>4. n \in lostChanges' \/ Openers(n)' # {} \/ Reached(n)'
      BY <1>2, <2>1, <2>2, <3>3
    <3>. QED
      BY Zenon, <1>4, <3>2, <3>4
  <2>5. ASSUME NEW p \in InFlight', p.kind = "good", ~p.change, p.pos # 0
        PROVE  \/ p.pos \in lostChanges' \/ Reached(p.pos)'
               \/ \E q \in Openers(p.pos)' : q.id < p.id
    <3>1. p \in InFlight
      BY <1>3, <2>5
    <3>2. p.pos \in lostChanges \/ Reached(p.pos) \/ \E q \in Openers(p.pos) : q.id < p.id
      BY Zenon, <1>1, <2>5, <3>1 DEF OpenersOK
    <3>. QED
      BY Zenon, <1>2, <2>1, <2>2, <3>2
  <2>. QED
    BY Zenon, <2>4, <2>5 DEF OpenersOK
<1>14. MixesOnlyAfterLoss'
  BY Zenon, <1>1, <1>2 DEF MixesOnlyAfterLoss, OneDwell
<1>. QED
  BY <1>8, <1>9, <1>10, <1>11, <1>12, <1>13, <1>14

-----------------------------------------------------------------------------
(* next() takes a packet of the controller.                                 *)

(* What Return counts: the samples of acc, the last of them last. *)
LEMMA Returned ==
  ASSUME DataOK, NEW center, NEW acc \in [Chs -> Seq(Samples)], Return(center, acc)
  PROVE  /\ returned' \in [Chs -> Nat] /\ lastReturned' \in [Chs -> Nat]
         /\ \A ch \in Chs : returned'[ch] = returned[ch] + Len(acc[ch])
         /\ \A ch \in Chs : \/ lastReturned'[ch] = lastReturned[ch]
                            \/ \E s \in SamplesIn(acc) : lastReturned'[ch] = s.id
<1>1. returned \in [Chs -> Nat] /\ lastReturned \in [Chs -> Nat]
  BY DEF DataOK
<1>2. \A ch \in Chs : Len(acc[ch]) \in Nat
  BY LenProperties
<1>3. /\ returned' = [ch \in Chs |-> returned[ch] + Len(acc[ch])]
      /\ lastReturned' = [ch \in Chs |-> IF acc[ch] = <<>> THEN lastReturned[ch]
                                         ELSE acc[ch][Len(acc[ch])].id]
  BY DEF Return
<1>4. ASSUME NEW ch \in Chs, acc[ch] # <<>>
      PROVE  \E s \in SamplesIn(acc) : acc[ch][Len(acc[ch])].id = s.id
  <2>1. acc[ch] \in Seq(Samples)
    OBVIOUS
  <2>2. Len(acc[ch]) # 0
    BY <1>4, <2>1, EmptySeq
  <2>3. Len(acc[ch]) \in 1..Len(acc[ch])
    BY <1>2, <2>2
  <2>. QED
    BY <2>3, SamplesInAre
<1>5. \A s \in SamplesIn(acc) : s.id \in Nat
  BY SamplesInAre DEF Samples
<1>6. \A ch \in Chs : \/ lastReturned'[ch] = lastReturned[ch]
                      \/ \E s \in SamplesIn(acc) : lastReturned'[ch] = s.id
  <2>1. TAKE ch \in Chs
  <2>2. CASE acc[ch] = <<>>
    BY <1>3, <2>2
  <2>3. CASE acc[ch] # <<>>
    <3>1. lastReturned'[ch] = acc[ch][Len(acc[ch])].id
      BY <1>3, <2>3
    <3>. QED
      BY <1>4, <2>3, <3>1
  <2>. QED
    BY <2>2, <2>3
<1>7. returned' \in [Chs -> Nat] /\ \A ch \in Chs : returned'[ch] = returned[ch] + Len(acc[ch])
  BY <1>1, <1>2, <1>3
<1>8. \A ch \in Chs : lastReturned'[ch] \in Nat
  BY <1>1, <1>5, <1>6
<1>9. lastReturned' \in [Chs -> Nat]
  BY <1>3, <1>8
<1>. QED
  BY <1>6, <1>7, <1>9

(* Only its sample joins those that wait, and none waits when it begins a dwell. *)
LEMMA WaitingIs ==
  ASSUME SafetyInv, ReceivePacket, NEW p \in Packets, HeadIs(p),
         \/ p.kind = "truncated" /\ UNCHANGED <<current, accum>>
         \/ /\ p.kind = "good"
            /\ \/ EndsDwell(p) /\ current' = p.center /\ accum' = Added(Empty, p)
               \/ ~EndsDwell(p) /\ current' = p.center /\ accum' = Added(accum, p)
               \/ ~EndsDwell(p) /\ current' = 0 /\ accum' = Empty
  PROVE  /\ accum' \in [Chs -> Seq(Samples)] /\ current' \in Nat
         /\ Waiting' \subseteq Waiting \cup {Sample(p)}
         /\ p.kind = "good" /\ p.change => Waiting' \subseteq {Sample(p)}
         /\ current' = 0 => Waiting' = {}
<1>1. accum \in [Chs -> Seq(Samples)] /\ current \in Nat /\ (current = 0 => Waiting = {})
  BY DEF SafetyInv, DataOK, PositionsOK
<1>2. p.center \in Nat \ {0}
  BY DEF HeadIs
<1>3. CASE p.kind = "truncated" /\ UNCHANGED <<current, accum>>
  BY <1>1, <1>3 DEF Waiting
<1>4. CASE p.kind = "good" /\ EndsDwell(p) /\ current' = p.center /\ accum' = Added(Empty, p)
  <2>1. accum' \in [Chs -> Seq(Samples)] /\ SamplesIn(accum') = {Sample(p)}
    BY <1>4, SamplesInEmpty, AddedIs
  <2>2. Waiting' = {Sample(p)}
    BY <2>1 DEF Waiting
  <2>. QED
    BY <1>2, <1>4, <2>1, <2>2
<1>5. CASE p.kind = "good" /\ ~EndsDwell(p) /\ current' = p.center /\ accum' = Added(accum, p)
  <2>1. accum' \in [Chs -> Seq(Samples)] /\ SamplesIn(accum') = SamplesIn(accum) \cup {Sample(p)}
    BY <1>1, <1>5, AddedIs
  <2>2. Waiting' = Waiting \cup {Sample(p)}
    BY <2>1 DEF Waiting
  <2>3. p.change => Waiting = {}
    BY <1>1, <1>5, SamplesInEmpty DEF EndsDwell, Waiting
  <2>. QED
    BY <1>2, <1>5, <2>1, <2>2, <2>3
<1>6. CASE p.kind = "good" /\ ~EndsDwell(p) /\ current' = 0 /\ accum' = Empty
  <2>1. accum' \in [Chs -> Seq(Samples)] /\ Waiting' = {}
    BY <1>6, SamplesInEmpty DEF Waiting
  <2>. QED
    BY <1>6, <2>1
<1>. QED
  BY <1>3, <1>4, <1>5, <1>6

LEMMA ReceiveFrame ==
  ASSUME SafetyInv, ReceivePacket
  PROVE  /\ UNCHANGED <<streaming, plan, streamed, sent, base, sending, tasks, faults, lostChanges,
                        late, arrivals>>
         /\ noData' = 0
         /\ Position' = Position /\ PerPosition' = PerPosition
         /\ \E p \in Packets : /\ HeadIs(p) /\ resume' = Resume(p.center)
                               /\ Damaged(p) \/ Begins(p) \/ Joins(p) \/ Completes(p)
<1>1. /\ UNCHANGED <<streaming, plan, streamed, sent, base, sending, tasks, faults, lostChanges,
                     late, arrivals>>
      /\ noData' = 0
  BY Zenon DEF ReceivePacket, controllerVars
<1>2. Position' = Position /\ PerPosition' = PerPosition
  BY Zenon, <1>1 DEF Position, PerPosition
<1>. QED
  BY Zenon, <1>1, <1>2, Received

LEMMA ReceiveKeepsData ==
  ASSUME SafetyInv, ReceivePacket, NEW p \in Packets, HeadIs(p), resume' = Resume(p.center),
         Damaged(p) \/ Begins(p) \/ Joins(p) \/ Completes(p)
  PROVE  (DataOK /\ GridOK /\ IdsOK /\ SamplesConserved)'
<1>1. DataOK /\ GridOK /\ IdsOK /\ SamplesConserved
  BY Zenon DEF SafetyInv
<1>2. /\ UNCHANGED <<streaming, plan, streamed, sent, base, sending, tasks, faults, lostChanges,
                     late, arrivals>>
      /\ noData' = 0
      /\ Position' = Position /\ PerPosition' = PerPosition
  BY ReceiveFrame
<1>3. /\ accum' \in [Chs -> Seq(Samples)] /\ current' \in Nat
      /\ Waiting' \subseteq Waiting \cup {Sample(p)}
  BY WaitingIs DEF Damaged, Counted, Begins, Joins, Completes
<1>4. /\ InFlight' \subseteq InFlight /\ p \in InFlight /\ \A q \in InFlight' : p.id < q.id
      /\ network' \in Seq(Packets \cup {Foreign}) /\ InOrder(network)'
      /\ p.center \in CentreRange /\ p.ch \in Chs /\ p.id \in Nat
  BY Zenon DEF HeadIs
<1>5. /\ accum \in [Chs -> Seq(Samples)] /\ returned \in [Chs -> Nat]
      /\ accepted \in [Chs -> Nat] /\ lastReturned \in [Chs -> Nat]
  BY <1>1 DEF DataOK
<1>6. \A ch \in Chs : Len(accum[ch]) \in Nat
  BY <1>5, LenProperties
<1>7. Added(accum, p) \in [Chs -> Seq(Samples)] /\ Added(Empty, p) \in [Chs -> Seq(Samples)]
      /\ SamplesIn(Added(accum, p)) = Waiting \cup {Sample(p)}
  BY <1>5, AddedIs, SamplesInEmpty DEF Waiting
<1>8. /\ returned' \in [Chs -> Nat] /\ lastReturned' \in [Chs -> Nat]
      /\ \A ch \in Chs : \/ lastReturned'[ch] = lastReturned[ch]
                         \/ \E s \in Waiting \cup {Sample(p)} : lastReturned'[ch] = s.id
  <2>1. CASE Damaged(p) \/ Joins(p)
    BY <1>5, <2>1 DEF Damaged, Joins
  <2>2. CASE Begins(p)
    <3>1. Return(current, accum) /\ SamplesIn(accum) = Waiting
      BY <2>2 DEF Begins, Waiting
    <3>. QED
      BY <1>1, <1>5, <3>1, Returned
  <2>3. CASE Completes(p)
    <3>1. Return(p.center, Added(accum, p))
      BY <2>3 DEF Completes
    <3>. QED
      BY <1>1, <1>7, <3>1, Returned
  <2>. QED
    BY <2>1, <2>2, <2>3
<1>9. accepted' \in [Chs -> Nat]
  <2>1. accepted' = accepted \/ accepted' = [accepted EXCEPT ![p.ch] = @ + 1]
    BY Zenon DEF Damaged, Counted, Begins, Joins, Completes
  <2>2. p.ch \in Chs /\ accepted[p.ch] + 1 \in Nat
    BY <1>4, <1>5
  <2>3. [accepted EXCEPT ![p.ch] = @ + 1] \in [Chs -> Nat]
    BY <1>5, <2>2
  <2>. QED
    BY <1>5, <2>1, <2>3, Zenon
<1>10. resume' \in Start..(Stop - 1) /\ OnGrid(resume')
  <2>1. OnGrid(p.center)
    BY <1>1, <1>4 DEF GridOK
  <2>. QED
    BY <1>4, <2>1, ResumeIs
<1>11. DataOK'
  BY <1>1, <1>2, <1>3, <1>4, <1>8, <1>9, <1>10 DEF DataOK
<1>12. GridOK'
  BY <1>1, <1>2, <1>4, <1>10 DEF GridOK
<1>13. Sample(p).id = p.id
  BY DEF Sample
<1>14. \A s \in Waiting \cup {Sample(p)} : s.id \in Nat /\ s.id <= arrivals
                                           /\ \A q \in InFlight' : s.id < q.id
  <2>1. Waiting \subseteq Samples
    BY <1>5, SamplesInAre DEF Waiting
  <2>. QED
    BY <1>1, <1>4, <1>13, <2>1 DEF IdsOK, Samples
<1>15. IdsOK'
  <2>1. \A q \in InFlight' : q.id <= arrivals'
    BY <1>1, <1>2, <1>4 DEF IdsOK
  <2>2. \A s \in Waiting' : s.id <= arrivals' /\ \A q \in InFlight' : s.id < q.id
    BY <1>2, <1>3, <1>14
  <2>3. \A ch \in Chs : lastReturned'[ch] <= arrivals' /\ \A q \in InFlight' : lastReturned'[ch] < q.id
    BY <1>1, <1>2, <1>4, <1>8, <1>14 DEF IdsOK
  <2>. QED
    BY <1>4, <2>1, <2>2, <2>3 DEF IdsOK
<1>16. \A ch \in Chs : lastReturned[ch] < p.id /\ \A s \in Waiting : s.id < p.id
  BY <1>1, <1>4 DEF IdsOK
<1>17. ASSUME NEW ch \in Chs
       PROVE  /\ accepted'[ch] = returned'[ch] + Len(accum'[ch])
              /\ \A i \in 1..Len(accum'[ch]) :
                   accum'[ch][i].id > (IF i = 1 THEN lastReturned'[ch] ELSE accum'[ch][i - 1].id)
  <2>1. /\ accepted[ch] = returned[ch] + Len(accum[ch])
        /\ \A i \in 1..Len(accum[ch]) :
             accum[ch][i].id > (IF i = 1 THEN lastReturned[ch] ELSE accum[ch][i - 1].id)
    BY <1>1, <1>17 DEF SamplesConserved
  <2>2. CASE Damaged(p)
    BY <2>1, <2>2 DEF Damaged
  <2>3. Len(Empty[ch]) = 0 /\ 1..Len(Empty[ch]) = {}
    BY EmptySeq DEF Empty
  <2>4. /\ Counted(p) => accepted'[ch] = accepted[ch] + (IF ch = p.ch THEN 1 ELSE 0)
        /\ accepted[ch] \in Nat /\ returned[ch] \in Nat /\ Len(accum[ch]) \in Nat
    BY <1>4, <1>5, <1>6, SMTT(30) DEF Counted
  <2>5. CASE Begins(p)
    <3>1. Return(current, accum) /\ accum' = Added(Empty, p)
      BY <2>5 DEF Begins
    <3>2. returned'[ch] = returned[ch] + Len(accum[ch])
      BY <1>1, <1>5, <3>1, Returned
    <3>3. lastReturned'[ch] < p.id
      <4>1. \/ lastReturned'[ch] = lastReturned[ch]
            \/ \E s \in Waiting : lastReturned'[ch] = s.id
        BY <1>1, <1>5, <3>1, Returned DEF Waiting
      <4>. QED
        BY <1>16, <4>1
    <3>4. /\ ch # p.ch => accum'[ch] = Empty[ch]
          /\ ch = p.ch => Len(accum'[ch]) = 1 /\ accum'[ch][1] = Sample(p)
      <4>1. Empty \in [Chs -> Seq(Samples)]
        BY SamplesInEmpty
      <4>2. /\ \A c \in Chs : c # p.ch => accum'[c] = Empty[c]
            /\ Len(accum'[p.ch]) = Len(Empty[p.ch]) + 1
            /\ accum'[p.ch][Len(Empty[p.ch]) + 1] = Sample(p)
        BY <3>1, <4>1, AddedIs
      <4>3. CASE ch = p.ch
        <5>1. Len(Empty[p.ch]) + 1 = 1
          BY <2>3, <4>3
        <5>. QED
          BY <4>2, <4>3, <5>1
      <4>. QED
        BY <4>2, <4>3
    <3>5. Counted(p)
      BY <2>5 DEF Begins
    <3>6. CASE ch # p.ch
      BY <2>1, <2>3, <2>4, <3>2, <3>4, <3>5, <3>6
    <3>7. CASE ch = p.ch
      <4>1. Len(accum'[ch]) = 1 /\ accum'[ch][1].id = p.id
        BY <1>13, <3>4, <3>7
      <4>. QED
        BY <1>4, <1>8, <2>1, <2>4, <3>2, <3>3, <3>5, <3>7, <4>1
    <3>. QED
      BY <3>6, <3>7
  <2>6. CASE Joins(p)
    <3>1. accum' = Added(accum, p) /\ returned' = returned /\ lastReturned' = lastReturned
          /\ Counted(p)
      BY <2>6 DEF Joins
    <3>2. CASE ch # p.ch
      <4>1. accum'[ch] = accum[ch]
        BY <1>5, <3>1, <3>2, AddedIs
      <4>. QED
        BY <2>1, <2>4, <3>1, <3>2, <4>1
    <3>3. CASE ch = p.ch
      <4>1. /\ Len(accum'[ch]) = Len(accum[ch]) + 1
            /\ accum'[ch][Len(accum[ch]) + 1] = Sample(p)
            /\ \A i \in 1..Len(accum[ch]) : accum'[ch][i] = accum[ch][i]
        BY <1>5, <3>1, <3>3, AddedIs
      <4>2. ASSUME NEW i \in 1..Len(accum'[ch])
            PROVE  accum'[ch][i].id > (IF i = 1 THEN lastReturned'[ch] ELSE accum'[ch][i - 1].id)
        <5>1. CASE i \in 1..Len(accum[ch])
          <6>1. i # 1 => i - 1 \in 1..Len(accum[ch])
            BY <2>4, <5>1
          <6>. QED
            BY <2>1, <3>1, <4>1, <5>1, <6>1
        <5>2. CASE i = Len(accum[ch]) + 1
          <6>1. accum'[ch][i].id = p.id
            BY <1>13, <4>1, <5>2
          <6>2. CASE i = 1
            BY <1>5, <1>4, <1>16, <3>1, <6>1, <6>2
          <6>3. CASE i # 1
            <7>1. i - 1 \in 1..Len(accum[ch])
              BY <2>4, <5>2, <6>3
            <7>2. accum'[ch][i - 1] \in Waiting
              BY <1>5, <4>1, <7>1, SamplesInAre DEF Waiting
            <7>3. accum'[ch][i - 1].id \in Nat /\ accum'[ch][i - 1].id < p.id
              BY <1>14, <1>16, <7>2
            <7>. QED
              BY <1>4, <6>1, <6>3, <7>3
          <6>. QED
            BY <6>2, <6>3
        <5>. QED
          BY <2>4, <4>1, <5>1, <5>2
      <4>3. accepted'[ch] = returned'[ch] + Len(accum'[ch])
        <5>1. accepted'[ch] = accepted[ch] + 1 /\ returned'[ch] = returned[ch]
          BY <2>4, <3>1, <3>3
        <5>. QED
          BY <2>1, <2>4, <4>1, <5>1
      <4>. QED
        BY <4>2, <4>3
    <3>. QED
      BY <3>2, <3>3
  <2>7. CASE Completes(p)
    <3>1. Return(p.center, Added(accum, p)) /\ accum' = Empty /\ Counted(p)
      BY <2>7 DEF Completes
    <3>2. returned'[ch] = returned[ch] + Len(Added(accum, p)[ch])
      BY <1>1, <1>7, <3>1, Returned
    <3>3. Len(Added(accum, p)[ch]) = Len(accum[ch]) + (IF ch = p.ch THEN 1 ELSE 0)
      <4>1. /\ \A c \in Chs : c # p.ch => Added(accum, p)[c] = accum[c]
            /\ Len(Added(accum, p)[p.ch]) = Len(accum[p.ch]) + 1
        BY <1>5, AddedIs
      <4>2. CASE ch = p.ch
        BY <4>1, <4>2
      <4>3. CASE ch # p.ch
        BY <2>4, <4>1, <4>3
      <4>. QED
        BY <4>2, <4>3
    <3>4. accum'[ch] = Empty[ch]
      BY <3>1
    <3>5. accepted'[ch] = returned'[ch]
      <4>1. PICK one \in Nat : one = IF ch = p.ch THEN 1 ELSE 0
        OBVIOUS
      <4>2. accepted'[ch] = accepted[ch] + one
        BY <2>4, <3>1, <4>1
      <4>3. returned'[ch] = returned[ch] + (Len(accum[ch]) + one)
        BY <3>2, <3>3, <4>1
      <4>. QED
        BY <2>1, <2>4, <4>2, <4>3
    <3>6. returned'[ch] \in Nat
      BY <1>8
    <3>. QED
      BY <2>3, <3>4, <3>5, <3>6
  <2>. QED
    BY <2>2, <2>5, <2>6, <2>7
<1>18. SamplesConserved'
  BY <1>17 DEF SamplesConserved
<1>. QED
  BY <1>11, <1>12, <1>15, <1>18

LEMMA ReceiveKeepsPositions ==
  ASSUME SafetyInv, ReceivePacket, NEW p \in Packets, HeadIs(p),
         Damaged(p) \/ Begins(p) \/ Joins(p) \/ Completes(p)
  PROVE  PositionsOK' /\ OpenersOK'
<1>1. DataOK /\ PositionsOK /\ OpenersOK
  BY Zenon DEF SafetyInv
<1>2. /\ UNCHANGED <<plan, sent, base, lostChanges>>
      /\ Position' = Position /\ PerPosition' = PerPosition
  BY ReceiveFrame
<1>3. /\ Waiting' \subseteq Waiting \cup {Sample(p)}
      /\ p.kind = "good" /\ p.change => Waiting' \subseteq {Sample(p)}
      /\ current' = 0 => Waiting' = {}
  BY WaitingIs DEF Damaged, Counted, Begins, Joins, Completes
<1>4. /\ InFlight' \subseteq InFlight /\ p \in InFlight /\ InFlight = InFlight' \cup {p}
      /\ \A q \in InFlight' : p.id < q.id
      /\ p.id \in Nat /\ p.pos \in Nat
  BY Zenon DEF HeadIs
<1>5. InFlight \subseteq Packets /\ \A q \in InFlight : q.id \in Nat /\ q.pos \in Nat
  BY <1>1, InFlightAre
<1>6. Sample(p).pos = p.pos /\ Sample(p).center = p.center
  BY DEF Sample
<1>7. \A x : Placed(x)' <=> Placed(x)
  BY Zenon, <1>2 DEF Placed
<1>8. \A q \in InFlight' : Follows(p, q)
  BY <1>1, <1>4, <1>5 DEF PositionsOK
<1>9. PositionsOK'
  <2>1. \A q \in InFlight' : Placed(q)' /\ \A q2 \in InFlight' : q2.id <= q.id => Follows(q2, q)
    BY Zenon, <1>1, <1>4, <1>7 DEF PositionsOK
  <2>2. Placed(Sample(p)) /\ \A q \in InFlight' : Follows(Sample(p), q)
    BY <1>1, <1>4, <1>6, <1>8 DEF PositionsOK, Placed, Follows
  <2>3. \A s \in Waiting' : Placed(s)' /\ \A q \in InFlight' : Follows(s, q)
    BY Zenon, <1>1, <1>3, <1>4, <1>7, <2>2 DEF PositionsOK
  <2>. QED
    BY Zenon, <1>3, <2>1, <2>3 DEF PositionsOK
<1>10. ASSUME NEW n, Reached(n) PROVE Reached(n)'
  BY <1>3, <1>4, <1>6, <1>10 DEF Reached
<1>11. ASSUME NEW n \in Nat, NEW q \in Openers(n) PROVE q \in Openers(n)' \/ Reached(n)'
  <2>1. q \in InFlight /\ q.kind = "good" /\ q.change /\ q.pos = n
    BY Zenon DEF Openers
  <2>2. CASE q = p
    <3>1. \A s \in Waiting' : s.pos >= n
      BY <1>3, <1>6, <2>1, <2>2
    <3>2. \A r \in InFlight' : r.pos >= n \/ r.pos = 0
      BY <1>4, <1>5, <1>8, <2>1, <2>2 DEF Follows
    <3>. QED
      BY Zenon, <3>1, <3>2 DEF Reached
  <2>3. CASE q # p
    BY Zenon, <1>4, <2>1, <2>3 DEF Openers
  <2>. QED
    BY <2>2, <2>3
<1>12. PICK n \in Nat : n = Position
  BY <1>1, DataFacts
<1>13. sent % PerPosition # 0 => n \in lostChanges \/ Openers(n)' # {} \/ Reached(n)'
  <2>1. sent % PerPosition # 0 => n \in lostChanges \/ Openers(n) # {} \/ Reached(n)
    BY Zenon, <1>1, <1>12 DEF OpenersOK
  <2>. QED
    BY <1>10, <1>11, <2>1
<1>14. ASSUME NEW q \in InFlight', q.kind = "good", ~q.change, q.pos # 0
       PROVE  \/ q.pos \in lostChanges' \/ Reached(q.pos)'
              \/ \E o \in Openers(q.pos)' : o.id < q.id
  <2>1. q.pos \in lostChanges \/ Reached(q.pos) \/ \E o \in Openers(q.pos) : o.id < q.id
    BY Zenon, <1>1, <1>4, <1>14 DEF OpenersOK
  <2>2. q.pos \in Nat
    BY <1>4, <1>5
  <2>. QED
    BY Zenon, <1>2, <1>10, <1>11, <2>1, <2>2
<1>15. OpenersOK'
  <2>1. (sent % PerPosition # 0 =>
          Position \in lostChanges \/ Openers(Position) # {} \/ Reached(Position))'
    BY Zenon, <1>2, <1>12, <1>13
  <2>. QED
    BY Zenon, <1>14, <2>1 DEF OpenersOK
<1>. QED
  BY <1>9, <1>15

(* A packet that does not end the dwell goes with the samples that wait: in its
   place, their position is its own, or the packet that opened it was lost. *)
LEMMA JoinsItsBand ==
  ASSUME SafetyInv, ReceivePacket, NEW p \in Packets, HeadIs(p), p.kind = "good", ~EndsDwell(p)
  PROVE  OneDwell(p.center, Added(accum, p))
<1>1. DataOK /\ PositionsOK /\ OpenersOK /\ MixesOnlyAfterLoss
  BY Zenon DEF SafetyInv
<1>2. accum \in [Chs -> Seq(Samples)] /\ Waiting \subseteq Samples
  BY <1>1, SamplesInAre DEF DataOK, Waiting
<1>3. /\ InFlight = InFlight' \cup {p} /\ p \in InFlight /\ \A q \in InFlight' : p.id < q.id
      /\ p.id \in Nat /\ p.pos \in Nat
  BY Zenon DEF HeadIs
<1>4. InFlight \subseteq Packets /\ \A q \in InFlight : q.id \in Nat /\ q.pos \in Nat
  BY <1>1, InFlightAre
<1>5. Sample(p).pos = p.pos /\ Sample(p).center = p.center
  BY DEF Sample
<1>6. \A s \in Waiting : /\ s.pos \in Nat
                         /\ p.pos # 0 => /\ s.pos <= p.pos
                                         /\ s.pos = p.pos => s.center = p.center
  BY <1>1, <1>2, <1>3 DEF PositionsOK, Follows, Samples
<1>7. OneBand(current, Waiting, lostChanges)
  <2>1. OneDwell(current, accum)
    BY Zenon, <1>1 DEF MixesOnlyAfterLoss
  <2>. QED
    BY <1>2, <2>1, OneDwellIs DEF Waiting
<1>8. ASSUME NEW s \in Waiting, s.pos # 0, s.pos < p.pos PROVE p.pos \in lostChanges
  <2>1. CASE p.change
    <3>1. current = 0 \/ accum = Empty
      BY Zenon, <2>1 DEF EndsDwell
    <3>2. Waiting = {}
      BY Zenon, <1>1, <3>1, SamplesInEmpty DEF PositionsOK, Waiting
    <3>. QED
      BY <3>2
  <2>2. CASE ~p.change
    <3>0. p.pos # 0
      BY <1>3, <1>6, <1>8
    <3>1. p.pos \in lostChanges \/ Reached(p.pos) \/ \E q \in Openers(p.pos) : q.id < p.id
      BY Zenon, <1>1, <1>3, <2>2, <3>0 DEF OpenersOK
    <3>2. ~Reached(p.pos)
      BY <1>3, <1>6, <1>8 DEF Reached
    <3>3. ~\E q \in Openers(p.pos) : q.id < p.id
      BY <1>3, <1>4 DEF Openers
    <3>. QED
      BY <3>1, <3>2, <3>3
  <2>. QED
    BY <2>1, <2>2
<1>9. OneBand(p.center, Waiting \cup {Sample(p)}, lostChanges)
  BY <1>3, <1>5, <1>6, <1>7, <1>8 DEF OneBand
<1>. QED
  BY <1>2, <1>9, AddedIs, OneDwellIs DEF Waiting

LEMMA ReceiveKeepsMixes ==
  ASSUME SafetyInv, ReceivePacket, NEW p \in Packets, HeadIs(p),
         Damaged(p) \/ Begins(p) \/ Joins(p) \/ Completes(p)
  PROVE  MixesOnlyAfterLoss'
<1>1. OneDwell(dwell.center, dwell.samples) /\ OneDwell(current, accum)
  BY Zenon DEF SafetyInv, MixesOnlyAfterLoss
<1>2. lostChanges' = lostChanges
  BY ReceiveFrame
<1>3. SUFFICES OneDwell(dwell'.center, dwell'.samples) /\ OneDwell(current', accum')
  BY Zenon, <1>2 DEF MixesOnlyAfterLoss, OneDwell
<1>4. CASE Damaged(p)
  BY Zenon, <1>1, <1>4 DEF Damaged
<1>5. ASSUME NEW center, NEW acc, Return(center, acc)
      PROVE  dwell'.center = center /\ dwell'.samples = acc
  BY <1>5 DEF Return
<1>6. CASE Begins(p)
  <2>1. Return(current, accum) /\ current' = p.center /\ accum' = Added(Empty, p)
    BY Zenon, <1>6 DEF Begins
  <2>2. SamplesIn(Added(Empty, p)) = {Sample(p)} /\ Added(Empty, p) \in [Chs -> Seq(Samples)]
    BY SamplesInEmpty, AddedIs
  <2>3. OneBand(p.center, {Sample(p)}, lostChanges)
    <3>1. Sample(p).center = p.center /\ Sample(p).pos \in Nat
      BY DEF Sample, Packets
    <3>. QED
      BY <3>1 DEF OneBand
  <2>4. OneDwell(p.center, Added(Empty, p))
    BY <2>2, <2>3, OneDwellIs
  <2>. QED
    BY Zenon, <1>1, <1>5, <2>1, <2>4
<1>7. CASE Joins(p)
  <2>1. dwell' = dwell /\ current' = p.center /\ accum' = Added(accum, p)
        /\ p.kind = "good" /\ ~EndsDwell(p)
    BY Zenon, <1>7 DEF Joins, Counted
  <2>. QED
    BY Zenon, <1>1, <2>1, JoinsItsBand
<1>8. CASE Completes(p)
  <2>1. Return(p.center, Added(accum, p)) /\ current' = 0 /\ accum' = Empty
        /\ p.kind = "good" /\ ~EndsDwell(p)
    BY Zenon, <1>8 DEF Completes, Counted
  <2>2. OneDwell(0, Empty)
    <3>1. OneBand(0, {}, lostChanges)
      BY DEF OneBand
    <3>. QED
      BY <3>1, SamplesInEmpty, OneDwellIs
  <2>. QED
    BY Zenon, <1>5, <2>1, <2>2, JoinsItsBand
<1>. QED
  BY <1>4, <1>6, <1>7, <1>8

-----------------------------------------------------------------------------
(* Every step, and what follows for every behaviour.                        *)

(* Timeouts, the end of a stream and what others send. *)
LEMMA OthersKeep ==
  ASSUME SafetyInv,
         \/ Abort \/ ReceiveTimesOut \/ ReceiveForeign \/ Preempt \/ ForeignArrives
         \/ Finished \/ UNCHANGED vars
  PROVE  (DataOK /\ GridOK /\ IdsOK /\ SamplesConserved /\ PositionsOK /\ OpenersOK
          /\ MixesOnlyAfterLoss)'
<1>1. DataOK /\ IdsOK
  BY Zenon DEF SafetyInv
<1>2. network \in Seq(Packets \cup {Foreign}) /\ InOrder(network) /\ noData \in Nat
      /\ faults \in 0..MaxFaults /\ InFlight = From(network)
  BY <1>1 DEF DataOK, IdsOK, InFlight
<1>3. /\ UNCHANGED <<resume, accumVars, plan, streamed, sent, base, lostChanges, accepted,
                     returned, lastReturned, tasks, late, arrivals>>
      /\ noData' \in {noData, noData + 1, 0}
      /\ \/ UNCHANGED <<network, faults>>
         \/ /\ network # <<>> /\ Head(network).kind = "foreign" /\ network' = Tail(network)
            /\ UNCHANGED faults
         \/ faults < MaxFaults /\ faults' = faults + 1 /\ network' = Append(network, Foreign)
  <2>1. CASE Abort \/ ReceiveTimesOut
    BY <2>1 DEF Abort, ReceiveTimesOut, controllerVars, historyVars
  <2>2. CASE ReceiveForeign
    BY <2>2 DEF ReceiveForeign, controllerVars
  <2>3. CASE ForeignArrives
    BY <2>3 DEF ForeignArrives, controllerVars, historyVars
  <2>4. CASE Preempt
    BY <2>4 DEF Preempt, historyVars
  <2>5. CASE Finished \/ UNCHANGED vars
    BY <2>5 DEF Finished, vars, controllerVars, historyVars
  <2>. QED
    BY <2>1, <2>2, <2>3, <2>4, <2>5
<1>4. network' \in Seq(Packets \cup {Foreign}) /\ InOrder(network)' /\ InFlight' = InFlight
      /\ faults' \in 0..MaxFaults
  <2>1. CASE UNCHANGED <<network, faults>>
    BY Zenon, <1>2, <2>1 DEF InFlight, InOrder
  <2>2. CASE /\ network # <<>> /\ Head(network).kind = "foreign" /\ network' = Tail(network)
             /\ UNCHANGED faults
    <3>1. /\ Tail(network) \in Seq(Packets \cup {Foreign}) /\ InOrder(Tail(network))
          /\ Head(network) \in Packets \cup {Foreign}
          /\ From(network) = From(Tail(network)) \cup ({Head(network)} \ {Foreign})
      BY <1>2, <2>2, Taken
    <3>2. Head(network) = Foreign
      BY <2>2, <3>1, ForeignIsNone
    <3>3. From(network) = From(Tail(network))
      BY <3>1, <3>2
    <3>. QED
      BY Zenon, <1>2, <2>2, <3>1, <3>3 DEF InFlight, InOrder
  <2>3. CASE faults < MaxFaults /\ faults' = faults + 1 /\ network' = Append(network, Foreign)
    <3>1. /\ Append(network, Foreign) \in Seq(Packets \cup {Foreign})
          /\ InOrder(Append(network, Foreign))
          /\ From(Append(network, Foreign)) = From(network) \cup ({Foreign} \ {Foreign})
      BY <1>2, Appended
    <3>2. From(Append(network, Foreign)) = From(network)
      BY <3>1
    <3>3. faults' \in 0..MaxFaults
      BY <1>2, <2>3, StreamAssumption
    <3>. QED
      BY Zenon, <1>2, <2>3, <3>1, <3>2, <3>3 DEF InFlight, InOrder
  <2>. QED
    BY Zenon, <1>3, <2>1, <2>2, <2>3
<1>5. DataOK'
  <2>1. noData' \in Nat
    BY <1>2, <1>3
  <2>. QED
    BY <1>1, <1>3, <1>4, <2>1 DEF DataOK, PerPosition, accumVars
<1>6. (GridOK /\ IdsOK /\ SamplesConserved /\ PositionsOK /\ OpenersOK /\ MixesOnlyAfterLoss)'
  BY <1>3, <1>4, QuietStep
<1>. QED
  BY <1>5, <1>6

LEMMA Kept == SafetyInv /\ [Next]_vars => SafetyInv'
<1>. SUFFICES ASSUME SafetyInv, [Next]_vars PROVE SafetyInv'
  OBVIOUS
<1>1. FlagsOK' /\ TimeoutOK' /\ PlanOK'
  BY FlagsKept, TimeoutKept, PlanKept
<1>2. (DataOK /\ GridOK /\ IdsOK /\ SamplesConserved /\ PositionsOK /\ OpenersOK
       /\ MixesOnlyAfterLoss)'
  <2>1. CASE Open
    BY <2>1, OpenKeeps
  <2>2. CASE Send
    BY <2>2, SendKeeps
  <2>3. CASE ReceivePacket
    <3>1. PICK p \in Packets : /\ HeadIs(p) /\ resume' = Resume(p.center)
                               /\ Damaged(p) \/ Begins(p) \/ Joins(p) \/ Completes(p)
      BY <2>3, ReceiveFrame
    <3>. QED
      BY <2>3, <3>1, ReceiveKeepsData, ReceiveKeepsPositions, ReceiveKeepsMixes
  <2>4. CASE \/ Abort \/ ReceiveTimesOut \/ ReceiveForeign \/ Preempt \/ ForeignArrives
             \/ Finished \/ UNCHANGED vars
    BY <2>4, OthersKeep
  <2>5. CASE LateArrives \/ StaleArrives
    BY <2>5, StrayKeeps
  <2>. QED
    BY Zenon, <2>1, <2>2, <2>3, <2>4, <2>5 DEF Next
<1>. QED
  BY <1>1, <1>2 DEF SafetyInv

(* The inductive invariant of the data path. *)
THEOREM SafetyInvariant == Spec => []SafetyInv
  BY StartIsSafe, Kept, PTL DEF Spec

(* Every variable keeps its type, and resume_hz_ stays inside the band. *)
THEOREM TypeCorrect == Spec => []TypeOK
<1>1. SafetyInv => TypeOK
  <2>. SUFFICES ASSUME SafetyInv PROVE TypeOK
    OBVIOUS
  <2>1. DataOK /\ FlagsOK
    BY Zenon DEF SafetyInv
  <2>2. sent \in Nat
    BY <2>1, DataFacts
  <2>3. ASSUME NEW ch \in Chs, NEW i \in 1..Len(accum[ch]) PROVE IsSample(accum[ch][i])
    <3>1. accum[ch][i] \in Samples
      BY <2>1, ElementOfSeq DEF DataOK
    <3>. QED
      BY <3>1 DEF Samples, IsSample
  <2>4. \A i \in 1..Len(plan) : plan[i] \in (Start + Half)..Stop
    BY <2>1, ElementOfSeq DEF DataOK, CentreRange
  <2>. QED
    BY <2>1, <2>2, <2>3, <2>4 DEF TypeOK, DataOK, FlagsOK
<1>. QED
  BY <1>1, SafetyInvariant, PTL

(* next() gives every sample it took from a packet out once and in the order of
   the packets, or still holds it, also when a dwell ends inside a packet. *)
THEOREM SamplesOnceInOrder == Spec => []SamplesConserved
<1>1. SafetyInv => SamplesConserved
  BY Zenon DEF SafetyInv
<1>. QED
  BY <1>1, SafetyInvariant, PTL

(* Whatever is lost, delayed, repeated or sent by others, what a dwell mixes can be
   told from the network: two positions of the task only if the packet that opens the
   later one did not come in its place, and else only packets out of their place. *)
THEOREM DwellsMixOnlyAfterLoss == Spec => []MixesOnlyAfterLoss
<1>1. SafetyInv => MixesOnlyAfterLoss
  BY Zenon DEF SafetyInv
<1>. QED
  BY <1>1, SafetyInvariant, PTL

(* INITIAL_TIMEOUT_MS is granted once per task: after the first datagram the
   stream ends when it is silent for STREAM_TIMEOUT_MS. *)
THEOREM LongBudgetOnce == Spec => []LongBudgetOncePerTask
<1>1. SafetyInv => LongBudgetOncePerTask
  BY Zenon DEF SafetyInv, TimeoutOK, LongBudgetOncePerTask
<1>. QED
  BY <1>1, SafetyInvariant, PTL

(* The entries buildScanRequest() lists cover the band up to half a step below
   stop_hz, wherever the task before was interrupted. *)
THEOREM EveryTaskCoversTheBand == Spec => []TaskCoversBand
<1>1. SafetyInv => TaskCoversBand
  <2>. SUFFICES ASSUME SafetyInv, streaming, NEW f \in Start..(Stop - Half - 1)
                PROVE  Covering(plan, f) # {}
    BY DEF TaskCoversBand
  <2>1. PICK r \in Start..(Stop - 1) : OnGrid(r) /\ plan = Entries(r)
    BY Zenon DEF SafetyInv, PlanOK
  <2>. QED
    BY <2>1, EntriesAre
<1>. QED
  BY <1>1, SafetyInvariant, PTL

-----------------------------------------------------------------------------
(* As long as nothing is lost, no position is missed.                       *)

LEMMA PacketAt ==
  ASSUME DataOK, NEW k \in Nat
  PROVE  /\ Packet(k).kind = "good" /\ Packet(k).pos = base + k \div PerPosition + 1
         /\ Packet(k).pos > base /\ Packet(k).ch = k % Channels
         /\ Packet(k).change = (k % PerPosition = 0)
<1>1. PICK q \in Nat : q = k \div PerPosition
  BY DataFacts, DivMod
<1>2. /\ Packet(k).kind = "good" /\ Packet(k).pos = base + (q + 1)
      /\ Packet(k).ch = k % Channels /\ Packet(k).change = (k % PerPosition = 0)
  BY <1>1 DEF Packet
<1>. QED
  BY <1>1, <1>2, DataFacts, SMTT(30)

(* A packet's number changes neither its kind nor its place. *)
LEMMA HeadIsGood ==
  ASSUME DataOK, NEW k \in Nat, NEW p, p = Numbered(Packet(k), p.id)
  PROVE  /\ p.kind = "good" /\ p.pos = Packet(k).pos /\ p.ch = Packet(k).ch
         /\ p.change = Packet(k).change
<1>. DEFINE i == k \div PerPosition + 1
<1>1. Packet(k) = [kind |-> "good", center |-> plan[i], pos |-> base + i, ch |-> k % Channels,
                   change |-> k % PerPosition = 0, id |-> 0]
  BY DEF Packet
<1>. HIDE DEF i
<1>. QED
  BY <1>1 DEF Numbered

LEMMA SamePackets ==
  ASSUME UNCHANGED <<plan, base, streamed>>
  PROVE  /\ PerPosition' = PerPosition /\ \A k : Packet(k)' = Packet(k)
<1>1. PerPosition' = PerPosition
  BY DEF PerPosition
<1>2. ASSUME NEW k PROVE Packet(k)' = Packet(k)
  BY Zenon, <1>1 DEF Packet
<1>. QED
  BY <1>1, <1>2

LEMMA ArrivedIs ==
  ASSUME DataOK, NEW a \in 0..sent, InLine(a)
  PROVE  Arrived = a
<1>1. PICK m \in 0..Len(network) :
        /\ a = sent - (Len(network) - m)
        /\ \A i \in 1..m : network[i].pos <= base
        /\ \A i \in (m + 1)..Len(network) : network[i] = Numbered(Packet(a + (i - m - 1)), network[i].id)
  BY Zenon DEF InLine
<1>2. Len(network) \in Nat /\ sent \in Nat /\ base \in Nat
  BY DataFacts, LenProperties DEF DataOK
<1>3. ASSUME NEW i \in (m + 1)..Len(network) PROVE network[i].pos > base
  <2>1. a + (i - m - 1) \in Nat
    BY <1>2
  <2>. QED
    BY <1>1, <1>2, <2>1, PacketAt, HeadIsGood
<1>4. ASSUME NEW i \in 1..m PROVE ~(network[i].pos > base)
  <2>1. i \in 1..Len(network)
    BY <1>2
  <2>2. network[i] \in Packets \cup {Foreign}
    BY <2>1, ElementOfSeq DEF DataOK
  <2>3. network[i].pos \in Nat
    BY <2>2 DEF Packets, Foreign
  <2>. QED
    BY <1>1, <1>2, <2>3
<1>5. {i \in 1..Len(network) : network[i].pos > base} = (m + 1)..Len(network)
  BY <1>2, <1>3, <1>4
<1>6. Cardinality((m + 1)..Len(network)) = Len(network) - m
  <2>1. PICK lo \in Int, hi \in Int : lo = m + 1 /\ hi = Len(network) /\ lo <= hi + 1
    BY <1>2
  <2>2. Cardinality(lo..hi) = IF lo > hi THEN 0 ELSE hi - lo + 1
    BY FS_Interval
  <2>3. hi - lo + 1 = Len(network) - m
    BY <1>2, <2>1
  <2>4. lo > hi => Len(network) - m = 0
    BY <1>2, <2>1
  <2>. QED
    BY <2>1, <2>2, <2>3, <2>4
<1>. QED
  BY <1>1, <1>2, <1>5, <1>6 DEF Arrived

(* The next packet of the buffer is an earlier task's or the next of this one. *)
LEMMA InLineTaken ==
  ASSUME DataOK, NEW a \in 0..sent, InLine(a), network # <<>>, network' = Tail(network),
         UNCHANGED <<plan, base, streamed, sent>>
  PROVE  \/ a = 0 /\ InLine(0)'
         \/ /\ a < sent /\ Head(network) = Numbered(Packet(a), Head(network).id)
            /\ InLine(a + 1)'
<1>1. PICK m \in 0..Len(network) :
        /\ a = sent - (Len(network) - m) /\ (m > 0 => a = 0)
        /\ \A i \in 1..m : network[i].pos <= base
        /\ \A i \in (m + 1)..Len(network) : network[i] = Numbered(Packet(a + (i - m - 1)), network[i].id)
  BY Zenon DEF InLine
<1>2. Len(network) \in Nat /\ sent \in Nat /\ Len(network) >= 1
  BY DataFacts, LenProperties, EmptySeq DEF DataOK
<1>3. /\ Len(network') = Len(network) - 1 /\ Head(network) = network[1]
      /\ \A i \in 1..Len(network') : network'[i] = network[i + 1]
  BY HeadTailProperties DEF DataOK
<1>4. \A k : Packet(k)' = Packet(k)
  BY SamePackets
<1>5. CASE m > 0
  <2>1. PICK n \in 0..Len(network') : n = m - 1
    BY <1>2, <1>3, <1>5
  <2>2. \A i \in 1..n : network'[i].pos <= base
    <3>1. TAKE i \in 1..n
    <3>2. i + 1 \in 1..m /\ i \in 1..Len(network')
      BY <1>2, <1>3, <2>1
    <3>. QED
      BY <1>1, <1>3, <3>2
  <2>3. \A i \in (n + 1)..Len(network') :
          network'[i] = Numbered(Packet(0 + (i - n - 1))', network'[i].id)
    <3>1. TAKE i \in (n + 1)..Len(network')
    <3>2. i + 1 \in (m + 1)..Len(network) /\ i \in 1..Len(network') /\ i - n - 1 = (i + 1) - m - 1
      BY <1>2, <1>3, <2>1
    <3>. QED
      BY <1>1, <1>3, <1>4, <1>5, <3>2
  <2>4. 0 = sent' - (Len(network') - n)
    BY <1>1, <1>2, <1>3, <1>5, <2>1
  <2>5. InLine(0)'
    BY <2>2, <2>3, <2>4 DEF InLine
  <2>. QED
    BY <1>1, <1>5, <2>5
<1>6. CASE m = 0
  <2>1. a < sent /\ a = sent - Len(network) /\ a \in Nat
    BY <1>1, <1>2, <1>6
  <2>2. Head(network) = Numbered(Packet(a), Head(network).id)
    <3>1. 1 \in (m + 1)..Len(network) /\ a + (1 - m - 1) = a
      BY <1>2, <1>6
    <3>. QED
      BY <1>1, <1>3, <3>1
  <2>3. \A i \in (0 + 1)..Len(network') :
          network'[i] = Numbered(Packet((a + 1) + (i - 0 - 1))', network'[i].id)
    <3>1. TAKE i \in (0 + 1)..Len(network')
    <3>2. i + 1 \in (m + 1)..Len(network) /\ i \in 1..Len(network')
          /\ (a + 1) + (i - 0 - 1) = a + ((i + 1) - m - 1)
      BY <1>2, <1>3, <1>6, <2>1
    <3>. QED
      BY <1>1, <1>3, <1>4, <3>2
  <2>4. a + 1 = sent' - (Len(network') - 0) /\ 0 \in 0..Len(network') /\ 1..0 = {}
    BY <1>2, <1>3, <2>1
  <2>5. InLine(a + 1)'
    <3>1. PICK m0 \in 0..Len(network') : m0 = 0
      BY <2>4
    <3>2. \A i \in 1..m0 : network'[i].pos <= base'
      BY <2>4, <3>1
    <3>3. \A i \in (m0 + 1)..Len(network') :
            network'[i] = Numbered(Packet((a + 1) + (i - m0 - 1))', network'[i].id)
      BY Zenon, <2>3, <3>1
    <3>4. a + 1 = sent' - (Len(network') - m0) /\ (m0 > 0 => a + 1 = 0)
      BY <2>4, <3>1
    <3>. QED
      BY Zenon, <3>2, <3>3, <3>4 DEF InLine
  <2>. QED
    BY <2>1, <2>2, <2>5
<1>. QED
  BY <1>1, <1>5, <1>6

LEMMA InLineSent ==
  ASSUME DataOK, NEW a \in 0..sent, InLine(a), Packet(sent) \in Packets, Deliver(Packet(sent)),
         sent' = sent + 1, UNCHANGED <<plan, base, streamed>>
  PROVE  InLine(a)'
<1>1. PICK m \in 0..Len(network) :
        /\ a = sent - (Len(network) - m) /\ (m > 0 => a = 0)
        /\ \A i \in 1..m : network[i].pos <= base
        /\ \A i \in (m + 1)..Len(network) : network[i] = Numbered(Packet(a + (i - m - 1)), network[i].id)
  BY Zenon DEF InLine
<1>2. Len(network) \in Nat /\ sent \in Nat
  BY DataFacts, LenProperties DEF DataOK
<1>3. /\ Len(network') = Len(network) + 1
      /\ network'[Len(network) + 1] = Numbered(Packet(sent), network'[Len(network) + 1].id)
      /\ \A i \in 1..Len(network) : network'[i] = network[i]
  <2>1. PICK x \in Packets : x = Numbered(Packet(sent), arrivals + 1) /\ x.id = arrivals + 1
    <3>1. PICK n \in Nat : n = arrivals + 1
      BY DataFacts
    <3>. QED
      BY <3>1, NumberedIs
  <2>2. network \in Seq(Packets \cup {Foreign}) /\ network' = Append(network, x)
    BY <2>1 DEF DataOK, Deliver
  <2>3. /\ Len(network') = Len(network) + 1 /\ network'[Len(network) + 1] = x
        /\ \A i \in 1..Len(network) : network'[i] = network[i]
    BY <2>2, AppendProperties
  <2>. QED
    BY <2>1, <2>3
<1>4. \A k : Packet(k)' = Packet(k)
  BY SamePackets
<1>5. ASSUME NEW i \in 1..m PROVE network'[i].pos <= base
  <2>1. i \in 1..Len(network) /\ network[i].pos <= base
    BY <1>1, <1>2
  <2>2. network'[i] = network[i]
    BY <1>3, <2>1
  <2>. QED
    BY <2>1, <2>2
<1>6. ASSUME NEW i \in (m + 1)..Len(network')
      PROVE  network'[i] = Numbered(Packet(a + (i - m - 1))', network'[i].id)
  <2>1. CASE i = Len(network) + 1
    <3>1. a + (i - m - 1) = sent
      BY <1>1, <1>2, <2>1
    <3>. QED
      BY <1>3, <1>4, <2>1, <3>1
  <2>2. CASE i # Len(network) + 1
    <3>1. i \in (m + 1)..Len(network) /\ i \in 1..Len(network)
      BY <1>2, <1>3, <2>2
    <3>. QED
      BY <1>1, <1>3, <1>4, <3>1
  <2>. QED
    BY <2>1, <2>2
<1>7. a = sent' - (Len(network') - m) /\ m \in 0..Len(network')
  BY <1>1, <1>2, <1>3
<1>. QED
  BY <1>1, <1>5, <1>6, <1>7 DEF InLine

LEMMA Reports ==
  ASSUME NEW center, NEW acc \in [Chs -> Seq(Samples)], Return(center, acc)
  PROVE  reported \subseteq reported' /\ \A s \in SamplesIn(acc) : s.pos \in reported'
<1>1. reported' = reported \cup PositionsIn(acc)
  BY DEF Return
<1>. QED
  BY <1>1, PositionsInAre

LEMMA ChannelZeroGrows ==
  ASSUME NEW acc \in [Chs -> Seq(Samples)], NEW p \in Packets
  PROVE  /\ Len(acc[0]) \in Nat /\ Len(Empty[0]) = 0
         /\ p.ch = 0 => Len(Added(acc, p)[0]) = Len(acc[0]) + 1
         /\ p.ch # 0 => Len(Added(acc, p)[0]) = Len(acc[0])
         /\ SamplesIn(acc) = {} => Len(acc[0]) = 0
<1>1. Len(acc[0]) \in Nat
  BY ChannelZero, LenProperties
<1>2. Len(Empty[0]) = 0
  BY ChannelZero, EmptySeq DEF Empty
<1>3. ASSUME Len(acc[0]) # 0 PROVE SamplesIn(acc) # {}
  <2>1. 1 \in 1..Len(acc[0])
    BY <1>1, <1>3
  <2>2. acc[0][1] \in SamplesIn(acc)
    BY <2>1, ChannelZero, SamplesInAre
  <2>. QED
    BY <2>2
<1>4. /\ p.ch = 0 => Len(Added(acc, p)[0]) = Len(acc[0]) + 1
      /\ p.ch # 0 => Added(acc, p)[0] = acc[0]
  <2>1. /\ \A ch \in Chs : ch # p.ch => Added(acc, p)[ch] = acc[ch]
        /\ Len(Added(acc, p)[p.ch]) = Len(acc[p.ch]) + 1
    BY AddedIs
  <2>2. 0 \in Chs
    BY ChannelZero
  <2>. QED
    BY Zenon, <2>1, <2>2
<1>. QED
  BY <1>1, <1>2, <1>3, <1>4

(* With one channel a dwell is given out as soon as it is complete. *)
LEMMA NoneFullKept ==
  ASSUME SafetyInv, NoneFull, ReceivePacket, NEW p \in Packets, HeadIs(p),
         Damaged(p) \/ Begins(p) \/ Joins(p) \/ Completes(p)
  PROVE  NoneFull'
<1>1. SUFFICES ASSUME Channels = 1 PROVE Len(accum'[0]) < DwellSamples
  BY DEF NoneFull
<1>2. Len(accum[0]) < DwellSamples
  BY <1>1 DEF NoneFull
<1>3. DwellSamples \in Nat \ {0} /\ Chs = {0}
  BY <1>1, StreamAssumption DEF Chs
<1>4. accum \in [Chs -> Seq(Samples)] /\ Empty \in [Chs -> Seq(Samples)]
  BY SamplesInEmpty DEF SafetyInv, DataOK
<1>5. Len(accum[0]) \in Nat /\ Len(Empty[0]) = 0
  BY <1>4, ChannelZeroGrows
<1>6. CASE Damaged(p)
  BY <1>2, <1>6 DEF Damaged
<1>7. CASE Begins(p)
  <2>1. accum # Empty /\ accum' = Added(Empty, p)
    BY Zenon, <1>7 DEF Begins, EndsDwell
  <2>2. Len(accum[0]) # 0
    <3>1. SUFFICES ASSUME Len(accum[0]) = 0 PROVE accum = Empty
      BY <2>1
    <3>2. accum[0] = <<>>
      BY <1>3, <1>4, <3>1, EmptySeq
    <3>. QED
      BY <1>3, <1>4, <3>2 DEF Empty
  <2>3. p.ch = 0
    BY <1>3 DEF Packets
  <2>4. Len(accum'[0]) = 1
    <3>1. Len(Added(Empty, p)[0]) = Len(Empty[0]) + 1
      BY <1>4, <2>3, ChannelZeroGrows
    <3>. QED
      BY <1>5, <2>1, <3>1
  <2>. QED
    BY <1>2, <1>3, <1>5, <2>2, <2>4
<1>8. CASE Joins(p)
  BY <1>8 DEF Joins
<1>9. CASE Completes(p)
  <2>1. accum' = Empty
    BY <1>9 DEF Completes
  <2>. QED
    BY <1>3, <1>5, <2>1
<1>. QED
  BY <1>6, <1>7, <1>8, <1>9

(* The next packet of the task: it opens a position, which returns what waits of
   the one before, or it belongs to the position whose samples wait. *)
LEMMA CollectedKept ==
  ASSUME SafetyInv, ReceivePacket, NEW a \in Nat, NEW p \in Packets, HeadIs(p),
         p = Numbered(Packet(a), p.id), a > 0 => Collected(a), Begins(p) \/ Joins(p) \/ Completes(p)
  PROVE  Collected(a + 1)'
<1>1. DataOK /\ PositionsOK
  BY Zenon DEF SafetyInv
<1>2. /\ UNCHANGED <<plan, base, streamed>> /\ PerPosition' = PerPosition
  BY ReceiveFrame
<1>3. /\ base \in Nat /\ PerPosition \in Nat \ {0}
  BY <1>1, DataFacts
<1>4. Channels \in Nat \ {0} /\ streamed \in Nat \ {0} /\ DwellSamples \in Nat \ {0}
      /\ PerPosition = Channels * streamed
  BY <1>1, StreamAssumption DEF PerPosition, DataOK
<1>5. PICK j \in Nat : j = a \div PerPosition
  BY <1>3, DivMod
<1>6. PICK c \in Nat : c = a \div Channels
  BY <1>4, DivMod
<1>7. p.pos = base + j + 1 /\ p.ch = a % Channels /\ (p.change <=> a % PerPosition = 0)
      /\ p.center # 0
  <2>1. p.center # 0
    BY Zenon DEF HeadIs
  <2>2. p.pos = Packet(a).pos /\ p.ch = Packet(a).ch /\ p.change = Packet(a).change
    BY <1>1, HeadIsGood
  <2>3. p.pos = base + j + 1
    BY <1>1, <1>3, <1>5, <2>2, PacketAt
  <2>. QED
    BY <1>1, <2>1, <2>2, <2>3, PacketAt
<1>8. accum \in [Chs -> Seq(Samples)] /\ Empty \in [Chs -> Seq(Samples)]
  BY <1>1, SamplesInEmpty DEF DataOK
<1>9. /\ Sample(p).pos = p.pos
      /\ SamplesIn(Added(accum, p)) = Waiting \cup {Sample(p)}
      /\ SamplesIn(Added(Empty, p)) = {Sample(p)}
      /\ Added(accum, p) \in [Chs -> Seq(Samples)] /\ Added(Empty, p) \in [Chs -> Seq(Samples)]
  <2>1. SamplesIn(Added(accum, p)) = SamplesIn(accum) \cup {Sample(p)}
        /\ Added(accum, p) \in [Chs -> Seq(Samples)]
    BY <1>8, AddedIs
  <2>2. SamplesIn(Added(Empty, p)) = SamplesIn(Empty) \cup {Sample(p)}
        /\ Added(Empty, p) \in [Chs -> Seq(Samples)]
    BY <1>8, AddedIs
  <2>3. Sample(p).pos = p.pos /\ SamplesIn(Empty) = {}
    BY SamplesInEmpty DEF Sample
  <2>. QED
    BY <2>1, <2>2, <2>3 DEF Waiting
<1>10. reported \subseteq reported'
  <2>1. CASE Begins(p)
    BY <1>8, <2>1, Reports DEF Begins
  <2>2. CASE Joins(p)
    BY <2>2 DEF Joins
  <2>3. CASE Completes(p)
    BY <1>9, <2>3, Reports DEF Completes
  <2>. QED
    BY <2>1, <2>2, <2>3
<1>11. Completes(p) => p.pos \in reported'
  BY <1>9, Reports DEF Completes
<1>12. Begins(p) => EndsDwell(p) /\ accum' = Added(Empty, p) /\ current' = p.center
                    /\ \A s \in Waiting : s.pos \in reported'
  BY <1>8, Reports DEF Begins, Waiting
<1>13. Joins(p) => ~EndsDwell(p) /\ accum' = Added(accum, p) /\ current' = p.center
                   /\ Len(accum'[0]) < DwellSamples
  BY Zenon DEF Joins
<1>14. Completes(p) => ~EndsDwell(p)
  BY Zenon DEF Completes
<1>15. /\ Len(accum[0]) \in Nat /\ Len(Empty[0]) = 0 /\ (Waiting = {} => Len(accum[0]) = 0)
       /\ p.ch = 0 => Len(Added(accum, p)[0]) = Len(accum[0]) + 1
                      /\ Len(Added(Empty, p)[0]) = 1
       /\ p.ch # 0 => Len(Added(accum, p)[0]) = Len(accum[0])
  <2>1. /\ Len(accum[0]) \in Nat /\ Len(Empty[0]) = 0
        /\ p.ch = 0 => Len(Added(accum, p)[0]) = Len(accum[0]) + 1
        /\ p.ch # 0 => Len(Added(accum, p)[0]) = Len(accum[0])
        /\ SamplesIn(accum) = {} => Len(accum[0]) = 0
    BY <1>8, ChannelZeroGrows
  <2>2. p.ch = 0 => Len(Added(Empty, p)[0]) = Len(Empty[0]) + 1
    BY <1>8, ChannelZeroGrows
  <2>. QED
    BY <2>1, <2>2 DEF Waiting
<1>16. ASSUME \A i \in 1..j : base + i \in reported',
              \/ p.pos \in reported'
              \/ /\ current' # 0 /\ Sample(p) \in Waiting'
                 /\ Len(accum'[0]) + j * streamed = c + 1
                 /\ Len(accum'[0]) < DwellSamples \/ a % PerPosition = 0
       PROVE  Collected(a + 1)'
  <2>1. (a + 1) - 1 = a
    OBVIOUS
  <2>. QED
    BY <1>2, <1>5, <1>6, <1>7, <1>9, <1>16, <2>1 DEF Collected
<1>17. CASE a % PerPosition = 0
  <2>1. a % Channels = 0 /\ c = j * streamed
    <3>1. PICK ch \in Nat \ {0}, n \in Nat \ {0} : ch = Channels /\ n = streamed
      BY <1>4
    <3>2. a % (ch * n) = 0 /\ PerPosition = ch * n
      BY <1>4, <1>17, <3>1
    <3>3. a % ch = 0 /\ a \div ch = (a \div (ch * n)) * n
      <4>1. Shared(a, ch, n)
        BY PositionStarts, Zenon
      <4>. QED
        BY <3>2, <4>1, Zenon DEF Shared
    <3>. QED
      BY <1>5, <1>6, <3>1, <3>2, <3>3
  <2>2. j * streamed \in Nat
    BY <1>4, Products
  <2>3. \A i \in 1..j : base + i \in reported'
    <3>1. CASE a = 0
      <4>1. j = 0
        BY <1>3, <1>5, <3>1, DivZero
      <4>. QED
        BY <4>1
    <3>2. CASE a > 0
      <4>1. PICK b \in Nat : b = a - 1 /\ a = b + 1
        BY <3>2
      <4>2. PICK j0 \in Nat : j0 = b \div PerPosition /\ j = j0 + 1
        <5>1. PICK d \in Nat \ {0} : d = PerPosition
          BY <1>3
        <5>2. b \div d \in Nat
          BY DivMod, Zenon
        <5>3. a % d = 0
          BY <1>17, <5>1, Zenon
        <5>4. a \div d = b \div d + 1
          <6>1. Begun(b, a, d)
            BY DivStep, Zenon
          <6>. QED
            BY <4>1, <5>3, <6>1, Zenon DEF Begun
        <5>. QED
          BY <1>5, <5>1, <5>2, <5>4, Zenon
      <4>3. /\ \A i \in 1..j0 : base + i \in reported
            /\ \/ base + j0 + 1 \in reported
               \/ current # 0 /\ \E s \in Waiting : s.pos = base + j0 + 1
        BY <3>2, <4>1, <4>2 DEF Collected
      <4>4. base + j0 + 1 \in reported'
        <5>1. CASE base + j0 + 1 \in reported
          BY <1>10, <5>1
        <5>2. CASE current # 0 /\ \E s \in Waiting : s.pos = base + j0 + 1
          <6>1. accum # Empty
            BY <5>2, SamplesInEmpty DEF Waiting
          <6>2. EndsDwell(p)
            BY Zenon, <1>7, <1>17, <5>2, <6>1 DEF EndsDwell
          <6>3. Begins(p)
            BY Zenon, <1>13, <1>14, <6>2
          <6>. QED
            BY <1>12, <5>2, <6>3
        <5>. QED
          BY <4>3, <5>1, <5>2
      <4>5. \A i \in 1..j : i \in 1..j0 \/ base + i = base + j0 + 1
        BY <1>3, <4>2
      <4>. QED
        BY <1>10, <4>3, <4>4, <4>5
    <3>. QED
      BY <3>1, <3>2
  <2>4. CASE Begins(p)
    <3>1. Sample(p) \in Waiting' /\ current' # 0
      BY <1>7, <1>9, <1>12, <2>4 DEF Waiting
    <3>2. Len(accum'[0]) = 1
      BY <1>7, <1>12, <1>15, <2>1, <2>4
    <3>3. Len(accum'[0]) + j * streamed = c + 1
      BY <2>1, <2>2, <3>2
    <3>. QED
      BY <1>16, <1>17, <2>3, <3>1, <3>3
  <2>5. CASE Joins(p)
    <3>1. current = 0 \/ accum = Empty
      BY Zenon, <1>7, <1>13, <1>17, <2>5 DEF EndsDwell
    <3>2. Waiting = {}
      BY Zenon, <1>1, <3>1, SamplesInEmpty DEF PositionsOK, Waiting
    <3>3. Len(accum'[0]) + j * streamed = c + 1 /\ Sample(p) \in Waiting' /\ current' # 0
      BY <1>7, <1>9, <1>13, <1>15, <2>1, <2>2, <2>5, <3>2 DEF Waiting
    <3>. QED
      BY <1>16, <1>17, <2>3, <3>3
  <2>6. CASE Completes(p)
    BY <1>11, <1>16, <2>3, <2>6
  <2>. QED
    BY <2>4, <2>5, <2>6
<1>18. CASE a % PerPosition # 0
  <2>1. a > 0
    BY <1>3, <1>18, DivZero
  <2>2. PICK b \in Nat : b = a - 1 /\ a = b + 1
    BY <2>1
  <2>3. j = b \div PerPosition
    BY <1>3, <1>5, <1>18, <2>2, DivNext
  <2>4. PICK c0 \in Nat : c0 = b \div Channels
    BY <1>4, DivMod
  <2>5. /\ \A i \in 1..j : base + i \in reported
        /\ \/ base + j + 1 \in reported
           \/ Len(accum[0]) + j * streamed = c0 + 1
    BY <2>1, <2>2, <2>3, <2>4 DEF Collected
  <2>6. \A i \in 1..j : base + i \in reported'
    BY <1>10, <2>5
  <2>7. ~EndsDwell(p)
    BY Zenon, <1>7, <1>18 DEF EndsDwell
  <2>8. CASE Completes(p)
    BY <1>11, <1>16, <2>6, <2>8
  <2>9. CASE Joins(p)
    <3>1. CASE base + j + 1 \in reported
      BY <1>7, <1>10, <1>16, <2>6, <3>1
    <3>2. CASE Len(accum[0]) + j * streamed = c0 + 1
      <4>1. j * streamed \in Nat
        BY <1>4, Products
      <4>2. /\ a % Channels = 0 => c = c0 + 1
            /\ a % Channels # 0 => c = c0
        <5>1. PICK ch \in Nat \ {0} : ch = Channels
          BY <1>4
        <5>2. a % ch = 0 => a \div ch = b \div ch + 1
          <6>1. Begun(b, a, ch)
            BY DivStep, Zenon
          <6>. QED
            BY <2>2, <6>1, Zenon DEF Begun
        <5>3. a % ch # 0 => a \div ch = b \div ch
          BY <2>2, DivNext
        <5>. QED
          BY <1>6, <2>4, <5>1, <5>2, <5>3
      <4>3. Len(accum'[0]) + j * streamed = c + 1
        BY <1>7, <1>13, <1>15, <2>9, <3>2, <4>1, <4>2, SMTT(30)
      <4>4. Sample(p) \in Waiting' /\ current' # 0 /\ Len(accum'[0]) < DwellSamples
        BY <1>7, <1>9, <1>13, <2>9 DEF Waiting
      <4>. QED
        BY <1>16, <2>6, <4>3, <4>4
    <3>. QED
      BY <2>5, <3>1, <3>2
  <2>. QED
    BY <1>12, <2>7, <2>8, <2>9
<1>. QED
  BY <1>17, <1>18

LEMMA ProgressStarts == Init => ProgressInv
<1>. SUFFICES ASSUME Init PROVE ProgressInv
  OBVIOUS
<1>1. SafetyInv
  BY StartIsSafe
<1>2. NoneFull
  <2>1. Len(accum[0]) = 0
    BY ChannelZero, EmptySeq DEF Init, Empty
  <2>. QED
    BY <2>1, StreamAssumption DEF NoneFull
<1>3. sent = 0 /\ Len(network) = 0
  BY EmptySeq DEF Init
<1>4. InLine(0)
  <2>1. PICK m \in 0..Len(network) : m = 0
    BY <1>3
  <2>2. 0 = sent - (Len(network) - m) /\ 1..m = {} /\ (m + 1)..Len(network) = {}
    BY <1>3, <2>1
  <2>. QED
    BY <2>1, <2>2 DEF InLine
<1>5. 0 \in 0..sent /\ ~(0 > 0) /\ late = {}
  BY <1>3 DEF Init
<1>. QED
  BY <1>2, <1>4, <1>5 DEF ProgressInv

LEMMA NoneFullSteps == SafetyInv /\ NoneFull /\ [Next]_vars => NoneFull'
<1>. SUFFICES ASSUME SafetyInv, NoneFull, [Next]_vars PROVE NoneFull'
  OBVIOUS
<1>1. CASE ReceivePacket
  BY <1>1, ReceiveFrame, NoneFullKept
<1>2. CASE Open
  <2>1. Len(accum'[0]) = 0
    BY <1>2, ChannelZero, EmptySeq DEF Open, Empty
  <2>. QED
    BY <2>1, StreamAssumption DEF NoneFull
<1>3. CASE Send
  <2>1. accum' = accum
    BY <1>3, SentIs DEF accumVars
  <2>. QED
    BY Zenon, <2>1 DEF NoneFull
<1>4. CASE ReceiveForeign \/ ForeignArrives \/ LateArrives \/ StaleArrives \/ Abort
           \/ ReceiveTimesOut \/ Preempt \/ Finished \/ UNCHANGED vars
  <2>1. accum' = accum
    BY <1>4 DEF ReceiveForeign, ForeignArrives, LateArrives, StaleArrives, Abort,
       ReceiveTimesOut, Preempt, Finished, vars, accumVars
  <2>. QED
    BY Zenon, <2>1 DEF NoneFull
<1>. QED
  BY Zenon, <1>1, <1>2, <1>3, <1>4 DEF Next

LEMMA ProgressKept == SafetyInv /\ ProgressInv /\ [Next]_vars => ProgressInv'
<1>. SUFFICES ASSUME SafetyInv, ProgressInv, [Next]_vars PROVE ProgressInv'
  OBVIOUS
<1>1. NoneFull /\ NoneFull' /\ DataOK
  BY Zenon, NoneFullSteps DEF ProgressInv, SafetyInv
<1>2. SUFFICES ASSUME faults' = 0
               PROVE  late' = {} /\ \E a \in 0..sent' : InLine(a)' /\ (a > 0 => Collected(a)')
  BY Zenon, <1>1 DEF ProgressInv
<1>3. faults \in Nat /\ sent \in Nat /\ Len(network) \in Nat
  BY <1>1, DataFacts, LenProperties, StreamAssumption DEF DataOK
<1>4. CASE Open
  <2>1. DataOK' /\ PositionsOK'
    BY <1>4, OpenKeeps
  <2>2. /\ base' = base + Len(plan) /\ sent' = 0 /\ network' \in {<<>>, network}
    BY <1>4 DEF Open
  <2>3. /\ network' \in Seq(Packets \cup {Foreign}) /\ Len(network') \in Nat /\ base' \in Nat
    BY <2>1, LenProperties DEF DataOK
  <2>4. ASSUME NEW i \in 1..Len(network') PROVE network'[i].pos <= base'
    <3>1. network' = network /\ i \in 1..Len(network)
      BY <2>2, <2>4, EmptySeq
    <3>2. CASE network[i] = Foreign
      BY <2>3, <3>1, <3>2 DEF Foreign
    <3>3. CASE network[i] # Foreign
      <4>1. network[i] \in InFlight
        BY <3>1, <3>3 DEF InFlight, From
      <4>. QED
        BY <2>2, <3>1, <4>1 DEF SafetyInv, PositionsOK, Placed
    <3>. QED
      BY <3>2, <3>3
  <2>5. InLine(0)'
    <3>1. PICK m \in 0..Len(network') : m = Len(network')
      BY <2>3
    <3>2. /\ 0 = sent' - (Len(network') - m) /\ (m + 1)..Len(network') = {}
          /\ \A i \in 1..m : network'[i].pos <= base'
      BY <2>2, <2>3, <2>4, <3>1
    <3>. QED
      BY <3>2 DEF InLine
  <2>6. 0 \in 0..sent' /\ ~(0 > 0)
    BY <2>2
  <2>7. late' = {}
    BY <1>2, <1>4 DEF ProgressInv, Open
  <2>. QED
    BY <2>5, <2>6, <2>7
<1>5. CASE ~Open
  <2>1. faults = 0
    <3>1. faults' = faults \/ faults' = faults + 1
      <4>1. CASE ReceivePacket \/ ReceiveForeign \/ Send \/ ForeignArrives \/ LateArrives
                \/ StaleArrives
        BY <4>1 DEF ReceivePacket, ReceiveForeign, Send, ForeignArrives, LateArrives, StaleArrives
      <4>2. CASE Abort \/ ReceiveTimesOut \/ Preempt \/ Finished \/ UNCHANGED vars
        BY <4>2 DEF Abort, ReceiveTimesOut, Preempt, Finished, vars
      <4>. QED
        BY Zenon, <1>5, <4>1, <4>2 DEF Next
    <3>. QED
      BY <1>2, <1>3, <3>1
  <2>2. PICK a \in 0..sent : late = {} /\ InLine(a) /\ (a > 0 => Collected(a))
    BY Zenon, <2>1 DEF ProgressInv
  <2>3. CASE Send
    <3>1. /\ sent' = sent + 1 /\ sent < Len(plan) * PerPosition
          /\ UNCHANGED <<plan, base, streamed, current, accum>>
      BY <2>3, SentIs DEF accumVars
    <3>2. Deliver(Packet(sent)) /\ late' = late /\ reported' = reported
      BY <1>2, <1>3, <2>3 DEF Send
    <3>3. Packet(sent) \in Packets
      BY <1>1, <3>1, PacketIs
    <3>4. InLine(a)'
      BY <1>1, <2>2, <3>1, <3>2, <3>3, InLineSent
    <3>5. Collected(a)' <=> Collected(a)
      BY Zenon, <3>1, <3>2 DEF Collected, Waiting, PerPosition
    <3>6. a \in 0..sent'
      BY <1>3, <3>1
    <3>. QED
      BY <2>2, <3>2, <3>4, <3>5, <3>6
  <2>4. CASE ReceivePacket
    <3>1. /\ UNCHANGED <<plan, base, streamed, sent, late>>
      BY <2>4, ReceiveFrame
    <3>2. PICK p \in Packets : /\ HeadIs(p)
                               /\ Damaged(p) \/ Begins(p) \/ Joins(p) \/ Completes(p)
      BY <2>4, ReceiveFrame
    <3>3. p = Head(network) /\ network # <<>> /\ network' = Tail(network)
      BY Zenon, <3>2 DEF HeadIs
    <3>4. \/ a = 0 /\ InLine(0)'
          \/ a < sent /\ Head(network) = Numbered(Packet(a), Head(network).id) /\ InLine(a + 1)'
      BY <1>1, <2>2, <3>1, <3>3, InLineTaken
    <3>5. CASE a = 0 /\ InLine(0)'
      BY <2>2, <3>1, <3>5
    <3>6. CASE a < sent /\ Head(network) = Numbered(Packet(a), Head(network).id) /\ InLine(a + 1)'
      <4>1. p = Numbered(Packet(a), p.id) /\ a \in Nat /\ p.kind = "good"
        BY <1>1, <1>3, <3>3, <3>6, HeadIsGood
      <4>2. Begins(p) \/ Joins(p) \/ Completes(p)
        BY <3>2, <4>1 DEF Damaged
      <4>3. Collected(a + 1)'
        BY <2>2, <2>4, <3>2, <4>1, <4>2, CollectedKept
      <4>4. a + 1 \in 0..sent'
        BY <1>3, <3>1, <3>6, <4>1
      <4>. QED
        BY <2>2, <3>1, <3>6, <4>3, <4>4
    <3>. QED
      BY <3>4, <3>5, <3>6
  <2>5. CASE ReceiveForeign
    <3>1. /\ UNCHANGED <<plan, base, streamed, sent, late>> /\ network # <<>>
          /\ network' = Tail(network) /\ Head(network).kind = "foreign"
      BY <2>5 DEF ReceiveForeign, controllerVars
    <3>2. \/ a = 0 /\ InLine(0)'
          \/ a < sent /\ Head(network) = Numbered(Packet(a), Head(network).id) /\ InLine(a + 1)'
      BY <1>1, <2>2, <3>1, InLineTaken
    <3>3. Head(network) = Numbered(Packet(a), Head(network).id) => Head(network).kind = "good"
      BY <1>1, <1>3, HeadIsGood
    <3>. QED
      BY <2>2, <3>1, <3>2, <3>3
  <2>6. ASSUME ForeignArrives \/ LateArrives \/ StaleArrives PROVE FALSE
    BY <1>2, <1>3, <2>2, <2>6 DEF ForeignArrives, LateArrives, StaleArrives
  <2>7. CASE Abort \/ ReceiveTimesOut \/ Preempt \/ Finished \/ UNCHANGED vars
    <3>1. UNCHANGED <<plan, base, streamed, sent, network, current, accum, reported, late>>
      BY <2>7 DEF Abort, ReceiveTimesOut, Preempt, Finished, vars, controllerVars, accumVars,
         historyVars
    <3>2. \A k : Packet(k)' = Packet(k)
      BY <3>1, SamePackets
    <3>3. InLine(a)' <=> InLine(a)
      BY Zenon, <3>1, <3>2 DEF InLine
    <3>4. Collected(a)' <=> Collected(a)
      BY Zenon, <3>1 DEF Collected, Waiting, PerPosition
    <3>. QED
      BY <2>2, <3>1, <3>3, <3>4
  <2>. QED
    BY Zenon, <1>5, <2>3, <2>4, <2>5, <2>6, <2>7 DEF Next
<1>. QED
  BY <1>4, <1>5

(* As long as no packet is lost, a position whose successor has begun to arrive has
   been returned, and so has the last one if its dwell can be completed. *)
THEOREM NoPositionIsMissed == Spec => []NoPositionMissed
<1>1. SafetyInv /\ ProgressInv => NoPositionMissed
  <2>. SUFFICES ASSUME SafetyInv, ProgressInv, faults = 0, NEW i \in 1..Len(plan),
                       \/ Arrived > i * PerPosition
                       \/ Arrived = i * PerPosition /\ streamed >= DwellSamples
                PROVE  base + i \in reported
    BY DEF NoPositionMissed
  <2>1. DataOK /\ NoneFull
    BY Zenon DEF SafetyInv, ProgressInv
  <2>2. PICK a \in 0..sent : InLine(a) /\ (a > 0 => Collected(a))
    BY Zenon DEF ProgressInv
  <2>3. Arrived = a
    BY <2>1, <2>2, ArrivedIs
  <2>4. sent \in Nat /\ PerPosition \in Nat \ {0} /\ base \in Nat /\ Len(plan) \in Nat
    BY <2>1, DataFacts
  <2>5. Channels \in Nat \ {0} /\ streamed \in Nat \ {0} /\ PerPosition = Channels * streamed
        /\ DwellSamples \in Nat \ {0}
    BY <2>1, StreamAssumption DEF PerPosition, DataOK
  <2>6. PICK d \in Nat \ {0} : d = PerPosition
    BY <2>4
  <2>7. i \in Nat \ {0} /\ i * d \in Nat \ {0} /\ a \in Nat
    BY <2>4, Products
  <2>8. a > 0
    BY <2>3, <2>6, <2>7
  <2>9. PICK b \in Nat : b = a - 1
    BY <2>7, <2>8
  <2>10. PICK j \in Nat : j = b \div d
    BY DivMod
  <2>11. /\ \A k \in 1..j : base + k \in reported
         /\ \/ base + j + 1 \in reported
            \/ /\ Len(accum[0]) + j * streamed = b \div Channels + 1
               /\ Len(accum[0]) < DwellSamples \/ b % d = 0
    BY <2>2, <2>6, <2>8, <2>9, <2>10 DEF Collected
  <2>12. CASE a > i * d
    <3>1. i * d <= b
      BY <2>7, <2>9, <2>12
    <3>2. i <= j
      BY <2>7, <2>10, <3>1, Places
    <3>. QED
      BY <2>7, <2>11, <3>2
  <2>13. CASE a = i * d /\ streamed >= DwellSamples
    <3>1. PICK k \in Nat : k = i - 1
      BY <2>7
    <3>2. i * d = k * d + d
      <4>1. (k + 1) * d = k * d + 1 * d
        BY Products
      <4>. QED
        BY <3>1, <4>1
    <3>3. k * d \in Nat /\ b = k * d + (d - 1) /\ d - 1 \in 0..(d - 1)
      BY <2>9, <2>13, <3>2, Products
    <3>4. j = k /\ b % d = d - 1
      <4>1. Parted(b, d, k, d - 1)
        BY <3>3, DivUnique, Zenon
      <4>. QED
        BY <2>10, <3>3, <4>1, Zenon DEF Parted
    <3>5. base + j + 1 = base + i
      BY <2>4, <2>7, <3>1, <3>4
    <3>6. CASE /\ Len(accum[0]) + j * streamed = b \div Channels + 1
               /\ Len(accum[0]) < DwellSamples \/ b % d = 0
      <4>1. PICK c \in Nat \ {0}, n \in Nat \ {0} : c = Channels /\ n = streamed
        BY <2>5
      <4>2. PICK x \in Nat : x = i * n - 1
        <5>1. i * n \in Nat \ {0}
          BY <2>7, Products
        <5>. QED
          BY <5>1
      <4>3. b = x * c + (c - 1)
        <5>1. i * d = (i * n) * c
          BY <2>5, <2>6, <4>1
        <5>2. i * n = x + 1
          BY <2>7, <4>2, Products
        <5>3. (x + 1) * c = x * c + 1 * c
          BY Products
        <5>4. x * c \in Nat
          BY Products
        <5>. QED
          BY <2>9, <2>13, <5>1, <5>2, <5>3, <5>4
      <4>4. b \div c = x
        <5>1. c - 1 \in 0..(c - 1)
          OBVIOUS
        <5>2. Parted(b, c, x, c - 1)
          BY <5>1, DivUnique, Zenon
        <5>. QED
          BY <4>3, <5>2, Zenon DEF Parted
      <4>5. i * n = j * n + n
        <5>1. (k + 1) * n = k * n + 1 * n
          BY Products
        <5>. QED
          BY <3>1, <3>4, <5>1
      <4>6. accum \in [Chs -> Seq(Samples)]
        BY <2>1 DEF DataOK
      <4>7. Len(accum[0]) \in Nat
        BY <4>6, ChannelZero, LenProperties
      <4>8. Len(accum[0]) = n
        <5>1. Len(accum[0]) + j * n = x + 1
          BY <3>6, <4>1, <4>4
        <5>2. PICK y \in Nat, z \in Nat : y = j * n /\ z = i * n
          BY <2>7, Products
        <5>3. Len(accum[0]) + y = x + 1 /\ x = z - 1 /\ z = y + n
          BY <4>2, <4>5, <5>1, <5>2
        <5>. QED
          BY <4>7, <5>3
      <4>9. d = 1
        <5>1. ~(Len(accum[0]) < DwellSamples)
          BY <2>5, <2>13, <4>1, <4>8
        <5>2. d - 1 = 0
          BY <3>4, <3>6, <5>1
        <5>. QED
          BY <5>2
      <4>10. c = 1
        <5>1. SUFFICES ASSUME c >= 2 PROVE FALSE
          BY <4>1
        <5>2. 2 * n <= c * n
          BY <5>1, Products
        <5>. QED
          BY <2>5, <2>6, <4>1, <4>9, <5>2
      <4>. QED
        BY <2>1, <2>5, <2>13, <4>1, <4>8, <4>10 DEF NoneFull
    <3>. QED
      BY <2>11, <3>5, <3>6
  <2>. QED
    BY <2>3, <2>6, <2>12, <2>13
<1>. QED
  BY <1>1, ProgressStarts, ProgressKept, SafetyInvariant, PTL DEF Spec
=============================================================================
