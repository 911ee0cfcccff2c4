--------------------------- MODULE DetectionProofs ---------------------------
(***************************************************************************)
(* The way of a detection, for every value of the constants: the detector  *)
(* (Cfar), the persistence filter (Persistence) and the recorder (Recon).  *)
(* Each has a part of this module, with an inductive invariant of its own. *)
(*   - DetectorInv: while the loop of the detector stands before a bin,    *)
(*     its result is what the spectrum as a whole says of the runs of loud *)
(*     bins that ended before, and its registers describe the open run.    *)
(*   - FilterInv: the filter's map of a centre is a function of the        *)
(*     history of its dwells.                                              *)
(*   - RecorderInv: the cooldown table and the captures that were saved,   *)
(*     the detection at hand and the table it was checked against.         *)
(* Induction over data (sums, prefix sums) is the existence of a least     *)
(* counterexample.                                                         *)
(***************************************************************************)
EXTENDS Cfar, Persistence, Recon, FiniteSetTheorems, TLAPS

-----------------------------------------------------------------------------
(* Induction: a set of naturals has a least element.                        *)

LEMMA LessThanIsWellFounded ==
  \E R : IsWellFoundedOn(R, Nat) /\ \A m, n \in Nat : m < n => <<m, n>> \in R
<1>1. \A m, n \in Nat : m < n => <<m, n>> \in OpToRel(<, Nat)
  BY DEF OpToRel
<1>. QED
  BY <1>1, NatLessThanWellFounded, Zenon

LEMMA LeastElement ==
  ASSUME NEW T, T \subseteq Nat, T # {}
  PROVE  \E n \in T : \A m \in T : n <= m
<1>1. PICK R : IsWellFoundedOn(R, Nat) /\ \A m, n \in Nat : m < n => <<m, n>> \in R
  BY LessThanIsWellFounded
<1>2. \A S : IsWellFoundedOn(R, S) /\ T \subseteq S => \E n \in T : \A m \in T : ~ (<<m, n>> \in R)
  BY WFMin, Zenon
<1>3. PICK n \in T : \A m \in T : ~ (<<m, n>> \in R)
  BY <1>1, <1>2
<1>4. \A m \in T : n \in Nat /\ m \in Nat /\ ~ (m < n)
  BY <1>1, <1>3
<1>. QED
  BY <1>4

-----------------------------------------------------------------------------
(* Sums over finite sets.                                                   *)

Pick(s) == CHOOSE x \in s : TRUE
Sum(p, S) == MapThenSumSet(LAMBDA k : p[k], S)

\* g is the sum's recursion, for the subsets in D.
Sums(p, D, g) == g = [s \in D |-> IF s = {} THEN 0 ELSE p[Pick(s)] + g[s \ {Pick(s)}]]

LEMMA SumIs ==
  ASSUME NEW p, NEW S
  PROVE  Sum(p, S) = (CHOOSE g : Sums(p, SUBSET S, g))[S]
BY DEF Sum, MapThenSumSet, MapThenFoldSet, Sums, Pick

\* A set of finite sets has a smallest member: induction over finite sets.
LEMMA SmallestSet ==
  ASSUME NEW C, C # {}, \A s \in C : IsFiniteSet(s)
  PROVE  \E s \in C : \A t \in C : Cardinality(s) <= Cardinality(t)
<1>1. \A s \in C : Cardinality(s) \in Nat
  BY FS_CardinalityType
<1>. DEFINE T == {Cardinality(s) : s \in C}
<1>2. T \subseteq Nat /\ T # {}
  BY <1>1
<1>. HIDE DEF T
<1>3. PICK n \in T : \A m \in T : n <= m
  BY <1>2, LeastElement
<1>. QED
  BY <1>3 DEF T

LEMMA Smaller ==
  ASSUME NEW s, IsFiniteSet(s), NEW x \in s
  PROVE  /\ IsFiniteSet(s \ {x}) /\ Cardinality(s) \in Nat /\ Cardinality(s \ {x}) \in Nat
         /\ Cardinality(s) = Cardinality(s \ {x}) + 1
<1>1. IsFiniteSet(s \ {x}) /\ Cardinality(s \ {x}) = Cardinality(s) - 1
  BY FS_RemoveElement
<1>2. Cardinality(s) \in Nat /\ Cardinality(s \ {x}) \in Nat
  BY <1>1, FS_CardinalityType
<1>. QED
  BY <1>1, <1>2

LEMMA PickIn == \A s : s # {} => Pick(s) \in s
BY DEF Pick

LEMMA SumsExist ==
  ASSUME NEW p, NEW S, IsFiniteSet(S)
  PROVE  \E g : Sums(p, SUBSET S, g)
<1>. DEFINE D(n) == {s \in SUBSET S : Cardinality(s) <= n}
            Bad == {n \in Nat : ~ \E g : Sums(p, D(n), g)}
<1>1. \A s \in SUBSET S : IsFiniteSet(s) /\ Cardinality(s) \in Nat /\ Cardinality(s) <= Cardinality(S)
      /\ (Cardinality(s) = 0 <=> s = {})
  BY FS_Subset, FS_CardinalityType, FS_EmptySet
<1>2. Bad = {}
  <2>. SUFFICES ASSUME Bad # {} PROVE FALSE
    OBVIOUS
  <2>1. PICK n \in Bad : \A m \in Bad : n <= m
    BY LeastElement
  <2>2. CASE n = 0
    <3>1. D(0) = {{}}
      BY <1>1
    <3>2. Sums(p, {{}}, [s \in {{}} |-> 0])
      BY DEF Sums
    <3>. QED
      BY <2>1, <2>2, <3>1, <3>2
  <2>3. CASE n # 0
    <3>1. n \in Nat /\ n - 1 \in Nat /\ n - 1 \notin Bad
      <4>. HIDE DEF D
      <4>1. n \in Nat /\ n - 1 \in Nat /\ ~(n <= n - 1)
        BY <2>3
      <4>. HIDE DEF Bad
      <4>. QED
        BY <2>1, <4>1
    <3>2. PICK g : Sums(p, D(n - 1), g)
      BY <3>1
    <3>. DEFINE h == [s \in D(n) |-> IF s = {} THEN 0 ELSE p[Pick(s)] + g[s \ {Pick(s)}]]
    <3>3. ASSUME NEW s \in D(n), s # {}
          PROVE  s \ {Pick(s)} \in D(n - 1) /\ s \ {Pick(s)} \in D(n)
      <4>1. Pick(s) \in s /\ IsFiniteSet(s)
        BY <1>1, <3>3, PickIn
      <4>2. Cardinality(s) = Cardinality(s \ {Pick(s)}) + 1 /\ Cardinality(s \ {Pick(s)}) \in Nat
        BY <4>1, Smaller
      <4>. QED
        BY <3>1, <3>3, <4>2
    <3>4. ASSUME NEW t \in D(n - 1) PROVE g[t] = h[t]
      <4>1. t \in D(n)
        BY <1>1, <3>1, <3>4
      <4>2. g[t] = IF t = {} THEN 0 ELSE p[Pick(t)] + g[t \ {Pick(t)}]
        BY <3>2, <3>4 DEF Sums
      <4>. QED
        BY <4>1, <4>2
    <3>5. \A s \in D(n) : h[s] = IF s = {} THEN 0 ELSE p[Pick(s)] + h[s \ {Pick(s)}]
      BY <3>3, <3>4
    <3>6. h = [s \in D(n) |-> h[s]]
      OBVIOUS
    <3>. HIDE DEF h, D
    <3>7. h = [s \in D(n) |-> IF s = {} THEN 0 ELSE p[Pick(s)] + h[s \ {Pick(s)}]]
      BY <3>5, <3>6
    <3>. QED
      BY <2>1, <3>7 DEF Sums
  <2>. QED
    BY <2>2, <2>3
<1>3. Cardinality(S) \in Nat /\ D(Cardinality(S)) = SUBSET S
  BY <1>1, FS_CardinalityType
<1>. HIDE DEF D
<1>. QED
  BY <1>2, <1>3

LEMMA SumsAgree ==
  ASSUME NEW p, NEW S, NEW U \in SUBSET S, NEW g, NEW h, IsFiniteSet(U),
         Sums(p, SUBSET S, g), Sums(p, SUBSET U, h)
  PROVE  g[U] = h[U]
<1>. DEFINE Bad == {s \in SUBSET U : g[s] # h[s]}
<1>1. \A s \in SUBSET U : IsFiniteSet(s)
  BY FS_Subset
<1>2. SUFFICES ASSUME Bad # {} PROVE FALSE
  OBVIOUS
<1>3. PICK s \in Bad : \A t \in Bad : Cardinality(s) <= Cardinality(t)
  BY <1>1, <1>2, SmallestSet
<1>4. s \in SUBSET U /\ s \in SUBSET S /\ IsFiniteSet(s)
  BY <1>1, <1>3
<1>5. g[s] = (IF s = {} THEN 0 ELSE p[Pick(s)] + g[s \ {Pick(s)}])
      /\ h[s] = (IF s = {} THEN 0 ELSE p[Pick(s)] + h[s \ {Pick(s)}])
  BY <1>4 DEF Sums
<1>6. s # {} /\ Pick(s) \in s
  BY <1>3, <1>5, PickIn
<1>7. s \ {Pick(s)} \in Bad
  BY <1>3, <1>4, <1>5, <1>6
<1>8. Cardinality(s) = Cardinality(s \ {Pick(s)}) + 1 /\ Cardinality(s \ {Pick(s)}) \in Nat
  BY <1>4, <1>6, Smaller
<1>. QED
  BY <1>3, <1>7, <1>8

LEMMA SumRecursion ==
  ASSUME NEW p, NEW S, IsFiniteSet(S)
  PROVE  Sum(p, S) = IF S = {} THEN 0 ELSE p[Pick(S)] + Sum(p, S \ {Pick(S)})
<1>. DEFINE Iter(U) == CHOOSE g : Sums(p, SUBSET U, g)
<1>1. \A U \in SUBSET S : Sums(p, SUBSET U, Iter(U)) /\ IsFiniteSet(U)
  BY FS_Subset, SumsExist
<1>2. \A U : Sum(p, U) = Iter(U)[U]
  BY SumIs
<1>. HIDE DEF Iter
<1>3. Iter(S)[S] = IF S = {} THEN 0 ELSE p[Pick(S)] + Iter(S)[S \ {Pick(S)}]
  BY <1>1 DEF Sums
<1>4. ASSUME NEW U \in SUBSET S PROVE Iter(S)[U] = Iter(U)[U]
  <2>1. Sums(p, SUBSET S, Iter(S)) /\ Sums(p, SUBSET U, Iter(U)) /\ IsFiniteSet(U)
    BY <1>1
  <2>2. \A g, h : Sums(p, SUBSET S, g) /\ Sums(p, SUBSET U, h) => g[U] = h[U]
    BY <2>1, SumsAgree
  <2>. QED
    BY <2>1, <2>2
<1>. QED
  BY <1>2, <1>3, <1>4

\* The sum does not depend on the order in which elements are picked.
LEMMA SumRemove ==
  ASSUME NEW p, NEW S, IsFiniteSet(S), \A k \in S : p[k] \in Int
  PROVE  /\ Sum(p, {}) = 0 /\ Sum(p, S) \in Int
         /\ \A x \in S : Sum(p, S) = p[x] + Sum(p, S \ {x}) /\ Sum(p, S \ {x}) \in Int
<1>. DEFINE Good(s) == /\ Sum(p, s) \in Int
                       /\ \A x \in s : Sum(p, s) = p[x] + Sum(p, s \ {x})
            Bad == {s \in SUBSET S : ~Good(s)}
<1>1. \A s \in SUBSET S : IsFiniteSet(s)
  BY FS_Subset
<1>2. Sum(p, {}) = 0
  BY SumRecursion, FS_EmptySet
<1>3. Bad = {}
  <2>. SUFFICES ASSUME Bad # {} PROVE FALSE
    OBVIOUS
  <2>1. PICK s \in Bad : \A t \in Bad : Cardinality(s) <= Cardinality(t)
    BY <1>1, SmallestSet
  <2>2. s \in SUBSET S /\ IsFiniteSet(s) /\ s # {}
    <3>1. Good({})
      BY <1>2
    <3>2. s \in SUBSET S /\ ~Good(s)
      BY <2>1
    <3>. HIDE DEF Good
    <3>. QED
      BY <1>1, <3>1, <3>2
  <2>3. ASSUME NEW x \in s
        PROVE  Good(s \ {x})
    <3>1. Cardinality(s) = Cardinality(s \ {x}) + 1 /\ Cardinality(s \ {x}) \in Nat
      BY <2>2, Smaller
    <3>2. s \ {x} \notin Bad
      <4>. HIDE DEF Bad
      <4>. QED
        BY <2>1, <3>1
    <3>. QED
      BY <2>2, <3>2
  <2>. DEFINE y == Pick(s)
  <2>4. y \in s /\ Sum(p, s) = p[y] + Sum(p, s \ {y})
    BY <2>2, PickIn, SumRecursion
  <2>5. ASSUME NEW x \in s PROVE p[x] \in Int
    BY <2>2
  <2>6. Sum(p, s) \in Int
    BY <2>3, <2>4, <2>5
  <2>7. ASSUME NEW x \in s, x # y PROVE Sum(p, s) = p[x] + Sum(p, s \ {x})
    <3>1. x \in s \ {y} /\ y \in s \ {x} /\ (s \ {y}) \ {x} = (s \ {x}) \ {y}
      BY <2>4, <2>7
    <3>2. Sum(p, s \ {y}) = p[x] + Sum(p, (s \ {y}) \ {x})
          /\ Sum(p, s \ {x}) = p[y] + Sum(p, (s \ {x}) \ {y})
      BY <2>3, <2>4, <3>1
    <3>3. Sum(p, s \ {y}) \in Int /\ Sum(p, s \ {x}) \in Int
      BY <2>3, <2>4
    <3>. DEFINE r == Sum(p, (s \ {x}) \ {y})
    <3>4. r \in Int
      <4>1. IsFiniteSet(s \ {x}) /\ Cardinality(s) = Cardinality(s \ {x}) + 1
            /\ Cardinality(s \ {x}) \in Nat
        BY <2>2, Smaller
      <4>2. Cardinality(s \ {x}) = Cardinality((s \ {x}) \ {y}) + 1
            /\ Cardinality((s \ {x}) \ {y}) \in Nat
        BY <3>1, <4>1, Smaller
      <4>3. (s \ {x}) \ {y} \notin Bad
        <5>. HIDE DEF Bad
        <5>. QED
          BY <2>1, <4>1, <4>2
      <4>. QED
        BY <2>2, <4>3
    <3>5. p[x] \in Int /\ p[y] \in Int
      BY <2>4, <2>5
    <3>6. Sum(p, s \ {y}) = p[x] + r /\ Sum(p, s \ {x}) = p[y] + r
      BY <3>1, <3>2
    <3>. HIDE DEF r, y
    <3>. QED
      BY <2>4, <3>4, <3>5, <3>6
  <2>. QED
    BY <2>1, <2>4, <2>6, <2>7
<1>4. Good(S)
  BY <1>3
<1>5. \A x \in S : Good(S \ {x})
  BY <1>3
<1>. QED
  BY <1>2, <1>4, <1>5

LEMMA SumSplit ==
  ASSUME NEW p, NEW S, IsFiniteSet(S), \A k \in S : p[k] \in Int, NEW T \in SUBSET S
  PROVE  /\ Sum(p, S) = Sum(p, T) + Sum(p, S \ T)
         /\ Sum(p, S) \in Int /\ Sum(p, T) \in Int /\ Sum(p, S \ T) \in Int
<1>1. \A U \in SUBSET S : IsFiniteSet(U) /\ \A k \in U : p[k] \in Int
  BY FS_Subset
<1>2. \A U \in SUBSET S : Sum(p, U) \in Int /\ \A x \in U : Sum(p, U) = p[x] + Sum(p, U \ {x})
  BY <1>1, SumRemove
<1>3. Sum(p, {}) = 0
  BY SumRecursion, FS_EmptySet
<1>. DEFINE Bad == {U \in SUBSET S : ~(Sum(p, S) = Sum(p, U) + Sum(p, S \ U))}
<1>4. Bad = {}
  <2>. SUFFICES ASSUME Bad # {} PROVE FALSE
    OBVIOUS
  <2>1. PICK U \in Bad : \A V \in Bad : Cardinality(U) <= Cardinality(V)
    BY <1>1, SmallestSet
  <2>0. U \in SUBSET S /\ ~(Sum(p, S) = Sum(p, U) + Sum(p, S \ U))
    BY <2>1, Zenon
  <2>2. U # {}
    <3>1. S \ {} = S
      OBVIOUS
    <3>2. Sum(p, S) = Sum(p, {}) + Sum(p, S \ {})
      BY <1>2, <1>3, <3>1
    <3>. QED
      BY <2>0, <3>2, Zenon
  <2>3. PICK x \in U : TRUE
    BY <2>2
  <2>4. Cardinality(U) = Cardinality(U \ {x}) + 1 /\ Cardinality(U \ {x}) \in Nat
    BY <1>1, <2>1, Smaller
  <2>5. U \ {x} \notin Bad /\ U \ {x} \in SUBSET S
    <3>1. U \ {x} \in SUBSET S
      BY <2>0
    <3>2. \A V \in Bad : Cardinality(U) <= Cardinality(V)
      BY <2>1, Zenon
    <3>3. ~(Cardinality(U) <= Cardinality(U \ {x}))
      BY <2>4
    <3>. HIDE DEF Bad
    <3>. QED
      BY <3>1, <3>2, <3>3, Zenon
  <2>6. Sum(p, S) = Sum(p, U \ {x}) + Sum(p, S \ (U \ {x}))
    BY <2>5, Zenon
  <2>7. x \in S \ (U \ {x}) /\ (S \ (U \ {x})) \ {x} = S \ U /\ S \ (U \ {x}) \in SUBSET S
    BY <2>0
  <2>8. Sum(p, S \ (U \ {x})) = p[x] + Sum(p, S \ U)
    <3>1. PICK W \in SUBSET S : W = S \ (U \ {x})
      BY <2>7, Zenon
    <3>2. x \in W /\ W \ {x} = S \ U
      BY <2>7, <3>1, Zenon
    <3>3. Sum(p, W) = p[x] + Sum(p, W \ {x})
      BY <1>2, <3>2, Zenon
    <3>. QED
      BY <3>1, <3>2, <3>3, Zenon
  <2>9. Sum(p, U) = p[x] + Sum(p, U \ {x})
    BY <1>2, <2>0, Zenon
  <2>10. {Sum(p, S \ U), Sum(p, U \ {x}), p[x]} \subseteq Int
    BY <1>1, <1>2, <2>0, <2>5, <2>7
  <2>11. Sum(p, S) = Sum(p, U) + Sum(p, S \ U)
    BY <2>6, <2>8, <2>9, <2>10
  <2>. QED
    BY <2>0, <2>11, Zenon
<1>5. S \in SUBSET S /\ S \ T \in SUBSET S
  OBVIOUS
<1>. QED
  BY <1>2, <1>4, <1>5

LEMMA Distribute == \A c \in Int, n \in Nat : c * (n + 1) = c * n + c /\ c * n \in Int /\ c * 0 = 0
  OBVIOUS

LEMMA SumBound ==
  ASSUME NEW p, NEW S, IsFiniteSet(S), NEW c \in Int, \A k \in S : p[k] \in Int /\ p[k] <= c
  PROVE  Sum(p, S) <= c * Cardinality(S)
<1>1. \A U \in SUBSET S : IsFiniteSet(U) /\ Cardinality(U) \in Nat
  BY FS_Subset, FS_CardinalityType
<1>2. \A U \in SUBSET S : Sum(p, U) \in Int /\ \A x \in U : Sum(p, U) = p[x] + Sum(p, U \ {x})
  BY <1>1, SumRemove
<1>. DEFINE Bad == {U \in SUBSET S : ~(Sum(p, U) <= c * Cardinality(U))}
<1>3. Bad = {}
  <2>. SUFFICES ASSUME Bad # {} PROVE FALSE
    OBVIOUS
  <2>1. PICK U \in Bad : \A V \in Bad : Cardinality(U) <= Cardinality(V)
    BY <1>1, SmallestSet
  <2>2. U # {}
    <3>1. Sum(p, {}) = 0 /\ Cardinality({}) = 0
      BY SumRecursion, FS_EmptySet
    <3>2. Sum(p, {}) <= c * Cardinality({})
      BY <3>1, Distribute
    <3>. QED
      BY <2>1, <3>2
  <2>3. PICK x \in U : TRUE
    BY <2>2
  <2>4. Cardinality(U) = Cardinality(U \ {x}) + 1 /\ Cardinality(U \ {x}) \in Nat
    BY <1>1, <2>1, Smaller
  <2>5. U \ {x} \notin Bad /\ U \ {x} \in SUBSET S
    <3>1. U \in SUBSET S
      BY <2>1
    <3>. HIDE DEF Bad
    <3>. QED
      BY <2>1, <2>4, <3>1
  <2>6. PICK n \in Nat : n = Cardinality(U \ {x})
    BY <2>4
  <2>7. Sum(p, U \ {x}) <= c * n
    BY <2>5, <2>6
  <2>8. Sum(p, U) = p[x] + Sum(p, U \ {x}) /\ Sum(p, U \ {x}) \in Int /\ p[x] \in Int /\ p[x] <= c
    BY <1>2, <2>1, <2>3, <2>5
  <2>9. c * (n + 1) = c * n + c /\ c * n \in Int
    BY Distribute
  <2>10. Sum(p, U) <= c * (n + 1)
    BY <2>7, <2>8, <2>9
  <2>. QED
    BY <2>1, <2>4, <2>6, <2>10
<1>4. S \in SUBSET S
  OBVIOUS
<1>. QED
  BY <1>3, <1>4

\* A finite set has a member where p is greatest.
LEMMA GreatestExists ==
  ASSUME NEW p, NEW S, IsFiniteSet(S), S # {}, \A k \in S : p[k] \in Int
  PROVE  \E k \in S : \A j \in S : p[j] <= p[k]
<1>1. \A U \in SUBSET S : IsFiniteSet(U)
  BY FS_Subset
<1>. DEFINE Bad == {U \in SUBSET S : U # {} /\ ~ \E k \in U : \A j \in U : p[j] <= p[k]}
<1>2. Bad = {}
  <2>. SUFFICES ASSUME Bad # {} PROVE FALSE
    OBVIOUS
  <2>1. PICK U \in Bad : \A V \in Bad : Cardinality(U) <= Cardinality(V)
    BY <1>1, SmallestSet
  <2>2. PICK x \in U : TRUE
    BY <2>1
  <2>3. Cardinality(U) = Cardinality(U \ {x}) + 1 /\ Cardinality(U \ {x}) \in Nat
    BY <1>1, <2>1, Smaller
  <2>4. U \ {x} \notin Bad
    <3>. HIDE DEF Bad
    <3>. QED
      BY <2>1, <2>3
  <2>5. CASE U \ {x} = {}
    <3>1. \A j \in U : j = x
      BY <2>5
    <3>2. p[x] \in Int
      BY <2>1, <2>2
    <3>3. \A j \in U : p[j] <= p[x]
      BY <3>1, <3>2
    <3>. QED
      BY <2>1, <2>2, <3>3
  <2>6. CASE U \ {x} # {}
    <3>1. PICK k \in U \ {x} : \A j \in U \ {x} : p[j] <= p[k]
      BY <2>1, <2>4, <2>6
    <3>2. \A j \in U : p[j] \in Int
      BY <2>1
    <3>3. CASE p[x] <= p[k]
      <4>1. \A j \in U : p[j] <= p[k]
        BY <3>1, <3>3
      <4>. QED
        BY <2>1, <4>1
    <3>4. CASE ~(p[x] <= p[k])
      <4>1. \A j \in U : p[j] <= p[x]
        BY <2>2, <3>1, <3>2, <3>4
      <4>. QED
        BY <2>1, <2>2, <4>1
    <3>. QED
      BY <3>3, <3>4
  <2>. QED
    BY <2>5, <2>6
<1>. QED
  BY <1>2

LEMMA LeastExists ==
  ASSUME NEW p, NEW S, IsFiniteSet(S), S # {}, \A k \in S : p[k] \in Int
  PROVE  \E k \in S : \A j \in S : p[k] <= p[j]
<1>. DEFINE q == [k \in S |-> -p[k]]
<1>1. \A k \in S : q[k] \in Int /\ q[k] = -p[k]
  OBVIOUS
<1>. HIDE DEF q
<1>2. PICK k \in S : \A j \in S : q[j] <= q[k]
  BY <1>1, GreatestExists
<1>. QED
  BY <1>1, <1>2

-----------------------------------------------------------------------------
(* The spectrum: its bins, the median, the prefix sums.                     *)

LEMMA UsableBins ==
  /\ StartBin \in Nat /\ EndBin \in Nat /\ StartBin <= EndBin /\ N \in Nat /\ N >= 1
  /\ N = EndBin - StartBin + 1 /\ Usable = StartBin..EndBin
  /\ IsFiniteSet(Usable) /\ Cardinality(Usable) = N
<1>1. StartBin \in Nat /\ EndBin \in Nat /\ StartBin <= EndBin /\ N = EndBin - StartBin + 1
  BY CfarAssumption DEF StartBin, EndBin, N
<1>2. Usable = StartBin..EndBin
  BY DEF Usable
<1>3. IsFiniteSet(Usable) /\ Cardinality(Usable) = N
  BY <1>1, <1>2, FS_Interval
<1>. QED
  BY <1>1, <1>2, <1>3

LEMMA Part ==
  ASSUME NEW S \in SUBSET Usable
  PROVE  IsFiniteSet(S) /\ Cardinality(S) \in Nat /\ Cardinality(S) <= N
BY UsableBins, FS_Subset, FS_CardinalityType

LEMMA MedianExists ==
  ASSUME NEW p \in [Usable -> Levels]
  PROVE  /\ Median(p) \in Levels /\ Median(p) \in Int
         /\ Cardinality({k \in Usable : p[k] < Median(p)}) <= N \div 2
         /\ Cardinality({k \in Usable : p[k] <= Median(p)}) > N \div 2
<1>. DEFINE AtMost(v)  == {k \in Usable : p[k] <= v}
            Under(v) == {k \in Usable : p[k] < v}
            R == {k \in Usable : Cardinality(AtMost(p[k])) > N \div 2}
<1>1. \A k \in Usable : p[k] \in Levels /\ p[k] \in Int
  BY CfarAssumption
<1>2. PICK half \in Nat : half = N \div 2 /\ half < N
  BY UsableBins
<1>3. \A v : Cardinality(AtMost(v)) \in Nat /\ Cardinality(Under(v)) \in Nat
  BY Part
<1>4. R # {}
  <2>1. StartBin \in Usable
    BY UsableBins
  <2>2. PICK k \in Usable : \A j \in Usable : p[j] <= p[k]
    BY <1>1, <2>1, UsableBins, GreatestExists
  <2>3. AtMost(p[k]) = Usable
    BY <2>2
  <2>. QED
    BY <1>2, <2>3, UsableBins
<1>5. IsFiniteSet(R) /\ \A k \in R : p[k] \in Int
  BY <1>1, Part
<1>6. PICK k \in R : \A j \in R : p[k] <= p[j]
  BY <1>4, <1>5, LeastExists
<1>7. Cardinality(Under(p[k])) <= N \div 2
  <2>. SUFFICES ASSUME ~(Cardinality(Under(p[k])) <= N \div 2) PROVE FALSE
    OBVIOUS
  <2>1. Cardinality(Under(p[k])) > half
    <3>1. Cardinality(Under(p[k])) \in Nat
      BY <1>3
    <3>. HIDE DEF Under
    <3>. QED
      BY <1>2, <3>1
  <2>2. Under(p[k]) # {}
    BY <1>2, <2>1, FS_EmptySet
  <2>3. IsFiniteSet(Under(p[k])) /\ \A j \in Under(p[k]) : p[j] \in Int
    BY <1>1, Part
  <2>4. PICK j \in Under(p[k]) : \A i \in Under(p[k]) : p[i] <= p[j]
    BY <2>2, <2>3, GreatestExists
  <2>5. AtMost(p[j]) = Under(p[k])
    BY <1>1, <1>6, <2>4
  <2>6. j \in R /\ p[j] < p[k]
    BY <1>2, <2>1, <2>4, <2>5
  <2>. QED
    BY <1>1, <1>6, <2>6
<1>8. \E v \in Levels : /\ Cardinality(Under(v)) <= N \div 2
                        /\ Cardinality(AtMost(v)) > N \div 2
  BY <1>1, <1>6, <1>7
<1>9. Median(p) = CHOOSE v \in Levels : /\ Cardinality(Under(v)) <= N \div 2
                                        /\ Cardinality(AtMost(v)) > N \div 2
  BY DEF Median
<1>10. Median(p) \in Levels /\ Cardinality(Under(Median(p))) <= N \div 2
       /\ Cardinality(AtMost(Median(p))) > N \div 2
  BY <1>8, <1>9
<1>. QED
  BY <1>10, CfarAssumption

\* The prefix sums are sums: PrefixSums(p)[i] adds up the first i bins.
First(i) == StartBin..(StartBin + i - 1)

LEMMA FirstBins ==
  ASSUME NEW i \in 0..N
  PROVE  /\ First(i) \in SUBSET Usable
         /\ i = 0 => First(i) = {}
         /\ i # 0 => /\ StartBin + i - 1 \in First(i) /\ i - 1 \in 0..N
                     /\ First(i) \ {StartBin + i - 1} = First(i - 1)
BY UsableBins DEF First

LEMMA PrefixSumsAre ==
  ASSUME NEW p, \A k \in Usable : p[k] \in Int
  PROVE  \A i \in 0..N : PrefixSums(p)[i] = Sum(p, First(i))
<1>. DEFINE Recursion(g) ==
       g = [i \in 0..N |-> IF i = 0 THEN 0 ELSE g[i - 1] + p[StartBin + i - 1]]
            sums == [i \in 0..N |-> Sum(p, First(i))]
<1>1. \A S \in SUBSET Usable : IsFiniteSet(S) /\ \A k \in S : p[k] \in Int
  BY Part
<1>2. \A i \in 0..N : Sum(p, First(i)) \in Int /\
        Sum(p, First(i)) = IF i = 0 THEN 0 ELSE Sum(p, First(i - 1)) + p[StartBin + i - 1]
  <2>. SUFFICES ASSUME NEW i \in 0..N
                PROVE  Sum(p, First(i)) \in Int /\
        Sum(p, First(i)) = IF i = 0 THEN 0 ELSE Sum(p, First(i - 1)) + p[StartBin + i - 1]
    OBVIOUS
  <2>1. IsFiniteSet(First(i)) /\ \A k \in First(i) : p[k] \in Int
    BY <1>1, FirstBins
  <2>2. /\ Sum(p, {}) = 0 /\ Sum(p, First(i)) \in Int
        /\ \A x \in First(i) : Sum(p, First(i)) = p[x] + Sum(p, First(i) \ {x})
                               /\ Sum(p, First(i) \ {x}) \in Int
    BY <2>1, SumRemove
  <2>3. CASE i = 0
    BY <2>2, <2>3, FirstBins
  <2>4. CASE i # 0
    <3>1. StartBin + i - 1 \in First(i) /\ First(i) \ {StartBin + i - 1} = First(i - 1)
      BY <2>4, FirstBins
    <3>2. p[StartBin + i - 1] \in Int
      BY <2>1, <3>1
    <3>3. Sum(p, First(i)) = p[StartBin + i - 1] + Sum(p, First(i - 1))
          /\ Sum(p, First(i)) \in Int /\ Sum(p, First(i - 1)) \in Int
      BY <2>2, <3>1
    <3>. QED
      BY <2>4, <3>2, <3>3
  <2>. QED
    BY <2>3, <2>4
<1>3. Recursion(sums)
  <2>1. \A i \in 0..N : i # 0 => i - 1 \in 0..N
    BY UsableBins
  <2>2. \A i \in 0..N : sums[i] = IF i = 0 THEN 0 ELSE sums[i - 1] + p[StartBin + i - 1]
    BY <1>2, <2>1
  <2>3. sums = [i \in 0..N |-> sums[i]]
    OBVIOUS
  <2>. HIDE DEF sums
  <2>. QED
    BY <2>2, <2>3
<1>4. PrefixSums(p) = CHOOSE g : Recursion(g)
  BY DEF PrefixSums
<1>. HIDE DEF sums, Recursion
<1>5. Recursion(PrefixSums(p))
  BY <1>3, <1>4
<1>6. ASSUME NEW g, NEW h, Recursion(g), Recursion(h)
      PROVE  \A i \in 0..N : g[i] = h[i]
  <2>. DEFINE Bad == {i \in 0..N : g[i] # h[i]}
  <2>. SUFFICES ASSUME Bad # {} PROVE FALSE
    OBVIOUS
  <2>1. Bad \subseteq Nat
    BY UsableBins
  <2>2. PICK i \in Bad : \A j \in Bad : i <= j
    BY <2>1, LeastElement
  <2>3. g[i] = (IF i = 0 THEN 0 ELSE g[i - 1] + p[StartBin + i - 1])
        /\ h[i] = (IF i = 0 THEN 0 ELSE h[i - 1] + p[StartBin + i - 1])
    BY <1>6 DEF Recursion
  <2>4. i # 0 /\ i - 1 \in 0..N /\ ~(i <= i - 1)
    BY <2>2, <2>3, UsableBins
  <2>5. i - 1 \notin Bad
    <3>. HIDE DEF Bad
    <3>. QED
      BY <2>2, <2>4
  <2>. QED
    BY <2>2, <2>3, <2>4, <2>5
<1>7. \A i \in 0..N : PrefixSums(p)[i] = sums[i]
  BY <1>3, <1>5, <1>6
<1>. QED
  BY <1>7 DEF sums

-----------------------------------------------------------------------------
(* The window of reference bins and what the loop compares a bin with.      *)

ClampedTo(a, b) == {j \in Usable : StartBin + a <= j /\ j <= StartBin + b}

\* What the loop finds prepared.
Prepared == /\ power \in [Usable -> Int] /\ psum = PrefixSums(power) /\ noise = Median(power)
            /\ noise \in Int

LEMMA TotalIsSum == \A S : Total(S) = Sum(power, S)
  BY DEF Total, Sum

\* The difference of two prefix sums is the sum over the window, clamped or not.
LEMMA RefMeanIs ==
  ASSUME Prepared, NEW a \in Int, NEW b \in Int
  PROVE  RefMean(a, b) = [num |-> Sum(power, ClampedTo(a, b)), den |-> Cardinality(ClampedTo(a, b))]
<1>. DEFINE lo == IF a < 0 THEN 0 ELSE a
            hi == IF b > N - 1 THEN N - 1 ELSE b
            W == ClampedTo(a, b)
<1>1. StartBin \in Nat /\ EndBin \in Nat /\ N \in Nat /\ N >= 1 /\ EndBin = StartBin + N - 1
      /\ Usable = StartBin..EndBin
  BY UsableBins
<1>2. lo \in Nat /\ hi \in Int /\ hi <= N - 1
  BY <1>1
<1>3. W = (StartBin + lo)..(StartBin + hi)
  BY <1>1 DEF ClampedTo
<1>4. RefMean(a, b) = IF lo > hi THEN [num |-> 0, den |-> 0]
                      ELSE [num |-> psum[hi + 1] - psum[lo], den |-> hi - lo + 1]
  BY DEF RefMean
<1>. HIDE DEF lo, hi, W
<1>5. CASE lo > hi
  <2>1. W = {}
    BY <1>1, <1>2, <1>3, <1>5
  <2>2. Sum(power, W) = 0 /\ Cardinality(W) = 0
    BY <2>1, SumRecursion, FS_EmptySet
  <2>. QED
    BY <1>4, <1>5, <2>2 DEF W
<1>6. CASE ~(lo > hi)
  <2>1. lo \in 0..N /\ hi + 1 \in 0..N
    BY <1>1, <1>2, <1>6
  <2>2. psum[hi + 1] = Sum(power, First(hi + 1)) /\ psum[lo] = Sum(power, First(lo))
    BY <2>1, PrefixSumsAre DEF Prepared
  <2>3. First(lo) \in SUBSET First(hi + 1) /\ First(hi + 1) \ First(lo) = W
    BY <1>1, <1>2, <1>3, <1>6 DEF First
  <2>4. IsFiniteSet(First(hi + 1)) /\ \A k \in First(hi + 1) : power[k] \in Int
    BY <2>1, FirstBins, Part DEF Prepared
  <2>5. /\ Sum(power, First(hi + 1)) = Sum(power, First(lo)) + Sum(power, First(hi + 1) \ First(lo))
        /\ Sum(power, First(lo)) \in Int /\ Sum(power, First(hi + 1) \ First(lo)) \in Int
    BY <2>3, <2>4, SumSplit
  <2>6. psum[hi + 1] - psum[lo] = Sum(power, W)
    <3>1. PICK x \in Int, y \in Int : x = Sum(power, First(lo)) /\ y = Sum(power, W)
      BY <2>3, <2>5
    <3>2. psum[hi + 1] = x + y /\ psum[lo] = x
      BY <2>2, <2>3, <2>5, <3>1
    <3>. QED
      BY <3>1, <3>2
  <2>7. Cardinality(W) = hi - lo + 1
    <3>1. StartBin + lo \in Int /\ StartBin + hi \in Int /\ ~(StartBin + lo > StartBin + hi)
          /\ (StartBin + hi) - (StartBin + lo) + 1 = hi - lo + 1
      BY <1>1, <1>2, <1>6
    <3>. QED
      BY <1>3, <3>1, FS_Interval
  <2>. QED
    BY <1>4, <1>6, <2>6, <2>7 DEF W
<1>. QED
  BY <1>5, <1>6

LEMMA WindowsAre ==
  ASSUME NEW k \in Usable
  PROVE  /\ k - StartBin \in Int /\ CfarGuard \in Nat /\ CfarRef \in Nat
         /\ ClampedTo(k - StartBin - CfarGuard - CfarRef, k - StartBin - CfarGuard - 1) = Below(k)
         /\ ClampedTo(k - StartBin + CfarGuard + 1, k - StartBin + CfarGuard + CfarRef) = Beyond(k)
         /\ Below(k) \in SUBSET Usable /\ Beyond(k) \in SUBSET Usable
         /\ Below(k) \cap Beyond(k) = {} /\ k \notin Below(k) /\ k \notin Beyond(k)
<1>1. k \in Int /\ StartBin \in Int /\ CfarGuard \in Nat /\ CfarRef \in Nat /\ \A j \in Usable : j \in Int
  BY UsableBins, CfarAssumption
<1>2. ClampedTo(k - StartBin - CfarGuard - CfarRef, k - StartBin - CfarGuard - 1) = Below(k)
  <2>1. \A j \in Usable : /\ StartBin + (k - StartBin - CfarGuard - CfarRef) <= j
                            /\ j <= StartBin + (k - StartBin - CfarGuard - 1)
                          <=> k - CfarGuard - CfarRef <= j /\ j < k - CfarGuard
    BY <1>1
  <2>. QED
    BY <2>1 DEF ClampedTo, Below
<1>3. ClampedTo(k - StartBin + CfarGuard + 1, k - StartBin + CfarGuard + CfarRef) = Beyond(k)
  <2>1. \A j \in Usable : /\ StartBin + (k - StartBin + CfarGuard + 1) <= j
                            /\ j <= StartBin + (k - StartBin + CfarGuard + CfarRef)
                          <=> k + CfarGuard < j /\ j <= k + CfarGuard + CfarRef
    BY <1>1
  <2>. QED
    BY <2>1 DEF ClampedTo, Beyond
<1>4. Below(k) \in SUBSET Usable /\ Beyond(k) \in SUBSET Usable
  BY DEF Below, Beyond
<1>5. \A j \in Usable : ~(j \in Below(k) /\ j \in Beyond(k)) /\ k \notin Below(k) /\ k \notin Beyond(k)
  BY <1>1 DEF Below, Beyond
<1>6. k - StartBin \in Int
  BY <1>1
<1>7. Below(k) \cap Beyond(k) = {} /\ k \notin Below(k) /\ k \notin Beyond(k)
  BY <1>4, <1>5
<1>. QED
  BY <1>1, <1>2, <1>3, <1>4, <1>6, <1>7

LEMMA Rearrange ==
  \A e \in Int, l, r \in Nat : e * (2 * l * r) = 2 * e * l * r
  OBVIOUS

\* The loop calls a bin loud exactly if it is.
LEMMA LoudIsLoud ==
  ASSUME Prepared, NEW k \in Usable
  PROVE  AtLeast(power[k] - Threshold, LocalNoise(k)) <=> Loud(k)
<1>. DEFINE excess == power[k] - Threshold
            below == Below(k)
            beyond == Beyond(k)
            left == RefMean(k - StartBin - CfarGuard - CfarRef, k - StartBin - CfarGuard - 1)
            right == RefMean(k - StartBin + CfarGuard + 1, k - StartBin + CfarGuard + CfarRef)
            sides == {S \in {below, beyond} : S # {}}
<1>1. excess \in Int /\ noise \in Int /\ Median(power) = noise
  BY CfarAssumption DEF Prepared
<1>2. left = [num |-> Sum(power, below), den |-> Cardinality(below)]
      /\ right = [num |-> Sum(power, beyond), den |-> Cardinality(beyond)]
  BY WindowsAre, RefMeanIs
<1>3. Cardinality(below) \in Nat /\ Cardinality(beyond) \in Nat
      /\ (Cardinality(below) = 0 <=> below = {}) /\ (Cardinality(beyond) = 0 <=> beyond = {})
  BY WindowsAre, Part, FS_EmptySet
<1>4. Sum(power, below) \in Int /\ Sum(power, beyond) \in Int
  BY WindowsAre, Part, SumRemove DEF Prepared
<1>5. \A S : MeanOf(S) = [num |-> Sum(power, S), den |-> Cardinality(S)]
  BY TotalIsSum DEF MeanOf
<1>6. LocalNoise(k) = CASE left.den = 0 /\ right.den = 0 -> [num |-> noise, den |-> 1]
        [] left.den = 0 /\ right.den # 0 -> right
        [] left.den # 0 /\ right.den = 0 -> left
        [] OTHER -> [num |-> left.num * right.den + right.num * left.den,
                     den |-> 2 * left.den * right.den]
  BY DEF LocalNoise
<1>7. Loud(k) <=> CASE sides = {}  -> excess >= Median(power)
        [] Cardinality(sides) = 1  -> \A S \in sides : AtLeast(excess, MeanOf(S))
        [] OTHER -> 2 * excess * Cardinality(below) * Cardinality(beyond)
              >= Sum(power, below) * Cardinality(beyond) + Sum(power, beyond) * Cardinality(below)
  BY TotalIsSum DEF Loud
<1>8. below \cap beyond = {}
  BY WindowsAre
<1>. HIDE DEF excess, below, beyond, left, right
<1>9. CASE below = {} /\ beyond = {}
  <2>1. sides = {} /\ left.den = 0 /\ right.den = 0
    BY <1>2, <1>3, <1>9
  <2>2. LocalNoise(k) = [num |-> noise, den |-> 1]
    BY <1>6, <2>1
  <2>3. Loud(k) <=> excess >= noise
    <3>0. sides = {}
      BY <2>1
    <3>. HIDE DEF sides
    <3>1. sides = {} /\ Cardinality(sides) # 1
      BY <3>0, FS_EmptySet
    <3>2. Loud(k) <=> excess >= Median(power)
      BY <1>7, <3>1
    <3>. QED
      BY <1>1, <3>2
  <2>4. AtLeast(excess, LocalNoise(k)) <=> excess >= noise
    BY <1>1, <2>2 DEF AtLeast
  <2>. QED
    BY <2>3, <2>4 DEF excess
<1>10. CASE below = {} /\ beyond # {}
  <2>1. sides = {beyond} /\ left.den = 0 /\ right.den # 0
    BY <1>2, <1>3, <1>10
  <2>2. LocalNoise(k) = MeanOf(beyond)
    BY <1>2, <1>5, <1>6, <2>1
  <2>3. sides # {} /\ Cardinality(sides) = 1
    BY <2>1, FS_Singleton
  <2>4. Loud(k) <=> AtLeast(excess, MeanOf(beyond))
    BY <1>7, <2>1, <2>3
  <2>. QED
    BY <2>2, <2>4 DEF excess
<1>11. CASE below # {} /\ beyond = {}
  <2>1. sides = {below} /\ left.den # 0 /\ right.den = 0
    BY <1>2, <1>3, <1>11
  <2>2. LocalNoise(k) = MeanOf(below)
    BY <1>2, <1>5, <1>6, <2>1
  <2>3. sides # {} /\ Cardinality(sides) = 1
    BY <2>1, FS_Singleton
  <2>4. Loud(k) <=> AtLeast(excess, MeanOf(below))
    BY <1>7, <2>1, <2>3
  <2>. QED
    BY <2>2, <2>4 DEF excess
<1>12. CASE below # {} /\ beyond # {}
  <2>. DEFINE l == Cardinality(below)
              r == Cardinality(beyond)
              sum == Sum(power, below) * r + Sum(power, beyond) * l
  <2>1. left.den # 0 /\ right.den # 0 /\ left.den = l /\ right.den = r
        /\ left.num = Sum(power, below) /\ right.num = Sum(power, beyond)
    BY <1>2, <1>3, <1>12
  <2>2. LocalNoise(k) = [num |-> sum, den |-> 2 * l * r]
    BY <1>6, <2>1
  <2>3. sides # {} /\ Cardinality(sides) # 1
    <3>1. below \in sides /\ beyond \in sides /\ below # beyond
      BY <1>8, <1>12
    <3>2. IsFiniteSet({below, beyond}) /\ sides \in SUBSET {below, beyond}
      <4>1. {below, beyond} = {below} \cup {beyond}
        OBVIOUS
      <4>2. IsFiniteSet({below, beyond})
        <5>1. IsFiniteSet({below}) /\ IsFiniteSet({beyond})
          BY FS_Singleton
        <5>. QED
          BY <4>1, <5>1, FS_Union
      <4>. QED
        BY <4>2
    <3>3. IsFiniteSet(sides)
      BY <3>2, FS_Subset
    <3>. HIDE DEF sides
    <3>4. Cardinality(sides) # 1
      BY <3>1, <3>3, FS_Singleton
    <3>. QED
      BY <3>1, <3>4
  <2>4. Loud(k) <=> 2 * excess * l * r >= sum
    <3>. HIDE DEF sides
    <3>. QED
      BY <1>7, <2>3
  <2>5. 2 * excess * l * r = excess * (2 * l * r)
    BY <1>1, <1>3, Rearrange
  <2>. HIDE DEF l, r, sum
  <2>6. AtLeast(excess, LocalNoise(k)) <=> excess * (2 * l * r) >= sum
    BY <2>2 DEF AtLeast
  <2>. QED
    BY <2>4, <2>5, <2>6 DEF excess
<1>. QED
  BY <1>9, <1>10, <1>11, <1>12

-----------------------------------------------------------------------------
(* The result, of a spectrum p.                                             *)

LoudIn(p, k) ==
  LET excess == p[k] - Threshold
      sides  == {S \in {Below(k), Beyond(k)} : S # {}}
  IN  CASE sides = {}              -> excess >= Median(p)
        [] Cardinality(sides) = 1  ->
             \A S \in sides : AtLeast(excess, [num |-> Sum(p, S), den |-> Cardinality(S)])
        [] OTHER -> 2 * excess * Cardinality(Below(k)) * Cardinality(Beyond(k))
                      >= Sum(p, Below(k)) * Cardinality(Beyond(k)) + Sum(p, Beyond(k)) * Cardinality(Below(k))
LoudSet(p) == {k \in Usable : LoudIn(p, k)}

OffsetIn(p, k) ==
  LET den == 2 * (2 * p[k] - p[k - 1] - p[k + 1]) IN
  IF StartBin < k /\ k < EndBin /\ den # 0
    THEN [num |-> p[k + 1] - p[k - 1], den |-> den]
    ELSE [num |-> 0, den |-> 1]
SignalIn(p, first, end, peak, sum) ==
  [start |-> first, end |-> end, peak |-> peak, sum |-> sum, offset |-> OffsetIn(p, peak)]

\* From a to b is a maximal run; k is its first strongest bin; it is wide and peaked enough.
IsRun(p, a, b) == /\ a \in Usable /\ b \in Usable /\ a <= b /\ a..b \subseteq LoudSet(p)
                  /\ a - 1 \notin LoudSet(p) /\ b + 1 \notin LoudSet(p)
IsStrongest(p, S, k) == k \in S /\ \A j \in S : p[j] < p[k] \/ (p[j] = p[k] /\ k <= j)
Passes(p, a, b, k) ==
  LET width == b - a + 1 IN
  /\ width >= MinBins
  /\ width < 2 \/ AtLeast(p[k] - MinPapr, [num |-> Sum(p, a..b), den |-> width])

\* x is the signal of a run that ends before c.
Reports(p, c, x) == \E a, b, k \in Usable :
  /\ IsRun(p, a, b) /\ b < c /\ IsStrongest(p, a..b, k) /\ Passes(p, a, b, k)
  /\ x = SignalIn(p, a, b, k, Sum(p, a..b))

LEMMA OfPower ==
  /\ \A k : Loud(k) <=> LoudIn(power, k)
  /\ \A first, end, peak, sum : Signal(first, end, peak, sum) = SignalIn(power, first, end, peak, sum)
<1>1. \A S : MeanOf(S) = [num |-> Sum(power, S), den |-> Cardinality(S)]
  BY TotalIsSum DEF MeanOf
<1>2. ASSUME NEW k PROVE Loud(k) <=> LoudIn(power, k)
  BY <1>1, TotalIsSum DEF Loud, LoudIn
<1>. QED
  BY <1>2 DEF Signal, SignalIn, Offset, OffsetIn

LEMMA Interval ==
  ASSUME NEW a \in Int, NEW b \in Int, a <= b
  PROVE  /\ Min(a..b) = a /\ Max(a..b) = b /\ IsFiniteSet(a..b) /\ Cardinality(a..b) = b - a + 1
<1>1. Min(a..b) = a
  <2>1. a \in a..b /\ \A y \in a..b : a <= y
    OBVIOUS
  <2>2. \A x \in a..b : (\A y \in a..b : x <= y) => x = a
    OBVIOUS
  <2>. QED
    BY <2>1, <2>2 DEF Min
<1>2. Max(a..b) = b
  <2>1. b \in a..b /\ \A y \in a..b : b >= y
    OBVIOUS
  <2>2. \A x \in a..b : (\A y \in a..b : x >= y) => x = b
    OBVIOUS
  <2>. QED
    BY <2>1, <2>2 DEF Max
<1>3. ~(a > b)
  OBVIOUS
<1>. QED
  BY <1>1, <1>2, <1>3, FS_Interval

LEMMA RunsAre ==
  \A S : S \in MaximalRuns <=> \E a, b \in Usable : IsRun(power, a, b) /\ S = a..b
<1>. DEFINE L == LoudSet(power)
<1>1. L = {k \in Usable : Loud(k)}
  BY OfPower DEF LoudSet
<1>2. MaximalRuns = {S \in {a..b : a, b \in Usable} : S # {} /\ S \subseteq L
                       /\ {Min(S) - 1, Max(S) + 1} \cap L = {}}
  BY <1>1 DEF MaximalRuns
<1>. HIDE DEF L
<1>3. ASSUME NEW a \in Usable, NEW b \in Usable
      PROVE  IsRun(power, a, b) <=>
               a..b # {} /\ a..b \subseteq L /\ {Min(a..b) - 1, Max(a..b) + 1} \cap L = {}
  <2>1. a \in Int /\ b \in Int
    BY UsableBins
  <2>2. CASE a <= b
    <3>1. Min(a..b) = a /\ Max(a..b) = b
      BY <2>1, <2>2, Interval
    <3>2. a..b # {}
      BY <2>1, <2>2
    <3>3. IsRun(power, a, b) <=> a..b \subseteq L /\ a - 1 \notin L /\ b + 1 \notin L
      BY <2>2 DEF IsRun, L
    <3>. HIDE DEF L
    <3>. QED
      BY <3>1, <3>2, <3>3
  <2>3. CASE ~(a <= b)
    <3>1. a..b = {}
      BY <2>1, <2>3
    <3>. QED
      BY <2>3, <3>1 DEF IsRun
  <2>. QED
    BY <2>2, <2>3
<1>4. \A S : S \in {a..b : a, b \in Usable} <=> \E a, b \in Usable : S = a..b
  <2>1. ASSUME NEW S, S \in {a..b : a, b \in Usable} PROVE \E a, b \in Usable : S = a..b
    BY <2>1
  <2>2. ASSUME NEW a \in Usable, NEW b \in Usable PROVE a..b \in {c..d : c, d \in Usable}
    OBVIOUS
  <2>. QED
    BY <2>1, <2>2
<1>5. ASSUME NEW S
      PROVE  S \in MaximalRuns <=> \E a, b \in Usable : IsRun(power, a, b) /\ S = a..b
  <2>1. S \in MaximalRuns <=> /\ \E a, b \in Usable : S = a..b
                              /\ S # {} /\ S \subseteq L /\ {Min(S) - 1, Max(S) + 1} \cap L = {}
    BY <1>2, <1>4
  <2>2. ASSUME S \in MaximalRuns PROVE \E a, b \in Usable : IsRun(power, a, b) /\ S = a..b
    BY <1>3, <2>1, <2>2, Zenon
  <2>3. ASSUME NEW a \in Usable, NEW b \in Usable, IsRun(power, a, b), S = a..b PROVE S \in MaximalRuns
    BY <1>3, <2>1, <2>3, Zenon
  <2>. QED
    BY <2>2, <2>3
<1>. QED
  BY <1>5

LEMMA StrongestIs ==
  ASSUME NEW S \in SUBSET Usable, NEW k, IsStrongest(power, S, k), \A j \in S : power[j] \in Int
  PROVE  Strongest(S) = k
<1>1. \A j \in S : j \in Int
  BY UsableBins
<1>2. k \in S /\ \A j \in S : power[j] < power[k] \/ (power[j] = power[k] /\ k <= j)
  BY DEF IsStrongest
<1>3. ASSUME NEW i \in S, \A j \in S : power[j] < power[i] \/ (power[j] = power[i] /\ i <= j)
      PROVE  i = k
  <2>1. power[k] < power[i] \/ (power[k] = power[i] /\ i <= k)
    BY <1>2, <1>3
  <2>2. power[i] < power[k] \/ (power[i] = power[k] /\ k <= i)
    BY <1>2, <1>3
  <2>. QED
    BY <1>1, <1>2, <2>1, <2>2
<1>. QED
  BY <1>2, <1>3 DEF Strongest

LEMMA StrongestExists ==
  ASSUME NEW p, NEW S \in SUBSET Usable, S # {}, \A j \in S : p[j] \in Int
  PROVE  \E k \in S : IsStrongest(p, S, k)
<1>1. IsFiniteSet(S)
  BY Part
<1>2. PICK m \in S : \A j \in S : p[j] <= p[m]
  BY <1>1, GreatestExists
<1>. DEFINE T == {j \in S : p[j] = p[m]}
<1>3. T \subseteq Nat /\ T # {}
  <2>1. m \in T
    OBVIOUS
  <2>2. \A j \in T : j \in Nat
    BY UsableBins
  <2>. QED
    BY <2>1, <2>2
<1>. HIDE DEF T
<1>4. PICK k \in T : \A j \in T : k <= j
  BY <1>3, LeastElement
<1>5. \A j \in S : p[j] < p[k] \/ (p[j] = p[k] /\ k <= j)
  BY <1>2, <1>4 DEF T
<1>. QED
  BY <1>4, <1>5 DEF IsStrongest, T

-----------------------------------------------------------------------------
(* The loop.                                                                *)

\* The run r before bin c of a spectrum p: none, or one that is open.
Idle(p, c, r) == r = NoRun /\ c - 1 \notin LoudSet(p)
Open(p, c, r) == \E a, k \in Usable :
  /\ r = [start |-> a, peak |-> k, sum |-> Sum(p, a..(c - 1)), count |-> c - a]
  /\ a < c /\ a..(c - 1) \subseteq LoudSet(p) /\ a - 1 \notin LoudSet(p)
  /\ IsStrongest(p, a..(c - 1), k)

LEMMA OneRunEndsHere ==
  ASSUME NEW p, NEW c \in Int, NEW a \in Usable, a < c,
         a..(c - 1) \subseteq LoudSet(p), a - 1 \notin LoudSet(p),
         NEW d \in Usable, IsRun(p, d, c - 1)
  PROVE  d = a
<1>1. a \in Int /\ d \in Int /\ d <= c - 1 /\ d..(c - 1) \subseteq LoudSet(p) /\ d - 1 \notin LoudSet(p)
  BY UsableBins DEF IsRun
<1>2. CASE d < a
  <2>1. a - 1 \in d..(c - 1)
    BY <1>1, <1>2
  <2>. QED
    BY <1>1, <2>1
<1>3. CASE a < d
  <2>1. d - 1 \in a..(c - 1)
    BY <1>1, <1>3
  <2>. QED
    BY <1>1, <2>1
<1>. QED
  BY <1>1, <1>2, <1>3

\* The first strongest bin is one.
LEMMA OneStrongest ==
  ASSUME NEW p, NEW S \in SUBSET Usable, \A j \in S : p[j] \in Int,
         NEW k, IsStrongest(p, S, k), NEW i, IsStrongest(p, S, i)
  PROVE  i = k
<1>1. i \in S /\ k \in S /\ i \in Int /\ k \in Int /\ p[i] \in Int /\ p[k] \in Int
  BY UsableBins DEF IsStrongest
<1>2. p[k] < p[i] \/ (p[k] = p[i] /\ i <= k)
  BY <1>1 DEF IsStrongest
<1>3. p[i] < p[k] \/ (p[i] = p[k] /\ k <= i)
  BY <1>1 DEF IsStrongest
<1>. QED
  BY <1>1, <1>2, <1>3

\* A run is reported when the bin after it has been looked at.
LEMMA ReportsGrow ==
  ASSUME NEW p, NEW c \in Int, NEW x
  PROVE  Reports(p, c, x) <=>
           \/ Reports(p, c - 1, x)
           \/ \E a, k \in Usable :
                /\ IsRun(p, a, c - 1) /\ IsStrongest(p, a..(c - 1), k) /\ Passes(p, a, c - 1, k)
                /\ x = SignalIn(p, a, c - 1, k, Sum(p, a..(c - 1)))
<1>1. \A b \in Usable : b < c <=> b < c - 1 \/ b = c - 1
  BY UsableBins
<1>2. \A a, b : IsRun(p, a, b) => b \in Usable
  BY DEF IsRun
<1>. QED
  BY <1>1, <1>2 DEF Reports

\* A loud bin ends no run.
LEMMA LoudEndsNothing ==
  ASSUME NEW p, NEW c \in Int, NEW r, c \in LoudSet(p) \/ Idle(p, c, r), NEW x
  PROVE  Reports(p, c, x) <=> Reports(p, c - 1, x)
<1>1. ASSUME NEW a, IsRun(p, a, c - 1) PROVE FALSE
  <2>1. a \in Int /\ a <= c - 1 /\ a..(c - 1) \subseteq LoudSet(p) /\ (c - 1) + 1 \notin LoudSet(p)
    BY <1>1, UsableBins DEF IsRun
  <2>2. c - 1 \in a..(c - 1) /\ (c - 1) + 1 = c
    BY <2>1
  <2>. QED
    BY <2>1, <2>2 DEF Idle
<1>. QED
  BY <1>1, ReportsGrow

\* A bin that is not loud ends the open run.
LEMMA QuietEndsTheRun ==
  ASSUME NEW p \in [Usable -> Int], NEW c \in Int, c - 1 \in Usable, NEW a \in Usable, NEW k \in Usable,
         a < c, a..(c - 1) \subseteq LoudSet(p), a - 1 \notin LoudSet(p), c \notin LoudSet(p),
         IsStrongest(p, a..(c - 1), k), NEW x
  PROVE  Reports(p, c, x) <=>
           \/ Reports(p, c - 1, x)
           \/ Passes(p, a, c - 1, k) /\ x = SignalIn(p, a, c - 1, k, Sum(p, a..(c - 1)))
<1>1. a \in Int /\ a <= c - 1 /\ (c - 1) + 1 = c
  BY UsableBins
<1>2. IsRun(p, a, c - 1)
  BY <1>1 DEF IsRun
<1>3. a..(c - 1) \in SUBSET Usable
  BY DEF LoudSet
<1>4. \A j \in a..(c - 1) : p[j] \in Int
  BY <1>3
<1>5. ASSUME NEW d \in Usable, NEW i \in Usable, IsRun(p, d, c - 1), IsStrongest(p, d..(c - 1), i)
      PROVE  d = a /\ i = k
  <2>1. d = a
    BY <1>5, OneRunEndsHere
  <2>. QED
    BY <1>3, <1>4, <1>5, <2>1, OneStrongest
<1>. QED
  BY <1>2, <1>5, ReportsGrow

\* Extended, of a spectrum p, a bin c and a run r.
Longer(p, c, r) ==
  [start |-> IF r = NoRun THEN c ELSE r.start,
   peak  |-> IF r = NoRun \/ p[c] > p[r.peak] THEN c ELSE r.peak,
   sum   |-> r.sum + p[c], count |-> r.count + 1]

LEMMA RunGrows ==
  ASSUME NEW p \in [Usable -> Int], NEW c \in Usable, c \in LoudSet(p), NEW r,
         Idle(p, c, r) \/ Open(p, c, r)
  PROVE  Open(p, c + 1, Longer(p, c, r))
<1>1. c \in Int /\ (c + 1) - 1 = c /\ c < c + 1 /\ p[c] \in Int
  BY UsableBins
<1>2. CASE Idle(p, c, r)
  <2>1. r = NoRun /\ c - 1 \notin LoudSet(p)
    BY <1>2 DEF Idle
  <2>2. c..c = {c} /\ Sum(p, {c}) = p[c]
    <3>1. c..c = {c}
      BY <1>1
    <3>2. IsFiniteSet({c}) /\ {c} \ {c} = {}
      BY FS_Singleton
    <3>3. \A k \in {c} : p[k] \in Int
      BY <1>1
    <3>4. Sum(p, {c}) = p[c] + Sum(p, {c} \ {c}) /\ Sum(p, {}) = 0
      BY <3>2, <3>3, SumRemove
    <3>. QED
      BY <1>1, <3>1, <3>2, <3>4
  <2>3. Longer(p, c, r) = [start |-> c, peak |-> c, sum |-> p[c], count |-> 1]
    BY <1>1, <2>1 DEF Longer, NoRun
  <2>4. IsStrongest(p, {c}, c)
    BY <1>1 DEF IsStrongest
  <2>5. (c + 1) - c = 1
    BY <1>1
  <2>. QED
    BY <1>1, <2>1, <2>2, <2>3, <2>4, <2>5 DEF Open
<1>3. CASE Open(p, c, r)
  <2>1. PICK a \in Usable, k \in Usable :
          /\ r = [start |-> a, peak |-> k, sum |-> Sum(p, a..(c - 1)), count |-> c - a]
          /\ a < c /\ a..(c - 1) \subseteq LoudSet(p) /\ a - 1 \notin LoudSet(p)
          /\ IsStrongest(p, a..(c - 1), k)
    BY <1>3 DEF Open
  <2>2. a \in Int /\ a # -1 /\ k \in Int /\ p[k] \in Int
    BY UsableBins
  <2>3. r # NoRun
    BY <2>1, <2>2 DEF NoRun
  <2>. DEFINE S == a..(c - 1)
              m == IF p[c] > p[k] THEN c ELSE k
  <2>4. a..c = S \cup {c} /\ (a..c) \ {c} = S /\ c \in a..c
    BY <1>1, <2>1, <2>2
  <2>5. S \in SUBSET Usable /\ a..c \in SUBSET Usable /\ a..c \subseteq LoudSet(p)
    BY <2>1, <2>4 DEF LoudSet
  <2>6. Sum(p, a..c) = Sum(p, S) + p[c]
    <3>1. IsFiniteSet(a..c) /\ \A j \in a..c : p[j] \in Int
      BY <2>5, Part
    <3>2. Sum(p, a..c) = p[c] + Sum(p, (a..c) \ {c}) /\ Sum(p, (a..c) \ {c}) \in Int
      BY <2>4, <3>1, SumRemove
    <3>3. Sum(p, a..c) = p[c] + Sum(p, S) /\ Sum(p, S) \in Int
      BY <2>4, <3>2
    <3>4. \A u, v \in Int : u + v = v + u
      OBVIOUS
    <3>. QED
      BY <1>1, <3>3, <3>4
  <2>7. (c - a) + 1 = (c + 1) - a /\ a < c + 1
    BY <1>1, <2>1, <2>2
  <2>8. Longer(p, c, r) = [start |-> a, peak |-> m, sum |-> Sum(p, a..c), count |-> (c + 1) - a]
    BY <2>1, <2>3, <2>6, <2>7 DEF Longer
  <2>9. m \in Usable /\ IsStrongest(p, a..c, m)
    <3>1. k \in S /\ \A j \in S : j \in Int /\ p[j] \in Int /\ (p[j] < p[k] \/ (p[j] = p[k] /\ k <= j))
      BY <2>1, <2>5, UsableBins DEF IsStrongest
    <3>2. k <= c
      BY <1>1, <2>2, <3>1
    <3>. HIDE DEF S
    <3>3. CASE p[c] > p[k]
      BY <1>1, <2>2, <2>4, <3>1, <3>3 DEF IsStrongest
    <3>4. CASE ~(p[c] > p[k])
      BY <1>1, <2>2, <2>4, <3>1, <3>2, <3>4 DEF IsStrongest
    <3>. QED
      BY <3>3, <3>4
  <2>. HIDE DEF S, m
  <2>. QED
    BY <1>1, <2>1, <2>5, <2>7, <2>8, <2>9 DEF Open
<1>. QED
  BY <1>2, <1>3

-----------------------------------------------------------------------------
(* The invariant: signals are the runs that have ended, run is the one that *)
(* has not.                                                                 *)

SpectrumOK == raw \in [Usable -> Levels] /\ dcGuard \in DcGuards
              /\ pc \in {"prepare", "scan", "done"}
PreparedOK == pc # "prepare" => power = Blanked /\ power \in [Usable -> Levels] /\ Prepared
LoopOK ==
  /\ pc = "prepare" => bin = StartBin /\ run = NoRun /\ signals = {}
  /\ pc = "scan" => /\ bin \in StartBin..(EndBin + 1)
                    /\ Idle(power, bin, run) \/ Open(power, bin, run)
                    /\ \A x : x \in signals <=> Reports(power, bin - 1, x)
  /\ pc = "done" => \A x : x \in signals <=> Reports(power, EndBin + 1, x)
DetectorInv == SpectrumOK /\ PreparedOK /\ LoopOK

\* Flushed(), in the terms of the spectrum.
LEMMA FlushedIs ==
  ASSUME NEW c \in Int, c \in StartBin..(EndBin + 1), power \in [Usable -> Int], c \notin LoudSet(power),
         Idle(power, c, run) \/ Open(power, c, run),
         \A x : x \in signals <=> Reports(power, c - 1, x)
  PROVE  \A x : x \in Flushed(c - 1) <=> Reports(power, c, x)
<1>1. CASE Idle(power, c, run)
  <2>1. run = NoRun
    BY <1>1 DEF Idle
  <2>2. Flushed(c - 1) = signals
    BY <2>1 DEF Flushed
  <2>3. \A x : Reports(power, c, x) <=> Reports(power, c - 1, x)
    BY <1>1, LoudEndsNothing
  <2>. QED
    BY <2>2, <2>3
<1>2. CASE Open(power, c, run)
  <2>1. PICK a \in Usable, k \in Usable :
          /\ run = [start |-> a, peak |-> k, sum |-> Sum(power, a..(c - 1)), count |-> c - a]
          /\ a < c /\ a..(c - 1) \subseteq LoudSet(power) /\ a - 1 \notin LoudSet(power)
          /\ IsStrongest(power, a..(c - 1), k)
    BY <1>2 DEF Open
  <2>2. a \in Int /\ a # -1 /\ (c - 1) - a + 1 = c - a /\ c - 1 \in Usable
    BY <2>1, UsableBins
  <2>3. run # NoRun
    BY <2>1, <2>2 DEF NoRun
  <2>4. Flushed(c - 1) =
          IF Passes(power, a, c - 1, k)
            THEN signals \cup {SignalIn(power, a, c - 1, k, Sum(power, a..(c - 1)))} ELSE signals
    <3>1. run.start = a /\ run.peak = k /\ run.sum = Sum(power, a..(c - 1)) /\ run.count = c - a
      BY <2>1
    <3>2. Flushed(c - 1) =
            IF /\ run # NoRun /\ (c - 1) - a + 1 >= MinBins
               /\ (c - 1) - a + 1 < 2
                  \/ AtLeast(power[k] - MinPapr, [num |-> Sum(power, a..(c - 1)), den |-> c - a])
              THEN signals \cup {SignalIn(power, a, c - 1, k, Sum(power, a..(c - 1)))} ELSE signals
      BY <3>1, OfPower, Zenon DEF Flushed
    <3>3. Passes(power, a, c - 1, k) <=>
            /\ (c - 1) - a + 1 >= MinBins
            /\ (c - 1) - a + 1 < 2
               \/ AtLeast(power[k] - MinPapr, [num |-> Sum(power, a..(c - 1)), den |-> c - a])
      BY <2>2 DEF Passes
    <3>. QED
      BY <2>3, <3>2, <3>3
  <2>5. \A x : Reports(power, c, x) <=>
               \/ Reports(power, c - 1, x)
               \/ /\ Passes(power, a, c - 1, k)
                  /\ x = SignalIn(power, a, c - 1, k, Sum(power, a..(c - 1)))
    BY <2>1, <2>2, QuietEndsTheRun
  <2>. QED
    BY <2>4, <2>5, Zenon
<1>. QED
  BY <1>1, <1>2

LEMMA BlankedIs ==
  ASSUME raw \in [Usable -> Levels]
  PROVE  Blanked \in [Usable -> Levels] /\ Median(Blanked) \in Int
<1>1. Blanked \in [Usable -> Levels]
  BY MedianExists DEF Blanked
<1>. QED
  BY <1>1, MedianExists

LEMMA ToAnInt == ASSUME NEW p \in [Usable -> Levels] PROVE p \in [Usable -> Int]
  BY CfarAssumption

LEMMA LoopStart == DetectorInit => DetectorInv
<1>1. SUFFICES ASSUME DetectorInit PROVE DetectorInv
  OBVIOUS
<1>. QED
  BY <1>1 DEF DetectorInit, DetectorInv, SpectrumOK, PreparedOK, LoopOK

LEMMA PrepareStep == DetectorInv /\ Prepare => DetectorInv'
<1>1. SUFFICES ASSUME DetectorInv, Prepare PROVE DetectorInv'
  OBVIOUS
<1>2. /\ pc = "prepare" /\ pc' = "scan" /\ bin' = bin /\ run' = run /\ signals' = signals
      /\ raw' = raw /\ dcGuard' = dcGuard
      /\ power' = Blanked /\ noise' = Median(Blanked) /\ psum' = PrefixSums(Blanked)
  BY <1>1 DEF Prepare
<1>3. bin = StartBin /\ run = NoRun /\ signals = {} /\ raw \in [Usable -> Levels]
  BY <1>1, <1>2 DEF DetectorInv, LoopOK, SpectrumOK
<1>4. SpectrumOK'
  BY <1>1, <1>2 DEF DetectorInv, SpectrumOK
<1>5. Blanked' = Blanked
  BY <1>2 DEF Blanked, DcZone
<1>6. PreparedOK'
  <2>1. power' \in [Usable -> Levels] /\ power' \in [Usable -> Int] /\ Median(Blanked) \in Int
    BY <1>2, <1>3, BlankedIs, ToAnInt
  <2>. QED
    BY <1>2, <1>5, <2>1 DEF PreparedOK, Prepared
<1>7. LoopOK'
  <2>1. StartBin - 1 \notin LoudSet(power') /\ \A b \in Usable : ~(b < StartBin - 1)
    BY UsableBins DEF LoudSet
  <2>2. Idle(power', bin', run') /\ \A x : ~ Reports(power', bin' - 1, x)
    BY <1>2, <1>3, <2>1 DEF Idle, Reports
  <2>3. bin' \in StartBin..(EndBin + 1)
    BY <1>2, <1>3, UsableBins
  <2>. QED
    BY <1>2, <1>3, <2>2, <2>3 DEF LoopOK
<1>. QED
  BY <1>4, <1>6, <1>7 DEF DetectorInv

LEMMA ScanFacts ==
  ASSUME DetectorInv, pc = "scan"
  PROVE  /\ bin \in Int /\ bin \in StartBin..(EndBin + 1) /\ power \in [Usable -> Int] /\ Prepared
         /\ Idle(power, bin, run) \/ Open(power, bin, run)
         /\ \A x : x \in signals <=> Reports(power, bin - 1, x)
<1>1. bin \in StartBin..(EndBin + 1) /\ Prepared /\ power \in [Usable -> Levels]
  BY DEF DetectorInv, LoopOK, PreparedOK
<1>2. bin \in Int /\ power \in [Usable -> Int]
  BY <1>1, UsableBins, ToAnInt
<1>. QED
  BY <1>1, <1>2 DEF DetectorInv, LoopOK

LEMMA BinStep == DetectorInv /\ Bin => DetectorInv'
<1>1. SUFFICES ASSUME DetectorInv, Bin PROVE DetectorInv'
  OBVIOUS
<1>2. /\ pc = "scan" /\ pc' = pc /\ bin <= EndBin /\ bin' = bin + 1 /\ raw' = raw /\ dcGuard' = dcGuard
      /\ power' = power /\ noise' = noise /\ psum' = psum
  BY <1>1 DEF Bin
<1>3. /\ bin \in Int /\ bin \in StartBin..(EndBin + 1) /\ power \in [Usable -> Int] /\ Prepared
      /\ Idle(power, bin, run) \/ Open(power, bin, run)
      /\ \A x : x \in signals <=> Reports(power, bin - 1, x)
  BY <1>1, <1>2, ScanFacts
<1>4. SpectrumOK'
  BY <1>1, <1>2 DEF DetectorInv, SpectrumOK
<1>5. PreparedOK'
  <2>1. Blanked' = Blanked
    BY <1>2 DEF Blanked, DcZone
  <2>. QED
    BY <1>1, <1>2, <2>1 DEF DetectorInv, PreparedOK, Prepared
<1>6. bin \in Usable /\ bin' \in StartBin..(EndBin + 1) /\ bin' - 1 = bin /\ bin' \in Int
  BY <1>2, <1>3, UsableBins
<1>7. bin \in LoudSet(power) <=> AtLeast(power[bin] - Threshold, LocalNoise(bin))
  BY <1>3, <1>6, LoudIsLoud, OfPower DEF LoudSet
<1>8. CASE bin \in LoudSet(power)
  <2>1. run' = Longer(power, bin, run) /\ signals' = signals
    BY <1>1, <1>7, <1>8 DEF Bin, Extended, Longer
  <2>2. Open(power', bin', run')
    BY <1>2, <1>3, <1>6, <1>8, <2>1, RunGrows
  <2>3. \A x : Reports(power, bin, x) <=> Reports(power, bin - 1, x)
    BY <1>3, <1>8, LoudEndsNothing
  <2>4. \A x : x \in signals' <=> Reports(power', bin' - 1, x)
    BY <1>2, <1>3, <1>6, <2>1, <2>3
  <2>5. LoopOK'
    BY <1>2, <1>6, <2>2, <2>4 DEF LoopOK
  <2>. QED
    BY <1>4, <1>5, <2>5 DEF DetectorInv
<1>9. CASE bin \notin LoudSet(power)
  <2>1. run' = NoRun /\ signals' = Flushed(bin - 1)
    BY <1>1, <1>7, <1>9 DEF Bin
  <2>2. Idle(power', bin', run')
    BY <1>2, <1>6, <1>9, <2>1 DEF Idle
  <2>3. \A x : x \in signals' <=> Reports(power', bin' - 1, x)
    <3>1. \A x : x \in Flushed(bin - 1) <=> Reports(power, bin, x)
      BY <1>3, <1>9, FlushedIs
    <3>. QED
      BY <1>2, <1>6, <2>1, <3>1
  <2>4. LoopOK'
    BY <1>2, <1>6, <2>2, <2>3 DEF LoopOK
  <2>. QED
    BY <1>4, <1>5, <2>4 DEF DetectorInv
<1>. QED
  BY <1>8, <1>9

LEMMA LastFlushStep == DetectorInv /\ LastFlush => DetectorInv'
<1>1. SUFFICES ASSUME DetectorInv, LastFlush PROVE DetectorInv'
  OBVIOUS
<1>2. /\ pc = "scan" /\ pc' = "done" /\ bin > EndBin /\ bin' = bin /\ raw' = raw /\ dcGuard' = dcGuard
      /\ power' = power /\ noise' = noise /\ psum' = psum /\ signals' = Flushed(EndBin)
  BY <1>1 DEF LastFlush
<1>3. /\ bin \in Int /\ bin \in StartBin..(EndBin + 1) /\ power \in [Usable -> Int] /\ Prepared
      /\ Idle(power, bin, run) \/ Open(power, bin, run)
      /\ \A x : x \in signals <=> Reports(power, bin - 1, x)
  BY <1>1, <1>2, ScanFacts
<1>4. SpectrumOK'
  BY <1>1, <1>2 DEF DetectorInv, SpectrumOK
<1>5. PreparedOK'
  <2>1. Blanked' = Blanked
    BY <1>2 DEF Blanked, DcZone
  <2>. QED
    BY <1>1, <1>2, <2>1 DEF DetectorInv, PreparedOK, Prepared
<1>6. bin = EndBin + 1 /\ bin - 1 = EndBin /\ bin \notin Usable
  BY <1>2, <1>3, UsableBins
<1>7. bin \notin LoudSet(power)
  BY <1>6 DEF LoudSet
<1>8. \A x : x \in signals' <=> Reports(power', EndBin + 1, x)
  <2>1. \A x : x \in Flushed(bin - 1) <=> Reports(power, bin, x)
    BY <1>3, <1>7, FlushedIs
  <2>. QED
    BY <1>2, <1>6, <2>1
<1>9. LoopOK'
  BY <1>2, <1>8 DEF LoopOK
<1>. QED
  BY <1>4, <1>5, <1>9 DEF DetectorInv

\* At every step the signals are the runs that have ended and run is the open one.
THEOREM DetectorInvariant == DetectorSpec => []DetectorInv
<1>1. DetectorInv /\ UNCHANGED detectorVars => DetectorInv'
  BY DEF DetectorInv, SpectrumOK, PreparedOK, LoopOK, detectorVars, Blanked, DcZone, Prepared
<1>2. DetectorInv /\ [DetectorNext]_detectorVars => DetectorInv'
  BY <1>1, PrepareStep, BinStep, LastFlushStep DEF DetectorNext, DetectorFinished
<1>. QED
  BY <1>2, LoopStart, PTL DEF DetectorSpec

Wanted(S) == /\ Cardinality(S) >= MinBins
             /\ \/ Cardinality(S) = 1
                \/ AtLeast(power[Strongest(S)] - MinPapr, MeanOf(S))
SignalOf(S) == Signal(Min(S), Max(S), Strongest(S), Total(S))

LEMMA RunIs ==
  ASSUME power \in [Usable -> Int], NEW a \in Usable, NEW b \in Usable, IsRun(power, a, b),
         NEW k, IsStrongest(power, a..b, k)
  PROVE  /\ Wanted(a..b) <=> Passes(power, a, b, k)
         /\ SignalOf(a..b) = SignalIn(power, a, b, k, Sum(power, a..b))
<1>1. a \in Int /\ b \in Int /\ a <= b /\ a..b \in SUBSET Usable
  BY UsableBins DEF IsRun, LoudSet
<1>2. Min(a..b) = a /\ Max(a..b) = b /\ Cardinality(a..b) = b - a + 1
  BY <1>1, Interval
<1>3. Strongest(a..b) = k
  BY <1>1, StrongestIs
<1>4. MeanOf(a..b) = [num |-> Sum(power, a..b), den |-> b - a + 1]
  BY <1>2, TotalIsSum DEF MeanOf
<1>5. b - a + 1 < 2 <=> b - a + 1 = 1
  BY <1>1
<1>6. Wanted(a..b) <=> Passes(power, a, b, k)
  BY <1>2, <1>3, <1>4, <1>5 DEF Wanted, Passes
<1>7. SignalOf(a..b) = SignalIn(power, a, b, k, Sum(power, a..b))
  BY <1>2, <1>3, TotalIsSum, OfPower DEF SignalOf
<1>. QED
  BY <1>6, <1>7

LEMMA WantedAreReported ==
  ASSUME power \in [Usable -> Int], NEW x
  PROVE  Reports(power, EndBin + 1, x) <=> \E S \in MaximalRuns : Wanted(S) /\ x = SignalOf(S)
<1>1. \A b \in Usable : b < EndBin + 1
  BY UsableBins
<1>2. ASSUME NEW a \in Usable, NEW b \in Usable, NEW k \in Usable, IsRun(power, a, b),
             IsStrongest(power, a..b, k), Passes(power, a, b, k),
             x = SignalIn(power, a, b, k, Sum(power, a..b))
      PROVE  \E S \in MaximalRuns : Wanted(S) /\ x = SignalOf(S)
  <2>1. a..b \in MaximalRuns
    BY <1>2, RunsAre
  <2>2. Wanted(a..b) /\ x = SignalOf(a..b)
    BY <1>2, RunIs
  <2>. QED
    BY <2>1, <2>2
<1>3. ASSUME NEW S \in MaximalRuns, Wanted(S), x = SignalOf(S) PROVE Reports(power, EndBin + 1, x)
  <2>1. PICK a \in Usable, b \in Usable : IsRun(power, a, b) /\ S = a..b
    BY RunsAre
  <2>2. a..b \in SUBSET Usable /\ a..b # {}
    <3>1. a \in Int /\ b \in Int /\ a <= b
      BY <2>1, UsableBins DEF IsRun
    <3>2. a \in a..b
      BY <3>1
    <3>. QED
      BY <2>1, <3>2 DEF IsRun, LoudSet
  <2>3. \A j \in a..b : power[j] \in Int
    BY <2>2
  <2>4. PICK k \in a..b : IsStrongest(power, a..b, k)
    BY <2>2, <2>3, StrongestExists
  <2>5. k \in Usable /\ Passes(power, a, b, k) /\ x = SignalIn(power, a, b, k, Sum(power, a..b))
    BY <1>3, <2>1, <2>2, <2>4, RunIs
  <2>. QED
    BY <1>1, <2>1, <2>4, <2>5 DEF Reports
<1>4. ASSUME Reports(power, EndBin + 1, x) PROVE \E S \in MaximalRuns : Wanted(S) /\ x = SignalOf(S)
  <2>1. PICK a, b, k \in Usable :
          /\ IsRun(power, a, b) /\ IsStrongest(power, a..b, k) /\ Passes(power, a, b, k)
          /\ x = SignalIn(power, a, b, k, Sum(power, a..b))
    BY <1>4 DEF Reports
  <2>. QED
    BY <1>2, <2>1
<1>. QED
  BY <1>3, <1>4

\* For every spectrum and every configuration: the signals are the maximal runs of loud
\* bins that are wide and peaked enough.
THEOREM RunsAreDetected == DetectorSpec => []DetectsTheRuns
<1>1. DetectorInv => DetectsTheRuns
  <2>1. SUFFICES ASSUME DetectorInv, pc = "done"
        PROVE  signals = {SignalOf(S) : S \in {S \in MaximalRuns : Wanted(S)}}
    BY DEF DetectsTheRuns, Wanted, SignalOf
  <2>2. power \in [Usable -> Int] /\ \A x : x \in signals <=> Reports(power, EndBin + 1, x)
    BY <2>1, ToAnInt DEF DetectorInv, LoopOK, PreparedOK
  <2>3. \A x : x \in signals <=> \E S \in MaximalRuns : Wanted(S) /\ x = SignalOf(S)
    BY <2>2, WantedAreReported
  <2>. QED
    BY <2>3
<1>. QED
  BY <1>1, DetectorInvariant, PTL

-----------------------------------------------------------------------------
(* A tone above everything else.                                            *)

LEMMA ProductGrows ==
  \A x, y \in Int, n \in Nat : x <= y => x * n <= y * n
<1>1. SUFFICES ASSUME NEW x \in Int, NEW y \in Int, NEW n \in Nat, x <= y PROVE x * n <= y * n
  OBVIOUS
<1>2. (y - x) * n >= 0 /\ (y - x) * n = y * n - x * n /\ x * n \in Int /\ y * n \in Int
  BY <1>1
<1>. QED
  BY <1>1, <1>2

LEMMA TwoSides ==
  ASSUME NEW e \in Int, NEW l \in Nat, NEW r \in Nat, NEW x \in Int, NEW y \in Int, x <= e * l, y <= e * r
  PROVE  2 * e * l * r >= x * r + y * l
<1>1. e * l \in Int /\ e * r \in Int
  OBVIOUS
<1>2. x * r <= (e * l) * r /\ y * l <= (e * r) * l
  BY <1>1, ProductGrows
<1>3. 2 * e * l * r = (e * l) * r + (e * r) * l
  OBVIOUS
<1>4. x * r \in Int /\ y * l \in Int /\ (e * l) * r \in Int /\ (e * r) * l \in Int
  OBVIOUS
<1>. QED
  BY <1>2, <1>3, <1>4

LEMMA ToneIsLoud ==
  ASSUME NEW p \in [Usable -> Int], NEW t \in Usable, Median(p) \in Int, p[t] - Threshold >= Median(p),
         \A j \in Usable \ {t} : p[j] <= p[t] - Threshold
  PROVE  LoudIn(p, t)
<1>. DEFINE e == p[t] - Threshold
            below == Below(t)
            beyond == Beyond(t)
            sides == {S \in {below, beyond} : S # {}}
<1>1. e \in Int /\ e >= Median(p)
  BY CfarAssumption
<1>2. ASSUME NEW S \in {below, beyond}
      PROVE  Cardinality(S) \in Nat /\ Sum(p, S) \in Int /\ Sum(p, S) <= e * Cardinality(S)
  <2>1. S \in SUBSET Usable /\ t \notin S
    BY WindowsAre
  <2>2. \A k \in S : p[k] \in Int /\ p[k] <= e
    BY <2>1
  <2>3. IsFiniteSet(S) /\ Cardinality(S) \in Nat
    BY <2>1, Part
  <2>. HIDE DEF e
  <2>. QED
    BY <1>1, <2>2, <2>3, SumBound, SumRemove
<1>3. ASSUME NEW S \in sides PROVE AtLeast(e, [num |-> Sum(p, S), den |-> Cardinality(S)])
  BY <1>2 DEF AtLeast
<1>4. 2 * e * Cardinality(below) * Cardinality(beyond)
        >= Sum(p, below) * Cardinality(beyond) + Sum(p, beyond) * Cardinality(below)
  <2>. HIDE DEF e, below, beyond
  <2>. QED
    BY <1>1, <1>2, TwoSides
<1>5. LoudIn(p, t) <=>
        CASE sides = {} -> e >= Median(p)
          [] Cardinality(sides) = 1  ->
               \A S \in sides : AtLeast(e, [num |-> Sum(p, S), den |-> Cardinality(S)])
          [] OTHER -> 2 * e * Cardinality(below) * Cardinality(beyond)
               >= Sum(p, below) * Cardinality(beyond) + Sum(p, beyond) * Cardinality(below)
  BY DEF LoudIn
<1>. HIDE DEF e, below, beyond, sides
<1>. QED
  BY <1>1, <1>3, <1>4, <1>5

\* A loud bin lies in a maximal run.
LEMMA RunAround ==
  ASSUME NEW p, NEW t \in LoudSet(p)
  PROVE  \E a, b \in Usable : IsRun(p, a, b) /\ a <= t /\ t <= b
<1>. DEFINE L == LoudSet(p)
            starts == {a \in Usable : a <= t /\ a..t \subseteq L}
            left == {n \in Nat : \E b \in Usable : n = EndBin - b /\ t <= b /\ t..b \subseteq L}
<1>1. t \in Int /\ t \in Usable /\ L \subseteq Usable /\ EndBin \in Int /\ t <= EndBin /\ t..t = {t}
  BY UsableBins DEF LoudSet
<1>2. \A k \in Usable : k \in Nat /\ k <= EndBin
  BY UsableBins
<1>. HIDE DEF L
<1>3. PICK a \in starts : \A c \in starts : a <= c
  <2>0. t..t \subseteq L /\ t <= t
    BY <1>1 DEF L
  <2>1. t \in starts /\ \A c \in starts : c \in Nat
    BY <1>1, <1>2, <2>0
  <2>. HIDE DEF starts
  <2>. QED
    BY <2>1, LeastElement
<1>4. PICK b \in Usable : t <= b /\ t..b \subseteq L /\ \A c \in Usable : t <= c /\ t..c \subseteq L => c <= b
  <2>1. EndBin - t \in left
    BY <1>1, <1>2 DEF L
  <2>2. left \subseteq Nat
    OBVIOUS
  <2>. HIDE DEF left
  <2>3. PICK n \in left : \A m \in left : n <= m
    BY <2>1, <2>2, LeastElement
  <2>4. PICK b \in Usable : n = EndBin - b /\ t <= b /\ t..b \subseteq L
    BY <2>3 DEF left
  <2>5. ASSUME NEW c \in Usable, t <= c, t..c \subseteq L PROVE c <= b
    <3>1. EndBin - c \in left
      BY <1>1, <1>2, <2>5 DEF left
    <3>2. EndBin - b <= EndBin - c
      BY <2>3, <2>4, <3>1
    <3>. QED
      BY <1>1, <1>2, <3>2
  <2>. QED
    BY <2>4, <2>5
<1>5. a \in Usable /\ a \in Int /\ b \in Int /\ a <= t /\ a..t \subseteq L
  BY <1>2, <1>3
<1>6. a..b \subseteq L /\ a <= b
  BY <1>1, <1>4, <1>5
<1>7. a - 1 \notin L
  <2>1. SUFFICES ASSUME a - 1 \in L PROVE FALSE
    OBVIOUS
  <2>2. a - 1 \in Usable /\ a - 1 <= t /\ (a - 1)..t \subseteq L
    BY <1>1, <1>5, <2>1
  <2>3. a - 1 \in starts
    BY <2>2
  <2>. HIDE DEF starts
  <2>. QED
    BY <1>3, <1>5, <2>3
<1>8. b + 1 \notin L
  <2>1. SUFFICES ASSUME b + 1 \in L PROVE FALSE
    OBVIOUS
  <2>2. b + 1 \in Usable /\ t <= b + 1 /\ t..(b + 1) \subseteq L
    BY <1>1, <1>4, <1>5, <2>1
  <2>. QED
    BY <1>4, <1>5, <2>2
<1>. QED
  BY <1>4, <1>5, <1>6, <1>7, <1>8 DEF IsRun, L

LEMMA AllButOne ==
  ASSUME NEW t \in Usable
  PROVE  IsFiniteSet(Usable \ {t}) /\ Cardinality(Usable \ {t}) = N - 1
<1>1. IsFiniteSet(Usable) /\ Cardinality(Usable) = N
  BY UsableBins, Zenon
<1>2. Cardinality(Usable \ {t}) = Cardinality(Usable) - 1 /\ IsFiniteSet(Usable \ {t})
  BY <1>1, FS_RemoveElement, Zenon
<1>. QED
  BY <1>1, <1>2, Zenon

\* A median is no greater than a value that all but fewer than half of the bins keep below.
LEMMA MedianBelow ==
  ASSUME NEW p \in [Usable -> Levels], NEW t \in Usable, NEW e \in Int, N > 2,
         \A j \in Usable \ {t} : p[j] <= e
  PROVE  Median(p) <= e
<1>1. SUFFICES ASSUME ~(Median(p) <= e) PROVE FALSE
  OBVIOUS
<1>. DEFINE under == {k \in Usable : p[k] < Median(p)}
<1>2. Median(p) \in Int /\ Cardinality(under) <= N \div 2 /\ N \in Nat
  BY MedianExists, UsableBins
<1>3. p \in [Usable -> Int]
  BY ToAnInt
<1>4. Usable \ {t} \in SUBSET under /\ under \in SUBSET Usable
  BY <1>1, <1>2, <1>3
<1>. HIDE DEF under
<1>5. IsFiniteSet(under) /\ Cardinality(under) \in Nat /\ Cardinality(Usable \ {t}) \in Nat
      /\ Cardinality(Usable \ {t}) <= Cardinality(under)
  BY <1>4, Part, FS_Subset, FS_CardinalityType
<1>6. Cardinality(Usable \ {t}) = N - 1
  BY AllButOne, Zenon
<1>. QED
  BY <1>1, <1>2, <1>5, <1>6

\* A band of two bins or fewer has its greatest power for a median.
LEMMA MedianOfFew ==
  ASSUME NEW p \in [Usable -> Levels], NEW t \in Usable, N <= 2
  PROVE  p[t] <= Median(p)
<1>. DEFINE upto == {k \in Usable : p[k] <= Median(p)}
<1>1. Cardinality(upto) > N \div 2 /\ N \in Nat /\ N >= 1
  BY MedianExists, UsableBins
<1>2. upto \in SUBSET Usable
  OBVIOUS
<1>3. CASE t \in upto
  BY <1>3
<1>4. CASE t \notin upto
  <2>1. upto \in SUBSET (Usable \ {t}) /\ Usable \ {t} \in SUBSET Usable
    BY <1>2, <1>4
  <2>. HIDE DEF upto
  <2>2. IsFiniteSet(Usable \ {t}) /\ Cardinality(Usable \ {t}) = N - 1
    BY AllButOne, Zenon
  <2>3. Cardinality(upto) <= N - 1 /\ Cardinality(upto) \in Nat
    BY <2>1, <2>2, <1>2, Part, FS_Subset
  <2>4. N \div 2 >= N - 1
    <3>1. N = 1 \/ N = 2
      BY <1>1
    <3>2. 1 \div 2 >= 0 /\ 2 \div 2 >= 1
      OBVIOUS
    <3>. QED
      BY <3>1, <3>2
  <2>. QED
    BY <1>1, <2>3, <2>4
<1>. QED
  BY <1>3, <1>4

\* The strongest bin of a run stands out of it, if it exceeds the others by enough.
LEMMA ToneStandsOut ==
  ASSUME NEW p \in [Usable -> Int], NEW S \in SUBSET Usable, NEW t \in S, Cardinality(S) >= 2,
         2 * MinPapr <= Threshold, \A j \in S \ {t} : p[j] <= p[t] - Threshold
  PROVE  AtLeast(p[t] - MinPapr, [num |-> Sum(p, S), den |-> Cardinality(S)])
<1>. DEFINE w == Cardinality(S)
            e == p[t] - Threshold
<1>1. IsFiniteSet(S) /\ w \in Nat /\ \A k \in S : p[k] \in Int
  BY Part
<1>2. IsFiniteSet(S \ {t}) /\ w - 1 \in Nat /\ Cardinality(S \ {t}) = w - 1
  <2>1. /\ IsFiniteSet(S \ {t}) /\ Cardinality(S \ {t}) \in Nat
        /\ w = Cardinality(S \ {t}) + 1
    BY <1>1, Smaller
  <2>2. \A c \in Nat : w = c + 1 => w - 1 = c
    BY <1>1
  <2>. QED
    BY <2>1, <2>2
<1>3. p[t] \in Int /\ e \in Int /\ Threshold \in Nat /\ MinPapr \in Nat
  BY <1>1, CfarAssumption
<1>4. Sum(p, S) = p[t] + Sum(p, S \ {t}) /\ Sum(p, S \ {t}) \in Int
  BY <1>1, SumRemove
<1>5. Sum(p, S \ {t}) <= e * (w - 1)
  <2>1. \A k \in S \ {t} : p[k] \in Int /\ p[k] <= e
    BY <1>1
  <2>. HIDE DEF e, w
  <2>. QED
    BY <1>2, <1>3, <2>1, SumBound
<1>6. PICK n \in Nat, x \in Int, z \in Int, q \in Nat, h \in Nat :
        n = w - 1 /\ x = p[t] /\ z = Sum(p, S \ {t}) /\ q = MinPapr /\ h = Threshold /\ n >= 1
  BY <1>1, <1>2, <1>3, <1>4
<1>7. z <= (x - h) * n
  BY <1>5, <1>6
<1>8. (x - q) * (n + 1) >= x + z
  <2>1. (x - h) * n = x * n - h * n /\ (x - q) * (n + 1) = x * n + x - q * n - q
        /\ x * n \in Int /\ h * n \in Int /\ q * n \in Int
    BY <1>6
  <2>2. (2 * q) * n <= h * n /\ (2 * q) * n = 2 * (q * n)
    BY <1>6, ProductGrows
  <2>3. q <= q * n
    <3>1. 1 * q <= n * q
      BY <1>6, ProductGrows
    <3>2. 1 * q = q /\ n * q = q * n
      BY <1>6
    <3>. QED
      BY <3>1, <3>2
  <2>. QED
    BY <1>6, <1>7, <2>1, <2>2, <2>3
<1>9. n + 1 = w /\ Sum(p, S) = x + z
  BY <1>1, <1>4, <1>6
<1>. QED
  BY <1>6, <1>8, <1>9 DEF AtLeast

\* What a lone tone is, of a spectrum p: all other bins are a threshold below it.
LEMMA ToneIsReported ==
  ASSUME NEW p \in [Usable -> Levels], NEW t \in Usable, N > 2, MinBins = 1,
         2 * MinPapr <= Threshold, Threshold > 0,
         \A j \in Usable \ {t} : p[j] <= p[t] - Threshold
  PROVE  \E x : /\ Reports(p, EndBin + 1, x) /\ x.peak = t
                /\ 2 * x.offset.num <= x.offset.den /\ -2 * x.offset.num <= x.offset.den
<1>1. p \in [Usable -> Int] /\ p[t] \in Int /\ Threshold \in Nat /\ p[t] - Threshold \in Int
  BY ToAnInt, CfarAssumption
<1>2. LoudIn(p, t)
  <2>1. Median(p) \in Int /\ Median(p) <= p[t] - Threshold
    BY <1>1, MedianExists, MedianBelow
  <2>. QED
    BY <1>1, <2>1, ToneIsLoud
<1>3. PICK a \in Usable, b \in Usable : IsRun(p, a, b) /\ a <= t /\ t <= b
  <2>1. t \in LoudSet(p)
    BY <1>2 DEF LoudSet
  <2>. QED
    BY <2>1, RunAround
<1>4. /\ a \in Int /\ b \in Int /\ t \in Int /\ a <= b /\ a..b \in SUBSET Usable /\ t \in a..b
      /\ Cardinality(a..b) = b - a + 1 /\ b < EndBin + 1
  <2>1. a \in Int /\ b \in Int /\ t \in Int /\ a <= b /\ b < EndBin + 1
    BY <1>3, UsableBins DEF IsRun
  <2>2. a..b \in SUBSET Usable
    BY <1>3 DEF IsRun, LoudSet
  <2>. QED
    BY <1>3, <2>1, <2>2, Interval
<1>5. \A j \in Usable : j = t \/ p[j] < p[t]
  BY <1>1
<1>6. IsStrongest(p, a..b, t)
  BY <1>4, <1>5 DEF IsStrongest
<1>7. Passes(p, a, b, t)
  <2>1. b - a + 1 \in Int /\ b - a + 1 >= 1
    BY <1>4
  <2>2. CASE b - a + 1 < 2
    BY <2>1, <2>2 DEF Passes
  <2>3. CASE ~(b - a + 1 < 2)
    <3>1. Cardinality(a..b) >= 2
      BY <1>4, <2>1, <2>3
    <3>2. AtLeast(p[t] - MinPapr, [num |-> Sum(p, a..b), den |-> Cardinality(a..b)])
      BY <1>1, <1>4, <3>1, ToneStandsOut
    <3>. QED
      BY <1>4, <2>1, <3>2 DEF Passes
  <2>. QED
    BY <2>2, <2>3
<1>. DEFINE x == SignalIn(p, a, b, t, Sum(p, a..b))
<1>8. Reports(p, EndBin + 1, x)
  BY <1>3, <1>4, <1>6, <1>7 DEF Reports
<1>9. x.peak = t /\ x.offset = OffsetIn(p, t)
  BY DEF SignalIn
<1>10. 2 * OffsetIn(p, t).num <= OffsetIn(p, t).den /\ -2 * OffsetIn(p, t).num <= OffsetIn(p, t).den
  <2>. DEFINE den == 2 * (2 * p[t] - p[t - 1] - p[t + 1])
  <2>1. CASE StartBin < t /\ t < EndBin /\ den # 0
    <3>1. t - 1 \in Usable \ {t} /\ t + 1 \in Usable \ {t}
      BY <1>4, <2>1, UsableBins
    <3>2. PICK l \in Int, m \in Int, r \in Int :
            l = p[t - 1] /\ m = p[t] /\ r = p[t + 1] /\ l <= m /\ r <= m
      BY <1>1, <1>5, <3>1
    <3>3. OffsetIn(p, t) = [num |-> r - l, den |-> 2 * (2 * m - l - r)]
      BY <2>1, <3>2 DEF OffsetIn
    <3>4. 2 * (r - l) <= 2 * (2 * m - l - r) /\ -2 * (r - l) <= 2 * (2 * m - l - r)
      BY <3>2
    <3>. QED
      BY <3>3, <3>4
  <2>2. CASE ~(StartBin < t /\ t < EndBin /\ den # 0)
    <3>1. OffsetIn(p, t) = [num |-> 0, den |-> 1]
      BY <2>2 DEF OffsetIn
    <3>. QED
      BY <3>1
  <2>. QED
    BY <2>1, <2>2
<1>. HIDE DEF x
<1>. QED
  BY <1>8, <1>9, <1>10

\* For every spectrum and every configuration with a threshold: a bin that stands a
\* threshold above the median and above all others is reported, with its frequency in it.
THEOREM ToneIsFound == DetectorSpec => []LoneToneIsFound
<1>1. DetectorInv => LoneToneIsFound
  <2>1. SUFFICES ASSUME DetectorInv, pc = "done", MinBins = 1, 2 * MinPapr <= Threshold, Threshold > 0,
                        NEW tone \in Usable \ DcZone, raw[tone] - Threshold >= Median(raw),
                        \A k \in Usable \ (DcZone \cup {tone}) : raw[tone] - Threshold >= raw[k]
        PROVE  \E s \in signals : /\ s.peak = tone
                                  /\ 2 * s.offset.num <= s.offset.den /\ -2 * s.offset.num <= s.offset.den
    BY DEF LoneToneIsFound
  <2>2. /\ power \in [Usable -> Levels] /\ power = Blanked /\ raw \in [Usable -> Levels]
        /\ \A x : x \in signals <=> Reports(power, EndBin + 1, x)
    BY <2>1 DEF DetectorInv, LoopOK, PreparedOK, SpectrumOK
  <2>3. raw \in [Usable -> Int] /\ Threshold \in Nat /\ Median(raw) \in Int
    BY <2>2, ToAnInt, CfarAssumption, MedianExists
  <2>4. \A j \in Usable \ {tone} : power[j] <= power[tone] - Threshold
    <3>1. power[tone] = raw[tone]
      BY <2>1, <2>2 DEF Blanked
    <3>2. ASSUME NEW j \in Usable \ {tone} PROVE power[j] <= power[tone] - Threshold
      <4>1. CASE j \in DcZone
        <5>1. power[j] = Median(raw)
          BY <2>2, <4>1 DEF Blanked
        <5>. QED
          BY <2>1, <2>3, <3>1, <5>1
      <4>2. CASE j \notin DcZone
        <5>1. power[j] = raw[j]
          BY <2>2, <4>2 DEF Blanked
        <5>. QED
          BY <2>1, <2>3, <3>1, <4>2, <5>1
      <4>. QED
        BY <4>1, <4>2
    <3>. QED
      BY <3>2
  <2>5. N > 2
    <3>1. SUFFICES ASSUME N <= 2 PROVE FALSE
      BY UsableBins
    <3>2. raw[tone] <= Median(raw)
      BY <2>1, <2>2, <3>1, MedianOfFew
    <3>. QED
      BY <2>1, <2>3, <3>2
  <2>6. PICK x : /\ Reports(power, EndBin + 1, x) /\ x.peak = tone
                 /\ 2 * x.offset.num <= x.offset.den /\ -2 * x.offset.num <= x.offset.den
    BY <2>1, <2>2, <2>4, <2>5, ToneIsReported
  <2>. QED
    BY <2>2, <2>6
<1>. QED
  BY <1>1, DetectorInvariant, PTL

-----------------------------------------------------------------------------
(* The filter.                                                              *)

\* The definition of a centre's sightings, of its history h.
Seen(h, b, i) == \E f \in h[i] : Bucket(f) = b
CountsIn(h, b, i, n) ==
  \A j \in (i + 1)..(n - MaxMisses) : \E k \in j..(j + MaxMisses) : Seen(h, b, k)
SightingsIn(h, b, n) ==
  {x \in (1..n) \X Freqs : x[2] \in h[x[1]] /\ Bucket(x[2]) = b /\ CountsIn(h, b, x[1], n)}
Fresh(F, b, n) == {x \in {n} \X F : Bucket(x[2]) = b}

LEMMA SightingsOf ==
  \A c, b, n : Sightings(c, b, n) = SightingsIn(history[c], b, n)
BY DEF Sightings, SightingsIn, Counts, CountsIn, SeenIn, Seen

LEMMA Elements ==
  ASSUME NEW h, NEW b, NEW n
  PROVE  \A x : x \in SightingsIn(h, b, n) <=>
           /\ x \in (1..n) \X Freqs /\ x = <<x[1], x[2]>>
           /\ x[1] \in 1..n /\ x[2] \in Freqs /\ x[2] \in h[x[1]] /\ Bucket(x[2]) = b /\ CountsIn(h, b, x[1], n)
BY DEF SightingsIn

LEMMA Append1 ==
  ASSUME NEW h \in Seq(SUBSET Freqs), NEW F \in SUBSET Freqs, NEW b
  PROVE  /\ Len(h) \in Nat /\ Len(Append(h, F)) = Len(h) + 1
         /\ \A i \in 1..Len(h) : Append(h, F)[i] = h[i] /\ h[i] \in SUBSET Freqs
         /\ Append(h, F)[Len(h) + 1] = F
         /\ \A i \in 1..Len(h) : Seen(Append(h, F), b, i) <=> Seen(h, b, i)
         /\ Seen(Append(h, F), b, Len(h) + 1) <=> \E f \in F : Bucket(f) = b
BY DEF Seen

\* A sighting goes on counting if its bucket is seen in the last MaxMisses + 1 dwells.
LEMMA CountsStep ==
  ASSUME NEW h \in Seq(SUBSET Freqs), NEW F \in SUBSET Freqs, NEW b, NEW i \in 1..Len(h),
         MaxMisses \in Nat
  PROVE  LET n == Len(h) IN
         CountsIn(Append(h, F), b, i, n + 1) <=>
           /\ CountsIn(h, b, i, n)
           /\ i >= n + 1 - MaxMisses \/ \E k \in (n + 1 - MaxMisses)..(n + 1) : Seen(Append(h, F), b, k)
<1>. DEFINE n == Len(h)
           g == Append(h, F)
           last1 == n + 1 - MaxMisses
<1>1. n \in Nat /\ i \in Nat /\ i >= 1 /\ i <= n /\ last1 \in Int
      /\ \A k \in 1..n : Seen(g, b, k) <=> Seen(h, b, k)
  <2>1. n \in Nat /\ \A k \in 1..n : Seen(g, b, k) <=> Seen(h, b, k)
    BY Append1
  <2>. QED
    BY <2>1
<1>2. \A j \in (i + 1)..(n - MaxMisses) :
        (\E k \in j..(j + MaxMisses) : Seen(h, b, k)) <=> (\E k \in j..(j + MaxMisses) : Seen(g, b, k))
  BY <1>1
<1>3. ASSUME CountsIn(g, b, i, n + 1)
      PROVE  /\ CountsIn(h, b, i, n)
             /\ i >= last1 \/ \E k \in last1..(n + 1) : Seen(g, b, k)
  <2>1. \A j \in (i + 1)..(n + 1 - MaxMisses) : \E k \in j..(j + MaxMisses) : Seen(g, b, k)
    BY <1>3 DEF CountsIn
  <2>2. CountsIn(h, b, i, n)
    <3>1. \A j \in (i + 1)..(n - MaxMisses) : j \in (i + 1)..(n + 1 - MaxMisses)
      BY <1>1
    <3>. QED
      BY <2>1, <3>1, <1>2 DEF CountsIn
  <2>3. ~(i >= last1) => last1 \in (i + 1)..(n + 1 - MaxMisses) /\ last1 + MaxMisses = n + 1
    BY <1>1
  <2>. QED
    BY <2>1, <2>2, <2>3
<1>4. ASSUME CountsIn(h, b, i, n), i >= last1 \/ \E k \in last1..(n + 1) : Seen(g, b, k)
      PROVE  CountsIn(g, b, i, n + 1)
  <2>. SUFFICES ASSUME NEW j \in (i + 1)..(n + 1 - MaxMisses)
                PROVE  \E k \in j..(j + MaxMisses) : Seen(g, b, k)
    BY DEF CountsIn
  <2>1. CASE j = last1
    <3>1. ~(i >= last1) /\ last1 + MaxMisses = n + 1
      BY <2>1, <1>1
    <3>. QED
      BY <2>1, <3>1, <1>4
  <2>2. CASE j # last1
    <3>1. j \in (i + 1)..(n - MaxMisses)
      BY <2>2, <1>1
    <3>. QED
      BY <3>1, <1>2, <1>4 DEF CountsIn
  <2>. QED
    BY <2>1, <2>2
<1>. QED
  BY <1>3, <1>4

\* The sightings after a dwell: those of the dwell, and the earlier ones that go on counting.
LEMMA SightingsStep ==
  ASSUME NEW h \in Seq(SUBSET Freqs), NEW F \in SUBSET Freqs, NEW b, MaxMisses \in Nat
  PROVE  LET n == Len(h) IN
         SightingsIn(Append(h, F), b, n + 1) =
           Fresh(F, b, n + 1) \cup
           {x \in SightingsIn(h, b, n) :
              x[1] >= n + 1 - MaxMisses
              \/ \E k \in (n + 1 - MaxMisses)..(n + 1) : Seen(Append(h, F), b, k)}
<1>. DEFINE n == Len(h)
           g == Append(h, F)
           Kept(x) == x[1] >= n + 1 - MaxMisses
                      \/ \E k \in (n + 1 - MaxMisses)..(n + 1) : Seen(g, b, k)
<1>1. n \in Nat /\ Len(g) = n + 1 /\ g[n + 1] = F /\ \A i \in 1..n : g[i] = h[i]
  BY Append1
<1>2. \A x : x \in Fresh(F, b, n + 1) <=>
              /\ x \in (1..(n + 1)) \X Freqs /\ x[1] = n + 1 /\ x[2] \in F /\ Bucket(x[2]) = b
  BY <1>1 DEF Fresh
<1>3. \A i \in 1..n : CountsIn(g, b, i, n + 1) <=>
        CountsIn(h, b, i, n) /\ Kept(<<i, 0>>)
  BY CountsStep
<1>4. CountsIn(g, b, n + 1, n + 1)
  BY <1>1 DEF CountsIn
<1>. SUFFICES ASSUME NEW x
              PROVE  x \in SightingsIn(g, b, n + 1) <=>
                       x \in Fresh(F, b, n + 1) \/ (x \in SightingsIn(h, b, n) /\ Kept(x))
  OBVIOUS
<1>. HIDE DEF Kept, g
<1>g. x \in SightingsIn(g, b, n + 1) <=>
        /\ x \in (1..(n + 1)) \X Freqs /\ x = <<x[1], x[2]>>
        /\ x[1] \in 1..(n + 1) /\ x[2] \in Freqs /\ x[2] \in g[x[1]] /\ Bucket(x[2]) = b
        /\ CountsIn(g, b, x[1], n + 1)
  BY Elements
<1>h. x \in SightingsIn(h, b, n) <=>
        /\ x \in (1..n) \X Freqs /\ x = <<x[1], x[2]>>
        /\ x[1] \in 1..n /\ x[2] \in Freqs /\ x[2] \in h[x[1]] /\ Bucket(x[2]) = b
        /\ CountsIn(h, b, x[1], n)
  BY Elements
<1>5. CASE x \notin (1..(n + 1)) \X Freqs
  <2>1. x \notin (1..n) \X Freqs
    BY <1>1, <1>5
  <2>. QED
    BY <1>2, <1>5, <2>1, <1>g, <1>h
<1>6. CASE x \in (1..(n + 1)) \X Freqs /\ x[1] = n + 1
  <2>1. x \notin (1..n) \X Freqs /\ g[x[1]] = F /\ CountsIn(g, b, x[1], n + 1) /\ x[1] \in 1..(n + 1)
        /\ x = <<x[1], x[2]>> /\ x[2] \in Freqs
    BY <1>1, <1>4, <1>6
  <2>. QED
    BY <1>2, <1>6, <2>1, <1>g, <1>h
<1>7. CASE x \in (1..(n + 1)) \X Freqs /\ x[1] # n + 1
  <2>1. x \in (1..n) \X Freqs /\ x[1] \in 1..n /\ g[x[1]] = h[x[1]]
        /\ x = <<x[1], x[2]>> /\ x[2] \in Freqs /\ x[1] \in 1..(n + 1)
    BY <1>1, <1>7
  <2>2. Kept(<<x[1], 0>>) <=> Kept(x)
    BY DEF Kept
  <2>3. CountsIn(g, b, x[1], n + 1) <=> CountsIn(h, b, x[1], n) /\ Kept(x)
    BY <1>3, <2>1, <2>2
  <2>. QED
    BY <1>2, <1>7, <2>1, <2>3, <1>g, <1>h
<1>. QED
  BY <1>5, <1>6, <1>7

-----------------------------------------------------------------------------
(* Counting: the candidates of a dwell have different frequencies.          *)

Images(A, n) == {<<n, s.fc>> : s \in A}

LEMMA SameCount ==
  ASSUME NEW sigs \in Candidates, NEW A \in SUBSET sigs, NEW n
  PROVE  /\ IsFiniteSet(A) /\ IsFiniteSet(Images(A, n))
         /\ Cardinality(Images(A, n)) = Cardinality(A) /\ Cardinality(A) \in Nat
<1>. DEFINE f == [s \in A |-> <<n, s.fc>>]
<1>1. \A s \in A : s.fc \in Freqs
  BY DEF Candidates
<1>2. \A x, y \in A : x.fc = y.fc => x = y
  BY DEF Candidates
<1>3. IsFiniteSet(Images(A, n))
  <2>1. IsFiniteSet({n} \X Freqs)
    BY FS_Singleton, FS_Product, FilterAssumption
  <2>2. Images(A, n) \in SUBSET ({n} \X Freqs)
    BY <1>1 DEF Images
  <2>. QED
    BY <2>1, <2>2, FS_Subset
<1>4. f \in Injection(A, Images(A, n)) /\ f \in Surjection(A, Images(A, n))
  <2>1. f \in [A -> Images(A, n)]
    BY DEF Images
  <2>2. \A x, y \in A : f[x] = f[y] => x = y
    BY <1>2
  <2>3. \A t \in Images(A, n) : \E s \in A : f[s] = t
    BY DEF Images
  <2>. QED
    BY <2>1, <2>2, <2>3 DEF Injection, Surjection, IsInjective
<1>. QED
  BY <1>3, <1>4, FS_Injection, FS_CardinalityType

\* Of the sightings of one dwell those no later than s.
Earlier(sigs, x, s) == \E t \in sigs : t.fc = x[2] /\ t.place <= s.place

\* The sightings of a dwell are its candidates.
LEMMA FreshCount ==
  ASSUME NEW sigs \in Candidates, NEW b, NEW n
  PROVE  LET F == {s.fc : s \in sigs} IN
         /\ F \in SUBSET Freqs
         /\ Fresh(F, b, n) = Images(InBucket(sigs, b), n)
         /\ InBucket(sigs, b) \in SUBSET sigs
         /\ \A s \in sigs : {x \in Fresh(F, Bucket(s.fc), n) : Earlier(sigs, x, s)}
                              = Images(UpTo(sigs, s), n)
         /\ \A s \in sigs : UpTo(sigs, s) \in SUBSET sigs
<1>. DEFINE F == {s.fc : s \in sigs}
<1>1. F \in SUBSET Freqs
  BY DEF Candidates
<1>2. ASSUME NEW a PROVE Fresh(F, a, n) = Images(InBucket(sigs, a), n)
  BY DEF Fresh, Images, InBucket
<1>3. ASSUME NEW s \in sigs
      PROVE  {x \in Fresh(F, Bucket(s.fc), n) : Earlier(sigs, x, s)} = Images(UpTo(sigs, s), n)
  BY DEF Fresh, Images, InBucket, UpTo, Earlier
<1>. QED
  BY <1>1, <1>2, <1>3 DEF InBucket, UpTo

LEMMA FiniteSightings ==
  ASSUME NEW h, NEW b, NEW n \in Nat
  PROVE  /\ IsFiniteSet(SightingsIn(h, b, n)) /\ Cardinality(SightingsIn(h, b, n)) \in Nat
         /\ (Cardinality(SightingsIn(h, b, n)) = 0 <=> SightingsIn(h, b, n) = {})
<1>1. IsFiniteSet((1..n) \X Freqs)
  <2>1. IsFiniteSet(1..n)
    BY FS_Interval
  <2>. QED
    BY <2>1, FS_Product, FilterAssumption
<1>2. SightingsIn(h, b, n) \in SUBSET ((1..n) \X Freqs)
  BY DEF SightingsIn
<1>. QED
  BY <1>1, <1>2, FS_Subset, FS_CardinalityType, FS_EmptySet

\* Old sightings of a bucket and those of a dwell after them, counted together.
LEMMA AddFresh ==
  ASSUME NEW h, NEW b, NEW n \in Nat, NEW sigs \in Candidates, NEW A \in SUBSET sigs
  PROVE  Cardinality(SightingsIn(h, b, n) \cup Images(A, n + 1))
           = Cardinality(SightingsIn(h, b, n)) + Cardinality(A)
<1>. DEFINE S == SightingsIn(h, b, n)
            T == Images(A, n + 1)
<1>1. S \cap T = {}
  BY DEF SightingsIn, Images
<1>2. IsFiniteSet(S) /\ IsFiniteSet(T) /\ Cardinality(T) = Cardinality(A)
      /\ Cardinality(S) \in Nat /\ Cardinality(A) \in Nat
  BY FiniteSightings, SameCount
<1>. HIDE DEF S, T
<1>3. Cardinality(S \cup T) = Cardinality(S) + Cardinality(T) - Cardinality({})
  BY <1>1, <1>2, FS_Union
<1>4. Cardinality(S \cup T) = Cardinality(S) + Cardinality(A)
  BY <1>2, <1>3, FS_EmptySet
<1>. QED
  BY <1>3, <1>4 DEF S, T

-----------------------------------------------------------------------------
(* The invariant.                                                           *)

Entries == UNION {[B -> [hits : Nat, misses : Nat]] : B \in SUBSET Buckets}

\* The map and the history keep their types.
FilterOK == /\ history \in [Centers -> Seq(SUBSET Freqs)]
            /\ persist \in [Centers -> Entries]

\* MapMatchesHistory, of one entry: in the map or not, its hits and its misses.
Entry(h, b, in, hits, misses) ==
  LET n == Len(h)
      S == SightingsIn(h, b, n)
  IN  /\ in <=> S # {}
      /\ hits = Cardinality(S)
      /\ S # {} => \E x \in S : n - x[1] = misses /\ \A y \in S : y[1] <= x[1]

LEMMA EntryOf ==
  MapMatchesHistory <=>
    \A c \in Centers, b \in Buckets :
      Entry(history[c], b, b \in DOMAIN persist[c], Hits(c, b), Misses(c, b))
BY SightingsOf DEF MapMatchesHistory, Entry

LEMMA EntryOfNext ==
  MapMatchesHistory' <=>
    \A c \in Centers, b \in Buckets :
      Entry(history'[c], b, b \in DOMAIN persist'[c], Hits(c, b)', Misses(c, b)')
<1>1. \A c, b, k : Sightings(c, b, k)' = SightingsIn(history'[c], b, k)
  BY DEF Sightings, SightingsIn, Counts, CountsIn, SeenIn, Seen
<1>. QED
  BY <1>1 DEF MapMatchesHistory, Entry

\* The detections of a dwell with candidates sigs, by the history h that it ends.
Emitted(sigs, h) ==
  {s \in sigs : s.strong \/
     Cardinality({x \in SightingsIn(h, Bucket(s.fc), Len(h)) : x[1] < Len(h) \/ Earlier(sigs, x, s)})
       >= MinHits}

LEMMA EmitsOf ==
  /\ EmitsConfirmed <=> last.out = Emitted(last.sigs, history[last.center])
  /\ EmitsConfirmed' <=> last'.out = Emitted(last'.sigs, history'[last'.center])
BY DEF EmitsConfirmed, Emitted, Earlier, Sightings, SightingsIn, Counts, CountsIn, SeenIn, Seen

LEMMA EntryTypes ==
  ASSUME FilterOK, NEW c \in Centers
  PROVE  /\ DOMAIN persist[c] \in SUBSET Buckets
         /\ \A b : Hits(c, b) \in Nat /\ Misses(c, b) \in Nat
<1>1. PICK B \in SUBSET Buckets : persist[c] \in [B -> [hits : Nat, misses : Nat]]
  BY DEF FilterOK, Entries
<1>. QED
  BY <1>1 DEF Hits, Misses

\* What a dwell does to an entry.
LEMMA UpdatedEntry ==
  ASSUME FilterOK, NEW c \in Centers, NEW sigs \in Candidates, NEW b
  PROVE  LET seen == \E s \in sigs : Bucket(s.fc) = b
             here == b \in DOMAIN persist[c]
             m    == Updated(c, sigs)
         IN  /\ b \in DOMAIN m <=> seen \/ (here /\ Misses(c, b) + 1 <= MaxMisses)
             /\ seen => m[b] = [hits |-> Hits(c, b) + Cardinality(InBucket(sigs, b)), misses |-> 0]
             /\ ~seen /\ b \in DOMAIN m =>
                  m[b] = [hits |-> Hits(c, b), misses |-> Misses(c, b) + 1]
BY DEF Updated

LEMMA UpdatedType ==
  ASSUME FilterOK, NEW c \in Centers, NEW sigs \in Candidates
  PROVE  Updated(c, sigs) \in Entries
<1>. DEFINE D == DOMAIN Updated(c, sigs)
<1>1. \A s \in sigs : s.fc \in Freqs /\ Bucket(s.fc) \in Buckets
  BY DEF Candidates, Buckets
<1>2. D \in SUBSET Buckets
  <2>. SUFFICES ASSUME NEW b \in D PROVE b \in Buckets
    OBVIOUS
  <2>1. (\E s \in sigs : Bucket(s.fc) = b) \/ b \in DOMAIN persist[c]
    BY UpdatedEntry
  <2>. QED
    BY <1>1, <2>1, EntryTypes
<1>3. ASSUME NEW b \in D PROVE Updated(c, sigs)[b] \in [hits : Nat, misses : Nat]
  <2>1. InBucket(sigs, b) \in SUBSET sigs
    BY DEF InBucket
  <2>2. Cardinality(InBucket(sigs, b)) \in Nat
    BY <2>1, SameCount
  <2>3. Hits(c, b) \in Nat /\ Misses(c, b) \in Nat
    BY EntryTypes
  <2>4. \/ Updated(c, sigs)[b] = [hits |-> Hits(c, b) + Cardinality(InBucket(sigs, b)), misses |-> 0]
        \/ Updated(c, sigs)[b] = [hits |-> Hits(c, b), misses |-> Misses(c, b) + 1]
    BY <1>3, UpdatedEntry
  <2>. QED
    BY <2>2, <2>3, <2>4
<1>4. Updated(c, sigs) = [b \in D |-> Updated(c, sigs)[b]]
  BY DEF Updated
<1>5. Updated(c, sigs) \in [D -> [hits : Nat, misses : Nat]]
  BY <1>3, <1>4
<1>. QED
  BY <1>2, <1>5 DEF Entries

\* The entry of a bucket seen in the dwell.
LEMMA SeenEntry ==
  ASSUME NEW h \in Seq(SUBSET Freqs), NEW sigs \in Candidates, NEW b,
         \E s \in sigs : Bucket(s.fc) = b, NEW in, NEW hits, NEW misses, Entry(h, b, in, hits, misses)
  PROVE  LET F == {s.fc : s \in sigs} IN
         /\ SightingsIn(Append(h, F), b, Len(h) + 1)
              = SightingsIn(h, b, Len(h)) \cup Images(InBucket(sigs, b), Len(h) + 1)
         /\ Entry(Append(h, F), b, TRUE, hits + Cardinality(InBucket(sigs, b)), 0)
<1>. DEFINE F == {s.fc : s \in sigs}
            n == Len(h)
            S == SightingsIn(h, b, n)
            T == Images(InBucket(sigs, b), n + 1)
            S1 == SightingsIn(Append(h, F), b, n + 1)
<1>1. MaxMisses \in Nat /\ n \in Nat /\ F \in SUBSET Freqs /\ InBucket(sigs, b) \in SUBSET sigs
  BY FreshCount, Append1, FilterAssumption
<1>2. Seen(Append(h, F), b, n + 1) /\ Len(Append(h, F)) = n + 1
  <2>1. \E f \in F : Bucket(f) = b
    OBVIOUS
  <2>. QED
    BY <1>1, <2>1, Append1
<1>3. n + 1 \in (n + 1 - MaxMisses)..(n + 1)
  BY <1>1
<1>4. S1 = Fresh(F, b, n + 1) \cup {x \in S : x[1] >= n + 1 - MaxMisses
           \/ \E k \in (n + 1 - MaxMisses)..(n + 1) : Seen(Append(h, F), b, k)}
  BY <1>1, SightingsStep
<1>5. S1 = S \cup T
  <2>1. S1 = Fresh(F, b, n + 1) \cup S
    BY <1>2, <1>3, <1>4
  <2>. QED
    BY <2>1, FreshCount
<1>6. Cardinality(S1) = hits + Cardinality(InBucket(sigs, b))
  <2>1. hits = Cardinality(S)
    BY DEF Entry
  <2>2. Cardinality(S \cup T) = Cardinality(S) + Cardinality(InBucket(sigs, b))
    BY <1>1, AddFresh
  <2>. QED
    BY <1>5, <2>1, <2>2
<1>7. PICK s \in sigs : Bucket(s.fc) = b
  OBVIOUS
<1>8. <<n + 1, s.fc>> \in S1
  BY <1>5, <1>7 DEF Images, InBucket
<1>9. \A y \in S1 : y[1] <= n + 1
  BY <1>1 DEF SightingsIn
<1>10. (n + 1) - (<<n + 1, s.fc>>)[1] = 0
  BY <1>1
<1>. HIDE DEF F, n, S, T, S1
<1>11. S1 # {} /\ \E x \in S1 : (n + 1) - x[1] = 0 /\ \A y \in S1 : y[1] <= x[1]
  BY <1>8, <1>9, <1>10
<1>. QED
  BY <1>2, <1>5, <1>6, <1>11 DEF Entry, F, n, S, T, S1

\* The entry of a bucket that was not seen in the dwell, kept with one more miss or evicted.
LEMMA UnseenEntry ==
  ASSUME NEW h \in Seq(SUBSET Freqs), NEW F \in SUBSET Freqs, NEW b,
         ~ \E f \in F : Bucket(f) = b, NEW in, NEW hits, NEW misses \in Nat, Entry(h, b, in, hits, misses)
  PROVE  LET kept == in /\ misses + 1 <= MaxMisses IN
         Entry(Append(h, F), b, kept, IF kept THEN hits ELSE 0, misses + 1)
<1>. DEFINE n == Len(h)
            g == Append(h, F)
            S == SightingsIn(h, b, n)
            S1 == SightingsIn(g, b, n + 1)
            Window == (n + 1 - MaxMisses)..(n + 1)
<1>1. MaxMisses \in Nat /\ n \in Nat /\ Len(g) = n + 1
  BY Append1, FilterAssumption
<1>2. ~Seen(g, b, n + 1) /\ \A k \in 1..n : Seen(g, b, k) <=> Seen(h, b, k)
  BY <1>1, Append1
<1>3. S1 = {x \in S : x[1] >= n + 1 - MaxMisses \/ \E k \in Window : Seen(g, b, k)}
  <2>1. Fresh(F, b, n + 1) = {}
    BY DEF Fresh
  <2>. QED
    BY <1>1, <2>1, SightingsStep
<1>4. /\ in <=> S # {}
      /\ hits = Cardinality(S)
      /\ S # {} => \E x \in S : n - x[1] = misses /\ \A y \in S : y[1] <= x[1]
  BY DEF Entry
<1>5. \A x \in S : x[1] \in 1..n /\ x[2] \in Freqs /\ x[2] \in h[x[1]] /\ Bucket(x[2]) = b
  BY Elements
<1>. HIDE DEF S, S1, g
<1>6. CASE S = {}
  <2>1. S1 = {}
    BY <1>3, <1>6
  <2>. QED
    BY <1>1, <1>4, <1>6, <2>1, FS_EmptySet DEF Entry, S1, n, g
<1>7. CASE S # {} /\ misses + 1 <= MaxMisses
  <2>1. PICK x \in S : n - x[1] = misses /\ \A y \in S : y[1] <= x[1]
    BY <1>4, <1>7
  <2>2. x[1] \in Window /\ x[1] \in 1..n
    BY <1>1, <1>5, <1>7, <2>1
  <2>3. Seen(g, b, x[1])
    BY <1>2, <1>5, <2>2 DEF Seen
  <2>4. S1 = S
    BY <1>3, <2>2, <2>3
  <2>5. (n + 1) - x[1] = misses + 1
    BY <1>1, <2>1, <2>2
  <2>. QED
    BY <1>1, <1>4, <1>7, <2>1, <2>4, <2>5 DEF Entry, S1, n, g
<1>8. CASE S # {} /\ ~(misses + 1 <= MaxMisses)
  <2>1. PICK x \in S : n - x[1] = misses /\ \A y \in S : y[1] <= x[1]
    BY <1>4, <1>8
  <2>2. \A y \in S : y[1] < n + 1 - MaxMisses
    BY <1>1, <1>5, <1>8, <2>1
  <2>3. ASSUME NEW k \in Window, Seen(g, b, k) PROVE FALSE
    <3>1. k # n + 1
      BY <1>2, <2>3
    <3>2. k < 1 \/ k \in 1..n
      BY <1>1, <3>1
    <3>3. x[1] \in Nat /\ x[1] >= 1 /\ x[1] < n + 1 - MaxMisses /\ k \in Int /\ k >= n + 1 - MaxMisses
      BY <1>1, <1>5, <2>2, <2>3
    <3>4. k \in 1..n
      BY <1>1, <3>2, <3>3
    <3>5. PICK f \in h[k] : Bucket(f) = b
      BY <1>2, <2>3, <3>4 DEF Seen
    <3>6. f \in Freqs
      BY <3>4, <3>5, Append1
    <3>7. CountsIn(h, b, k, n)
      BY <1>1, <3>4 DEF CountsIn
    <3>8. <<k, f>> \in S
      BY <3>4, <3>5, <3>6, <3>7 DEF SightingsIn, S
    <3>. QED
      BY <1>1, <2>2, <3>4, <3>8
  <2>4. S1 = {}
    BY <1>1, <1>3, <1>5, <2>2, <2>3
  <2>. QED
    BY <1>1, <1>4, <1>8, <2>4, FS_EmptySet DEF Entry, S1, n, g
<1>. QED
  BY <1>6, <1>7, <1>8

-----------------------------------------------------------------------------
(* The filter agrees with the history.                                      *)

FilterInv == FilterOK /\ MapMatchesHistory /\ EmitsConfirmed

LEMMA DwellKeeps ==
  ASSUME FilterInv, NEW c \in Centers, NEW sigs \in Candidates, ProcessDwell(c, sigs)
  PROVE  FilterInv'
<1>. DEFINE F == {s.fc : s \in sigs}
            h == history[c]
            seen(b) == \E s \in sigs : Bucket(s.fc) = b
<1>1. FilterOK /\ F \in SUBSET Freqs /\ h \in Seq(SUBSET Freqs)
  BY FreshCount DEF FilterInv, FilterOK
<1>2. FilterOK'
  <2>1. Updated(c, sigs) \in Entries
    BY <1>1, UpdatedType
  <2>2. Append(h, F) \in Seq(SUBSET Freqs)
    BY <1>1
  <2>3. history' = [history EXCEPT ![c] = Append(h, F)]
        /\ persist' = [persist EXCEPT ![c] = Updated(c, sigs)]
    BY DEF ProcessDwell
  <2>. HIDE DEF F, h
  <2>. QED
    BY <1>1, <2>1, <2>2, <2>3 DEF FilterOK
<1>3. history'[c] = Append(h, F) /\ persist'[c] = Updated(c, sigs)
  BY <1>1 DEF ProcessDwell, FilterOK
<1>4. \A d \in Centers \ {c} : history'[d] = history[d] /\ persist'[d] = persist[d]
  BY <1>1 DEF ProcessDwell, FilterOK
<1>5. \A b \in Buckets : Entry(h, b, b \in DOMAIN persist[c], Hits(c, b), Misses(c, b))
  BY EntryOf DEF FilterInv
<1>6. ASSUME NEW b \in Buckets
      PROVE  Entry(Append(h, F), b, b \in DOMAIN persist'[c], Hits(c, b)', Misses(c, b)')
  <2>. DEFINE m == Updated(c, sigs)
              here == b \in DOMAIN persist[c]
  <2>1. /\ b \in DOMAIN m <=> seen(b) \/ (here /\ Misses(c, b) + 1 <= MaxMisses)
        /\ seen(b) => m[b] = [hits |-> Hits(c, b) + Cardinality(InBucket(sigs, b)), misses |-> 0]
        /\ ~seen(b) /\ b \in DOMAIN m =>
             m[b] = [hits |-> Hits(c, b), misses |-> Misses(c, b) + 1]
    BY <1>1, UpdatedEntry
  <2>2. Hits(c, b)' = (IF b \in DOMAIN m THEN m[b].hits ELSE 0)
        /\ Misses(c, b)' = (IF b \in DOMAIN m THEN m[b].misses ELSE 0)
    BY <1>3 DEF Hits, Misses
  <2>3. Entry(h, b, here, Hits(c, b), Misses(c, b)) /\ Misses(c, b) \in Nat
    BY <1>1, <1>5, EntryTypes
  <2>4. CASE seen(b)
    <3>1. Entry(Append(h, F), b, TRUE, Hits(c, b) + Cardinality(InBucket(sigs, b)), 0)
      BY <1>1, <2>3, <2>4, SeenEntry
    <3>2. b \in DOMAIN m /\ Hits(c, b)' = Hits(c, b) + Cardinality(InBucket(sigs, b)) /\ Misses(c, b)' = 0
      BY <2>1, <2>2, <2>4
    <3>. HIDE DEF m
    <3>. QED
      BY <1>3, <3>1, <3>2 DEF Entry, m
  <2>5. CASE ~seen(b)
    <3>. DEFINE kept == here /\ Misses(c, b) + 1 <= MaxMisses
    <3>1. ~ \E f \in F : Bucket(f) = b
      BY <2>5
    <3>2. Entry(Append(h, F), b, kept, IF kept THEN Hits(c, b) ELSE 0, Misses(c, b) + 1)
      BY <1>1, <2>3, <3>1, UnseenEntry
    <3>3. /\ b \in DOMAIN persist'[c] <=> kept
          /\ Hits(c, b)' = IF kept THEN Hits(c, b) ELSE 0
          /\ kept => Misses(c, b)' = Misses(c, b) + 1
      BY <1>3, <2>1, <2>2, <2>5
    <3>. HIDE DEF kept
    <3>. QED
      BY <3>2, <3>3 DEF Entry
  <2>. QED
    BY <2>4, <2>5
<1>7. MapMatchesHistory'
  <2>1. ASSUME NEW d \in Centers, NEW b \in Buckets
        PROVE  Entry(history'[d], b, b \in DOMAIN persist'[d], Hits(d, b)', Misses(d, b)')
    <3>1. CASE d = c
      BY <1>3, <1>6, <3>1
    <3>2. CASE d # c
      <4>1. Hits(d, b)' = Hits(d, b) /\ Misses(d, b)' = Misses(d, b)
        BY <1>4, <3>2 DEF Hits, Misses
      <4>2. Entry(history[d], b, b \in DOMAIN persist[d], Hits(d, b), Misses(d, b))
        BY EntryOf DEF FilterInv
      <4>3. history'[d] = history[d] /\ persist'[d] = persist[d]
        BY <1>4, <3>2
      <4>. QED
        BY <4>1, <4>2, <4>3
    <3>. QED
      BY <3>1, <3>2
  <2>. QED
    BY <2>1, EntryOfNext
<1>8. EmitsConfirmed'
  <2>. DEFINE n == Len(h)
              After(s) == {x \in SightingsIn(Append(h, F), Bucket(s.fc), n + 1) :
                             x[1] < n + 1 \/ Earlier(sigs, x, s)}
  <2>1. n \in Nat /\ Len(Append(h, F)) = n + 1
    BY <1>1
  <2>2. ASSUME NEW s \in sigs
        PROVE  Cardinality(After(s)) = Hits(c, Bucket(s.fc)) + Cardinality(UpTo(sigs, s))
    <3>. DEFINE b == Bucket(s.fc)
                S == SightingsIn(h, b, n)
    <3>1. b \in Buckets
      BY DEF Candidates, Buckets
    <3>2. Entry(h, b, b \in DOMAIN persist[c], Hits(c, b), Misses(c, b))
      BY <1>5, <3>1
    <3>3. SightingsIn(Append(h, F), b, n + 1) = S \cup Images(InBucket(sigs, b), n + 1)
      BY <1>1, <3>2, SeenEntry
    <3>4. \A x \in S : x[1] < n + 1
      BY <2>1 DEF SightingsIn
    <3>5. \A x \in Images(InBucket(sigs, b), n + 1) : ~(x[1] < n + 1)
      BY <2>1 DEF Images
    <3>6. Images(InBucket(sigs, b), n + 1) = Fresh(F, b, n + 1)
          /\ {x \in Fresh(F, b, n + 1) : Earlier(sigs, x, s)} = Images(UpTo(sigs, s), n + 1)
          /\ UpTo(sigs, s) \in SUBSET sigs
      BY FreshCount, Zenon
    <3>7. After(s) = S \cup Images(UpTo(sigs, s), n + 1)
      BY <3>3, <3>4, <3>5, <3>6
    <3>8. Cardinality(S) = Hits(c, b)
      BY <3>2 DEF Entry
    <3>9. Cardinality(S \cup Images(UpTo(sigs, s), n + 1)) = Cardinality(S) + Cardinality(UpTo(sigs, s))
      BY <2>1, <3>6, AddFresh
    <3>. QED
      BY <3>7, <3>8, <3>9
  <2>3. Detections(c, sigs) = {s \in sigs : s.strong \/ Cardinality(After(s)) >= MinHits}
    BY <2>2 DEF Detections
  <2>4. last'.center = c /\ last'.sigs = sigs /\ last'.out = Detections(c, sigs)
    BY DEF ProcessDwell
  <2>5. Emitted(sigs, Append(h, F)) = Detections(c, sigs)
    BY <2>1, <2>3 DEF Emitted
  <2>. QED
    BY <1>3, <2>4, <2>5, EmitsOf
<1>. QED
  BY <1>2, <1>7, <1>8 DEF FilterInv

\* After every dwell the map and the detections are functions of the history.
THEOREM FilterInvariant == FilterSpec => []FilterInv
<1>1. FilterInit => FilterInv
  <2>. SUFFICES ASSUME FilterInit PROVE FilterInv
    OBVIOUS
  <2>1. FilterOK
    <3>1. <<>> \in [{} -> [hits : Nat, misses : Nat]] /\ {} \in SUBSET Buckets
      OBVIOUS
    <3>2. <<>> \in Entries
      BY <3>1 DEF Entries
    <3>. QED
      BY <3>2 DEF FilterInit, FilterOK
  <2>2. ASSUME NEW c \in Centers, NEW b \in Buckets
        PROVE  Entry(history[c], b, b \in DOMAIN persist[c], Hits(c, b), Misses(c, b))
    <3>1. history[c] = <<>> /\ persist[c] = <<>> /\ Len(<<>>) = 0
      BY <2>2 DEF FilterInit
    <3>2. b \notin DOMAIN persist[c] /\ Hits(c, b) = 0
      BY <3>1 DEF Hits
    <3>3. SightingsIn(<<>>, b, 0) = {}
      BY DEF SightingsIn
    <3>. QED
      BY <3>1, <3>2, <3>3, FS_EmptySet DEF Entry
  <2>3. MapMatchesHistory
    BY <2>2, EntryOf
  <2>4. EmitsConfirmed
    BY DEF FilterInit, EmitsConfirmed
  <2>. QED
    BY <2>1, <2>3, <2>4 DEF FilterInv
<1>2. FilterInv /\ [FilterNext]_filterVars => FilterInv'
  <2>1. FilterInv /\ UNCHANGED filterVars => FilterInv'
    <3>. SUFFICES ASSUME FilterInv, UNCHANGED filterVars PROVE FilterInv'
      OBVIOUS
    <3>1. FilterOK'
      BY DEF filterVars, FilterInv, FilterOK
    <3>2. MapMatchesHistory'
      <4>1. \A c, b : Hits(c, b)' = Hits(c, b) /\ Misses(c, b)' = Misses(c, b)
        BY DEF filterVars, Hits, Misses
      <4>. QED
        BY <4>1, EntryOf, EntryOfNext DEF filterVars, FilterInv
    <3>3. EmitsConfirmed'
      BY EmitsOf DEF filterVars, FilterInv
    <3>. QED
      BY <3>1, <3>2, <3>3 DEF FilterInv
  <2>. QED
    BY <2>1, DwellKeeps DEF FilterNext, FilterFinished
<1>. QED
  BY <1>1, <1>2, PTL DEF FilterSpec

\* A bucket has an entry exactly while its last sighting at the centre is recent enough,
\* and its hits are the sightings of the current run, whatever the dwells before.
THEOREM MapAgreesWithHistory == FilterSpec => []MapMatchesHistory
<1>1. FilterInv => MapMatchesHistory
  BY DEF FilterInv
<1>. QED
  BY <1>1, FilterInvariant, PTL

\* A candidate is emitted exactly if it is strong or its bucket was seen often enough,
\* the candidates of a dwell counted in the order of their peaks.
THEOREM EmitsTheConfirmed == FilterSpec => []EmitsConfirmed
<1>1. FilterInv => EmitsConfirmed
  BY DEF FilterInv
<1>. QED
  BY <1>1, FilterInvariant, PTL

-----------------------------------------------------------------------------
(* The recorder.  Boolean flags are kept apart (FlagsOK).                   *)

FlagsOK == {sess, overtaken, raced, locked} \subseteq BOOLEAN

\* _record_lock is held exactly while a capture runs.
LockOK == locked <=> capture # "none"

ReactorOK ==
  /\ reactor \in {"idle", "checked", "answering", "dead"} /\ detBin \in Bins
  /\ answer \in AnswerType \cup {NoAnswer}
  /\ reactor = "answering" => answer \in AnswerType
  /\ {pending, asked} \subseteq SUBSET Requests
  /\ box \subseteq AnswerType /\ answers \subseteq AnswerType

CaptureOK ==
  /\ capture \in {"none", "begun", "waiting", "collecting", "saving", "saved", "ending"}
  /\ capBin \in Bins /\ request \in 0..MaxCaptures /\ sockets \subseteq Requests
  /\ capture = "begun" => request < MaxCaptures
  /\ capture = "waiting" => request \in Requests

\* Only the capture that has just saved its files has not marked its bin yet.
CooldownOK ==
  /\ time \in 0..MaxTime /\ cooldown \in [Bins -> (-Cooldown)..MaxTime]
  /\ saved \in [Bins -> (-Cooldown)..MaxTime]
  /\ \A b \in Bins : /\ cooldown[b] <= time /\ saved[b] <= time
                     /\ saved[b] <= cooldown[b] \/ (capture = "saved" /\ b = capBin)

\* The bin of the detection that waits for the lock had cooled down, and still has
\* unless a capture marked it since.
CheckedOK == reactor = "checked" => overtaken \/ time - cooldown[detBin] >= Cooldown

RecorderInv == /\ FlagsOK /\ LockOK /\ ReactorOK /\ CaptureOK /\ CooldownOK /\ CheckedOK
             /\ RequestsLeaveNothing /\ RecaptureOnlyByRace

-----------------------------------------------------------------------------

LEMMA FlagsStep == FlagsOK /\ [RecorderNext]_recorderVars => FlagsOK'
<1>. SUFFICES ASSUME FlagsOK, [RecorderNext]_recorderVars PROVE FlagsOK'
  OBVIOUS
<1>. USE DEF FlagsOK, recorderVars, reactorVars, captureVars
<1>1. CASE Constructed \/ DetectTooEarly \/ \E b \in Bins : Detect(b)
  BY <1>1, Zenon DEF Constructed, DetectTooEarly, Detect
<1>2. CASE Reactor
  BY <1>2, Zenon DEF Reactor, StartCapture, SkipDetection, FillBox, ReceiveAnswer
<1>3. CASE Capture
  BY <1>3, Zenon DEF Capture, Request, RpcReturns, Collect, Save, Mark, Release
<1>4. CASE Tick \/ \E r \in asked, s \in Statuses : Answer(r, s)
  BY <1>4, Zenon DEF Tick, Answer
<1>5. CASE UNCHANGED recorderVars
  BY <1>5, Zenon
<1>. QED
  BY <1>1, <1>2, <1>3, <1>4, <1>5 DEF RecorderNext

LEMMA LockStep == LockOK /\ [RecorderNext]_recorderVars => LockOK'
<1>. SUFFICES ASSUME LockOK, [RecorderNext]_recorderVars PROVE LockOK'
  OBVIOUS
<1>. USE DEF LockOK, captureVars
<1>1. CASE StartCapture
  BY <1>1 DEF StartCapture
<1>2. CASE Capture
  BY <1>2 DEF Capture, Request, RpcReturns, Collect, Save, Mark, Release
<1>3. CASE UNCHANGED <<locked, capture>>
  BY <1>3, Zenon
<1>. QED
  BY <1>1, <1>2, <1>3 DEF RecorderNext, recorderVars, Constructed, DetectTooEarly, Detect, Reactor, SkipDetection,
    FillBox, ReceiveAnswer, Tick, Answer

(* The answers that are under way, and the reactor thread. *)
LEMMA ReactorStep == ReactorOK /\ CaptureOK /\ [RecorderNext]_recorderVars => ReactorOK'
<1>. SUFFICES ASSUME ReactorOK, CaptureOK, [RecorderNext]_recorderVars PROVE ReactorOK'
  OBVIOUS
<1>. USE DEF ReactorOK, reactorVars, rpcVars, brokerVars
<1>1. CASE Constructed \/ DetectTooEarly \/ \E b \in Bins : Detect(b)
  BY <1>1 DEF Constructed, DetectTooEarly, Detect
<1>2. CASE StartCapture \/ SkipDetection \/ FillBox
  BY <1>2 DEF StartCapture, SkipDetection, FillBox
<1>3. ASSUME NEW a \in answers, ReceiveAnswer(a) PROVE ReactorOK'
  BY <1>3 DEF ReceiveAnswer
<1>4. CASE Request
  <2>1. request + 1 \in Requests
    BY <1>4, ReconAssumption DEF Request, CaptureOK, Requests
  <2>. QED
    BY <1>4, <2>1 DEF Request
<1>5. CASE RpcReturns \/ Collect \/ Save \/ Mark \/ Release
  BY <1>5 DEF RpcReturns, Collect, Save, Mark, Release
<1>6. CASE Tick
  BY <1>6 DEF Tick
<1>7. ASSUME NEW r \in asked, NEW s \in Statuses, Answer(r, s) PROVE ReactorOK'
  <2>1. [req |-> r, status |-> s] \in AnswerType
    BY DEF AnswerType
  <2>. QED
    BY <1>7, <2>1 DEF Answer
<1>8. CASE UNCHANGED recorderVars
  BY <1>8 DEF recorderVars
<1>. QED
  BY <1>1, <1>2, <1>3, <1>4, <1>5, <1>6, <1>7, <1>8 DEF RecorderNext, Reactor, Capture

(* The capture thread, its request and its socket. *)
LEMMA CaptureStep ==
  LockOK /\ ReactorOK /\ CaptureOK /\ RequestsLeaveNothing /\ [RecorderNext]_recorderVars
    => CaptureOK' /\ RequestsLeaveNothing'
<1>. SUFFICES ASSUME LockOK, ReactorOK, CaptureOK, RequestsLeaveNothing, [RecorderNext]_recorderVars
              PROVE  CaptureOK' /\ RequestsLeaveNothing'
  OBVIOUS
<1>. USE ReconAssumption DEF CaptureOK, RequestsLeaveNothing, captureVars, rpcVars
<1>1. CASE StartCapture
  BY <1>1 DEF StartCapture, LockOK, ReactorOK
<1>2. CASE Request
  BY <1>2 DEF Request, Requests
<1>3. CASE RpcReturns
  BY <1>3 DEF RpcReturns
<1>4. CASE Collect
  BY <1>4 DEF Collect
<1>5. CASE Save
  BY <1>5 DEF Save
<1>6. CASE Mark
  BY <1>6 DEF Mark
<1>7. CASE Release
  BY <1>7 DEF Release
<1>8. CASE UNCHANGED <<captureVars, pending>>
  BY <1>8
<1>. QED
  BY <1>1, <1>2, <1>3, <1>4, <1>5, <1>6, <1>7, <1>8 DEF RecorderNext, recorderVars, Constructed, DetectTooEarly,
    Detect, Reactor, Capture, SkipDetection, FillBox, ReceiveAnswer, Tick, Answer

(* The clock, the cooldown table and the history of the captures saved. *)
LEMMA CooldownStep == LockOK /\ CaptureOK /\ CooldownOK /\ [RecorderNext]_recorderVars => CooldownOK'
<1>. SUFFICES ASSUME LockOK, CaptureOK, CooldownOK, [RecorderNext]_recorderVars PROVE CooldownOK'
  OBVIOUS
<1>. USE ReconAssumption DEF CooldownOK, timeVars, captureVars
<1>. time \in (-Cooldown)..MaxTime
  OBVIOUS
<1>1. CASE Tick
  BY <1>1 DEF Tick
<1>2. CASE Save
  <2>1. CASE capture' = "saved" /\ saved' = [saved EXCEPT ![capBin] = time]
    <3>1. /\ UNCHANGED <<cooldown, time, capBin>>
          /\ saved' \in [Bins -> (-Cooldown)..MaxTime]
      BY <1>2, <2>1 DEF Save
    <3>2. ASSUME NEW b \in Bins
          PROVE  saved'[b] <= time /\ (saved'[b] <= cooldown[b] \/ b = capBin)
      <4>1. CASE b = capBin
        BY <2>1, <4>1
      <4>2. CASE b # capBin
        BY <1>2, <2>1, <4>2 DEF Save
      <4>. QED
        BY <4>1, <4>2
    <3>. QED
      BY <2>1, <3>1, <3>2
  <2>2. CASE capture' = "ending" /\ UNCHANGED saved
    BY <1>2, <2>2 DEF Save
  <2>. QED
    BY <1>2, <2>1, <2>2 DEF Save
<1>3. CASE Mark
  <2>1. cooldown' = [cooldown EXCEPT ![capBin] = time] /\ UNCHANGED <<time, saved, capBin>>
    BY <1>3 DEF Mark
  <2>2. cooldown' \in [Bins -> (-Cooldown)..MaxTime]
    BY <2>1
  <2>3. ASSUME NEW b \in Bins
        PROVE  cooldown'[b] <= time' /\ saved'[b] <= time' /\ saved'[b] <= cooldown'[b]
    <3>1. CASE b = capBin
      BY <2>1, <3>1
    <3>2. CASE b # capBin
      BY <2>1, <3>2
    <3>. QED
      BY <3>1, <3>2
  <2>. QED
    BY <2>1, <2>2, <2>3
<1>4. CASE StartCapture \/ Request \/ RpcReturns \/ Collect \/ Release
  <2>1. UNCHANGED timeVars /\ capture # "saved"
    BY <1>4 DEF StartCapture, Request, RpcReturns, Collect, Release, LockOK
  <2>. QED
    BY <2>1
<1>5. CASE UNCHANGED <<timeVars, captureVars>>
  BY <1>5
<1>. QED
  BY <1>1, <1>2, <1>3, <1>4, <1>5 DEF RecorderNext, recorderVars, Constructed, DetectTooEarly, Detect, Reactor,
    Capture, SkipDetection, FillBox, ReceiveAnswer, Answer

(* The detection that waits for the lock, and its bin in the table. *)
LEMMA CheckedStep ==
  ReactorOK /\ CaptureOK /\ CooldownOK /\ CheckedOK /\ [RecorderNext]_recorderVars => CheckedOK'
<1>. SUFFICES ASSUME ReactorOK, CaptureOK, CooldownOK, CheckedOK, [RecorderNext]_recorderVars PROVE CheckedOK'
  OBVIOUS
<1>. USE ReconAssumption DEF CheckedOK, reactorVars, timeVars
<1>1. ASSUME NEW b \in Bins, Detect(b) PROVE CheckedOK'
  BY <1>1 DEF Detect, CooledDown
<1>2. CASE DetectTooEarly \/ StartCapture \/ SkipDetection \/ FillBox
  BY <1>2 DEF DetectTooEarly, StartCapture, SkipDetection, FillBox
<1>3. ASSUME NEW a \in answers, ReceiveAnswer(a) PROVE CheckedOK'
  BY <1>3 DEF ReceiveAnswer
<1>4. CASE Mark
  <2>1. CASE reactor = "checked" /\ detBin = capBin
    <3>1. overtaken'
      BY <1>4, <2>1, Zenon DEF Mark
    <3>. QED
      BY <3>1
  <2>2. CASE ~(reactor = "checked" /\ detBin = capBin)
    <3>1. overtaken => overtaken'
      BY <1>4, Zenon DEF Mark
    <3>2. /\ UNCHANGED <<time, reactor, detBin>> /\ cooldown' = [cooldown EXCEPT ![capBin] = time]
      BY <1>4 DEF Mark
    <3>3. reactor = "checked" => cooldown'[detBin] = cooldown[detBin]
      BY <2>2, <3>2 DEF CooldownOK, ReactorOK
    <3>. QED
      BY <3>1, <3>2, <3>3
  <2>. QED
    BY <2>1, <2>2
<1>5. CASE Tick
  <2>1. /\ time \in Nat /\ time' = time + 1 /\ UNCHANGED <<reactorVars, cooldown>>
        /\ cooldown[detBin] \in Int
    BY <1>5 DEF Tick, CooldownOK, ReactorOK
  <2>. QED
    BY <2>1
<1>6. CASE UNCHANGED <<reactorVars, time, cooldown>>
  BY <1>6
<1>. QED
  BY <1>1, <1>2, <1>3, <1>4, <1>5, <1>6 DEF RecorderNext, recorderVars, Constructed, Reactor, Capture, Request,
    RpcReturns, Collect, Save, Release, Answer, captureVars

(* A capture inherits from its detection that its bin had cooled down. *)
LEMMA RecaptureStep ==
  LockOK /\ ReactorOK /\ CaptureOK /\ CooldownOK /\ CheckedOK /\ RecaptureOnlyByRace /\ [RecorderNext]_recorderVars
    => RecaptureOnlyByRace'
<1>. SUFFICES ASSUME LockOK, ReactorOK, CaptureOK, CooldownOK, CheckedOK, RecaptureOnlyByRace,
                     [RecorderNext]_recorderVars
              PROVE  RecaptureOnlyByRace'
  OBVIOUS
<1>. USE ReconAssumption DEF RecaptureOnlyByRace, captureVars, timeVars
<1>1. CASE StartCapture
  <2>1. /\ capture = "none" /\ reactor = "checked" /\ capBin' = detBin /\ raced' = overtaken
        /\ UNCHANGED <<time, saved>>
    BY <1>1, Zenon DEF StartCapture, LockOK
  <2>2. saved[detBin] <= cooldown[detBin] /\ saved[detBin] \in Int /\ cooldown[detBin] \in Int /\ time \in Int
    BY <2>1 DEF ReactorOK, CooldownOK
  <2>3. overtaken \/ time - cooldown[detBin] >= Cooldown
    BY <2>1 DEF CheckedOK
  <2>4. CASE overtaken
    BY <2>1, <2>4, Zenon
  <2>5. CASE time - cooldown[detBin] >= Cooldown
    BY <2>1, <2>2, <2>5
  <2>. QED
    BY <2>3, <2>4, <2>5
<1>2. CASE Tick
  <2>1. /\ time \in Nat /\ time' = time + 1 /\ UNCHANGED <<capture, capBin, raced, saved>>
        /\ saved[capBin] \in Int
    BY <1>2 DEF Tick, CaptureOK, CooldownOK
  <2>. QED
    BY <2>1
<1>3. CASE Request \/ RpcReturns \/ Collect \/ Save \/ Mark \/ Release
  BY <1>3 DEF Request, RpcReturns, Collect, Save, Mark, Release
<1>4. CASE UNCHANGED <<captureVars, timeVars>>
  BY <1>4
<1>. QED
  BY <1>1, <1>2, <1>3, <1>4 DEF RecorderNext, recorderVars, Constructed, DetectTooEarly, Detect, Reactor, Capture,
    SkipDetection, FillBox, ReceiveAnswer, Answer

-----------------------------------------------------------------------------

\* At every place of the reactor and of the capture thread: who holds the lock, the socket
\* and the request, and that the cooldown table has the last capture of each bin.
THEOREM RecorderInvariant == RecorderSpec => []RecorderInv
<1>1. RecorderInit => RecorderInv
  <2>. SUFFICES ASSUME RecorderInit PROVE RecorderInv
    OBVIOUS
  <2>. USE ReconAssumption DEF RecorderInit
  <2>1. FlagsOK /\ LockOK
    BY DEF FlagsOK, LockOK
  <2>2. detBin \in Bins
    OBVIOUS
  <2>3. ReactorOK /\ CaptureOK /\ RequestsLeaveNothing
    BY <2>2 DEF ReactorOK, CaptureOK, RequestsLeaveNothing
  <2>4. CooldownOK /\ CheckedOK /\ RecaptureOnlyByRace
    BY <2>2 DEF CooldownOK, CheckedOK, RecaptureOnlyByRace
  <2>. QED
    BY <2>1, <2>3, <2>4 DEF RecorderInv
<1>2. RecorderInv /\ [RecorderNext]_recorderVars => RecorderInv'
  BY FlagsStep, LockStep, ReactorStep, CaptureStep, CooldownStep, CheckedStep, RecaptureStep
  DEF RecorderInv
<1>. QED
  BY <1>1, <1>2, PTL DEF RecorderSpec

\* Every variable of the recorder keeps its type; the lock is held while a capture runs.
THEOREM RecorderTypeCorrect == RecorderSpec => []TypeOK
<1>1. RecorderInv => TypeOK
  <2>. SUFFICES ASSUME RecorderInv PROVE TypeOK
    OBVIOUS
  <2>1. /\ {sess, overtaken, raced} \subseteq BOOLEAN
        /\ locked \in BOOLEAN /\ locked = (capture # "none")
    BY Zenon DEF RecorderInv, FlagsOK, LockOK
  <2>. QED
    BY <2>1 DEF RecorderInv, ReactorOK, CaptureOK, CooldownOK, TypeOK
<1>. QED
  BY <1>1, RecorderInvariant, PTL

\* However a request ends, it leaves no entry in _pending and no open socket behind.
THEOREM NothingLeft == RecorderSpec => []RequestsLeaveNothing
<1>1. RecorderInv => RequestsLeaveNothing
  BY DEF RecorderInv
<1>. QED
  BY <1>1, RecorderInvariant, PTL

\* A bin is captured again within its cooldown only by the race between the check and
\* the lock, for any number of bins and captures.
THEOREM RecaptureIsARace == RecorderSpec => []RecaptureOnlyByRace
<1>1. RecorderInv => RecaptureOnlyByRace
  BY DEF RecorderInv
<1>. QED
  BY <1>1, RecorderInvariant, PTL
=============================================================================
