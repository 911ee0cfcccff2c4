---------------------------- MODULE MailboxProofs -----------------------------
(***************************************************************************)
(* What the mailbox promises, for any number of items: they are handled in *)
(* order and at most once (HandledInOrder) and each is accounted for       *)
(* (NoneVanishes).  The modules that implement the mailbox instantiate     *)
(* this one and inherit both from their refinement; they also use the      *)
(* lemmas on the parts of a sequence.                                      *)
(***************************************************************************)
EXTENDS Mailbox, SequenceTheorems, TLAPS

(* The first n elements of a sequence and the others. *)
Halves(S, s, n) ==
  LET first == SubSeq(s, 1, n)  rest == SubSeq(s, n + 1, Len(s)) IN
  /\ first \in Seq(S) /\ Len(first) = n
  /\ \A i \in 1..n : first[i] = s[i]
  /\ rest \in Seq(S) /\ Len(rest) = Len(s) - n
  /\ \A i \in 1..(Len(s) - n) : rest[i] = s[n + i]

LEMMA Parts == ASSUME NEW S, NEW s \in Seq(S), NEW n \in 0..Len(s) PROVE Halves(S, s, n)
<1>. USE LenProperties, ElementOfSeq
<1>1. SubSeq(s, 1, n) = [i \in 1..n |-> s[i]]
  BY SMT
<1>2. SubSeq(s, n + 1, Len(s)) = [i \in 1..(Len(s) - n) |-> s[n + i]]
  BY SubSeqProperties, SMT
<1>. QED
  BY <1>1, <1>2, SubSeqProperties, SMT DEF Halves

(* They have the sequence's elements between them. *)
LEMMA PartsItems ==
  ASSUME NEW S, NEW s \in Seq(S), NEW n \in 0..Len(s)
  PROVE  Items(s) = Items(SubSeq(s, 1, n)) \cup Items(SubSeq(s, n + 1, Len(s)))
<1>. DEFINE first == SubSeq(s, 1, n)  rest == SubSeq(s, n + 1, Len(s))
<1>. Len(s) \in Nat
  BY LenProperties
<1>1. /\ Len(first) = n /\ Len(rest) = Len(s) - n
      /\ \A i \in 1..n : first[i] = s[i]
      /\ \A i \in 1..(Len(s) - n) : rest[i] = s[n + i]
  <2>1. Halves(S, s, n)
    BY Parts, Zenon
  <2>. QED
    BY <2>1, Zenon DEF Halves
<1>. HIDE DEF first, rest
<1>2. \A i \in 1..Len(s) : \/ i \in 1..n
                           \/ (i - n) \in 1..(Len(s) - n) /\ n + (i - n) = i
  BY SMT
<1>3. ASSUME NEW x \in Items(s) PROVE x \in Items(first) \cup Items(rest)
  <2>1. PICK i \in 1..Len(s) : x = s[i]
    BY <1>3 DEF Items
  <2>2. CASE i \in 1..n
    BY <2>1, <2>2, <1>1 DEF Items
  <2>3. CASE i - n \in 1..Len(rest)
    <3>1. rest[i - n] = s[i]
      BY <2>3, <1>1, SMT
    <3>. QED
      BY <2>1, <2>3, <3>1, Zenon DEF Items
  <2>. QED
    BY <2>2, <2>3, <1>1, <1>2
<1>4. ASSUME NEW x \in Items(first) \cup Items(rest) PROVE x \in Items(s)
  <2>1. CASE x \in Items(first)
    <3>1. PICK i \in 1..n : x = first[i]
      BY <2>1, <1>1 DEF Items
    <3>. QED
      BY <3>1, <1>1, SMT DEF Items
  <2>2. CASE x \in Items(rest)
    <3>1. PICK i \in 1..(Len(s) - n) : x = rest[i]
      BY <2>2, <1>1, Zenon DEF Items
    <3>2. n + i \in 1..Len(s) /\ x = s[n + i]
      BY <3>1, <1>1, SMT
    <3>. QED
      BY <3>2, Zenon DEF Items
  <2>. QED
    BY <1>4, <2>1, <2>2
<1>. QED
  BY <1>3, <1>4 DEF first, rest

(* A sequence that is not empty: its head alone, then its tail. *)
LEMMA OneOf ==
  ASSUME NEW S, NEW s \in Seq(S), s # <<>>
  PROVE  /\ 1 \in 1..Len(s) /\ Head(s) \in S /\ Tail(s) \in Seq(S)
         /\ SubSeq(s, 1, 1) = <<Head(s)>>
         /\ SubSeq(s, 1 + 1, Len(s)) = Tail(s)
<1>1. Tail(s) = SubSeq(s, 1 + 1, Len(s))
  BY TailIsSubSeq, SMT
<1>2. 1 \in 1..Len(s) /\ Head(s) \in S /\ Tail(s) \in Seq(S)
  BY SMT
<1>3. SubSeq(s, 1, 1) = <<Head(s)>>
  <2>1. /\ SubSeq(s, 1, 1) \in Seq(S) /\ Len(SubSeq(s, 1, 1)) = 1 /\ SubSeq(s, 1, 1)[1] = s[1]
    BY <1>2, SMT
  <2>2. <<Head(s)>> \in Seq(S) /\ Len(<<Head(s)>>) = 1 /\ <<Head(s)>>[1] = s[1]
    BY <1>2, SMT
  <2>. DEFINE a == SubSeq(s, 1, 1)  b == <<Head(s)>>
  <2>3. a \in Seq(S) /\ b \in Seq(S) /\ Len(a) = Len(b) /\ \A i \in 1..Len(a) : a[i] = b[i]
    BY <2>1, <2>2, SMT
  <2>. HIDE DEF a, b
  <2>4. a = b
    BY <2>3, SeqEqual
  <2>. QED
    BY <2>4 DEF a, b
<1>. QED
  BY <1>1, <1>2, <1>3

(* All of a sequence, or none of it. *)
LEMMA AllOrNone ==
  ASSUME NEW S, NEW s \in Seq(S)
  PROVE  /\ SubSeq(s, 1, 0) = <<>> /\ SubSeq(s, 0 + 1, Len(s)) = s
         /\ SubSeq(s, 1, Len(s)) = s /\ SubSeq(s, Len(s) + 1, Len(s)) = <<>>
         /\ Len(s) \in Nat /\ (s # <<>> => Len(s) > 0)
  BY SMT

(* The elements of the sequences the proofs meet. *)
LEMMA ItemsOfShort == Items(<<>>) = {} /\ \A x : Items(<<x>>) = {x}
  BY DEF Items

Collects(s, t) == Items(s \o t) = Items(s) \cup Items(t)

LEMMA ItemsOfConcat == ASSUME NEW S, NEW s \in Seq(S), NEW t \in Seq(S) PROVE Collects(s, t)
<1>. Len(s) \in Nat /\ Len(t) \in Nat
  BY LenProperties
<1>1. /\ s \o t \in Seq(S) /\ Len(s \o t) = Len(s) + Len(t)
      /\ \A i \in 1..Len(s) : (s \o t)[i] = s[i]
      /\ \A i \in 1..Len(t) : (s \o t)[Len(s) + i] = t[i]
  BY SMT
<1>2. SubSeq(s \o t, 1, Len(s)) = s /\ SubSeq(s \o t, Len(s) + 1, Len(s \o t)) = t
  BY <1>1, SMT
<1>3. /\ Len(s) \in 0..Len(s \o t)
      /\ Items(s \o t) = Items(SubSeq(s \o t, 1, Len(s)))
                          \cup Items(SubSeq(s \o t, Len(s) + 1, Len(s \o t)))
  <2>1. Len(s) \in 0..Len(s \o t)
    BY <1>1, SMT
  <2>. QED
    BY <1>1, <2>1, PartsItems
<1>. QED
  BY <1>2, <1>3, Zenon DEF Collects

LEMMA ItemsOfAppend ==
  ASSUME NEW S, NEW s \in Seq(S), NEW x \in S
  PROVE  Items(Append(s, x)) = Items(s) \cup {x}
<1>1. Append(s, x) = s \o <<x>> /\ <<x>> \in Seq(S)
  BY AppendIsConcat, SMT
<1>2. Items(s \o <<x>>) = Items(s) \cup Items(<<x>>)
  <2>1. PICK t \in Seq(S) : t = <<x>>
    BY <1>1, Zenon
  <2>2. Collects(s, t)
    BY ItemsOfConcat, Zenon
  <2>. QED
    BY <2>1, <2>2, Zenon DEF Collects
<1>. QED
  BY <1>1, <1>2, ItemsOfShort

-----------------------------------------------------------------------------
(* In order.                                                                *)

\* Every element of s comes before every element of t.
Before(s, t) == \A i \in 1..Len(s), j \in 1..Len(t) : s[i] < t[j]

(* A sequence made of two increases when both do and one is before the other. *)
LEMMA IncreasingConcat ==
  ASSUME NEW s \in Seq(Int), NEW t \in Seq(Int)
  PROVE  Increasing(s \o t) <=> Increasing(s) /\ Increasing(t) /\ Before(s, t)
<1>. Len(s) \in Nat /\ Len(t) \in Nat
  BY LenProperties
<1>1. /\ s \o t \in Seq(Int) /\ Len(s \o t) = Len(s) + Len(t)
      /\ \A i \in 1..Len(s) : (s \o t)[i] = s[i]
      /\ \A i \in 1..Len(t) : (s \o t)[Len(s) + i] = t[i]
  BY SMT
<1>. DEFINE u == s \o t
<1>. HIDE DEF u
<1>2. ASSUME Increasing(u) PROVE Increasing(s) /\ Increasing(t) /\ Before(s, t)
  <2>1. Increasing(s)
    <3>1. SUFFICES ASSUME NEW i \in 1..Len(s), NEW j \in 1..Len(s), i < j PROVE s[i] < s[j]
      BY DEF Increasing
    <3>2. /\ i \in 1..Len(u) /\ j \in 1..Len(u) /\ u[i] = s[i] /\ u[j] = s[j]
      BY <1>1, SMT DEF u
    <3>. QED
      BY <1>2, <3>1, <3>2, Zenon DEF Increasing
  <2>2. Increasing(t)
    <3>1. SUFFICES ASSUME NEW i \in 1..Len(t), NEW j \in 1..Len(t), i < j PROVE t[i] < t[j]
      BY DEF Increasing
    <3>2. /\ Len(s) + i \in 1..Len(u) /\ Len(s) + j \in 1..Len(u) /\ Len(s) + i < Len(s) + j
          /\ u[Len(s) + i] = t[i] /\ u[Len(s) + j] = t[j]
      BY <1>1, <3>1, SMT DEF u
    <3>. QED
      BY <1>2, <3>2, Zenon DEF Increasing
  <2>3. Before(s, t)
    <3>1. SUFFICES ASSUME NEW i \in 1..Len(s), NEW j \in 1..Len(t) PROVE s[i] < t[j]
      BY DEF Before
    <3>2. /\ i \in 1..Len(u) /\ Len(s) + j \in 1..Len(u) /\ i < Len(s) + j
          /\ u[i] = s[i] /\ u[Len(s) + j] = t[j]
      BY <1>1, SMT DEF u
    <3>. QED
      BY <1>2, <3>2, Zenon DEF Increasing
  <2>. QED
    BY <2>1, <2>2, <2>3
<1>3. ASSUME Increasing(s), Increasing(t), Before(s, t) PROVE Increasing(u)
  <2>1. SUFFICES ASSUME NEW i \in 1..Len(u), NEW j \in 1..Len(u), i < j PROVE u[i] < u[j]
    BY DEF Increasing
  <2>2. CASE j <= Len(s)
    BY <1>1, <1>3, <2>1, <2>2, SMT DEF Increasing, u
  <2>3. CASE i > Len(s)
    <3>1. /\ i - Len(s) \in 1..Len(t) /\ j - Len(s) \in 1..Len(t)
          /\ i = Len(s) + (i - Len(s)) /\ j = Len(s) + (j - Len(s))
      BY <1>1, <2>1, <2>3, SMT DEF u
    <3>2. u[i] = t[i - Len(s)] /\ u[j] = t[j - Len(s)] /\ i - Len(s) < j - Len(s)
      BY <1>1, <2>1, <3>1, SMT DEF u
    <3>. QED
      BY <1>3, <3>1, <3>2, Zenon DEF Increasing
  <2>4. CASE i <= Len(s) /\ j > Len(s)
    <3>1. i \in 1..Len(s) /\ j - Len(s) \in 1..Len(t) /\ j = Len(s) + (j - Len(s))
      BY <1>1, <2>1, <2>4, SMT DEF u
    <3>. QED
      BY <1>1, <1>3, <3>1, SMT DEF Before, u
  <2>5. Len(u) \in Nat /\ i \in Nat /\ j \in Nat
    BY <1>1, SMT DEF u
  <2>. QED
    BY <2>2, <2>3, <2>4, <2>5, SMT
<1>. QED
  BY <1>2, <1>3 DEF u

-----------------------------------------------------------------------------
(* The mailbox's inductive invariant: the three sequences increase, one     *)
(* after the other, no item in them is lost, and none is missing.           *)

Typed == /\ accepted \in Nat
         /\ {pending, inHand, handled} \subseteq Seq(1..accepted) /\ lost \subseteq 1..accepted

Ordered == /\ Increasing(handled) /\ Increasing(inHand) /\ Increasing(pending)
           /\ Before(handled, inHand) /\ Before(handled, pending) /\ Before(inHand, pending)

MailInv == Typed /\ Ordered /\ NoneVanishes

(* What comes before both of two sequences comes before their concatenation. *)
LEMMA BeforeConcat ==
  ASSUME NEW r \in Seq(Int), NEW s \in Seq(Int), NEW t \in Seq(Int)
  PROVE  /\ Before(r, s) /\ Before(r, t) => Before(r, s \o t)
         /\ Before(s, r) /\ Before(t, r) => Before(s \o t, r)
<1>1. Len(s) \in Nat /\ Len(t) \in Nat /\ Len(s \o t) = Len(s) + Len(t)
  BY LenProperties, ConcatProperties
<1>2. \A i \in 1..Len(s \o t) :
        \/ i \in 1..Len(s) /\ (s \o t)[i] = s[i]
        \/ i - Len(s) \in 1..Len(t) /\ (s \o t)[i] = t[i - Len(s)]
  BY <1>1, ConcatProperties, SMT
<1>. DEFINE u == s \o t
<1>. HIDE DEF u
<1>3. ASSUME Before(r, s), Before(r, t) PROVE Before(r, u)
  <2>1. SUFFICES ASSUME NEW i \in 1..Len(r), NEW j \in 1..Len(u) PROVE r[i] < u[j]
    BY Zenon DEF Before
  <2>2. \/ j \in 1..Len(s) /\ u[j] = s[j]
        \/ j - Len(s) \in 1..Len(t) /\ u[j] = t[j - Len(s)]
    BY <1>2, Zenon DEF u
  <2>. QED
    BY <1>3, <2>2, Zenon DEF Before
<1>4. ASSUME Before(s, r), Before(t, r) PROVE Before(u, r)
  <2>1. SUFFICES ASSUME NEW i \in 1..Len(u), NEW j \in 1..Len(r) PROVE u[i] < r[j]
    BY Zenon DEF Before
  <2>2. \/ i \in 1..Len(s) /\ u[i] = s[i]
        \/ i - Len(s) \in 1..Len(t) /\ u[i] = t[i - Len(s)]
    BY <1>2, Zenon DEF u
  <2>. QED
    BY <1>4, <2>2, Zenon DEF Before
<1>. QED
  BY <1>3, <1>4, Zenon DEF u

(* Before and Increasing, seen through the sequences' elements and parts. *)
LEMMA Orders ==
  ASSUME NEW s \in Seq(Int), NEW t \in Seq(Int), NEW n \in 0..Len(t)
  PROVE  LET first == SubSeq(t, 1, n)  rest == SubSeq(t, n + 1, Len(t)) IN
         /\ Increasing(t) => Increasing(first) /\ Increasing(rest) /\ Before(first, rest)
         /\ Before(s, t) => Before(s, first) /\ Before(s, rest)
         /\ Before(t, s) => Before(first, s) /\ Before(rest, s)
<1>. DEFINE first == SubSeq(t, 1, n)  rest == SubSeq(t, n + 1, Len(t))
<1>. Len(s) \in Nat /\ Len(t) \in Nat
  BY LenProperties
<1>1. /\ first \in Seq(Int) /\ Len(first) = n /\ rest \in Seq(Int) /\ Len(rest) = Len(t) - n
      /\ \A i \in 1..n : first[i] = t[i]
      /\ \A i \in 1..(Len(t) - n) : rest[i] = t[n + i]
  <2>1. Halves(Int, t, n)
    BY Parts, Zenon
  <2>. QED
    BY <2>1, Zenon DEF Halves
<1>2. \A i \in 1..n : i \in 1..Len(t)
  BY SMT
<1>3. \A i \in 1..(Len(t) - n) : n + i \in 1..Len(t)
  BY SMT
<1>4. \A i \in 1..n, j \in 1..(Len(t) - n) : i < n + j
  BY SMT
<1>5. \A i, j \in 1..(Len(t) - n) : i < j => n + i < n + j
  BY SMT
<1>. HIDE DEF first, rest
<1>. QED
  BY <1>1, <1>2, <1>3, <1>4, <1>5 DEF Increasing, Before, first, rest

(* Sequences one before the other have no element in common. *)
LEMMA Disjoint ==
  ASSUME NEW s \in Seq(Int), NEW t \in Seq(Int), Before(s, t)
  PROVE  Items(s) \cap Items(t) = {}
<1>. Len(s) \in Nat /\ Len(t) \in Nat /\ \A i \in 1..Len(s) : s[i] \in Int
  BY LenProperties, ElementOfSeq
<1>. QED
  BY SMT DEF Items, Before

(* Ranges and sequences of numbers. *)
LEMMA Numbers ==
  ASSUME NEW n \in Nat
  PROVE  /\ 1..n \subseteq 1..(n + 1) /\ n + 1 \in 1..(n + 1)
         /\ 1..(n + 1) = (1..n) \cup {n + 1}
         /\ Seq(1..n) \subseteq Seq(Int) /\ Seq(1..n) \subseteq Seq(1..(n + 1))
         /\ \A s \in Seq(1..n) : Items(s) \subseteq 1..n
<1>1. 1..n \subseteq 1..(n + 1) /\ n + 1 \in 1..(n + 1) /\ 1..(n + 1) = (1..n) \cup {n + 1}
  BY SMT
<1>2. 1..n \subseteq Int
  BY SMT
<1>3. \A s \in Seq(1..n) : Items(s) \subseteq 1..n
  BY ElementOfSeq DEF Items
<1>. QED
  BY <1>1, <1>2, <1>3

-----------------------------------------------------------------------------
(* A step of the mailbox keeps the invariant.                               *)

LEMMA AcceptKeeps == MailInv /\ Accept => MailInv'
<1>. SUFFICES ASSUME MailInv, Accept PROVE MailInv'
  OBVIOUS
<1>1. PICK n \in 0..Len(pending) : /\ pending' = Append(Rest(n), accepted + 1)
                                   /\ lost' = lost \cup Items(FirstOf(n))
  BY DEF Accept
<1>. DEFINE k == accepted  new == <<k + 1>>  first == FirstOf(n)  rest == Rest(n)
<1>2. /\ k \in Nat /\ pending \in Seq(1..k) /\ inHand \in Seq(1..k) /\ handled \in Seq(1..k)
      /\ lost \subseteq 1..k /\ accepted' = k + 1 /\ inHand' = inHand /\ handled' = handled
  BY DEF MailInv, Typed, Accept
<1>3. first \in Seq(1..k) /\ rest \in Seq(1..k)
  BY <1>2, Parts DEF FirstOf, Rest, Halves
<1>4. /\ new \in Seq(1..(k + 1)) /\ pending' = rest \o new /\ pending' = Append(rest, k + 1)
      /\ Items(new) = {k + 1}
  <2>1. rest \in Seq(1..(k + 1)) /\ k + 1 \in 1..(k + 1)
    BY <1>2, <1>3, Numbers
  <2>. HIDE DEF rest
  <2>2. Append(rest, k + 1) = rest \o <<k + 1>>
    BY <2>1, AppendIsConcat
  <2>. QED
    BY <1>1, <2>1, <2>2, ItemsOfShort DEF rest
<1>5. Len(new) = 1 /\ new[1] = k + 1
  OBVIOUS
<1>. HIDE DEF k, new, first, rest
<1>6. {pending, inHand, handled, first, rest, new} \subseteq Seq(Int)
  <2>1. Seq(1..k) \subseteq Seq(Int) /\ Seq(1..(k + 1)) \subseteq Seq(Int)
    BY <1>2, Numbers
  <2>. QED
    BY <1>2, <1>3, <1>4, <2>1
<1>7. Typed'
  <2>1. Items(first) \subseteq 1..k
    BY <1>2, <1>3, Numbers
  <2>2. pending' \in Seq(1..(k + 1))
    BY <1>2, <1>3, <1>4, Numbers, AppendProperties
  <2>3. /\ {pending, inHand, handled}' \subseteq Seq(1..(k + 1)) /\ k + 1 \in Nat
        /\ (lost \cup Items(first)) \subseteq 1..(k + 1)
    <3>1. Seq(1..k) \subseteq Seq(1..(k + 1)) /\ 1..k \subseteq 1..(k + 1) /\ k + 1 \in Nat
      BY <1>2, Numbers, SMT
    <3>. QED
      BY <1>2, <2>1, <2>2, <3>1, Zenon
  <2>. QED
    BY <1>1, <1>2, <2>3 DEF Typed, first
<1>8. ASSUME NEW s \in Seq(1..k) PROVE Before(s, new)
  <2>1. \A i \in 1..Len(s) : s[i] \in 1..k
    BY <1>8, ElementOfSeq
  <2>. QED
    BY <1>2, <1>5, <2>1, SMT DEF Before
<1>9. /\ Increasing(rest) /\ Before(handled, rest) /\ Before(inHand, rest)
      /\ Before(first, rest) /\ Before(handled, first) /\ Before(inHand, first)
  BY <1>6, Orders DEF MailInv, Ordered, Rest, FirstOf, rest, first
<1>10. Ordered'
  <2>1. Increasing(new)
    BY <1>5, SMT DEF Increasing
  <2>2. /\ Before(rest, new) /\ Before(handled, new) /\ Before(inHand, new)
    BY <1>2, <1>3, <1>8
  <2>3. Increasing(rest \o new)
    BY <1>6, <1>9, <2>1, <2>2, IncreasingConcat
  <2>4. Before(handled, rest \o new) /\ Before(inHand, rest \o new)
    BY <1>6, <1>9, <2>2, BeforeConcat
  <2>. QED
    BY <1>2, <1>4, <2>3, <2>4 DEF Ordered, MailInv
<1>11. NoneVanishes'
  <2>1. Items(pending) = Items(first) \cup Items(rest)
    BY <1>2, PartsItems DEF first, rest, FirstOf, Rest
  <2>2. Items(pending') = Items(rest) \cup {k + 1}
    <3>1. rest \in Seq(1..(k + 1)) /\ k + 1 \in 1..(k + 1)
      BY <1>2, <1>3, Numbers
    <3>2. Items(Append(rest, k + 1)) = Items(rest) \cup {k + 1}
      BY <3>1, ItemsOfAppend
    <3>. QED
      BY <1>4, <3>2
  <2>3. /\ Items(first) \cap Items(rest) = {} /\ Items(handled) \cap Items(first) = {}
        /\ Items(inHand) \cap Items(first) = {}
    BY <1>6, <1>9, Disjoint
  <2>4. lost \cup Items(first) \subseteq 1..k
    BY <1>2, <1>3, Numbers
  <2>5. k + 1 \notin 1..k /\ 1..(k + 1) = (1..k) \cup {k + 1}
    BY <1>2, SMT
  <2>. QED
    BY <1>1, <1>2, <2>1, <2>2, <2>3, <2>4, <2>5 DEF NoneVanishes, MailInv, first, k
<1>. QED
  BY <1>7, <1>10, <1>11 DEF MailInv

LEMMA TakeKeeps == MailInv /\ Take => MailInv'
<1>. SUFFICES ASSUME MailInv, Take PROVE MailInv'
  OBVIOUS
<1>1. PICK n \in 1..Len(pending) : inHand' = FirstOf(n) /\ pending' = Rest(n)
  BY DEF Take
<1>. DEFINE k == accepted  first == FirstOf(n)  rest == Rest(n)
<1>2. /\ k \in Nat /\ pending \in Seq(1..k) /\ handled \in Seq(1..k) /\ inHand = <<>>
      /\ UNCHANGED <<accepted, handled, lost>> /\ lost \subseteq 1..k
  BY DEF MailInv, Typed, Take
<1>3. n \in 0..Len(pending)
  BY <1>2, LenProperties, SMT
<1>4. first \in Seq(1..k) /\ rest \in Seq(1..k)
  BY <1>2, <1>3, Parts DEF FirstOf, Rest, Halves
<1>5. {pending, handled, first, rest} \subseteq Seq(Int)
  BY <1>2, <1>4, Numbers
<1>6. Typed'
  BY <1>1, <1>2, <1>4 DEF Typed
<1>7. Ordered'
  <2>1. /\ Increasing(first) /\ Increasing(rest) /\ Before(first, rest)
        /\ Before(handled, first) /\ Before(handled, rest)
    BY <1>3, <1>5, Orders DEF MailInv, Ordered, Rest, FirstOf
  <2>. QED
    BY <1>1, <1>2, <2>1 DEF MailInv, Ordered
<1>8. NoneVanishes'
  <2>1. Items(pending) = Items(first) \cup Items(rest)
    BY <1>2, <1>3, PartsItems DEF FirstOf, Rest
  <2>. HIDE DEF first, rest
  <2>. QED
    BY <1>1, <1>2, <2>1, ItemsOfShort DEF NoneVanishes, MailInv, first, rest
<1>. QED
  BY <1>6, <1>7, <1>8 DEF MailInv

LEMMA SettleKeeps == MailInv /\ Settle => MailInv'
<1>. SUFFICES ASSUME MailInv, Settle PROVE MailInv'
  OBVIOUS
<1>. DEFINE k == accepted
<1>1. /\ k \in Nat /\ {pending, inHand, handled} \subseteq Seq(1..k) /\ lost \subseteq 1..k
      /\ inHand' = <<>> /\ UNCHANGED <<accepted, pending>>
  BY DEF MailInv, Typed, Settle
<1>2. {pending, inHand, handled} \subseteq Seq(Int)
  BY <1>1, Numbers
<1>3. Increasing(<<>>) /\ \A s \in Seq(Int) : Before(s, <<>>) /\ Before(<<>>, s)
  BY SMT DEF Increasing, Before
<1>4. CASE handled' = handled \o inHand /\ UNCHANGED lost
  <2>1. Items(handled \o inHand) = Items(handled) \cup Items(inHand)
    BY <1>1, ItemsOfConcat DEF Collects
  <2>2. Increasing(handled \o inHand) /\ Before(handled \o inHand, pending)
    BY <1>2, IncreasingConcat, BeforeConcat DEF MailInv, Ordered
  <2>3. handled \o inHand \in Seq(1..k) /\ handled \o inHand \in Seq(Int) /\ <<>> \in Seq(1..k)
    BY <1>1, <1>2, ConcatProperties
  <2>. QED
    BY <1>1, <1>2, <1>3, <1>4, <2>1, <2>2, <2>3, ItemsOfShort
    DEF MailInv, Typed, Ordered, NoneVanishes
<1>5. CASE lost' = lost \cup Items(inHand) /\ UNCHANGED handled
  <2>1. Items(inHand) \cap Items(handled) = {} /\ Items(inHand) \cap Items(pending) = {}
    BY <1>2, Disjoint DEF MailInv, Ordered
  <2>2. Items(inHand) \subseteq 1..k /\ <<>> \in Seq(1..k)
    BY <1>1, Numbers
  <2>3. Typed'
    BY <1>1, <1>5, <2>2 DEF Typed
  <2>4. Ordered'
    BY <1>1, <1>2, <1>3, <1>5 DEF MailInv, Ordered
  <2>5. NoneVanishes'
    BY <1>1, <1>5, <2>1, ItemsOfShort DEF MailInv, NoneVanishes
  <2>. QED
    BY <2>3, <2>4, <2>5 DEF MailInv
<1>. QED
  BY <1>4, <1>5 DEF Settle

(* The invariant of the mailbox, and what it says of the order. *)
THEOREM MailboxInv == Spec => []MailInv
<1>1. Init => MailInv
  <2>. SUFFICES ASSUME Init PROVE MailInv
    OBVIOUS
  <2>1. 1..0 = {} /\ Len(<<>>) = 0 /\ <<>> \in Seq(1..0)
    BY SMT
  <2>. QED
    BY <2>1, ItemsOfShort, SMT
    DEF Init, MailInv, Typed, Ordered, NoneVanishes, Increasing, Before
<1>2. MailInv /\ [Next]_mailbox => MailInv'
  <2>1. MailInv /\ UNCHANGED mailbox => MailInv'
    BY DEF mailbox, MailInv, Typed, Ordered, NoneVanishes
  <2>. QED
    BY <2>1, AcceptKeeps, TakeKeeps, SettleKeeps DEF Next
<1>. QED
  BY <1>1, <1>2, PTL DEF Spec

\* Items are handled in the order in which they were accepted, and none twice.
THEOREM InOrder == Spec => []HandledInOrder
<1>1. MailInv => HandledInOrder
  <2>. SUFFICES ASSUME MailInv PROVE HandledInOrder
    OBVIOUS
  <2>1. {pending, inHand, handled} \subseteq Seq(Int)
    BY Numbers DEF MailInv, Typed
  <2>2. handled \o inHand \in Seq(Int) /\ Increasing(handled \o inHand)
        /\ Before(handled \o inHand, pending) /\ Increasing(pending)
    BY <2>1, ConcatProperties, IncreasingConcat, BeforeConcat DEF MailInv, Ordered
  <2>3. Increasing((handled \o inHand) \o pending)
    BY <2>1, <2>2, IncreasingConcat
  <2>. QED
    BY <2>3 DEF HandledInOrder
<1>. QED
  BY <1>1, MailboxInv, PTL

\* Every accepted item is in one place: it waits, is in hand, was handled, or is lost.
THEOREM NothingVanishes == Spec => []NoneVanishes
<1>1. MailInv => NoneVanishes
  BY DEF MailInv
<1>. QED
  BY <1>1, MailboxInv, PTL
=============================================================================
