------------------------------- MODULE Mailbox -------------------------------
(***************************************************************************)
(* What the program's hand-over queues promise their producers: items,     *)
(* numbered in the order they are accepted, are taken by one consumer,     *)
(* singly or in batches, and handled in that order and at most once; a     *)
(* batch is handled as a whole or not at all, and an item that is not      *)
(* handled is accounted for as lost.  The implementations are              *)
(* P25GrantConsumer, DetectionDb and AlertConsumer.                        *)
(***************************************************************************)
EXTENDS Integers, Sequences

VARIABLES accepted,  \* items accepted so far
          pending,   \* items that wait, oldest first
          inHand,    \* the batch the consumer works on
          handled,   \* items handled, in order
          lost       \* items given up

mailbox == <<accepted, pending, inHand, handled, lost>>

Items(s)   == {s[i] : i \in 1..Len(s)}
FirstOf(n) == SubSeq(pending, 1, n)
Rest(n)    == SubSeq(pending, n + 1, Len(pending))

Init == accepted = 0 /\ pending = <<>> /\ inHand = <<>> /\ handled = <<>> /\ lost = {}

(* An item comes in; the n oldest that wait may be given up to make room. *)
Accept ==
  /\ accepted' = accepted + 1
  /\ \E n \in 0..Len(pending) :
       /\ pending' = Append(Rest(n), accepted + 1)
       /\ lost' = lost \cup Items(FirstOf(n))
  /\ UNCHANGED <<inHand, handled>>

(* The consumer, empty-handed, takes the n oldest items. *)
Take ==
  /\ inHand = <<>>
  /\ \E n \in 1..Len(pending) : inHand' = FirstOf(n) /\ pending' = Rest(n)
  /\ UNCHANGED <<accepted, handled, lost>>

(* The batch in hand is handled, or given up. *)
Settle ==
  /\ inHand # <<>> /\ inHand' = <<>>
  /\ \/ handled' = handled \o inHand /\ UNCHANGED lost
     \/ lost' = lost \cup Items(inHand) /\ UNCHANGED handled
  /\ UNCHANGED <<accepted, pending>>

Next == Accept \/ Take \/ Settle

Spec == Init /\ [][Next]_mailbox

-----------------------------------------------------------------------------
Increasing(s) == \A i, j \in 1..Len(s) : i < j => s[i] < s[j]

\* Items are handled in the order they came, none of them twice.
HandledInOrder == Increasing(handled \o inHand \o pending)

\* Every accepted item waits, is in hand, was handled or is lost, and only one of
\* these.
NoneVanishes ==
  LET open == Items(handled) \cup Items(inHand) \cup Items(pending)
  IN  open \cup lost = 1..accepted /\ open \cap lost = {}
=============================================================================
