--------------------------- MODULE GrantQueueProofs ---------------------------
(***************************************************************************)
(* GrantQueue for any depth of the queue and any number of grants, outages *)
(* and errors: its type invariant, its safety, and that it implements the  *)
(* mailbox.  The inductive invariant SafetyInv adds to the properties what *)
(* the worker's place says of the other variables.  Boolean flags are kept *)
(* apart from the rest.                                                    *)
(***************************************************************************)
EXTENDS GrantQueue, SequenceTheorems, TLAPS

FlagsOK == {serverUp, connected, recorder, running, container} \subseteq BOOLEAN

DataOK ==
  /\ mainPc \in {"running", "notify", "stopContainer", "joinProton", "joinWorker", "stopped"}
  /\ protonPc \in {"idle", "notify"}
  /\ workerPc \in {"test", "recheck", "blocking", "waiting", "recording", "handling", "exited"}
  /\ queue \in Seq(Grants) /\ Len(queue) <= Depth + 1 /\ inHand \in Grants \cup {0}
  /\ received \in 0..MaxGrants
  /\ captured \in Seq(Grants) /\ dropped \subseteq Grants /\ late \subseteq Grants

\* The worker has a grant in its hand exactly while it records or handles it.
HandOK == inHand # 0 <=> workerPc \in {"recording", "handling"}

\* A grant taken after running_ was cleared was the last: the worker does not come
\* back to the queue.
LastOK == late # {} => ~running /\ workerPc \in {"recording", "handling", "test", "exited"}

\* A transaction that fails on a broken connection, with the server up, is the only
\* one: it leaves a new connection behind.
LinkOK == /\ outages \in 0..MaxOutages /\ errors \in 0..MaxErrors /\ stale \in {0, 1}
          /\ serverUp /\ ~connected => stale = 0

\* The worker blocks with the queue empty; if it sleeps on a grant, whoever queued it has
\* yet to notify.
AwakeOK == /\ workerPc = "blocking" => queue = <<>>
           /\ workerPc = "waiting" /\ queue # <<>> => protonPc = "notify"

SafetyInv == FlagsOK /\ DataOK /\ HandOK /\ AwakeOK /\ LastOK /\ AtMostOneAfterStop /\ LinkOK /\ QueueIsNewest

-----------------------------------------------------------------------------

LEMMA FlagsStep == FlagsOK /\ [Next]_vars => FlagsOK'
<1>. SUFFICES ASSUME FlagsOK, [Next]_vars PROVE FlagsOK'
  OBVIOUS
<1>. USE DEF FlagsOK, vars, dataVars, db, link
<1>1. CASE Proton
  BY <1>1, Zenon DEF Proton, Push, NotifyPush
<1>2. CASE Worker \/ SpuriousWakeup
  <2>1. CASE Record
    BY <2>1, Zenon DEF Record, Commits, StatementFails, CommitInDoubt, Reopens, LinkBroken
  <2>2. CASE ~Record
    BY <1>2, <2>2, Zenon DEF Worker, WorkerTest, WorkerMustWait, WorkerBlocks, WorkerBreaks,
      WorkerTakes, WorkerHandled, SpuriousWakeup
  <2>. QED
    BY <2>1, <2>2
<1>3. CASE StopClears \/ Stop
  BY <1>3, Zenon DEF StopClears, Stop, StopNotifies, StopContainer, JoinProton, JoinWorker
<1>4. CASE Server
  BY <1>4, Zenon DEF Server, Outage, Recovery
<1>5. CASE UNCHANGED vars
  BY <1>5, Zenon
<1>. QED
  BY <1>1, <1>2, <1>3, <1>4, <1>5 DEF Next

LEMMA LinkStep == LinkOK /\ [Next]_vars => LinkOK'
<1>. SUFFICES ASSUME LinkOK, [Next]_vars PROVE LinkOK'
  OBVIOUS
<1>. USE LinkAssumption DEF LinkOK
<1>1. CASE UNCHANGED link
  BY <1>1 DEF link
<1>2. CASE Record
  <2>1. CASE StatementFails
    BY <2>1 DEF StatementFails
  <2>2. CASE CommitInDoubt
    BY <2>2 DEF CommitInDoubt
  <2>3. CASE Reopens
    <3>1. ~(serverUp' /\ ~connected')
      BY <2>3, Zenon DEF Reopens, LinkBroken
    <3>2. stale' \in {0, 1} /\ UNCHANGED <<outages, errors>>
      BY <2>3 DEF Reopens, LinkBroken
    <3>. QED
      BY <3>1, <3>2
  <2>. QED
    BY <1>1, <1>2, <2>1, <2>2, <2>3 DEF Record, Commits
<1>3. CASE Outage
  BY <1>3 DEF Outage
<1>4. CASE Recovery
  BY <1>4 DEF Recovery
<1>. QED
  BY <1>1, <1>2, <1>3, <1>4 DEF Next, vars, db, Proton, Worker, Stop, Push, NotifyPush, WorkerTest,
    WorkerMustWait, WorkerBlocks, WorkerBreaks, WorkerTakes, WorkerHandled, SpuriousWakeup,
    StopClears, StopNotifies, StopContainer, JoinProton, JoinWorker, Server

(* What appending to a queue and taking its head do to its elements. *)
LEMMA QueueOps ==
  ASSUME NEW S, NEW s \in Seq(S)
  PROVE  /\ Len(s) \in Nat
         /\ \A x \in S : /\ Append(s, x) \in Seq(S) /\ Len(Append(s, x)) = Len(s) + 1
                          /\ \A i \in 1..Len(s) : Append(s, x)[i] = s[i]
                          /\ Append(s, x)[Len(s) + 1] = x
         /\ s # <<>> => /\ Tail(s) \in Seq(S) /\ Head(s) \in S /\ Len(Tail(s)) = Len(s) - 1
                        /\ \A i \in 1..(Len(s) - 1) : Tail(s)[i] = s[i + 1]
                        /\ Len(s) > 0 /\ Head(s) = s[1]
  BY SMT

LEMMA DataStep == DataOK /\ HandOK /\ [Next]_vars => DataOK' /\ HandOK'
<1>. SUFFICES ASSUME DataOK, HandOK, [Next]_vars PROVE DataOK' /\ HandOK'
  OBVIOUS
<1>. USE QueueAssumption DEF DataOK, HandOK, Grants, dataVars, db
<1>1. CASE Push
  <2>1. received + 1 \in Grants /\ received' \in 0..MaxGrants
    BY <1>1 DEF Push
  <2>2. queue' \in Seq(Grants) /\ Len(queue') <= Depth + 1 /\ dropped' \subseteq Grants
    <3>1. CASE Len(queue) > Depth
      <4>1. queue # <<>>
        BY <3>1, SMT
      <4>2. /\ Tail(queue) \in Seq(Grants) /\ Len(Tail(queue)) = Len(queue) - 1
            /\ Head(queue) \in Grants
        BY <4>1, QueueOps DEF DataOK
      <4>3. /\ queue' = Append(Tail(queue), received + 1)
            /\ dropped' = dropped \cup {Head(queue)}
        BY <1>1, <3>1 DEF Push
      <4>. HIDE DEF Grants
      <4>4. Append(Tail(queue), received + 1) \in Seq(Grants)
            /\ Len(Append(Tail(queue), received + 1)) = Len(queue) - 1 + 1
        BY <2>1, <4>2, QueueOps
      <4>. QED
        BY <4>2, <4>3, <4>4, QueueOps
    <3>2. CASE ~(Len(queue) > Depth)
      <4>1. queue' = Append(queue, received + 1) /\ dropped' = dropped
        BY <1>1, <3>2 DEF Push
      <4>. HIDE DEF Grants
      <4>. QED
        BY <2>1, <3>2, <4>1, QueueOps
    <3>. QED
      BY <3>1, <3>2
  <2>. QED
    BY <1>1, <2>1, <2>2 DEF Push
<1>2. CASE NotifyPush
  BY <1>2 DEF NotifyPush, Wake
<1>3. CASE WorkerTest
  BY <1>3 DEF WorkerTest
<1>4. CASE WorkerMustWait
  BY <1>4 DEF WorkerMustWait
<1>5. CASE WorkerBlocks
  BY <1>5 DEF WorkerBlocks
<1>6. CASE SpuriousWakeup
  BY <1>6 DEF SpuriousWakeup
<1>7. CASE WorkerBreaks
  BY <1>7 DEF WorkerBreaks
<1>8. CASE WorkerTakes
  <2>1. /\ Tail(queue) \in Seq(Grants) /\ Len(Tail(queue)) = Len(queue) - 1
        /\ Head(queue) \in Grants /\ Len(queue) \in Nat
    BY <1>8, QueueOps DEF WorkerTakes
  <2>2. late' \subseteq Grants
    BY <1>8, <2>1 DEF WorkerTakes
  <2>3. workerPc' \in {"recording", "handling"} /\ inHand' = Head(queue) /\ queue' = Tail(queue)
    BY <1>8 DEF WorkerTakes
  <2>4. UNCHANGED <<mainPc, protonPc, received, captured, dropped>>
    BY <1>8 DEF WorkerTakes
  <2>. QED
    BY <2>1, <2>2, <2>3, <2>4
<1>9. CASE Record
  BY <1>9 DEF Record
<1>10. CASE WorkerHandled
  <2>1. inHand \in Grants
    BY <1>10 DEF WorkerHandled
  <2>2. captured' \in Seq(Grants) /\ dropped' \subseteq Grants
    <3>. HIDE DEF Grants
    <3>1. Append(captured, inHand) \in Seq(Grants)
      BY <2>1, QueueOps
    <3>. QED
      BY <1>10, <2>1, <3>1 DEF WorkerHandled
  <2>. QED
    BY <1>10, <2>2 DEF WorkerHandled
<1>11. CASE StopClears
  BY <1>11 DEF StopClears
<1>12. CASE StopNotifies
  BY <1>12 DEF StopNotifies, Wake
<1>13. CASE StopContainer
  BY <1>13 DEF StopContainer
<1>14. CASE JoinProton
  BY <1>14 DEF JoinProton
<1>15. CASE JoinWorker
  BY <1>15 DEF JoinWorker
<1>16. CASE Server
  BY <1>16 DEF Server
<1>17. CASE UNCHANGED vars
  BY <1>17 DEF vars
<1>. QED
  BY <1>1, <1>2, <1>3, <1>4, <1>5, <1>6, <1>7, <1>8, <1>9, <1>10, <1>11, <1>12, <1>13, <1>14,
     <1>15, <1>16, <1>17 DEF Next, Proton, Worker, Stop

LEMMA NewestStep == DataOK /\ QueueIsNewest /\ [Next]_vars => QueueIsNewest'
<1>. SUFFICES ASSUME DataOK, QueueIsNewest, [Next]_vars PROVE QueueIsNewest'
  OBVIOUS
<1>1. received \in Nat /\ queue \in Seq(Grants) /\ Len(queue) \in Nat
  BY QueueAssumption, QueueOps DEF DataOK
<1>2. CASE Push
  <2>1. received' = received + 1 /\ received + 1 \in Grants
    BY <1>1, <1>2, QueueAssumption DEF Push, Grants
  <2>2. PICK s \in Seq(Grants) :
          /\ queue' = Append(s, received + 1) /\ Len(s) \in Nat
          /\ \A i \in 1..Len(s) : s[i] = received - Len(s) + i
    <3>1. CASE Len(queue) > Depth
      <4>1. queue # <<>> /\ queue' = Append(Tail(queue), received + 1)
        BY <1>1, <1>2, <3>1, QueueAssumption, SMT DEF Push
      <4>2. /\ Tail(queue) \in Seq(Grants) /\ Len(Tail(queue)) = Len(queue) - 1
            /\ Len(Tail(queue)) \in Nat
            /\ \A i \in 1..(Len(queue) - 1) : Tail(queue)[i] = queue[i + 1]
        BY <1>1, <4>1, QueueOps
      <4>3. \A i \in 1..(Len(queue) - 1) : queue[i + 1] = received - Len(queue) + (i + 1)
        BY <1>1, SMT DEF QueueIsNewest
      <4>4. \A i \in 1..Len(Tail(queue)) : Tail(queue)[i] = received - Len(Tail(queue)) + i
        BY <1>1, <4>2, <4>3, SMT
      <4>. QED
        BY <4>1, <4>2, <4>4, Zenon
    <3>2. CASE ~(Len(queue) > Depth)
      BY <1>1, <1>2, <3>2 DEF Push, QueueIsNewest
    <3>. QED
      BY <3>1, <3>2
  <2>3. /\ Len(queue') = Len(s) + 1 /\ queue'[Len(s) + 1] = received + 1
        /\ \A i \in 1..Len(s) : queue'[i] = s[i]
    BY <2>1, <2>2, QueueOps
  <2>4. ASSUME NEW i \in 1..Len(queue') PROVE queue'[i] = received' - Len(queue') + i
    <3>1. i \in 1..Len(s) \/ i = Len(s) + 1
      BY <2>2, <2>3, SMT
    <3>. QED
      BY <1>1, <2>1, <2>2, <2>3, <3>1, SMT
  <2>. QED
    BY <2>4 DEF QueueIsNewest
<1>3. CASE WorkerTakes
  <2>1. queue # <<>> /\ queue' = Tail(queue) /\ received' = received
    BY <1>3 DEF WorkerTakes
  <2>2. /\ Len(queue') = Len(queue) - 1
        /\ \A i \in 1..(Len(queue) - 1) : queue'[i] = queue[i + 1]
    BY <1>1, <2>1, QueueOps
  <2>. QED
    BY <1>1, <2>1, <2>2, SMT DEF QueueIsNewest
<1>4. CASE UNCHANGED <<queue, received>>
  BY <1>4 DEF QueueIsNewest
<1>. QED
  BY <1>2, <1>3, <1>4 DEF Next, vars, dataVars, Proton, Worker, Stop, NotifyPush, WorkerTest,
    WorkerMustWait, WorkerBlocks, WorkerBreaks, Record, WorkerHandled, SpuriousWakeup,
    StopClears, StopNotifies, StopContainer, JoinProton, JoinWorker, Server

(* running_ is never set again. *)
LEMMA RunningStep == ~running /\ [Next]_vars => ~running'
<1>. SUFFICES ASSUME ~running, [Next]_vars PROVE ~running'
  OBVIOUS
<1>1. CASE StopClears
  BY <1>1, Zenon DEF StopClears
<1>2. CASE UNCHANGED running
  BY <1>2, Zenon
<1>. QED
  BY <1>1, <1>2, Zenon DEF Next, vars, Proton, Worker, Stop, Push, NotifyPush, WorkerTest,
    WorkerMustWait, WorkerBlocks, WorkerBreaks, WorkerTakes, Record, WorkerHandled, SpuriousWakeup,
    StopNotifies, StopContainer, JoinProton, JoinWorker, Server

(* Taking a grant late ends the worker's loop at its next test. *)
LEMMA LastStep ==
  LastOK /\ AtMostOneAfterStop /\ [Next]_vars => LastOK' /\ AtMostOneAfterStop'
<1>. SUFFICES ASSUME LastOK, AtMostOneAfterStop, [Next]_vars
              PROVE  LastOK' /\ AtMostOneAfterStop'
  OBVIOUS
<1>. USE DEF LastOK, AtMostOneAfterStop
<1>1. CASE WorkerTakes
  <2>1. late = {}
    BY <1>1 DEF WorkerTakes
  <2>2. workerPc' \in {"recording", "handling"}
    BY <1>1 DEF WorkerTakes
  <2>3. running' = running /\ (late' = late \/ (~running /\ late' = late \cup {Head(queue)}))
    BY <1>1, Zenon DEF WorkerTakes
  <2>. QED
    BY <2>1, <2>2, <2>3, Zenon
<1>2. CASE WorkerTest
  BY <1>2, Zenon DEF WorkerTest, dataVars
<1>3. CASE ~WorkerTakes /\ ~WorkerTest
  <2>1. late' = late
    BY <1>3, Zenon DEF Next, vars, dataVars, Proton, Worker, Stop, Push, NotifyPush,
      WorkerMustWait, WorkerBlocks, WorkerBreaks, Record, WorkerHandled, SpuriousWakeup,
      StopClears, StopNotifies, StopContainer, JoinProton, JoinWorker, Server
  <2>2. workerPc \in {"recording", "handling", "test", "exited"}
          => workerPc' \in {"recording", "handling", "test", "exited"}
    BY <1>3 DEF Next, vars, Proton, Worker, Stop, Push, NotifyPush, Wake,
      WorkerMustWait, WorkerBlocks, WorkerBreaks, Record, WorkerHandled, SpuriousWakeup,
      StopClears, StopNotifies, StopContainer, JoinProton, JoinWorker, Server
  <2>. QED
    BY <2>1, <2>2, RunningStep, Zenon
<1>. QED
  BY <1>1, <1>2, <1>3

LEMMA AwakeStep == AwakeOK /\ [Next]_vars => AwakeOK'
<1>. SUFFICES ASSUME AwakeOK, [Next]_vars PROVE AwakeOK'
  OBVIOUS
<1>. USE DEF AwakeOK, dataVars
<1>1. CASE Proton
  BY <1>1 DEF Proton, Push, LockFree, NotifyPush, Wake
<1>2. CASE Worker
  BY <1>2 DEF Worker, WorkerTest, WorkerMustWait, WorkerBlocks, WorkerBreaks, WorkerTakes,
    Record, WorkerHandled
<1>3. CASE SpuriousWakeup \/ StopClears \/ Stop \/ Server \/ UNCHANGED vars
  BY <1>3 DEF SpuriousWakeup, StopClears, Stop, StopNotifies, Wake, StopContainer, JoinProton,
    JoinWorker, Server, vars
<1>. QED
  BY <1>1, <1>2, <1>3 DEF Next

-----------------------------------------------------------------------------

\* Whatever the threads and the server do: the worker holds a grant exactly while it
\* records or handles it, the queue has the newest grants, and the worker does not sleep
\* on one.
THEOREM SafetyInvariant == Spec => []SafetyInv
<1>1. Init => SafetyInv
  <2>. SUFFICES ASSUME Init PROVE SafetyInv
    OBVIOUS
  <2>1. FlagsOK
    BY DEF Init, LinkInit, FlagsOK
  <2>. QED
    BY <2>1, QueueAssumption, LinkAssumption, SMT
    DEF Init, LinkInit, SafetyInv, DataOK, HandOK, AwakeOK, LastOK, AtMostOneAfterStop, LinkOK,
      QueueIsNewest
<1>2. SafetyInv /\ [Next]_vars => SafetyInv'
  BY FlagsStep, LinkStep, DataStep, AwakeStep, NewestStep, LastStep DEF SafetyInv
<1>. QED
  BY <1>1, <1>2, PTL DEF Spec

\* Every variable of the consumer keeps its type, and the queue its bound.
THEOREM TypeCorrect == Spec => []TypeOK
<1>1. SafetyInv => TypeOK
  BY SMT DEF SafetyInv, FlagsOK, DataOK, LinkOK, TypeOK, LinkTypeOK
<1>. QED
  BY <1>1, SafetyInvariant, PTL

\* Whatever the depth, the queue holds the newest grants without a gap.
THEOREM QueueHoldsNewest == Spec => []QueueIsNewest
<1>1. SafetyInv => QueueIsNewest
  BY DEF SafetyInv
<1>. QED
  BY <1>1, SafetyInvariant, PTL

\* However many grants wait when stop() is called, the worker takes one more at most.
THEOREM StopTakesAtMostOne == Spec => []AtMostOneAfterStop
<1>1. SafetyInv => AtMostOneAfterStop
  BY DEF SafetyInv
<1>. QED
  BY <1>1, SafetyInvariant, PTL

\* However many outages there are, each costs one record at most once it is over.
THEOREM OneGrantUnrecorded == Spec => []RecoversAfterOneGrant
<1>1. SafetyInv => RecoversAfterOneGrant
  BY SMT DEF SafetyInv, LinkOK, RecoversAfterOneGrant
<1>. QED
  BY <1>1, SafetyInvariant, PTL

\* No notification of a push is missed: while the worker sleeps and a grant waits, the
\* proton thread is about to notify it (that of stop() may be missed).
THEOREM NoGrantSleeps ==
  Spec => [](workerPc = "waiting" /\ queue # <<>> => protonPc = "notify")
<1>1. SafetyInv => (workerPc = "waiting" /\ queue # <<>> => protonPc = "notify")
  BY DEF SafetyInv, AwakeOK
<1>. QED
  BY <1>1, SafetyInvariant, PTL

-----------------------------------------------------------------------------
(* The refinement: every step of the consumer is one of the mailbox, or     *)
(* leaves the mailbox alone.                                                *)

Mail == INSTANCE MailboxProofs WITH
  accepted <- received, pending <- queue, handled <- captured, lost <- dropped,
  inHand <- IF inHand = 0 THEN <<>> ELSE <<inHand>>

\* Grants are captured in the order they came and none twice, an overflow gives up the
\* oldest, and no other grant is dropped: the consumer implements the mailbox.
THEOREM Refinement == Spec => ImplementsMailbox
<1>1. Init => Abstract!Init
  BY DEF Init, Abstract!Init
<1>2. SafetyInv /\ [Next]_vars => [Abstract!Next]_(Abstract!mailbox)
  <2>. SUFFICES ASSUME SafetyInv, [Next]_vars PROVE Abstract!Next \/ UNCHANGED Abstract!mailbox
    OBVIOUS
  <2>. DEFINE hand == IF inHand = 0 THEN <<>> ELSE <<inHand>>
  <2>. USE DEF SafetyInv, DataOK, HandOK
  <2>1. queue \in Seq(Grants) /\ Len(queue) \in Nat /\ received \in Nat
    BY QueueOps
  <2>2. CASE Push
    <3>1. Abstract!Accept
      <4>1. received' = received + 1 /\ hand' = hand /\ captured' = captured
        BY <2>2 DEF Push
      <4>2. \E n \in 0..Len(queue) :
              /\ queue' = Append(SubSeq(queue, n + 1, Len(queue)), received + 1)
              /\ dropped' = dropped \cup Mail!Items(SubSeq(queue, 1, n))
        <5>1. CASE Len(queue) > Depth
          <6>1. queue # <<>> /\ 1 \in 0..Len(queue)
            BY <2>1, <5>1, QueueAssumption
          <6>2. /\ SubSeq(queue, 1, 1) = <<Head(queue)>>
                /\ SubSeq(queue, 1 + 1, Len(queue)) = Tail(queue)
                /\ Mail!Items(<<Head(queue)>>) = {Head(queue)}
            BY <2>1, <6>1, Mail!OneOf, Mail!ItemsOfShort
          <6>. QED
            BY <2>2, <5>1, <6>1, <6>2, Zenon DEF Push
        <5>2. CASE ~(Len(queue) > Depth)
          <6>1. /\ SubSeq(queue, 1, 0) = <<>> /\ SubSeq(queue, 0 + 1, Len(queue)) = queue
                /\ Mail!Items(<<>>) = {} /\ 0 \in 0..Len(queue)
            BY <2>1, Mail!AllOrNone, Mail!ItemsOfShort
          <6>. QED
            BY <2>2, <5>2, <6>1, Zenon DEF Push
        <5>. QED
          BY <5>1, <5>2
      <4>. QED
        BY <4>1, <4>2 DEF Abstract!Accept, Abstract!Rest, Abstract!FirstOf, Abstract!Items,
          Mail!Items
    <3>. QED
      BY <3>1 DEF Abstract!Next
  <2>3. CASE WorkerTakes
    <3>1. queue # <<>> /\ queue' = Tail(queue) /\ inHand' = Head(queue) /\ inHand = 0
          /\ UNCHANGED <<received, captured, dropped>>
      BY <2>3 DEF WorkerTakes
    <3>2. 1 \in 1..Len(queue) /\ Head(queue) \in Grants /\ SubSeq(queue, 1, 1) = <<Head(queue)>>
          /\ SubSeq(queue, 1 + 1, Len(queue)) = Tail(queue)
      BY <2>1, <3>1, Mail!OneOf
    <3>3. hand = <<>> /\ hand' = <<Head(queue)>>
      BY <3>1, <3>2 DEF Grants
    <3>4. Abstract!Take
      BY <3>1, <3>2, <3>3 DEF Abstract!Take, Abstract!Rest, Abstract!FirstOf
    <3>. QED
      BY <3>4 DEF Abstract!Next
  <2>4. CASE WorkerHandled
    <3>1. /\ inHand \in Grants /\ hand = <<inHand>> /\ hand' = <<>>
          /\ UNCHANGED <<received, queue>>
      BY <2>4 DEF WorkerHandled, Grants
    <3>2. \/ captured' = captured \o <<inHand>> /\ UNCHANGED dropped
          \/ dropped' = dropped \cup Mail!Items(<<inHand>>) /\ UNCHANGED captured
      <4>1. Append(captured, inHand) = captured \o <<inHand>>
        BY <3>1, AppendIsConcat
      <4>. QED
        BY <2>4, <4>1, Mail!ItemsOfShort DEF WorkerHandled
    <3>3. Abstract!Settle
      BY <3>1, <3>2 DEF Abstract!Settle, Abstract!Items, Mail!Items
    <3>. QED
      BY <3>3 DEF Abstract!Next
  <2>5. CASE UNCHANGED <<queue, inHand, received, captured, dropped>>
    BY <2>5 DEF Abstract!mailbox
  <2>. QED
    BY <2>2, <2>3, <2>4, <2>5 DEF Next, vars, dataVars, Proton, Worker, Stop, NotifyPush,
      WorkerTest, WorkerMustWait, WorkerBlocks, WorkerBreaks, Record, SpuriousWakeup,
      StopClears, StopNotifies, StopContainer, JoinProton, JoinWorker, Server
<1>. QED
  BY <1>1, <1>2, SafetyInvariant, PTL DEF Spec, ImplementsMailbox, Abstract!Spec

\* Grants are handled in the order they were queued, and none twice; each is handled,
\* dropped, in the worker's hand or in the queue.
THEOREM GrantsInOrder == Spec => [](Mail!HandledInOrder /\ Mail!NoneVanishes)
<1>1. Abstract!Init <=> Mail!Init
  BY DEF Abstract!Init, Mail!Init
<1>2. [Abstract!Next]_(Abstract!mailbox) <=> [Mail!Next]_(Mail!mailbox)
  BY Zenon DEF Abstract!Next, Mail!Next, Abstract!mailbox, Mail!mailbox, Abstract!Accept, Mail!Accept,
    Abstract!Take, Mail!Take, Abstract!Settle, Mail!Settle, Abstract!Rest, Mail!Rest,
    Abstract!FirstOf, Mail!FirstOf, Abstract!Items, Mail!Items
<1>3. Abstract!Spec <=> Mail!Spec
  BY <1>1, <1>2, PTL DEF Abstract!Spec, Mail!Spec
<1>. QED
  BY <1>3, Refinement, Mail!InOrder, Mail!NothingVanishes, PTL DEF ImplementsMailbox
=============================================================================
