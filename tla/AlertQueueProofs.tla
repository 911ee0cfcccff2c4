--------------------------- MODULE AlertQueueProofs ---------------------------
(***************************************************************************)
(* AlertQueue for any number of alerts, outages and errors: it implements  *)
(* the mailbox, and so keeps the alerts' order and loses none silently.    *)
(* The inductive invariant says when the worker holds an alert; beyond the *)
(* refinement, stop() finds an empty queue once the worker has exited, and *)
(* a worker that is about to block or blocked was not told to stop.        *)
(***************************************************************************)
EXTENDS AlertQueue, SequenceTheorems, TLAPS

FlagsOK == {container, stopping} \subseteq BOOLEAN

DataOK ==
  /\ mainPc \in {"running", "joinProton", "setFlag", "notify", "joinWorker", "stopped"}
  /\ protonPc \in {"idle", "notify"}
  /\ workerPc \in {"recheck", "blocking", "waiting", "inserting", "exited"}
  /\ queue \in Seq(Ids) /\ inHand \in Ids \cup {0} /\ received \in 0..MaxAlerts
  /\ stored \in Seq(Ids) /\ lost \subseteq Ids

\* The worker has an alert in its hand exactly while it inserts it.
HandOK == inHand # 0 <=> workerPc = "inserting"

\* How far stop() is: no alert arrives once the proton thread has been joined, and the
\* flag is set after that.
StopOK ==
  /\ container <=> mainPc = "running"
  /\ stopping <=> mainPc \in {"notify", "joinWorker", "stopped"}
  /\ mainPc \in {"setFlag", "notify", "joinWorker", "stopped"} => protonPc = "idle"
  /\ mainPc = "stopped" => workerPc = "exited"

\* The worker exits when told to stop, and leaves nothing in the queue.
ExitOK == workerPc = "exited" => stopping /\ queue = <<>>

\* The flag is set under the lock: no worker goes to sleep after it has been set, and
\* one that sleeps will be notified.
SleepOK == /\ workerPc = "blocking" => ~stopping
           /\ workerPc = "waiting" /\ stopping => mainPc = "notify"

\* Nor does it sleep on an alert: whoever queued one has yet to notify.
AwakeOK == /\ workerPc = "blocking" => queue = <<>>
           /\ workerPc = "waiting" /\ queue # <<>> => protonPc = "notify"

SafetyInv == FlagsOK /\ DataOK /\ HandOK /\ StopOK /\ ExitOK /\ SleepOK /\ AwakeOK

-----------------------------------------------------------------------------
Mail == INSTANCE MailboxProofs WITH
  accepted <- received, pending <- queue, handled <- stored, lost <- lost,
  inHand <- IF inHand = 0 THEN <<>> ELSE <<inHand>>

LEMMA FlagsStep == FlagsOK /\ [Next]_vars => FlagsOK'
<1>. SUFFICES ASSUME FlagsOK, [Next]_vars PROVE FlagsOK'
  OBVIOUS
<1>1. /\ container' = container \/ container' = FALSE
      /\ stopping' = stopping \/ stopping' = TRUE
  BY Zenon DEF Next, vars, Push, NotifyPush, Worker, WorkerMustWait, WorkerBlocks, WorkerBreaks,
    WorkerTakes, WorkerInserts, SpuriousWakeup, StopContainer, Stop, JoinProton, SetFlag,
    NotifyStop, JoinWorker, Server
<1>. QED
  BY <1>1, Zenon DEF FlagsOK

(* The types, and every part that relates the threads' places. *)
LEMMA SafetyStep ==
  SafetyInv /\ [Next]_vars => (DataOK /\ HandOK /\ StopOK /\ ExitOK /\ SleepOK /\ AwakeOK)'
<1>. SUFFICES ASSUME SafetyInv, [Next]_vars
              PROVE  (DataOK /\ HandOK /\ StopOK /\ ExitOK /\ SleepOK /\ AwakeOK)'
  OBVIOUS
<1>. USE DEF SafetyInv, DataOK, HandOK, StopOK, ExitOK, SleepOK, AwakeOK, alerts
<1>1. CASE Push
  <2>1. received + 1 \in Ids /\ received' \in 0..MaxAlerts
    BY <1>1, AlertAssumption DEF Push, Ids
  <2>2. queue' \in Seq(Ids)
    BY <1>1, <2>1 DEF Push
  <2>3. mainPc = "running" /\ workerPc # "exited" /\ workerPc # "blocking"
    BY <1>1 DEF Push, LockFree
  <2>. QED
    BY <1>1, <2>1, <2>2, <2>3 DEF Push
<1>2. CASE NotifyPush
  BY <1>2 DEF NotifyPush, Wake
<1>3. CASE WorkerMustWait
  BY <1>3 DEF WorkerMustWait
<1>4. CASE WorkerBlocks
  BY <1>4 DEF WorkerBlocks
<1>5. CASE SpuriousWakeup
  BY <1>5 DEF SpuriousWakeup
<1>6. CASE WorkerBreaks
  BY <1>6 DEF WorkerBreaks
<1>7. CASE WorkerTakes
  <2>1. Head(queue) \in Ids /\ Tail(queue) \in Seq(Ids)
    BY <1>7, HeadTailProperties DEF WorkerTakes
  <2>2. 0 \notin Ids
    BY DEF Ids
  <2>. QED
    BY <1>7, <2>1, <2>2 DEF WorkerTakes
<1>8. CASE WorkerInserts
  <2>1. inHand \in Ids
    BY <1>8 DEF WorkerInserts
  <2>2. stored' \in Seq(Ids) /\ lost' \subseteq Ids
    <3>1. Append(stored, inHand) \in Seq(Ids)
      BY <2>1, AppendProperties
    <3>. QED
      BY <1>8, <2>1, <3>1 DEF WorkerInserts, Insert, Store, Lose
  <2>. QED
    BY <1>8, <2>2 DEF WorkerInserts
<1>9. CASE StopContainer
  BY <1>9 DEF StopContainer
<1>10. CASE JoinProton
  BY <1>10 DEF JoinProton
<1>11. CASE SetFlag
  BY <1>11 DEF SetFlag, LockFree
<1>12. CASE NotifyStop
  BY <1>12 DEF NotifyStop, Wake
<1>13. CASE JoinWorker
  BY <1>13 DEF JoinWorker
<1>14. CASE Server
  BY <1>14 DEF Server
<1>15. CASE UNCHANGED vars
  BY <1>15 DEF vars
<1>. QED
  BY <1>1, <1>2, <1>3, <1>4, <1>5, <1>6, <1>7, <1>8, <1>9, <1>10, <1>11, <1>12, <1>13, <1>14,
     <1>15 DEF Next, Worker, Stop

-----------------------------------------------------------------------------

\* Whatever the threads and the server do: the worker holds an alert exactly while it
\* inserts it, stop() runs in its order, and no thread sleeps past its notification.
THEOREM SafetyInvariant == Spec => []SafetyInv
<1>1. Init => SafetyInv
  <2>. SUFFICES ASSUME Init PROVE SafetyInv
    OBVIOUS
  <2>1. FlagsOK
    BY DEF Init, FlagsOK
  <2>. QED
    BY <2>1, AlertAssumption, SMT
    DEF Init, SafetyInv, DataOK, HandOK, StopOK, ExitOK, SleepOK, AwakeOK
<1>2. SafetyInv /\ [Next]_vars => SafetyInv'
  BY FlagsStep, SafetyStep DEF SafetyInv
<1>. QED
  BY <1>1, <1>2, PTL DEF Spec

\* A worker asleep while an alert waits that nobody will tell it of, or while stop()
\* waits for it: a notification has been missed.
Forgotten == /\ workerPc = "waiting"
             /\ \/ queue # <<>> /\ protonPc = "idle"
                \/ mainPc \in {"joinWorker", "stopped"}

\* No notification is missed, neither on_message()'s nor stop()'s (P25GrantConsumer
\* misses the latter): the safety behind AlertsSettle.
THEOREM NoNotificationForgotten == Spec => []~Forgotten
<1>1. SafetyInv => ~Forgotten
  BY DEF SafetyInv, StopOK, SleepOK, AwakeOK, Forgotten
<1>. QED
  BY <1>1, SafetyInvariant, PTL

\* When stop() has returned, no alert waits and none is in hand.
THEOREM StopDrains == Spec => [](mainPc = "stopped" => queue = <<>> /\ inHand = 0)
<1>1. SafetyInv => (mainPc = "stopped" => queue = <<>> /\ inHand = 0)
  BY DEF SafetyInv, StopOK, ExitOK, HandOK
<1>. QED
  BY <1>1, SafetyInvariant, PTL

-----------------------------------------------------------------------------
(* The refinement: every step of the pipeline is one of the mailbox, or     *)
(* leaves the mailbox alone.                                                *)

(* on_message() accepts, and gives no alert up. *)
LEMMA PushAccepts == SafetyInv /\ Push => Abstract!Accept
<1>. SUFFICES ASSUME SafetyInv, Push PROVE Abstract!Accept
  OBVIOUS
<1>1. /\ SubSeq(queue, 1, 0) = <<>> /\ SubSeq(queue, 0 + 1, Len(queue)) = queue
      /\ 0 \in 0..Len(queue) /\ Mail!Items(<<>>) = {}
  BY Mail!AllOrNone, Mail!ItemsOfShort DEF SafetyInv, DataOK
<1>2. \E n \in 0..Len(queue) :
        /\ queue' = Append(SubSeq(queue, n + 1, Len(queue)), received + 1)
        /\ lost' = lost \cup Mail!Items(SubSeq(queue, 1, n))
  BY <1>1, Zenon DEF Push
<1>. QED
  BY <1>2 DEF Push, Abstract!Accept, Abstract!Rest, Abstract!FirstOf, Abstract!Items, Mail!Items

(* The worker takes the oldest alert. *)
LEMMA WorkerTakesOne == SafetyInv /\ WorkerTakes => Abstract!Take
<1>. SUFFICES ASSUME SafetyInv, WorkerTakes PROVE Abstract!Take
  OBVIOUS
<1>. DEFINE hand == IF inHand = 0 THEN <<>> ELSE <<inHand>>
<1>1. /\ queue # <<>> /\ queue' = Tail(queue) /\ inHand' = Head(queue) /\ inHand = 0
      /\ UNCHANGED <<received, stored, lost>>
  BY DEF WorkerTakes, SafetyInv, HandOK
<1>2. /\ 1 \in 1..Len(queue) /\ Head(queue) \in Ids
      /\ SubSeq(queue, 1, 1) = <<Head(queue)>> /\ SubSeq(queue, 1 + 1, Len(queue)) = Tail(queue)
  BY <1>1, Mail!OneOf DEF SafetyInv, DataOK
<1>3. hand = <<>> /\ hand' = <<Head(queue)>>
  BY <1>1, <1>2 DEF Ids
<1>. QED
  BY <1>1, <1>2, <1>3 DEF Abstract!Take, Abstract!Rest, Abstract!FirstOf

(* A transaction settles it, whichever way it ends. *)
LEMMA InsertSettles == SafetyInv /\ WorkerInserts => Abstract!Settle
<1>. SUFFICES ASSUME SafetyInv, WorkerInserts PROVE Abstract!Settle
  OBVIOUS
<1>. DEFINE hand == IF inHand = 0 THEN <<>> ELSE <<inHand>>
<1>1. /\ hand = <<inHand>> /\ hand # <<>> /\ hand' = <<>> /\ UNCHANGED <<received, queue>>
  BY DEF WorkerInserts, SafetyInv, HandOK
<1>2. \/ stored' = Append(stored, inHand) /\ UNCHANGED lost
      \/ lost' = lost \cup {inHand} /\ UNCHANGED stored
  BY DEF WorkerInserts, Insert, Store, Lose
<1>3. Append(stored, inHand) = stored \o <<inHand>>
  <2>1. stored \in Seq(Ids) /\ inHand \in Ids
    BY DEF SafetyInv, DataOK, HandOK, WorkerInserts
  <2>. QED
    BY <2>1, AppendIsConcat
<1>4. Abstract!Items(<<inHand>>) = {inHand}
  BY Mail!ItemsOfShort DEF Abstract!Items, Mail!Items
<1>. QED
  BY <1>1, <1>2, <1>3, <1>4 DEF Abstract!Settle

\* Alerts are stored in the order they came and none twice, whatever fails and whenever
\* stop() is called: the pipeline implements the mailbox.
THEOREM Refinement == Spec => ImplementsMailbox
<1>1. Init => Abstract!Init
  BY DEF Init, Abstract!Init
<1>2. SafetyInv /\ [Next]_vars => [Abstract!Next]_(Abstract!mailbox)
  <2>1. UNCHANGED alerts => UNCHANGED Abstract!mailbox
    BY DEF alerts, Abstract!mailbox
  <2>. QED
    BY <2>1, PushAccepts, WorkerTakesOne, InsertSettles DEF Next, vars, Abstract!Next, NotifyPush,
      Worker, WorkerMustWait, WorkerBlocks, WorkerBreaks, SpuriousWakeup, StopContainer, Stop,
      JoinProton, SetFlag, NotifyStop, JoinWorker, Server
<1>. QED
  BY <1>1, <1>2, SafetyInvariant, PTL DEF Spec, ImplementsMailbox, Abstract!Spec

\* The pipeline inherits what the mailbox promises: alerts are stored in the order they
\* came, and each is stored, lost to a failure, in the worker's hand or in the queue.
THEOREM AlertsInOrder == Spec => [](Mail!HandledInOrder /\ Mail!NoneVanishes)
<1>1. Abstract!Init <=> Mail!Init
  BY DEF Abstract!Init, Mail!Init
<1>2. [Abstract!Next]_(Abstract!mailbox) <=> [Mail!Next]_(Mail!mailbox)
  BY Zenon DEF Abstract!Next, Mail!Next, Abstract!mailbox, Mail!mailbox, Abstract!Accept,
    Mail!Accept, Abstract!Take, Mail!Take, Abstract!Settle, Mail!Settle, Abstract!Rest, Mail!Rest,
    Abstract!FirstOf, Mail!FirstOf, Abstract!Items, Mail!Items
<1>3. Abstract!Spec <=> Mail!Spec
  BY <1>1, <1>2, PTL DEF Abstract!Spec, Mail!Spec
<1>. QED
  BY <1>3, Refinement, Mail!InOrder, Mail!NothingVanishes, PTL DEF ImplementsMailbox
=============================================================================
