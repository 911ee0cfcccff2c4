-------------------------- MODULE DetectionDbProofs ---------------------------
(***************************************************************************)
(* DetectionDb for any size of a batch and any number of detections,       *)
(* outages and errors: its type invariant, that it recovers after one      *)
(* batch, and that it implements the mailbox.  The inductive invariant     *)
(* SafetyInv says when there is a batch in hand, and which connection a    *)
(* failed transaction leaves behind.  Boolean flags are kept apart.        *)
(***************************************************************************)
EXTENDS DetectionDb, SequenceTheorems, TLAPS

FlagsOK == {serverUp, connected, stopped} \subseteq BOOLEAN

DataOK ==
  /\ mainPc \in {"running", "join", "destroyed"}
  /\ workerPc \in {"test", "wait", "flush", "drain", "final", "exited"}
  /\ queue \in Seq(Records) /\ batch \in Seq(Records) /\ pushed \in 0..MaxPushed
  /\ written \in Seq(Records) /\ lost \subseteq Records
  /\ workerPc = "flush" => Len(batch) <= BatchSize

\* There is a batch exactly while it is being flushed.
BatchOK == batch # <<>> <=> workerPc \in {"flush", "final"}

\* The writer stops looking at the queue only when told to, which is when nothing is
\* pushed any more, and takes what is left with it.
StopOK ==
  /\ stopped <=> mainPc # "running"
  /\ workerPc \in {"drain", "final", "exited"} => stopped
  /\ workerPc \in {"final", "exited"} => queue = <<>>
  /\ mainPc = "destroyed" => workerPc = "exited"

\* While the writer runs, a transaction that fails on a broken connection, with the
\* server up, is the only one; the final flush may add one, and is the last.
LinkOK ==
  /\ outages \in 0..MaxOutages /\ errors \in 0..MaxErrors /\ stale \in {0, 1}
  /\ serverUp /\ ~connected /\ workerPc # "exited" => stale = 0

SafetyInv == FlagsOK /\ DataOK /\ BatchOK /\ StopOK /\ LinkOK

-----------------------------------------------------------------------------
Mail == INSTANCE MailboxProofs WITH
  accepted <- pushed, pending <- queue, inHand <- batch, handled <- written, lost <- lost

LEMMA FlagsStep == FlagsOK /\ [Next]_vars => FlagsOK'
<1>. SUFFICES ASSUME FlagsOK, [Next]_vars PROVE FlagsOK'
  OBVIOUS
<1>. USE DEF FlagsOK, vars, records, link
<1>1. CASE Push \/ Destroy \/ Join
  BY <1>1, Zenon DEF Push, Destroy, Join
<1>2. CASE WorkerTest \/ WorkerTakes \/ WorkerDrains
  BY <1>2, Zenon DEF WorkerTest, WorkerTakes, WorkerDrains
<1>3. CASE WorkerFlushes \/ FinalFlush
  <2>1. stopped' = stopped /\ (Flush(TRUE) \/ Flush(FALSE))
    BY <1>3, Zenon DEF WorkerFlushes, FinalFlush
  <2>. QED
    BY <2>1, Zenon DEF Flush, Commits, StatementFails, CommitInDoubt, LinkBroken
<1>4. CASE Server
  BY <1>4, Zenon DEF Server, Outage, Recovery
<1>5. CASE UNCHANGED vars
  BY <1>5, Zenon
<1>. QED
  BY <1>1, <1>2, <1>3, <1>4, <1>5 DEF Next, Worker

(* How a flush ends for the connection. *)
LEMMA FlushLink ==
  ASSUME LinkOK, workerPc # "exited", NEW r \in BOOLEAN, Flush(r)
  PROVE  /\ outages' \in 0..MaxOutages /\ errors' \in 0..MaxErrors /\ stale' \in {0, 1}
         /\ r /\ serverUp' /\ ~connected' => stale' = 0
<1>. USE LinkAssumption DEF LinkOK
<1>1. CASE Commits
  BY <1>1 DEF Commits, link
<1>2. CASE StatementFails
  BY <1>2 DEF StatementFails
<1>3. CASE CommitInDoubt
  BY <1>3 DEF CommitInDoubt
<1>4. CASE LinkBroken(r)
  <2>1. ~(r /\ serverUp' /\ ~connected')
    BY <1>4, Zenon DEF LinkBroken
  <2>2. stale' \in {0, 1} /\ UNCHANGED <<outages, errors>>
    BY <1>4 DEF LinkBroken
  <2>. QED
    BY <2>1, <2>2
<1>. QED
  BY <1>1, <1>2, <1>3, <1>4 DEF Flush

LEMMA LinkStep == DataOK /\ LinkOK /\ [Next]_vars => LinkOK'
<1>. SUFFICES ASSUME DataOK, LinkOK, [Next]_vars PROVE LinkOK'
  OBVIOUS
<1>1. CASE WorkerFlushes
  BY <1>1, FlushLink DEF WorkerFlushes, LinkOK
<1>2. CASE FinalFlush
  BY <1>2, FlushLink DEF FinalFlush, LinkOK
<1>3. CASE Outage \/ Recovery
  BY <1>3, LinkAssumption DEF Outage, Recovery, LinkOK
<1>4. CASE UNCHANGED link /\ (workerPc' = "exited" \/ workerPc # "exited")
  BY <1>4 DEF link, LinkOK
<1>. QED
  BY <1>1, <1>2, <1>3, <1>4 DEF Next, Worker, vars, Push, Destroy, Join, WorkerTest, WorkerTakes,
    WorkerDrains, Server

(* Where a batch is taken from the queue, both keep their types. *)
LEMMA Taken ==
  ASSUME DataOK
  PROVE  LET n == Least(BatchSize, Len(queue)) IN
         /\ n \in 0..Len(queue) /\ n <= BatchSize /\ (n = 0 <=> queue = <<>>)
         /\ SubSeq(queue, 1, n) \in Seq(Records) /\ Len(SubSeq(queue, 1, n)) = n
         /\ SubSeq(queue, n + 1, Len(queue)) \in Seq(Records)
<1>. DEFINE n == Least(BatchSize, Len(queue))
<1>1. /\ n \in 0..Len(queue) /\ n <= BatchSize /\ (n = 0 <=> queue = <<>>)
  BY BatchAssumption, EmptySeq, LenProperties DEF DataOK, Least
<1>. HIDE DEF n
<1>2. /\ SubSeq(queue, 1, n) \in Seq(Records) /\ Len(SubSeq(queue, 1, n)) = n
      /\ SubSeq(queue, n + 1, Len(queue)) \in Seq(Records)
  BY <1>1, Mail!Parts DEF DataOK
<1>. QED
  BY <1>1, <1>2 DEF n

LEMMA DataStep == DataOK /\ BatchOK /\ [Next]_vars => DataOK' /\ BatchOK'
<1>. SUFFICES ASSUME DataOK, BatchOK, [Next]_vars PROVE DataOK' /\ BatchOK'
  OBVIOUS
<1>. USE DEF DataOK, BatchOK, records
<1>1. CASE Push
  <2>1. pushed + 1 \in Records /\ pushed' \in 0..MaxPushed
    BY <1>1, BatchAssumption DEF Push, Records
  <2>2. queue' \in Seq(Records)
    BY <1>1, <2>1 DEF Push
  <2>. QED
    BY <1>1, <2>1, <2>2 DEF Push
<1>2. CASE Destroy \/ Join \/ WorkerTest \/ Server
  BY <1>2 DEF Destroy, Join, WorkerTest, Server
<1>3. CASE WorkerTakes
  <2>. DEFINE n == Least(BatchSize, Len(queue))
  <2>1. /\ batch' = SubSeq(queue, 1, n) /\ queue' = SubSeq(queue, n + 1, Len(queue))
        /\ workerPc' = (IF n = 0 THEN "test" ELSE "flush")
        /\ UNCHANGED <<mainPc, pushed, written, lost>>
    BY <1>3 DEF WorkerTakes
  <2>2. /\ n \in 0..Len(queue) /\ n <= BatchSize /\ batch' \in Seq(Records) /\ Len(batch') = n
        /\ queue' \in Seq(Records)
    BY <2>1, Taken
  <2>. HIDE DEF n
  <2>3. batch' # <<>> <=> n # 0
    BY <2>2, EmptySeq
  <2>. QED
    BY <2>1, <2>2, <2>3
<1>4. CASE WorkerDrains
  BY <1>4 DEF WorkerDrains
<1>5. CASE WorkerFlushes \/ FinalFlush
  <2>1. /\ batch' = <<>> /\ UNCHANGED <<mainPc, queue, pushed>> /\ workerPc' \in {"test", "exited"}
        /\ Write \/ Lose
    BY <1>5 DEF WorkerFlushes, FinalFlush, Flush
  <2>2. written' \in Seq(Records) /\ lost' \subseteq Records
    <3>1. Members(batch) \subseteq Records /\ written \o batch \in Seq(Records)
      BY ElementOfSeq, ConcatProperties DEF Members
    <3>. QED
      BY <2>1, <3>1 DEF Write, Lose
  <2>. QED
    BY <2>1, <2>2
<1>6. CASE UNCHANGED vars
  BY <1>6 DEF vars
<1>. QED
  BY <1>1, <1>2, <1>3, <1>4, <1>5, <1>6 DEF Next, Worker

LEMMA StopStep == DataOK /\ StopOK /\ [Next]_vars => StopOK'
<1>. SUFFICES ASSUME DataOK, StopOK, [Next]_vars PROVE StopOK'
  OBVIOUS
<1>. USE DEF DataOK, StopOK, records
<1>1. CASE Push \/ Destroy \/ Join \/ WorkerTest
  BY <1>1 DEF Push, Destroy, Join, WorkerTest
<1>2. CASE WorkerTakes \/ WorkerDrains
  BY <1>2 DEF WorkerTakes, WorkerDrains
<1>3. CASE WorkerFlushes \/ FinalFlush
  <2>1. UNCHANGED <<mainPc, stopped, queue>>
    BY <1>3, Zenon DEF WorkerFlushes, FinalFlush
  <2>2. (workerPc = "flush" /\ workerPc' = "test") \/ (workerPc = "final" /\ workerPc' = "exited")
    BY <1>3, Zenon DEF WorkerFlushes, FinalFlush
  <2>. QED
    BY <2>1, <2>2
<1>4. CASE Server \/ UNCHANGED vars
  BY <1>4 DEF Server, vars
<1>. QED
  BY <1>1, <1>2, <1>3, <1>4 DEF Next, Worker

-----------------------------------------------------------------------------

\* Whatever fails: the writer holds a batch exactly while it flushes it, leaves the queue
\* empty when it exits, and a transaction that meets a broken connection restores it.
THEOREM SafetyInvariant == Spec => []SafetyInv
<1>1. Init => SafetyInv
  <2>. SUFFICES ASSUME Init PROVE SafetyInv
    OBVIOUS
  <2>1. FlagsOK
    BY DEF Init, LinkInit, FlagsOK
  <2>. QED
    BY <2>1, BatchAssumption, LinkAssumption, SMT
    DEF Init, LinkInit, SafetyInv, DataOK, BatchOK, StopOK, LinkOK
<1>2. SafetyInv /\ [Next]_vars => SafetyInv'
  BY FlagsStep, LinkStep, DataStep, StopStep DEF SafetyInv
<1>. QED
  BY <1>1, <1>2, PTL DEF Spec

\* Every variable of the log keeps its type, and a batch of the loop its size.
THEOREM TypeCorrect == Spec => []TypeOK
<1>1. SafetyInv => TypeOK
  BY SMT DEF SafetyInv, FlagsOK, DataOK, LinkOK, TypeOK, LinkTypeOK
<1>. QED
  BY <1>1, SafetyInvariant, PTL

\* However many outages there are, each costs one batch at most once it is over.
THEOREM OneBatchLost == Spec => []RecoversAfterOneBatch
<1>1. SafetyInv => RecoversAfterOneBatch
  BY SMT DEF SafetyInv, LinkOK, RecoversAfterOneBatch
<1>. QED
  BY <1>1, SafetyInvariant, PTL

\* When the destructor has returned, every detection was committed or is lost: none is
\* left in the queue or in a batch.
THEOREM DestructorDrains == Spec => [](mainPc = "destroyed" => queue = <<>> /\ batch = <<>>)
<1>1. SafetyInv => (mainPc = "destroyed" => queue = <<>> /\ batch = <<>>)
  BY DEF SafetyInv, StopOK, BatchOK
<1>. QED
  BY <1>1, SafetyInvariant, PTL

-----------------------------------------------------------------------------
(* The refinement: every step of the log is one of the mailbox, or leaves   *)
(* the mailbox alone.                                                       *)

(* push() accepts, and gives no detection up. *)
LEMMA PushAccepts == SafetyInv /\ Push => Abstract!Accept
<1>. SUFFICES ASSUME SafetyInv, Push PROVE Abstract!Accept
  OBVIOUS
<1>1. /\ SubSeq(queue, 1, 0) = <<>> /\ SubSeq(queue, 0 + 1, Len(queue)) = queue
      /\ 0 \in 0..Len(queue) /\ Mail!Items(<<>>) = {}
  BY Mail!AllOrNone, Mail!ItemsOfShort DEF SafetyInv, DataOK
<1>2. \E n \in 0..Len(queue) :
        /\ queue' = Append(SubSeq(queue, n + 1, Len(queue)), pushed + 1)
        /\ lost' = lost \cup Mail!Items(SubSeq(queue, 1, n))
  BY <1>1, Zenon DEF Push
<1>. QED
  BY <1>2 DEF Push, Abstract!Accept, Abstract!Rest, Abstract!FirstOf, Abstract!Items, Mail!Items

(* The writer takes the oldest detections, at the end all of them. *)
LEMMA WorkerTakesBatch ==
  SafetyInv /\ (WorkerTakes \/ WorkerDrains) => Abstract!Take \/ UNCHANGED Abstract!mailbox
<1>. SUFFICES ASSUME SafetyInv, WorkerTakes \/ WorkerDrains
              PROVE  Abstract!Take \/ UNCHANGED Abstract!mailbox
  OBVIOUS
<1>1. PICK n \in 0..Len(queue) :
        /\ batch' = SubSeq(queue, 1, n) /\ queue' = SubSeq(queue, n + 1, Len(queue))
        /\ n = 0 <=> queue = <<>>
  <2>1. CASE WorkerTakes
    BY <2>1, Taken DEF WorkerTakes, SafetyInv
  <2>2. CASE WorkerDrains
    <3>1. /\ SubSeq(queue, 1, Len(queue)) = queue
          /\ SubSeq(queue, Len(queue) + 1, Len(queue)) = <<>>
          /\ Len(queue) \in 0..Len(queue) /\ (Len(queue) = 0 <=> queue = <<>>)
      BY Mail!AllOrNone, EmptySeq DEF SafetyInv, DataOK
    <3>. QED
      BY <2>2, <3>1, Zenon DEF WorkerDrains
  <2>. QED
    BY <2>1, <2>2
<1>2. /\ UNCHANGED <<pushed, written, lost>> /\ batch = <<>>
  BY DEF WorkerTakes, WorkerDrains, SafetyInv, BatchOK
<1>3. CASE n = 0
  BY <1>1, <1>2, <1>3, Mail!AllOrNone DEF SafetyInv, DataOK, Abstract!mailbox
<1>4. CASE n # 0
  <2>1. n \in 1..Len(queue)
    BY <1>4, LenProperties DEF SafetyInv, DataOK
  <2>. QED
    BY <1>1, <1>2, <2>1, Zenon DEF Abstract!Take, Abstract!Rest, Abstract!FirstOf
<1>. QED
  BY <1>3, <1>4

(* A flush settles the batch, whichever way it ends. *)
LEMMA FlushSettles == SafetyInv /\ (WorkerFlushes \/ FinalFlush) => Abstract!Settle
<1>. SUFFICES ASSUME SafetyInv, WorkerFlushes \/ FinalFlush PROVE Abstract!Settle
  OBVIOUS
<1>1. /\ batch # <<>> /\ batch' = <<>> /\ UNCHANGED <<queue, pushed>> /\ (Write \/ Lose)
  BY DEF WorkerFlushes, FinalFlush, Flush, SafetyInv, BatchOK
<1>. QED
  BY <1>1 DEF Write, Lose, Abstract!Settle, Members, Abstract!Items

\* Detections are committed in the order they were pushed and none twice, a batch as a
\* whole or not at all, whatever fails: the log implements the mailbox.
THEOREM Refinement == Spec => ImplementsMailbox
<1>1. Init => Abstract!Init
  BY DEF Init, Abstract!Init
<1>2. SafetyInv /\ [Next]_vars => [Abstract!Next]_(Abstract!mailbox)
  <2>1. UNCHANGED records => UNCHANGED Abstract!mailbox
    BY DEF records, Abstract!mailbox
  <2>. QED
    BY <2>1, PushAccepts, WorkerTakesBatch, FlushSettles DEF Next, Worker, vars, Abstract!Next,
      Destroy, Join, WorkerTest, Server
<1>. QED
  BY <1>1, <1>2, SafetyInvariant, PTL DEF Spec, ImplementsMailbox, Abstract!Spec

\* The log inherits what the mailbox promises: detections are committed in the order in
\* which they were pushed, and each is committed, lost, in the batch or in the queue.
THEOREM DetectionsInOrder == Spec => [](Mail!HandledInOrder /\ Mail!NoneVanishes)
<1>1. Abstract!Init <=> Mail!Init
  BY DEF Abstract!Init, Mail!Init
<1>2. [Abstract!Next]_(Abstract!mailbox) <=> [Mail!Next]_(Mail!mailbox)
  BY Zenon DEF Abstract!Next, Mail!Next, Abstract!mailbox, Mail!mailbox, Abstract!Accept,
    Mail!Accept, Abstract!Take, Mail!Take, Abstract!Settle, Mail!Settle, Abstract!Rest, Mail!Rest,
    Abstract!FirstOf, Mail!FirstOf, Abstract!Items, Mail!Items
<1>3. Abstract!Spec <=> Mail!Spec
  BY <1>1, <1>2, PTL DEF Abstract!Spec, Mail!Spec
<1>. QED
  BY <1>3, Refinement, Mail!InOrder, Mail!NothingVanishes, PTL DEF ImplementsMailbox
=============================================================================
