----------------------------- MODULE DetectionDb -----------------------------
(***************************************************************************)
(* DetectionDb: detections pushed by the scanners' threads wait in a queue *)
(* and a writer thread commits them in batches, until the destructor joins *)
(* it.  The writer's wait is timed, so it may end at any moment, notified  *)
(* or not; it then takes a batch in the same critical section.  Detections *)
(* are numbered in the order they are pushed.  Their rows, and whether one *)
(* is inserted or updates an older one, are not modelled.                  *)
(***************************************************************************)
EXTENDS DbLink, Sequences

CONSTANTS BatchSize,  \* batch_size_
          MaxPushed   \* bound: detections pushed in a behaviour

ASSUME BatchAssumption == BatchSize \in Nat \ {0} /\ MaxPushed \in Nat

VARIABLES
  mainPc,     \* the main thread: running, joining in the destructor, destroyed
  stopped,    \* stopped_
  workerPc,   \* the writer thread, in workerLoop()
  queue,      \* queue_
  batch,      \* batch
  pushed,     \* detections pushed so far
  written,    \* history: detections committed, in order
  lost        \* history: detections of failed transactions

records == <<queue, batch, pushed, written, lost>>
vars == <<mainPc, stopped, workerPc, records, link>>

Init ==
  /\ mainPc = "running" /\ stopped = FALSE /\ workerPc = "test"
  /\ queue = <<>> /\ batch = <<>> /\ pushed = 0 /\ written = <<>> /\ lost = {}
  /\ LinkInit

Least(a, b) == IF a < b THEN a ELSE b
Members(s)  == {s[i] : i \in 1..Len(s)}

-----------------------------------------------------------------------------
(* push(), on a scanner's thread; main() stops the scanners before it       *)
(* destroys the log.                                                        *)

Push ==
  /\ mainPc = "running" /\ pushed < MaxPushed
  /\ pushed' = pushed + 1 /\ queue' = Append(queue, pushed + 1)
  /\ UNCHANGED <<mainPc, stopped, workerPc, batch, written, lost, link>>

(* ~DetectionDb(): stopped_ is set and the writer is joined. *)
Destroy ==
  /\ mainPc = "running" /\ mainPc' = "join" /\ stopped' = TRUE
  /\ UNCHANGED <<workerPc, records, link>>

Join ==
  /\ mainPc = "join" /\ workerPc = "exited" /\ mainPc' = "destroyed"
  /\ UNCHANGED <<stopped, workerPc, records, link>>

-----------------------------------------------------------------------------
(* workerLoop().                                                            *)

WorkerTest ==
  /\ workerPc = "test"
  /\ workerPc' = IF stopped THEN "drain" ELSE "wait"
  /\ UNCHANGED <<mainPc, stopped, records, link>>

\* Variants (named <definition>_<mistake>) are plausible wrong edits of the
\* definition that follows; they show what a property rejects.
WorkerTakes_Untimed ==
  LET n == Least(BatchSize, Len(queue)) IN
  /\ workerPc = "wait" /\ (Len(queue) >= BatchSize \/ stopped)
  /\ batch' = SubSeq(queue, 1, n) /\ queue' = SubSeq(queue, n + 1, Len(queue))
  /\ workerPc' = IF n = 0 THEN "test" ELSE "flush"
  /\ UNCHANGED <<mainPc, stopped, pushed, written, lost, link>>

WorkerTakes_ClearsQueue ==
  LET n == Least(BatchSize, Len(queue)) IN
  /\ workerPc = "wait"
  /\ batch' = SubSeq(queue, 1, n) /\ queue' = <<>>
  /\ workerPc' = IF n = 0 THEN "test" ELSE "flush"
  /\ UNCHANGED <<mainPc, stopped, pushed, written, lost, link>>

(* wait_for() returns and up to BatchSize detections are taken. *)
WorkerTakes ==
  LET n == Least(BatchSize, Len(queue)) IN
  /\ workerPc = "wait"
  /\ batch' = SubSeq(queue, 1, n) /\ queue' = SubSeq(queue, n + 1, Len(queue))
  /\ workerPc' = IF n = 0 THEN "test" ELSE "flush"
  /\ UNCHANGED <<mainPc, stopped, pushed, written, lost, link>>

\* flush(): the batch is committed as a whole, or not at all.
Write == written' = written \o batch /\ UNCHANGED lost
Lose  == lost' = lost \cup Members(batch) /\ UNCHANGED written

Flush(reconnects) ==
  \/ Commits /\ Write
  \/ StatementFails /\ Lose
  \/ CommitInDoubt /\ (Write \/ Lose)
  \/ LinkBroken(reconnects) /\ Lose

WorkerFlushes_NoReconnect ==
  /\ workerPc = "flush" /\ Flush(FALSE)
  /\ batch' = <<>> /\ workerPc' = "test"
  /\ UNCHANGED <<mainPc, stopped, queue, pushed>>

(* The batch is dropped whatever came of it. *)
WorkerFlushes ==
  /\ workerPc = "flush" /\ Flush(TRUE)
  /\ batch' = <<>> /\ workerPc' = "test"
  /\ UNCHANGED <<mainPc, stopped, queue, pushed>>

WorkerDrains_OneBatch ==
  LET n == Least(BatchSize, Len(queue)) IN
  /\ workerPc = "drain"
  /\ batch' = SubSeq(queue, 1, n) /\ queue' = SubSeq(queue, n + 1, Len(queue))
  /\ workerPc' = IF n = 0 THEN "exited" ELSE "final"
  /\ UNCHANGED <<mainPc, stopped, pushed, written, lost, link>>

(* After the loop: all that is left goes into one last batch. *)
WorkerDrains ==
  /\ workerPc = "drain"
  /\ batch' = queue /\ queue' = <<>>
  /\ workerPc' = IF queue = <<>> THEN "exited" ELSE "final"
  /\ UNCHANGED <<mainPc, stopped, pushed, written, lost, link>>

(* The final flush: an exception is logged, nothing is opened again. *)
FinalFlush ==
  /\ workerPc = "final" /\ Flush(FALSE)
  /\ batch' = <<>> /\ workerPc' = "exited"
  /\ UNCHANGED <<mainPc, stopped, queue, pushed>>

Server == (Outage \/ Recovery) /\ UNCHANGED <<mainPc, stopped, workerPc, records>>

-----------------------------------------------------------------------------
Worker == WorkerTest \/ WorkerTakes \/ WorkerFlushes \/ WorkerDrains \/ FinalFlush

Next == Push \/ Destroy \/ Join \/ Worker \/ Server

Spec == Init /\ [][Next]_vars

(* The writer is scheduled and libpqxx answers; neither the server's        *)
(* recovery nor a notification is assumed.                                  *)
FairSpec == Spec /\ WF_vars(Worker) /\ WF_vars(Join)

-----------------------------------------------------------------------------
(* Properties.                                                              *)

Records == 1..MaxPushed

\* Every variable keeps its type; a batch of the loop is no larger than BatchSize.
TypeOK ==
  /\ mainPc \in {"running", "join", "destroyed"} /\ stopped \in BOOLEAN
  /\ workerPc \in {"test", "wait", "flush", "drain", "final", "exited"}
  /\ queue \in Seq(Records) /\ batch \in Seq(Records) /\ pushed \in 0..MaxPushed
  /\ written \in Seq(Records) /\ lost \subseteq Records
  /\ workerPc = "flush" => Len(batch) <= BatchSize
  /\ LinkTypeOK

\* The log, seen as a mailbox: the queue, the writer's batch, the committed rows.
Abstract == INSTANCE Mailbox WITH
  accepted <- pushed, pending <- queue, inHand <- batch, handled <- written, lost <- lost

\* Every step of the log is a step of the mailbox or leaves it alone: detections
\* are committed in the order they were pushed and none twice, failures included.
ImplementsMailbox == Abstract!Spec

\* Once the server is back, one transaction at most fails for the connection it
\* broke: workerLoop() opens another and the next batch is written.
RecoversAfterOneBatch == stale <= 1

\* Every detection leaves the queue, and the destructor returns and leaves nothing
\* behind, though the notifications are not reliable: DetectionDb waits with a time limit.
RecordsSettle ==
  /\ \A r \in Records : r \in Members(queue) ~> r \in Members(written) \cup lost
  /\ mainPc = "join" ~> (mainPc = "destroyed" /\ queue = <<>> /\ batch = <<>>)
=============================================================================
