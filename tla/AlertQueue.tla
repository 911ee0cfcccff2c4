----------------------------- MODULE AlertQueue ------------------------------
(***************************************************************************)
(* AlertConsumer and AlertStore: alerts of the rf.alerts topic arrive on   *)
(* the proton thread, wait in a queue and are inserted into the rf_alerts  *)
(* table by a worker, one transaction each.  Unlike P25GrantConsumer, its  *)
(* stop() ends the producer first and sets the worker's flag under the     *)
(* lock.  As there, wait() blocks in one step after its predicate's test.  *)
(* Alerts are numbered in the order they are queued.                       *)
(***************************************************************************)
EXTENDS DbLink, Sequences

CONSTANT MaxAlerts   \* bound: alerts received in a behaviour

ASSUME AlertAssumption == MaxAlerts \in Nat

VARIABLES
  mainPc,     \* the thread that calls stop()
  container,  \* TRUE until container_.stop()
  stopping,   \* worker_stopping_
  protonPc,   \* the proton thread, in on_message()
  workerPc,   \* the worker thread, in workerLoop()
  queue,      \* work_q_
  inHand,     \* the alert the worker holds (0: none)
  received,   \* alerts queued so far
  stored,     \* history: alerts committed, in order
  lost        \* history: alerts whose transaction failed

alerts == <<queue, inHand, received, stored, lost>>
vars == <<mainPc, container, stopping, protonPc, workerPc, alerts, link>>

Init ==
  /\ mainPc = "running" /\ container = TRUE /\ stopping = FALSE
  /\ protonPc = "idle" /\ workerPc = "recheck"
  /\ queue = <<>> /\ inHand = 0 /\ received = 0 /\ stored = <<>> /\ lost = {}
  /\ LinkInit

\* The worker holds work_mu_ from its predicate test until it blocks or unlocks.
LockFree == workerPc # "blocking"
Wake == workerPc' = IF workerPc = "waiting" THEN "recheck" ELSE workerPc

-----------------------------------------------------------------------------
(* on_message(), on the proton thread.                                      *)

Push ==
  /\ container /\ protonPc = "idle" /\ LockFree /\ received < MaxAlerts
  /\ received' = received + 1 /\ queue' = Append(queue, received + 1)
  /\ protonPc' = "notify"
  /\ UNCHANGED <<mainPc, container, stopping, workerPc, inHand, stored, lost, link>>

NotifyPush ==
  /\ protonPc = "notify" /\ protonPc' = "idle" /\ Wake
  /\ UNCHANGED <<mainPc, container, stopping, alerts, link>>

-----------------------------------------------------------------------------
(* workerLoop().                                                            *)

WorkerMustWait ==
  /\ workerPc = "recheck" /\ queue = <<>> /\ ~stopping /\ workerPc' = "blocking"
  /\ UNCHANGED <<mainPc, container, stopping, protonPc, alerts, link>>

WorkerBlocks ==
  /\ workerPc = "blocking" /\ workerPc' = "waiting"
  /\ UNCHANGED <<mainPc, container, stopping, protonPc, alerts, link>>

SpuriousWakeup ==
  /\ workerPc = "waiting" /\ workerPc' = "recheck"
  /\ UNCHANGED <<mainPc, container, stopping, protonPc, alerts, link>>

WorkerBreaks ==
  /\ workerPc = "recheck" /\ stopping /\ queue = <<>> /\ workerPc' = "exited"
  /\ UNCHANGED <<mainPc, container, stopping, protonPc, alerts, link>>

WorkerTakes ==
  /\ workerPc = "recheck" /\ queue # <<>>
  /\ inHand' = Head(queue) /\ queue' = Tail(queue) /\ workerPc' = "inserting"
  /\ UNCHANGED <<mainPc, container, stopping, protonPc, received, stored, lost, link>>

\* The outcomes of AlertStore::insert(), which throws nothing.
Store == stored' = Append(stored, inHand) /\ UNCHANGED lost
Lose  == lost' = lost \cup {inHand} /\ UNCHANGED stored

Insert ==
  \/ Commits /\ Store
  \/ StatementFails /\ Lose
  \/ CommitInDoubt /\ (Store \/ Lose)
  \/ LinkBroken(TRUE) /\ Lose

\* Variants (named <action>_<mistake>) are plausible wrong edits of the action
\* that follows; no specification uses them, they show what a property rejects.
WorkerInserts_Requeues ==
  /\ workerPc = "inserting" /\ inHand' = 0 /\ workerPc' = "recheck"
  /\ \/ Insert /\ stored' # stored /\ UNCHANGED queue
     \/ Insert /\ stored' = stored /\ queue' = Append(queue, inHand)
  /\ UNCHANGED <<mainPc, container, stopping, protonPc, received>>

WorkerInserts ==
  /\ workerPc = "inserting" /\ Insert /\ inHand' = 0 /\ workerPc' = "recheck"
  /\ UNCHANGED <<mainPc, container, stopping, protonPc, queue, received>>

-----------------------------------------------------------------------------
(* stop(): the container and its thread first, then the worker.             *)

StopContainer ==
  /\ mainPc = "running" /\ mainPc' = "joinProton" /\ container' = FALSE
  /\ UNCHANGED <<stopping, protonPc, workerPc, alerts, link>>

JoinProton ==
  /\ mainPc = "joinProton" /\ protonPc = "idle" /\ mainPc' = "setFlag"
  /\ UNCHANGED <<container, stopping, protonPc, workerPc, alerts, link>>

SetFlag_NoLock ==
  /\ mainPc = "setFlag" /\ mainPc' = "notify" /\ stopping' = TRUE
  /\ UNCHANGED <<container, protonPc, workerPc, alerts, link>>

SetFlag ==
  /\ mainPc = "setFlag" /\ LockFree /\ mainPc' = "notify" /\ stopping' = TRUE
  /\ UNCHANGED <<container, protonPc, workerPc, alerts, link>>

NotifyStop ==
  /\ mainPc = "notify" /\ mainPc' = "joinWorker" /\ Wake
  /\ UNCHANGED <<container, stopping, protonPc, alerts, link>>

JoinWorker ==
  /\ mainPc = "joinWorker" /\ workerPc = "exited" /\ mainPc' = "stopped"
  /\ UNCHANGED <<container, stopping, protonPc, workerPc, alerts, link>>

Server == (Outage \/ Recovery)
          /\ UNCHANGED <<mainPc, container, stopping, protonPc, workerPc, alerts>>

-----------------------------------------------------------------------------
Worker == WorkerMustWait \/ WorkerBlocks \/ WorkerBreaks \/ WorkerTakes \/ WorkerInserts
Stop   == JoinProton \/ SetFlag \/ NotifyStop \/ JoinWorker

Next == Push \/ NotifyPush \/ Worker \/ SpuriousWakeup \/ StopContainer \/ Stop \/ Server

Spec == Init /\ [][Next]_vars

(* Every thread is scheduled, libpqxx answers, and a thread that waits for  *)
(* the mutex is not passed over for ever; no alert, no stop(), no recovery  *)
(* of the server and no spurious wake-up is assumed.                        *)
FairSpec == /\ Spec /\ WF_vars(NotifyPush) /\ WF_vars(Worker) /\ WF_vars(Stop)
            /\ SF_vars(SetFlag)

-----------------------------------------------------------------------------
(* Properties.                                                              *)

Ids == 1..MaxAlerts
Queued == {queue[i] : i \in 1..Len(queue)}

\* The alerts, seen as a mailbox: the queue, the worker's hand, the table.
Abstract == INSTANCE Mailbox WITH
  accepted <- received, pending <- queue, handled <- stored, lost <- lost,
  inHand <- IF inHand = 0 THEN <<>> ELSE <<inHand>>

\* Every step of the pipeline is a step of the mailbox or leaves it alone: alerts
\* are stored in the order they came, none twice, and a failed one is not retried.
ImplementsMailbox == Abstract!Spec

\* A queued alert is stored or lost to a failure in the end, and stop() drains the queue
\* and returns, whatever state the server is in: no notification is missed.
AlertsSettle ==
  /\ \A a \in Ids : a \in Queued ~> a \in lost \/ \E i \in 1..Len(stored) : stored[i] = a
  /\ mainPc # "running" ~> (mainPc = "stopped" /\ queue = <<>> /\ inHand = 0)
=============================================================================
