----------------------------- MODULE GrantQueue ------------------------------
(***************************************************************************)
(* P25GrantConsumer: channel grants arrive on the proton thread, wait in a *)
(* short queue that drops the oldest, and are handled (a capture of some   *)
(* seconds) by a worker thread, until stop().  The mutex, the condition    *)
(* variable and its two notifications are steps of their own: cv.wait()    *)
(* tests its predicate under the lock, and blocks and unlocks in one later *)
(* step.  The handler first records the grant (P25Db) if the program has a *)
(* connection for that.  Grants are numbered in the order they are queued. *)
(***************************************************************************)
EXTENDS Integers, Sequences, DbLink

CONSTANTS Depth,      \* enqueue() drops the oldest when more than this many wait
          MaxGrants   \* bound: grants received in a behaviour

ASSUME QueueAssumption == Depth \in Nat /\ MaxGrants \in Nat

VARIABLES
  mainPc,      \* the thread that calls stop()
  running,     \* running_
  container,   \* TRUE until container_->stop()
  protonPc,    \* the proton thread, in enqueue()
  workerPc,    \* the worker thread, in worker_loop()
  recorder,    \* p25db is there
  queue,       \* queue_
  inHand,      \* the grant the worker holds (0: none)
  received,    \* grants queued so far
  captured,    \* history: grants handled, in order
  dropped,     \* history: grants dropped
  late         \* history: grants taken from the queue after stop() cleared running_

dataVars == <<queue, inHand, received, captured, dropped, late>>
db == <<recorder, link>>
vars == <<mainPc, running, container, protonPc, workerPc, db, dataVars>>

Init ==
  /\ mainPc = "running" /\ running = TRUE /\ container = TRUE
  /\ protonPc = "idle" /\ workerPc = "test"
  /\ recorder \in BOOLEAN /\ LinkInit
  /\ queue = <<>> /\ inHand = 0 /\ received = 0
  /\ captured = <<>> /\ dropped = {} /\ late = {}

\* The worker holds queue_mu_ from its predicate test until it blocks or unlocks.
LockFree == workerPc # "blocking"

-----------------------------------------------------------------------------
(* enqueue(), on the proton thread: push under the lock, then notify.       *)

\* Variants (named <action>_<mistake>) are plausible wrong edits of the action
\* that follows; no specification uses them, they show what a property rejects.
Push_NeverDrops ==
  /\ container /\ protonPc = "idle" /\ LockFree /\ received < MaxGrants
  /\ received' = received + 1
  /\ queue' = Append(queue, received + 1) /\ UNCHANGED dropped
  /\ protonPc' = "notify"
  /\ UNCHANGED <<db, mainPc, running, container, workerPc, inHand, captured, late>>

Push_DropsNewest ==
  /\ container /\ protonPc = "idle" /\ LockFree /\ received < MaxGrants
  /\ received' = received + 1
  /\ IF Len(queue) > Depth
       THEN /\ queue' = Append(SubSeq(queue, 1, Len(queue) - 1), received + 1)
            /\ dropped' = dropped \cup {queue[Len(queue)]}
       ELSE queue' = Append(queue, received + 1) /\ UNCHANGED dropped
  /\ protonPc' = "notify"
  /\ UNCHANGED <<db, mainPc, running, container, workerPc, inHand, captured, late>>

Push ==
  /\ container /\ protonPc = "idle" /\ LockFree /\ received < MaxGrants
  /\ received' = received + 1
  /\ IF Len(queue) > Depth
       THEN queue' = Append(Tail(queue), received + 1) /\ dropped' = dropped \cup {Head(queue)}
       ELSE queue' = Append(queue, received + 1) /\ UNCHANGED dropped
  /\ protonPc' = "notify"
  /\ UNCHANGED <<db, mainPc, running, container, workerPc, inHand, captured, late>>

Wake == workerPc' = IF workerPc = "waiting" THEN "recheck" ELSE workerPc

NotifyPush_Forgotten ==
  /\ protonPc = "notify" /\ protonPc' = "idle"
  /\ UNCHANGED <<db, mainPc, running, container, workerPc, dataVars>>

NotifyPush ==
  /\ protonPc = "notify" /\ protonPc' = "idle"
  /\ Wake
  /\ UNCHANGED <<db, mainPc, running, container, dataVars>>

-----------------------------------------------------------------------------
(* worker_loop().                                                           *)

WorkerTest_Ignored ==
  /\ workerPc = "test"
  /\ workerPc' = "recheck"
  /\ UNCHANGED <<db, mainPc, running, container, protonPc, dataVars>>

(* while (running_) *)
WorkerTest ==
  /\ workerPc = "test"
  /\ workerPc' = IF running THEN "recheck" ELSE "exited"
  /\ UNCHANGED <<db, mainPc, running, container, protonPc, dataVars>>

(* The predicate of wait(), tested with the lock held: false, so about to block. *)
WorkerMustWait ==
  /\ workerPc = "recheck" /\ queue = <<>> /\ running
  /\ workerPc' = "blocking"
  /\ UNCHANGED <<db, mainPc, running, container, protonPc, dataVars>>

WorkerBlocks ==
  /\ workerPc = "blocking"
  /\ workerPc' = "waiting"
  /\ UNCHANGED <<db, mainPc, running, container, protonPc, dataVars>>

(* A wake-up nobody asked for is allowed, and never relied on. *)
SpuriousWakeup ==
  /\ workerPc = "waiting"
  /\ workerPc' = "recheck"
  /\ UNCHANGED <<db, mainPc, running, container, protonPc, dataVars>>

WorkerBreaks ==
  /\ workerPc = "recheck" /\ queue = <<>> /\ ~running
  /\ workerPc' = "exited"
  /\ UNCHANGED <<db, mainPc, running, container, protonPc, dataVars>>

WorkerTakes_ClearsQueue ==
  /\ workerPc = "recheck" /\ queue # <<>>
  /\ inHand' = Head(queue) /\ queue' = <<>>
  /\ late' = IF running THEN late ELSE late \cup {Head(queue)}
  /\ workerPc' = IF recorder THEN "recording" ELSE "handling"
  /\ UNCHANGED <<db, mainPc, running, container, protonPc, received, captured, dropped>>

WorkerTakes ==
  /\ workerPc = "recheck" /\ queue # <<>>
  /\ inHand' = Head(queue) /\ queue' = Tail(queue)
  /\ late' = IF running THEN late ELSE late \cup {Head(queue)}
  /\ workerPc' = IF recorder THEN "recording" ELSE "handling"
  /\ UNCHANGED <<db, mainPc, running, container, protonPc, received, captured, dropped>>

Reopens_Forgotten == LinkBroken(FALSE)

(* P25Db::reconnect(), and the exception that calls for it. *)
Reopens == LinkBroken(TRUE)

(* P25Db::upsert_grant(): one transaction, whose failure only costs the record. *)
Record ==
  /\ workerPc = "recording"
  /\ Commits \/ StatementFails \/ CommitInDoubt \/ Reopens
  /\ workerPc' = "handling"
  /\ UNCHANGED <<recorder, mainPc, running, container, protonPc, dataVars>>

(* on_grant_() returns, or throws and the grant is given up. *)
WorkerHandled ==
  /\ workerPc = "handling"
  /\ \/ captured' = Append(captured, inHand) /\ UNCHANGED dropped
     \/ dropped' = dropped \cup {inHand} /\ UNCHANGED captured
  /\ inHand' = 0 /\ workerPc' = "test"
  /\ UNCHANGED <<db, mainPc, running, container, protonPc, queue, received, late>>

-----------------------------------------------------------------------------
(* stop(): clear the flag, notify, stop the container, join both threads.   *)

StopClears ==
  /\ mainPc = "running"
  /\ mainPc' = "notify" /\ running' = FALSE
  /\ UNCHANGED <<db, container, protonPc, workerPc, dataVars>>

StopNotifies ==
  /\ mainPc = "notify"
  /\ mainPc' = "stopContainer" /\ Wake
  /\ UNCHANGED <<db, running, container, protonPc, dataVars>>

StopContainer ==
  /\ mainPc = "stopContainer"
  /\ mainPc' = "joinProton" /\ container' = FALSE
  /\ UNCHANGED <<db, running, protonPc, workerPc, dataVars>>

JoinProton ==
  /\ mainPc = "joinProton" /\ protonPc = "idle"
  /\ mainPc' = "joinWorker"
  /\ UNCHANGED <<db, running, container, protonPc, workerPc, dataVars>>

JoinWorker ==
  /\ mainPc = "joinWorker" /\ workerPc = "exited"
  /\ mainPc' = "stopped"
  /\ UNCHANGED <<db, running, container, protonPc, workerPc, dataVars>>

-----------------------------------------------------------------------------
Proton  == Push \/ NotifyPush
Worker  == \/ WorkerTest \/ WorkerMustWait \/ WorkerBlocks \/ WorkerBreaks
           \/ WorkerTakes \/ Record \/ WorkerHandled
Server  == /\ Outage \/ Recovery
           /\ UNCHANGED <<recorder, mainPc, running, container, protonPc, workerPc, dataVars>>
Stop    == StopNotifies \/ StopContainer \/ JoinProton \/ JoinWorker

Next == Proton \/ Worker \/ SpuriousWakeup \/ StopClears \/ Stop \/ Server

Spec == Init /\ [][Next]_vars

(* Every thread is scheduled and a handler returns; grants need not arrive, *)
(* stop() need not be called, and no spurious wake-up is assumed.           *)
FairSpec == Spec /\ WF_vars(NotifyPush) /\ WF_vars(Worker) /\ WF_vars(Stop)

-----------------------------------------------------------------------------
(* Properties.                                                              *)

Grants == 1..MaxGrants

\* Every variable keeps its type; the queue holds at most Depth + 1 grants.
TypeOK ==
  /\ mainPc \in {"running", "notify", "stopContainer", "joinProton", "joinWorker", "stopped"}
  /\ protonPc \in {"idle", "notify"}
  /\ workerPc \in {"test", "recheck", "blocking", "waiting", "recording", "handling", "exited"}
  /\ LinkTypeOK /\ recorder \in BOOLEAN /\ running \in BOOLEAN /\ container \in BOOLEAN
  /\ queue \in Seq(Grants) /\ Len(queue) <= Depth + 1 /\ inHand \in Grants \cup {0}
  /\ received \in 0..MaxGrants
  /\ captured \in Seq(Grants) /\ dropped \subseteq Grants /\ late \subseteq Grants

\* The queue always holds the latest grants without a gap: a grant is dropped only
\* when it is older than everything that still waits.
QueueIsNewest == \A i \in 1..Len(queue) : queue[i] = received - Len(queue) + i

\* Once stop() has cleared running_, at most one more grant is taken, however many
\* wait: stop() does not last longer than two captures.
AtMostOneAfterStop == \A g, h \in late : g = h

\* The grants, seen as a mailbox: the queue, the worker's hand, the captures.
Abstract == INSTANCE Mailbox WITH
  accepted <- received, pending <- queue, handled <- captured, lost <- dropped,
  inHand <- IF inHand = 0 THEN <<>> ELSE <<inHand>>

\* Every step of the consumer is a step of the mailbox or leaves it alone: grants
\* are handled in order and at most once, whatever the interleaving.
ImplementsMailbox == Abstract!Spec

\* A queued grant does not wait for ever for a notification: it leaves the queue
\* or stop() is called.
GrantsAreTaken == \A g \in Grants :
  (\E i \in 1..Len(queue) : queue[i] = g) ~> (~running \/ \A i \in 1..Len(queue) : queue[i] # g)

\* With the server up and no new fault, at most one grant is left out of p25_channels: a
\* broken connection, also one found by its commit, is replaced by the next grant.
RecoversAfterOneGrant == stale <= 1

\* P25GrantConsumer.hpp:76 "stop()  -- clean shutdown": stop() returns.
StopReturns == mainPc = "notify" ~> mainPc = "stopped"
=============================================================================
