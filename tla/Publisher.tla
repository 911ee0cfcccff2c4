------------------------------ MODULE Publisher ------------------------------
(***************************************************************************)
(* AmqpPublisher: detections are handed as closures to the work queue of   *)
(* the connection's sender, which a proton thread runs; the queue is known *)
(* from the first time the sender opens.  The connection is tried again    *)
(* for ever, and breaks at any moment.  What the queue does with closures  *)
(* while the connection is away is external: they wait.                    *)
(***************************************************************************)
EXTENDS Integers, Sequences

CONSTANT MaxBreaks    \* bound: losses of the connection

ASSUME BreaksAssumption == MaxBreaks \in Nat

VARIABLES
  container,  \* container_ and its thread: absent, running, stopping (stop() called), ended
  conn,       \* the connection: down, open (its sender not yet), up
  workQueue,  \* work_queue_ is set
  stopping,   \* stopping_
  jobs,       \* closures in the work queue: detections, or Close
  breaks,
  posted,     \* history: detections handed to the work queue
  sent,       \* history: detections sent
  spoilt      \* history: detections sent on the sender of a lost connection

publisher == <<container, conn, workQueue, stopping, jobs, breaks, posted, sent, spoilt>>

Close == 0

PublisherInit ==
  /\ container = "absent" /\ conn = "down" /\ workQueue = FALSE /\ stopping = FALSE
  /\ jobs = <<>> /\ breaks = 0 /\ posted = {} /\ sent = {} /\ spoilt = {}

-----------------------------------------------------------------------------
(* start(), publish() and stop(), on the program's threads.                 *)

PublisherStart ==
  /\ container' = "running"
  /\ UNCHANGED <<conn, workQueue, stopping, jobs, breaks, posted, sent, spoilt>>

\* publish() gives the detection up before the first connection and after stop().
Publishable == workQueue /\ ~stopping

Post(d) ==
  /\ jobs' = Append(jobs, d) /\ posted' = posted \cup {d}
  /\ UNCHANGED <<container, conn, workQueue, stopping, breaks, sent, spoilt>>

\* Variants (named <action>_<mistake>) are plausible wrong edits of the action
\* that follows; no specification uses them, they show what a property rejects.
StopBegins_Abrupt ==
  /\ stopping' = TRUE
  /\ container' = IF container = "running" THEN "stopping" ELSE container
  /\ UNCHANGED <<conn, workQueue, jobs, breaks, posted, sent, spoilt>>

StopBegins_NeverConnected ==
  /\ stopping' = TRUE
  /\ jobs' = IF container = "running" /\ workQueue THEN Append(jobs, Close) ELSE jobs
  /\ UNCHANGED <<container, conn, workQueue, breaks, posted, sent, spoilt>>

(* Close through the work queue if there is one, else stop the container. *)
StopBegins ==
  /\ stopping' = TRUE
  /\ IF container = "running" /\ workQueue
       THEN jobs' = Append(jobs, Close) /\ UNCHANGED container
       ELSE /\ container' = IF container = "running" THEN "stopping" ELSE container
            /\ UNCHANGED jobs
  /\ UNCHANGED <<conn, workQueue, breaks, posted, sent, spoilt>>

(* The proton thread is joined, the queue forgotten, the container deleted. *)
StopEnds ==
  /\ container \in {"absent", "ended"}
  /\ container' = "absent" /\ workQueue' = FALSE
  /\ UNCHANGED <<conn, stopping, jobs, breaks, posted, sent, spoilt>>

-----------------------------------------------------------------------------
(* The proton thread and the broker (external).                             *)

ConnectionOpens ==
  /\ container = "running" /\ conn = "down" /\ conn' = "open"
  /\ UNCHANGED <<container, workQueue, stopping, jobs, breaks, posted, sent, spoilt>>

(* on_sender_open() *)
SenderOpens ==
  /\ container = "running" /\ conn = "open" /\ conn' = "up" /\ workQueue' = TRUE
  /\ UNCHANGED <<container, stopping, jobs, breaks, posted, sent, spoilt>>

ConnectionBreaks ==
  /\ container = "running" /\ conn # "down" /\ breaks < MaxBreaks
  /\ conn' = "down" /\ breaks' = breaks + 1
  /\ UNCHANGED <<container, workQueue, stopping, jobs, posted, sent, spoilt>>

(* A closure sends its detection, or closes the connection, which ends run(). *)
RunJob ==
  /\ container = "running" /\ conn # "down" /\ jobs # <<>>
  /\ jobs' = Tail(jobs)
  /\ IF Head(jobs) = Close THEN container' = "ended" /\ UNCHANGED <<sent, spoilt>>
     ELSE IF conn = "up" THEN sent' = sent \cup {Head(jobs)} /\ UNCHANGED <<container, spoilt>>
     ELSE spoilt' = spoilt \cup {Head(jobs)} /\ UNCHANGED <<container, sent>>
  /\ UNCHANGED <<conn, workQueue, stopping, breaks, posted>>

ContainerStops ==
  /\ container = "stopping" /\ container' = "ended"
  /\ UNCHANGED <<conn, workQueue, stopping, jobs, breaks, posted, sent, spoilt>>

Reconnects == ConnectionOpens \/ SenderOpens
Proton     == RunJob \/ ContainerStops
=============================================================================
