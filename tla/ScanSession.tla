----------------------------- MODULE ScanSession -----------------------------
(***************************************************************************)
(* One scanner and its task session: SpectrumScanner's start/stop/         *)
(* sweepLoop, TaskManagerIqSource's open/next/close/stop and the           *)
(* TaskAmqpChannel below it, against the task controller reached over the  *)
(* broker.  Four actors interleave: the main thread, the sweep thread,     *)
(* the proton thread of the channel, and the controller.                   *)
(*                                                                         *)
(* Request ids are the numbers 1..reqNo in the order makeReqId() draws     *)
(* them, and a task is named by the request that created it.  A socket is  *)
(* named by the port it is bound to; 0 stands for fd -1, for an empty      *)
(* string and for a missing port, as in the code.  Sleeps and the time     *)
(* a wait may take are not modelled: a wait may time out whenever its      *)
(* predicate is false.  The samples inside a dwell are SweepStream's.      *)
(***************************************************************************)
EXTENDS Integers, Sequences

CONSTANTS LocalPorts,      \* ports open() may get: {port} if fixed, several if ephemeral
          OverridePorts,   \* ports a controller may substitute for the asked one
          MaxRequests,     \* bound: SCAN requests submitted in a behaviour
          MaxConnections   \* bound: times the channel connects or reconnects

Ports    == LocalPorts \cup OverridePorts
Requests == 1..MaxRequests

ASSUME PortsAssumption  == LocalPorts \subseteq Nat \ {0} /\ OverridePorts \subseteq Nat \ {0}
ASSUME BoundsAssumption == MaxRequests \in Nat /\ MaxConnections \in Nat

VARIABLES
  mainPc,        \* main thread: progress through start(), stop() and destruction
  running,       \* SpectrumScanner::running_
  sweepPc,       \* sweep thread: where sweepLoop() is
  srcRunning,    \* TaskManagerIqSource::running_
  taskId,        \* task_id_ (0: empty)
  udpFd,         \* udp_fd_: the port of the socket held (0: -1)
  preboundPort,  \* prebound_port_
  sockets,       \* kernel: ports with an open socket of this process
  reqNo,         \* ids drawn by makeReqId() so far
  ready,         \* TaskAmqpChannel::ready_
  replyAddr,     \* reply_addr_ (0: empty), one number per connection
  connections,   \* receivers opened so far: the work queue is known from the first on
  attached,      \* the connection is there: posted closures run
  pendingCorr,   \* pending_corr_ (0: empty)
  pendingResult, \* pending_result_
  workQueue,     \* closures posted to the proton thread, not yet run
  requestQueue,  \* broker: messages for the controller
  responses,     \* broker: answers on their way to the current reply address
  task,          \* controller: state of the task of each request
  streamPort,    \* controller: UDP port each task streams to
  abandoned      \* history: requests given up, or whose stop was dropped

mainVars    == <<mainPc, running>>
sourceVars  == <<srcRunning, taskId, udpFd, preboundPort, sockets, reqNo>>
linkVars    == <<ready, replyAddr, connections, attached>>
pendingVars == <<pendingCorr, pendingResult>>
brokerVars  == <<requestQueue, responses, task, streamPort>>
vars == <<mainVars, sweepPc, sourceVars, linkVars, pendingVars, workQueue,
          brokerVars, abandoned>>

NoResult  == [req |-> 0, status |-> "none", port |-> 0]
Responses == [req : Requests, status : {"ACCEPTED", "REJECTED"}, port : Ports \cup {0}]
ScanMsg(r, p, a) == [kind |-> "scan", req |-> r, port |-> p, replyTo |-> a]
StopMsg(r)       == [kind |-> "stop", req |-> r, port |-> 0, replyTo |-> 0]
Messages == [kind : {"scan", "stop"}, req : Requests,
             port : Ports \cup {0}, replyTo : 0..MaxConnections]

Init ==
  /\ mainPc = "start" /\ running = FALSE /\ sweepPc = "none"
  /\ srcRunning = FALSE /\ taskId = 0 /\ udpFd = 0 /\ preboundPort = 0
  /\ sockets = {} /\ reqNo = 0
  /\ ready = FALSE /\ replyAddr = 0 /\ connections = 0 /\ attached = FALSE
  /\ pendingCorr = 0 /\ pendingResult = NoResult /\ workQueue = <<>>
  /\ requestQueue = <<>> /\ responses = {}
  /\ task = [r \in Requests |-> "none"] /\ streamPort = [r \in Requests |-> 0]
  /\ abandoned = {}

-----------------------------------------------------------------------------
(* TaskManagerIqSource::close(): clear running_, send TASK_STOP for a known *)
(* task (dropped when the channel is not ready), forget the id, close the   *)
(* socket.  Both threads that call it are the only user of the source then. *)

\* Variants (named <action>_<mistake>) are plausible wrong edits of the action
\* that follows; no specification uses them, they show what a property rejects.
SendTaskStop_NoEmptyGuard ==
  /\ workQueue' = IF ready THEN Append(workQueue, StopMsg(taskId)) ELSE workQueue
  /\ abandoned' = IF taskId # 0 /\ ~ready THEN abandoned \cup {taskId} ELSE abandoned
  /\ taskId' = 0

SendTaskStop_Forgotten == taskId' = 0 /\ UNCHANGED <<workQueue, abandoned>>

SendTaskStop_KeepsId ==
  /\ workQueue' = IF taskId # 0 /\ ready THEN Append(workQueue, StopMsg(taskId)) ELSE workQueue
  /\ abandoned' = IF taskId # 0 /\ ~ready THEN abandoned \cup {taskId} ELSE abandoned
  /\ UNCHANGED taskId

SendTaskStop ==
  /\ workQueue' = IF taskId # 0 /\ ready THEN Append(workQueue, StopMsg(taskId)) ELSE workQueue
  /\ abandoned' = IF taskId # 0 /\ ~ready THEN abandoned \cup {taskId} ELSE abandoned
  /\ taskId' = 0

CloseSource ==
  /\ srcRunning' = FALSE
  /\ SendTaskStop
  /\ sockets' = sockets \ {udpFd}
  /\ udpFd' = 0
  /\ UNCHANGED <<preboundPort, reqNo, linkVars, pendingVars, brokerVars>>

(* bindUdp(): the new descriptor overwrites udp_fd_, whatever it held; the  *)
(* port must be free, and a failed bind closes the new socket and throws.   *)
Bind(p)  == p \notin sockets /\ udpFd' = p /\ sockets' = sockets \cup {p}

-----------------------------------------------------------------------------
(* The main thread: SpectrumScanner::start(), stop(), then the source's     *)
(* destructor (close() again, and the channel's stop()).                    *)

Start ==
  /\ mainPc = "start"
  /\ mainPc' = "scanning" /\ running' = TRUE /\ sweepPc' = "loop"
  /\ UNCHANGED <<sourceVars, linkVars, pendingVars, workQueue, brokerVars, abandoned>>

StopScanner ==
  /\ mainPc = "scanning"
  /\ mainPc' = "stopSource" /\ running' = FALSE
  /\ UNCHANGED <<sweepPc, sourceVars, linkVars, pendingVars, workQueue, brokerVars, abandoned>>

StopSource_NotCalled ==
  /\ mainPc = "stopSource"
  /\ mainPc' = "join"
  /\ UNCHANGED <<running, sweepPc, sourceVars, linkVars, pendingVars, workQueue,
                 brokerVars, abandoned>>

StopSource ==
  /\ mainPc = "stopSource"
  /\ mainPc' = "join" /\ srcRunning' = FALSE
  /\ UNCHANGED <<running, sweepPc, taskId, udpFd, preboundPort, sockets, reqNo,
                 linkVars, pendingVars, workQueue, brokerVars, abandoned>>

Join ==
  /\ mainPc = "join" /\ sweepPc = "exited"
  /\ mainPc' = "joined"
  /\ UNCHANGED <<running, sweepPc, sourceVars, linkVars, pendingVars, workQueue,
                 brokerVars, abandoned>>

DestroySource ==
  /\ mainPc = "joined"
  /\ mainPc' = "closing"
  /\ CloseSource
  /\ UNCHANGED <<running, sweepPc>>

(* The close is posted behind the closures already queued, and the thread that *)
(* would run them is joined: both wait for the connection.  Only a channel     *)
(* that never connected, and so has no work queue, is stopped without one.     *)
StopChannel ==
  /\ mainPc = "closing" /\ workQueue = <<>> /\ (connections = 0 \/ attached)
  /\ mainPc' = "gone" /\ ready' = FALSE /\ replyAddr' = 0 /\ responses' = {}
  /\ attached' = FALSE
  /\ UNCHANGED <<running, sweepPc, sourceVars, connections, pendingVars, workQueue,
                 requestQueue, task, streamPort, abandoned>>

-----------------------------------------------------------------------------
(* The sweep thread.                                                        *)

(* open(), first part: pre-bind before submitting. *)
OpenSource ==
  /\ sweepPc = "loop" /\ running /\ reqNo < MaxRequests
  /\ \/ \E p \in LocalPorts : Bind(p) /\ preboundPort' = p /\ sweepPc' = "submit"
     \/ udpFd' = 0 /\ sweepPc' = "catch" /\ UNCHANGED <<sockets, preboundPort>>
  /\ UNCHANGED <<mainVars, srcRunning, taskId, reqNo, linkVars, pendingVars, workQueue,
                 brokerVars, abandoned>>

(* exchange(), first part: wait for ready_, arm the correlation, post the send. *)
SubmitTask ==
  /\ sweepPc = "submit" /\ ready
  /\ reqNo' = reqNo + 1
  /\ pendingCorr' = reqNo + 1 /\ pendingResult' = NoResult
  /\ workQueue' = Append(workQueue, ScanMsg(reqNo + 1, preboundPort, 0))
  /\ sweepPc' = "await"
  /\ UNCHANGED <<mainVars, srcRunning, taskId, udpFd, preboundPort, sockets,
                 linkVars, brokerVars, abandoned>>

ChannelNotReady ==
  /\ sweepPc = "submit" /\ ~ready
  /\ sweepPc' = "catch"
  /\ UNCHANGED <<mainVars, sourceVars, linkVars, pendingVars, workQueue, brokerVars, abandoned>>

(* exchange() runs out of time: pending_corr_ stays armed. *)
ExchangeTimesOut ==
  /\ sweepPc = "await" /\ pendingResult = NoResult
  /\ sweepPc' = "catch"
  /\ abandoned' = abandoned \cup {reqNo}
  /\ UNCHANGED <<mainVars, sourceVars, linkVars, pendingVars, workQueue, brokerVars>>

TaskRejected ==
  /\ sweepPc = "await" /\ pendingResult.status = "REJECTED"
  /\ sweepPc' = "catch"
  /\ UNCHANGED <<mainVars, sourceVars, linkVars, pendingVars, workQueue, brokerVars, abandoned>>

OpenOn_NoRebind(port) ==
  /\ preboundPort' = 0 /\ sweepPc' = "inner" /\ srcRunning' = TRUE
  /\ UNCHANGED <<udpFd, sockets>>

(* open(), last part, with the port of an ACCEPTED answer: the asked port    *)
(* needs nothing more, another one is bound in place of the pre-bound one,   *)
(* and that bind may fail.                                                   *)
OpenOn(port) ==
  /\ preboundPort' = 0
  /\ LET kept == sockets \ {udpFd} IN
     \/ /\ port = preboundPort
        /\ sweepPc' = "inner" /\ srcRunning' = TRUE /\ UNCHANGED <<udpFd, sockets>>
     \/ /\ port # preboundPort /\ port \notin kept
        /\ udpFd' = port /\ sockets' = kept \cup {port}
        /\ sweepPc' = "inner" /\ srcRunning' = TRUE
     \/ /\ port # preboundPort
        /\ udpFd' = 0 /\ sockets' = kept
        /\ sweepPc' = "catch" /\ UNCHANGED srcRunning

TaskAccepted_PortFirst ==
  /\ sweepPc = "await" /\ pendingResult.status = "ACCEPTED"
  /\ \/ /\ pendingResult.port = 0
        /\ sweepPc' = "catch"
        /\ UNCHANGED <<taskId, preboundPort, srcRunning, udpFd, sockets>>
     \/ /\ pendingResult.port # 0
        /\ taskId' = pendingResult.req
        /\ OpenOn(pendingResult.port)
  /\ UNCHANGED <<mainVars, reqNo, linkVars, pendingVars, workQueue, brokerVars, abandoned>>

(* An ACCEPTED answer names the task, and its port: if it is missing, open() *)
(* throws with task_id_ already set.                                         *)
TaskAccepted ==
  /\ sweepPc = "await" /\ pendingResult.status = "ACCEPTED"
  /\ taskId' = pendingResult.req
  /\ \/ /\ pendingResult.port = 0
        /\ sweepPc' = "catch" /\ UNCHANGED <<preboundPort, srcRunning, udpFd, sockets>>
     \/ pendingResult.port # 0 /\ OpenOn(pendingResult.port)
  /\ UNCHANGED <<mainVars, reqNo, linkVars, pendingVars, workQueue, brokerVars, abandoned>>

OpenFailed_NoClose ==
  /\ sweepPc = "catch"
  /\ sweepPc' = "loop"
  /\ UNCHANGED <<mainVars, sourceVars, linkVars, pendingVars, workQueue, brokerVars, abandoned>>

(* open() threw: the handler closes the source, sleeps and retries. *)
OpenFailed ==
  /\ sweepPc = "catch"
  /\ CloseSource
  /\ sweepPc' = "loop"
  /\ UNCHANGED mainVars

InnerTest_SourceOnly ==
  /\ sweepPc = "inner"
  /\ sweepPc' = "next"
  /\ UNCHANGED <<mainVars, sourceVars, linkVars, pendingVars, workQueue, brokerVars, abandoned>>

(* The inner loop's test of running_. *)
InnerTest ==
  /\ sweepPc = "inner"
  /\ sweepPc' = IF running THEN "next" ELSE "close"
  /\ UNCHANGED <<mainVars, sourceVars, linkVars, pendingVars, workQueue, brokerVars, abandoned>>

(* next()'s test of the source's running_ before every receive. *)
NextTest ==
  /\ sweepPc = "next"
  /\ sweepPc' = IF srcRunning THEN "recv" ELSE "close"
  /\ UNCHANGED <<mainVars, sourceVars, linkVars, pendingVars, workQueue, brokerVars, abandoned>>

(* recvfrom(): nothing useful yet, the stream is over, or a dwell is complete. *)
Receive ==
  /\ sweepPc = "recv"
  /\ sweepPc' \in {"next", "close", "dwell"}
  /\ UNCHANGED <<mainVars, sourceVars, linkVars, pendingVars, workQueue, brokerVars, abandoned>>

(* A dwell was returned: it is processed unless running_ fell meanwhile. *)
HandleDwell ==
  /\ sweepPc = "dwell"
  /\ sweepPc' = IF running THEN "inner" ELSE "close"
  /\ UNCHANGED <<mainVars, sourceVars, linkVars, pendingVars, workQueue, brokerVars, abandoned>>

CloseAfterSweep ==
  /\ sweepPc = "close"
  /\ CloseSource
  /\ sweepPc' = "loop"
  /\ UNCHANGED mainVars

SweepExits ==
  /\ sweepPc = "loop" /\ ~running
  /\ sweepPc' = "exited"
  /\ UNCHANGED <<mainVars, sourceVars, linkVars, pendingVars, workQueue, brokerVars, abandoned>>

-----------------------------------------------------------------------------
(* The proton thread.                                                       *)

Stamped(m) == [m EXCEPT !.replyTo = IF m.kind = "scan" THEN replyAddr ELSE 0]

(* A posted closure runs, which waits while the connection is away.  Once    *)
(* the receiver is open the message reaches the request queue; a send is     *)
(* stamped with the reply address of that moment.  Between the connection    *)
(* and its receiver it goes out without a reply address, or is lost on the   *)
(* sender of the connection before.                                          *)
RunPosted ==
  /\ workQueue # <<>> /\ attached
  /\ workQueue' = Tail(workQueue)
  /\ LET m == Head(workQueue) IN
     \/ requestQueue' = Append(requestQueue, Stamped(m)) /\ UNCHANGED abandoned
     \/ /\ ~ready
        /\ abandoned' = IF m.kind = "stop" THEN abandoned \cup {m.req} ELSE abandoned
        /\ UNCHANGED requestQueue
  /\ UNCHANGED <<mainVars, sweepPc, sourceVars, linkVars, pendingVars, responses, task, streamPort>>

(* The connection is up, the first time or again (max_attempts(0)): its      *)
(* sender and receiver are asked for.                                        *)
ConnectionOpens ==
  /\ mainPc # "gone" /\ ~attached
  /\ attached' = TRUE
  /\ UNCHANGED <<mainVars, sweepPc, sourceVars, ready, replyAddr, connections, pendingVars,
                 workQueue, brokerVars, abandoned>>

OnReceiverOpen ==
  /\ mainPc # "gone" /\ attached /\ ~ready /\ connections < MaxConnections
  /\ connections' = connections + 1
  /\ replyAddr' = connections + 1 /\ ready' = TRUE /\ UNCHANGED attached
  /\ UNCHANGED <<mainVars, sweepPc, sourceVars, pendingVars, workQueue, brokerVars, abandoned>>

(* The dynamic address dies with its connection, and the answers sent to it. *)
OnTransportError ==
  /\ attached
  /\ attached' = FALSE /\ ready' = FALSE /\ replyAddr' = 0 /\ responses' = {}
  /\ UNCHANGED <<mainVars, sweepPc, sourceVars, connections, pendingVars, workQueue,
                 requestQueue, task, streamPort, abandoned>>

Matches_AnyAnswer(m) == pendingCorr # 0

Matches(m) == pendingCorr # 0 /\ m.req = pendingCorr

OnMessage ==
  /\ \E m \in responses :
       /\ responses' = responses \ {m}
       /\ IF Matches(m)
            THEN pendingResult' = m /\ pendingCorr' = 0
            ELSE UNCHANGED pendingVars
  /\ UNCHANGED <<mainVars, sweepPc, sourceVars, linkVars, workQueue,
                 requestQueue, task, streamPort, abandoned>>

-----------------------------------------------------------------------------
(* The controller and the broker (external).                                *)

Answer(m, resp) ==
  responses' = IF m.replyTo # 0 /\ m.replyTo = replyAddr THEN responses \cup {resp} ELSE responses

AcceptTask ==
  /\ requestQueue # <<>> /\ Head(requestQueue).kind = "scan"
  /\ requestQueue' = Tail(requestQueue)
  /\ LET m == Head(requestQueue) IN
     \E p \in {m.port, 0} \cup OverridePorts :
       /\ task' = [task EXCEPT ![m.req] = "live"]
       /\ streamPort' = [streamPort EXCEPT ![m.req] = p]
       /\ Answer(m, [req |-> m.req, status |-> "ACCEPTED", port |-> p])
  /\ UNCHANGED <<mainVars, sweepPc, sourceVars, linkVars, pendingVars, workQueue, abandoned>>

RejectTask ==
  /\ requestQueue # <<>> /\ Head(requestQueue).kind = "scan"
  /\ requestQueue' = Tail(requestQueue)
  /\ LET m == Head(requestQueue) IN Answer(m, [req |-> m.req, status |-> "REJECTED", port |-> 0])
  /\ UNCHANGED <<mainVars, sweepPc, sourceVars, linkVars, pendingVars, workQueue,
                 task, streamPort, abandoned>>

StopTask ==
  /\ requestQueue # <<>> /\ Head(requestQueue).kind = "stop"
  /\ requestQueue' = Tail(requestQueue)
  /\ task' = [task EXCEPT ![Head(requestQueue).req] = "ended"]
  /\ UNCHANGED <<mainVars, sweepPc, sourceVars, linkVars, pendingVars, workQueue,
                 responses, streamPort, abandoned>>

(* The sweep is over, or a task of a better rank preempts it. *)
TaskEnds ==
  /\ \E r \in Requests : task[r] = "live" /\ task' = [task EXCEPT ![r] = "ended"]
  /\ UNCHANGED <<mainVars, sweepPc, sourceVars, linkVars, pendingVars, workQueue,
                 requestQueue, responses, streamPort, abandoned>>

-----------------------------------------------------------------------------
Main  == Start \/ StopScanner \/ StopSource \/ Join \/ DestroySource \/ StopChannel
Sweep == \/ OpenSource \/ SubmitTask \/ ChannelNotReady \/ ExchangeTimesOut
         \/ TaskRejected \/ TaskAccepted \/ OpenFailed
         \/ InnerTest \/ NextTest \/ Receive \/ HandleDwell
         \/ CloseAfterSweep \/ SweepExits
Proton     == RunPosted \/ ConnectionOpens \/ OnReceiverOpen \/ OnTransportError \/ OnMessage
Controller == AcceptTask \/ RejectTask \/ StopTask \/ TaskEnds
Finished   == mainPc = "gone" /\ UNCHANGED vars

Next == Main \/ Sweep \/ Proton \/ Controller \/ Finished

(* The two threads are scheduled, and the proton thread's queue while the    *)
(* connection is there; whether the operator stops the program, the          *)
(* connection comes up or back, or the controller answers is not assumed.    *)
Fairness ==
  /\ WF_vars(StopSource \/ Join \/ DestroySource \/ StopChannel)
  /\ WF_vars(Sweep)
  /\ WF_vars(RunPosted)

Spec     == Init /\ [][Next]_vars
FairSpec == Spec /\ Fairness

-----------------------------------------------------------------------------
(* Properties.                                                              *)

FlagsOK == /\ running \in BOOLEAN /\ srcRunning \in BOOLEAN
           /\ ready \in BOOLEAN /\ attached \in BOOLEAN

DataOK ==
  /\ mainPc \in {"start", "scanning", "stopSource", "join", "joined", "closing", "gone"}
  /\ sweepPc \in {"none", "loop", "submit", "await", "catch", "inner", "next",
                  "recv", "dwell", "close", "exited"}
  /\ reqNo \in 0..MaxRequests /\ taskId \in 0..MaxRequests /\ pendingCorr \in 0..MaxRequests
  /\ sweepPc = "submit" => reqNo # MaxRequests
  /\ sweepPc = "await" => reqNo # 0
  /\ udpFd \in Ports \cup {0} /\ preboundPort \in Ports \cup {0} /\ sockets \subseteq Ports
  /\ connections \in 0..MaxConnections /\ replyAddr \in 0..MaxConnections
  /\ pendingResult \in Responses \cup {NoResult} /\ responses \subseteq Responses
  /\ workQueue \in Seq(Messages) /\ requestQueue \in Seq(Messages)
  /\ task \in [Requests -> {"none", "live", "ended"}]
  /\ streamPort \in [Requests -> Ports \cup {0}]
  /\ abandoned \subseteq Requests

\* Every variable keeps its type.
TypeOK == FlagsOK /\ DataOK

\* Whatever fails (bind, submission, answer, re-bind), the only open socket is
\* the one udp_fd_ holds; between two openings and after the sweep thread has ended
\* the source holds neither socket nor task: the retry loop leaks none, and the
\* destructor's close() has nothing to release.
NoSocketLeak ==
  /\ sockets = {udpFd} \ {0}
  /\ sweepPc \in {"loop", "exited"} => udpFd = 0 /\ taskId = 0

\* While the sweep thread receives, it does so on the port the controller
\* streams the task of the latest request to, also when the answer moved it.  (With
\* a fixed port an abandoned task may stream there too: see SweepStream.)
ReceivesItsOwnTask ==
  sweepPc \in {"inner", "next", "recv", "dwell"} =>
    /\ taskId # 0 /\ taskId = reqNo
    /\ udpFd # 0 /\ streamPort[reqNo] = udpFd

\* An answer to a request exchange() gave up on is never taken for the answer
\* to a later one, although pending_corr_ stays armed after a timeout.
LateAnswerIsIgnored ==
  /\ sweepPc = "await" /\ pendingResult # NoResult => pendingResult.req = reqNo
  /\ taskId # 0 => taskId = reqNo

\* stop() cannot be lost: once both its stores are done the sweep thread is
\* not receiving with the source's running_ set, even when open() set that
\* flag after stop() had cleared it.
StopIsSeen == mainPc = "join" => ~(sweepPc \in {"next", "recv"} /\ srcRunning)

StopPosted(r) ==
  \E q \in {workQueue, requestQueue} : \E i \in 1..Len(q) : q[i].kind = "stop" /\ q[i].req = r

\* A live task that its scanner neither holds, nor waits for, nor has asked to
\* stop.
Orphan(r) ==
  /\ task[r] = "live" /\ taskId # r /\ ~StopPosted(r)
  /\ ~(r = reqNo /\ sweepPc = "await")

\* A task is left running only when its request was given up unanswered or its
\* TASK_STOP was dropped by a channel that was down; every failure of open()
\* after the answer, and every end of a sweep, stops the task it knows of.
OrphansWereAbandoned == \A r \in Requests : Orphan(r) => r \in abandoned

\* The controller never runs two tasks of this scanner at once, unless one was
\* abandoned: the stop of a task is queued ahead of the next request.
AtMostOneLiveTask ==
  \A r, s \in Requests \ abandoned : task[r] = "live" /\ task[s] = "live" => r = s

\* The session seen as a lease: who holds or waits for a task, which tasks run or
\* have ended, and which TASK_STOPs are under way.
Holder     == IF sweepPc = "await" THEN "waiting" ELSE IF taskId # 0 THEN "holding" ELSE "idle"
LiveTasks  == {r \in Requests : task[r] = "live"}
EndedTasks == {r \in Requests : task[r] = "ended"}
Returning  == {r \in Requests : StopPosted(r)}

Lease == INSTANCE TaskLease WITH
  asked <- reqNo, holder <- Holder, live <- LiveTasks, ended <- EndedTasks, returning <- Returning

\* Tasks are asked for one at a time and held only when the controller has started
\* them; each is given back by one TASK_STOP, though open() may fail after the
\* answer, the link drop and the destructor close the source again; the controller
\* starts the next one only when every earlier one has ended or was abandoned.
ImplementsTaskLease == Lease!Spec

\* SpectrumScanner::stop() returns and the source's destructor reaches its channel,
\* whatever the sweep thread was doing and whatever the broker and the controller do
\* or leave undone.  The channel's stop() returns when the broker was never reached,
\* or stays there from some moment on; a broker reached once that then stays away
\* keeps it waiting in the join.
StopReturns ==
  /\ mainPc = "stopSource" ~> mainPc \in {"closing", "gone"}
  /\ [](connections = 0) \/ <>[]attached => (mainPc = "closing" ~> mainPc = "gone")

-----------------------------------------------------------------------------
(* The inductive invariant behind the safety properties above, in four      *)
(* parts: the two threads' control, the socket, the queues, the answers.    *)

ControlInv ==
  /\ mainPc = "start" => sweepPc = "none"
  /\ mainPc \in {"stopSource", "join", "joined", "closing", "gone"} => ~running
  /\ mainPc \in {"joined", "closing", "gone"} => sweepPc = "exited"
  /\ mainPc = "join" => ~(sweepPc \in {"next", "recv"} /\ srcRunning)

SocketInv ==
  /\ sockets = {udpFd} \ {0}
  /\ sweepPc \in {"none", "loop", "exited"} => udpFd = 0 /\ taskId = 0
  /\ sweepPc \in {"submit", "await"} => udpFd # 0 /\ udpFd = preboundPort /\ taskId = 0
  /\ sweepPc \in {"inner", "next", "recv", "dwell"} => udpFd # 0

Scans(q)  == {i \in 1..Len(q) : q[i].kind = "scan"}
Sorted(q) == \A i, j \in Scans(q) : i < j => q[i].req < q[j].req

\* r was drawn before every request still on its way to the controller.
Before(r) == /\ \A i \in Scans(workQueue) : r < workQueue[i].req
             /\ \A i \in Scans(requestQueue) : r < requestQueue[i].req

QueueInv ==
  /\ Sorted(workQueue) /\ Sorted(requestQueue)
  /\ \A i \in Scans(requestQueue), j \in Scans(workQueue) :
        requestQueue[i].req < workQueue[j].req
  /\ \A i \in Scans(workQueue) : workQueue[i].req <= reqNo
  /\ \A i \in Scans(requestQueue) : requestQueue[i].req <= reqNo

IsAnswer(m) == /\ m.req <= reqNo /\ Before(m.req)
               /\ m.status = "ACCEPTED" => streamPort[m.req] = m.port

AnswerInv ==
  /\ \A m \in responses : IsAnswer(m)
  /\ pendingResult # NoResult => pendingResult.req = reqNo /\ IsAnswer(pendingResult)
  /\ pendingCorr # 0 => pendingCorr = reqNo
  /\ taskId # 0 => taskId = reqNo /\ Before(taskId)
  /\ sweepPc \in {"inner", "next", "recv", "dwell"} =>
        taskId # 0 /\ taskId = reqNo /\ streamPort[reqNo] = udpFd

=============================================================================
