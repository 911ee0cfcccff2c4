-------------------------- MODULE ScanSessionProofs --------------------------
(***************************************************************************)
(* The type invariant of ScanSession and its safety: one inductive          *)
(* invariant, SafetyInv, in four parts (the threads' control, the socket,   *)
(* the messages under way, the answers), each with a lemma that a step      *)
(* keeps it; a second one, TasksInv, for the tasks at the controller; and   *)
(* with both, that the session implements TaskLease.                        *)
(* Boolean flags are kept apart (FlagsOK) from the rest (DataOK).           *)
(***************************************************************************)
EXTENDS ScanSession, TLAPS

(* What the record operators of the model return: a message names a request *)
(* and a port.                                                              *)
LEMMA MessageTypes ==
  /\ \A r \in Requests : StopMsg(r) \in Messages
  /\ \A r \in Requests, p \in Ports \cup {0} : ScanMsg(r, p, 0) \in Messages
  /\ \A m \in Messages : m.req \in Requests /\ m.port \in Ports \cup {0}
  BY BoundsAssumption DEF Messages, StopMsg, ScanMsg

(* An answer names a request and a port. *)
LEMMA ResponseTypes ==
  /\ \A r \in Requests, p \in Ports \cup {0}, s \in {"ACCEPTED", "REJECTED"} :
       [req |-> r, status |-> s, port |-> p] \in Responses
  /\ \A m \in Responses : m.req \in Requests /\ m.port \in Ports \cup {0}
  /\ NoResult.status = "none" /\ NoResult.port = 0
  BY DEF Responses, NoResult

(* Stamping the reply address keeps a message well formed. *)
LEMMA Restamp ==
  ASSUME NEW h \in Messages, replyAddr \in 0..MaxConnections
  PROVE  Stamped(h) \in Messages /\ Stamped(h).kind = h.kind /\ Stamped(h).req = h.req
<1>1. PICK a \in 0..MaxConnections : Stamped(h) = [h EXCEPT !.replyTo = a]
  BY BoundsAssumption DEF Stamped
<1>. QED
  BY <1>1 DEF Messages

(* No step takes a flag out of BOOLEAN. *)
LEMMA FlagsStep == FlagsOK /\ [Next]_vars => FlagsOK'
<1>. SUFFICES ASSUME FlagsOK, [Next]_vars PROVE FlagsOK'
  OBVIOUS
<1>. USE DEF FlagsOK, vars, mainVars, sourceVars, linkVars, pendingVars, brokerVars
<1>1. CASE Start
  BY <1>1, Zenon DEF Start
<1>2. CASE StopScanner
  BY <1>2, Zenon DEF StopScanner
<1>3. CASE StopSource
  BY <1>3, Zenon DEF StopSource
<1>4. CASE Join
  BY <1>4, Zenon DEF Join
<1>5. CASE DestroySource
  BY <1>5, Zenon DEF DestroySource, CloseSource
<1>6. CASE StopChannel
  BY <1>6, Zenon DEF StopChannel
<1>7. CASE OpenSource
  BY <1>7, Zenon DEF OpenSource
<1>8. CASE SubmitTask
  BY <1>8, Zenon DEF SubmitTask
<1>9. CASE ChannelNotReady
  BY <1>9, Zenon DEF ChannelNotReady
<1>10. CASE ExchangeTimesOut
  BY <1>10, Zenon DEF ExchangeTimesOut
<1>11. CASE TaskRejected
  BY <1>11, Zenon DEF TaskRejected
<1>12. CASE TaskAccepted
  BY <1>12, Zenon DEF TaskAccepted, OpenOn
<1>13. CASE OpenFailed
  BY <1>13, Zenon DEF OpenFailed, CloseSource
<1>14. CASE InnerTest
  BY <1>14, Zenon DEF InnerTest
<1>15. CASE NextTest
  BY <1>15, Zenon DEF NextTest
<1>16. CASE Receive
  BY <1>16, Zenon DEF Receive
<1>17. CASE HandleDwell
  BY <1>17, Zenon DEF HandleDwell
<1>18. CASE CloseAfterSweep
  BY <1>18, Zenon DEF CloseAfterSweep, CloseSource
<1>19. CASE SweepExits
  BY <1>19, Zenon DEF SweepExits
<1>20. CASE RunPosted
  BY <1>20, Zenon DEF RunPosted
<1>21. CASE OnReceiverOpen
  BY <1>21, Zenon DEF OnReceiverOpen
<1>22. CASE OnTransportError
  BY <1>22, Zenon DEF OnTransportError
<1>23. CASE OnMessage
  BY <1>23, Zenon DEF OnMessage
<1>24. CASE AcceptTask
  BY <1>24, Zenon DEF AcceptTask
<1>25. CASE RejectTask
  BY <1>25, Zenon DEF RejectTask
<1>26. CASE StopTask
  BY <1>26, Zenon DEF StopTask
<1>27. CASE TaskEnds
  BY <1>27, Zenon DEF TaskEnds
<1>29. CASE ConnectionOpens
  BY <1>29, Zenon DEF ConnectionOpens
<1>28. CASE UNCHANGED vars
  BY <1>28, Zenon
<1>. QED
  BY <1>1, <1>2, <1>3, <1>4, <1>5, <1>6, <1>7, <1>8, <1>9, <1>10, <1>11, <1>12, <1>13,
     <1>14, <1>15, <1>16, <1>17, <1>18, <1>19, <1>20, <1>21, <1>22, <1>23, <1>24, <1>25,
     <1>26, <1>27, <1>28, <1>29, Zenon DEF Next, Main, Sweep, Proton, Controller, Finished

(* Every variable keeps its type, whatever the number of requests and
   connections: ids stay in range and the queues hold well-formed messages. *)
THEOREM TypeCorrect == Spec => []TypeOK
<1>. USE PortsAssumption, BoundsAssumption
<1>1. Init => TypeOK
  <2>1. Init => FlagsOK
    BY Zenon DEF Init, FlagsOK
  <2>2. Init => DataOK
    BY DEF Init, DataOK, Requests
  <2>. QED
    BY <2>1, <2>2 DEF TypeOK
<1>2. TypeOK /\ [Next]_vars => TypeOK'
  <2>. SUFFICES ASSUME DataOK, [Next]_vars PROVE DataOK'
    BY FlagsStep DEF TypeOK
  <2>. USE DEF DataOK, Requests,
               vars, mainVars, sourceVars, linkVars, pendingVars, brokerVars
  <2>1. CASE Start
    BY <2>1 DEF Start
  <2>2. CASE StopScanner
    BY <2>2 DEF StopScanner
  <2>3. CASE StopSource
    BY <2>3 DEF StopSource
  <2>4. CASE Join
    BY <2>4 DEF Join
  <2>5. CASE DestroySource
    BY <2>5, MessageTypes DEF DestroySource, CloseSource, SendTaskStop
  <2>6. CASE StopChannel
    BY <2>6 DEF StopChannel
  <2>7. CASE OpenSource
    <3>1. CASE \E p \in LocalPorts : Bind(p) /\ preboundPort' = p /\ sweepPc' = "submit"
      <4>1. PICK p \in LocalPorts : Bind(p) /\ preboundPort' = p /\ sweepPc' = "submit"
        BY <3>1
      <4>2. p \in Ports
        BY DEF Ports
      <4>. QED
        BY <2>7, <4>1, <4>2 DEF OpenSource, Bind
    <3>2. CASE udpFd' = 0 /\ sweepPc' = "catch" /\ UNCHANGED <<sockets, preboundPort>>
      BY <2>7, <3>2 DEF OpenSource
    <3>. QED
      BY <2>7, <3>1, <3>2 DEF OpenSource
  <2>8. CASE SubmitTask
    <3>1. reqNo + 1 \in Requests
      BY <2>8 DEF SubmitTask
    <3>2. ScanMsg(reqNo + 1, preboundPort, 0) \in Messages
      BY <3>1, MessageTypes
    <3>3. workQueue' \in Seq(Messages)
      BY <2>8, <3>2 DEF SubmitTask
    <3>. QED
      BY <2>8, <3>1, <3>3 DEF SubmitTask
  <2>9. CASE ChannelNotReady
    BY <2>9 DEF ChannelNotReady
  <2>10. CASE ExchangeTimesOut
    BY <2>10 DEF ExchangeTimesOut
  <2>11. CASE TaskRejected
    BY <2>11 DEF TaskRejected
  <2>12. CASE TaskAccepted
    <3>. DEFINE port == pendingResult.port
    <3>1. pendingResult.req \in Requests /\ port \in Ports \cup {0}
      BY <2>12, ResponseTypes DEF TaskAccepted
    <3>2. CASE port = 0
      BY <2>12, <3>1, <3>2 DEF TaskAccepted
    <3>3. CASE port # 0
      <4>1. OpenOn(port) /\ port \in Ports
        BY <2>12, <3>1, <3>3 DEF TaskAccepted
      <4>2. /\ udpFd' \in Ports \cup {0} /\ sockets' \subseteq Ports
            /\ preboundPort' = 0 /\ sweepPc' \in {"inner", "catch"}
        BY <4>1 DEF OpenOn
      <4>. HIDE DEF port
      <4>. QED
        BY <2>12, <3>1, <4>2 DEF TaskAccepted
    <3>. QED
      BY <3>2, <3>3
  <2>13. CASE OpenFailed
    BY <2>13, MessageTypes DEF OpenFailed, CloseSource, SendTaskStop
  <2>14. CASE InnerTest
    BY <2>14 DEF InnerTest
  <2>15. CASE NextTest
    BY <2>15 DEF NextTest
  <2>16. CASE Receive
    BY <2>16 DEF Receive
  <2>17. CASE HandleDwell
    BY <2>17 DEF HandleDwell
  <2>18. CASE CloseAfterSweep
    BY <2>18, MessageTypes DEF CloseAfterSweep, CloseSource, SendTaskStop
  <2>19. CASE SweepExits
    BY <2>19 DEF SweepExits
  <2>20. CASE RunPosted
    <3>1. Head(workQueue) \in Messages /\ Tail(workQueue) \in Seq(Messages)
      BY <2>20 DEF RunPosted
    <3>2. Head(workQueue).req \in Requests /\ Stamped(Head(workQueue)) \in Messages
      BY <3>1, MessageTypes, Restamp
    <3>3. Append(requestQueue, Stamped(Head(workQueue))) \in Seq(Messages)
      BY <3>2
    <3>4. /\ workQueue' = Tail(workQueue) /\ requestQueue' \in {Append(requestQueue, Stamped(Head(workQueue))), requestQueue}
          /\ abandoned' \in {abandoned, abandoned \cup {Head(workQueue).req}}
      BY <2>20, Zenon DEF RunPosted
    <3>5. UNCHANGED <<mainVars, sweepPc, sourceVars, linkVars, pendingVars, responses, task, streamPort>>
      BY <2>20 DEF RunPosted
    <3>6. workQueue' \in Seq(Messages) /\ requestQueue' \in Seq(Messages) /\ abandoned' \subseteq Requests
      BY <3>1, <3>2, <3>3, <3>4, Zenon DEF DataOK
    <3>. QED
      BY <3>5, <3>6
  <2>21. CASE OnReceiverOpen
    BY <2>21 DEF OnReceiverOpen
  <2>22. CASE OnTransportError
    BY <2>22 DEF OnTransportError
  <2>23. CASE OnMessage
    BY <2>23, ResponseTypes DEF OnMessage, Matches
  <2>24. CASE AcceptTask
    <3>. DEFINE m == Head(requestQueue)
    <3>1. m \in Messages /\ Tail(requestQueue) \in Seq(Messages)
      BY <2>24 DEF AcceptTask
    <3>2. m.req \in Requests /\ m.port \in Ports \cup {0}
      BY <3>1, MessageTypes
    <3>3. PICK p \in {m.port, 0} \cup OverridePorts :
            /\ task' = [task EXCEPT ![m.req] = "live"]
            /\ streamPort' = [streamPort EXCEPT ![m.req] = p]
            /\ Answer(m, [req |-> m.req, status |-> "ACCEPTED", port |-> p])
      BY <2>24 DEF AcceptTask
    <3>4. p \in Ports \cup {0}
      BY <3>2 DEF Ports
    <3>5. responses' \subseteq Responses
      <4>. DEFINE answer == [req |-> m.req, status |-> "ACCEPTED", port |-> p]
      <4>1. answer \in Responses
        BY <3>2, <3>4, ResponseTypes, Zenon
      <4>2. responses' \in {responses, responses \cup {answer}}
        BY <3>3, Zenon DEF Answer
      <4>. QED
        BY <4>1, <4>2, Zenon DEF DataOK
    <3>. QED
      BY <2>24, <3>1, <3>2, <3>3, <3>4, <3>5 DEF AcceptTask
  <2>25. CASE RejectTask
    <3>. DEFINE m == Head(requestQueue)
    <3>1. m \in Messages /\ Tail(requestQueue) \in Seq(Messages)
      BY <2>25 DEF RejectTask
    <3>2. m.req \in Requests
      BY <3>1, MessageTypes
    <3>3. [req |-> m.req, status |-> "REJECTED", port |-> 0] \in Responses
      BY <3>2, ResponseTypes
    <3>4. responses' \subseteq Responses
      BY <2>25, <3>3 DEF RejectTask, Answer
    <3>. QED
      BY <2>25, <3>1, <3>4 DEF RejectTask
  <2>26. CASE StopTask
    BY <2>26, MessageTypes DEF StopTask
  <2>27. CASE TaskEnds
    BY <2>27 DEF TaskEnds
  <2>29. CASE ConnectionOpens
    BY <2>29 DEF ConnectionOpens
  <2>28. CASE UNCHANGED vars
    BY <2>28
  <2>. QED
    BY <2>1, <2>2, <2>3, <2>4, <2>5, <2>6, <2>7, <2>8, <2>9, <2>10, <2>11, <2>12, <2>13,
       <2>14, <2>15, <2>16, <2>17, <2>18, <2>19, <2>20, <2>21, <2>22, <2>23, <2>24, <2>25,
       <2>26, <2>27, <2>28, <2>29, Zenon DEF Next, Main, Sweep, Proton, Controller, Finished
<1>. QED
  BY <1>1, <1>2, PTL DEF Spec

(* Every step keeps the relation of the two threads' control. *)
LEMMA ControlStep == ControlInv /\ [Next]_vars => ControlInv'
<1>. SUFFICES ASSUME ControlInv, [Next]_vars PROVE ControlInv'
  OBVIOUS
<1>. USE DEF ControlInv, vars, mainVars, sourceVars, linkVars, pendingVars, brokerVars
<1>1. CASE Start
  BY <1>1, Zenon DEF Start
<1>2. CASE StopScanner
  BY <1>2, Zenon DEF StopScanner
<1>3. CASE StopSource
  BY <1>3, Zenon DEF StopSource
<1>4. CASE Join
  BY <1>4, Zenon DEF Join
<1>5. CASE DestroySource
  BY <1>5, Zenon DEF DestroySource, CloseSource
<1>6. CASE StopChannel
  BY <1>6, Zenon DEF StopChannel
<1>7. CASE OpenSource
  BY <1>7, Zenon DEF OpenSource, Bind
<1>8. CASE SubmitTask
  BY <1>8, Zenon DEF SubmitTask
<1>9. CASE ChannelNotReady
  BY <1>9, Zenon DEF ChannelNotReady
<1>10. CASE ExchangeTimesOut
  BY <1>10, Zenon DEF ExchangeTimesOut
<1>11. CASE TaskRejected
  BY <1>11, Zenon DEF TaskRejected
<1>12. CASE TaskAccepted
  BY <1>12, Zenon DEF TaskAccepted, OpenOn
<1>13. CASE OpenFailed
  BY <1>13, Zenon DEF OpenFailed, CloseSource
<1>14. CASE InnerTest
  BY <1>14, Zenon DEF InnerTest
<1>15. CASE NextTest
  BY <1>15, Zenon DEF NextTest
<1>16. CASE Receive
  BY <1>16, Zenon DEF Receive
<1>17. CASE HandleDwell
  BY <1>17, Zenon DEF HandleDwell
<1>18. CASE CloseAfterSweep
  BY <1>18, Zenon DEF CloseAfterSweep, CloseSource
<1>19. CASE SweepExits
  BY <1>19, Zenon DEF SweepExits
<1>20. CASE RunPosted
  BY <1>20, Zenon DEF RunPosted
<1>21. CASE OnReceiverOpen
  BY <1>21, Zenon DEF OnReceiverOpen
<1>22. CASE OnTransportError
  BY <1>22, Zenon DEF OnTransportError
<1>23. CASE OnMessage
  BY <1>23, Zenon DEF OnMessage
<1>24. CASE AcceptTask
  BY <1>24, Zenon DEF AcceptTask
<1>25. CASE RejectTask
  BY <1>25, Zenon DEF RejectTask
<1>26. CASE StopTask
  BY <1>26, Zenon DEF StopTask
<1>27. CASE TaskEnds
  BY <1>27, Zenon DEF TaskEnds
<1>29. CASE ConnectionOpens
  BY <1>29, Zenon DEF ConnectionOpens
<1>28. CASE UNCHANGED vars
  BY <1>28, Zenon
<1>. QED
  BY <1>1, <1>2, <1>3, <1>4, <1>5, <1>6, <1>7, <1>8, <1>9, <1>10, <1>11, <1>12, <1>13,
     <1>14, <1>15, <1>16, <1>17, <1>18, <1>19, <1>20, <1>21, <1>22, <1>23, <1>24, <1>25,
     <1>26, <1>27, <1>28, <1>29, Zenon DEF Next, Main, Sweep, Proton, Controller, Finished

(* Every step keeps udp_fd_ the only socket. *)
LEMMA SocketStep == TypeOK /\ ControlInv /\ SocketInv /\ [Next]_vars => SocketInv'
<1>. SUFFICES ASSUME DataOK, ControlInv, SocketInv, [Next]_vars PROVE SocketInv'
  BY DEF TypeOK
<1>. USE DEF SocketInv, vars, mainVars, sourceVars, linkVars, pendingVars, brokerVars
<1>1. CASE Start
  BY <1>1, SMT DEF Start, ControlInv
<1>2. CASE StopScanner
  BY <1>2, SMT DEF StopScanner
<1>3. CASE StopSource
  BY <1>3, SMT DEF StopSource
<1>4. CASE Join
  BY <1>4, SMT DEF Join
<1>5. CASE DestroySource
  BY <1>5, SMT DEF DestroySource, CloseSource, SendTaskStop, ControlInv
<1>6. CASE StopChannel
  BY <1>6, SMT DEF StopChannel
<1>7. CASE OpenSource
  BY <1>7, SMT, PortsAssumption DEF OpenSource, Bind
<1>8. CASE SubmitTask
  BY <1>8, SMT DEF SubmitTask
<1>9. CASE ChannelNotReady
  BY <1>9, SMT DEF ChannelNotReady
<1>10. CASE ExchangeTimesOut
  BY <1>10, SMT DEF ExchangeTimesOut
<1>11. CASE TaskRejected
  BY <1>11, SMT DEF TaskRejected
<1>12. CASE TaskAccepted
  BY <1>12, SMT DEF TaskAccepted, OpenOn, DataOK
<1>13. CASE OpenFailed
  BY <1>13, SMT DEF OpenFailed, CloseSource, SendTaskStop
<1>14. CASE InnerTest
  BY <1>14, SMT DEF InnerTest
<1>15. CASE NextTest
  BY <1>15, SMT DEF NextTest
<1>16. CASE Receive
  BY <1>16, SMT DEF Receive
<1>17. CASE HandleDwell
  BY <1>17, SMT DEF HandleDwell
<1>18. CASE CloseAfterSweep
  BY <1>18, SMT DEF CloseAfterSweep, CloseSource, SendTaskStop
<1>19. CASE SweepExits
  BY <1>19, SMT DEF SweepExits
<1>20. CASE RunPosted
  BY <1>20, SMT DEF RunPosted
<1>21. CASE OnReceiverOpen
  BY <1>21, SMT DEF OnReceiverOpen
<1>22. CASE OnTransportError
  BY <1>22, SMT DEF OnTransportError
<1>23. CASE OnMessage
  BY <1>23, SMT DEF OnMessage
<1>24. CASE AcceptTask
  BY <1>24, SMT DEF AcceptTask
<1>25. CASE RejectTask
  BY <1>25, SMT DEF RejectTask
<1>26. CASE StopTask
  BY <1>26, SMT DEF StopTask
<1>27. CASE TaskEnds
  BY <1>27, SMT DEF TaskEnds
<1>29. CASE ConnectionOpens
  BY <1>29, SMT DEF ConnectionOpens
<1>28. CASE UNCHANGED vars
  BY <1>28
<1>. QED
  BY <1>1, <1>2, <1>3, <1>4, <1>5, <1>6, <1>7, <1>8, <1>9, <1>10, <1>11, <1>12, <1>13,
     <1>14, <1>15, <1>16, <1>17, <1>18, <1>19, <1>20, <1>21, <1>22, <1>23, <1>24, <1>25,
     <1>26, <1>27, <1>28, <1>29, Zenon DEF Next, Main, Sweep, Proton, Controller, Finished

(* Appending a message adds at most that scan. *)
LEMMA AppendScans ==
  ASSUME NEW q \in Seq(Messages), NEW m \in Messages
  PROVE  \A i \in Scans(Append(q, m)) :
           \/ i \in Scans(q) /\ i <= Len(q) /\ Append(q, m)[i] = q[i]
           \/ i = Len(q) + 1 /\ m.kind = "scan" /\ Append(q, m)[i] = m
  BY DEF Scans

(* Dropping the head shifts the scans by one. *)
LEMMA TailScans ==
  ASSUME NEW q \in Seq(Messages), q # <<>>
  PROVE  /\ \A i \in Scans(Tail(q)) : i \in Nat /\ i + 1 \in Scans(q) /\ Tail(q)[i] = q[i + 1]
         /\ Head(q) = q[1] /\ Head(q) \in Messages /\ Tail(q) \in Seq(Messages)
         /\ Head(q).kind = "scan" => 1 \in Scans(q)
  BY DEF Scans

(* Scans carry numbers. *)
LEMMA ScanReqs ==
  ASSUME NEW q \in Seq(Messages)
  PROVE  \A i \in Scans(q) : i \in Nat /\ i >= 1 /\ i <= Len(q) /\ q[i].req \in Nat
  BY MessageTypes, BoundsAssumption DEF Scans, Requests

LEMMA ScanRequests ==
  ASSUME NEW q \in Seq(Messages)
  PROVE  \A i \in Scans(q) : q[i].req \in Requests
<1>1. \A i \in 1..Len(q) : q[i] \in Messages
  OBVIOUS
<1>. QED
  BY <1>1, MessageTypes, Zenon DEF Scans

(* A request drawn before all those on their way is none of them. *)
LEMMA NotBefore ==
  ASSUME NEW q \in Seq(Messages), NEW r \in Nat, \A i \in Scans(q) : r < q[i].req
  PROVE  \A i \in Scans(q) : r # q[i].req
<1>1. \A n \in Nat : r < n => r # n
  OBVIOUS
<1>. QED
  BY <1>1, ScanReqs, Zenon

(* Posting a TASK_STOP, and running a posted one, leave the scans alone. *)
LEMMA ClosePosts ==
  ASSUME DataOK, SendTaskStop
  PROVE  /\ workQueue' \in Seq(Messages)
         /\ \A i \in Scans(workQueue') : i \in Scans(workQueue) /\ workQueue'[i] = workQueue[i]
<1>. workQueue \in Seq(Messages)
  BY DEF DataOK
<1>1. CASE workQueue' = workQueue
  BY <1>1
<1>2. CASE taskId # 0 /\ workQueue' = Append(workQueue, StopMsg(taskId))
  <2>1. StopMsg(taskId) \in Messages /\ StopMsg(taskId).kind = "stop"
    BY <1>2, MessageTypes DEF DataOK, Requests, StopMsg
  <2>. HIDE DEF StopMsg
  <2>2. \A i \in Scans(Append(workQueue, StopMsg(taskId))) :
          \/ i \in Scans(workQueue) /\ Append(workQueue, StopMsg(taskId))[i] = workQueue[i]
          \/ StopMsg(taskId).kind = "scan"
    BY <2>1, AppendScans
  <2>. DEFINE longer == Append(workQueue, StopMsg(taskId))
  <2>3. longer \in Seq(Messages) /\ workQueue' = longer
    BY <1>2, <2>1
  <2>4. \A i \in Scans(longer) : i \in Scans(workQueue) /\ longer[i] = workQueue[i]
    BY <2>1, <2>2
  <2>. HIDE DEF longer
  <2>. QED
    BY <2>3, <2>4
<1>. QED
  BY <1>1, <1>2 DEF SendTaskStop

(* Scans stay ordered, across both queues, by request number. *)
LEMMA QueueStep == TypeOK /\ TypeOK' /\ QueueInv /\ [Next]_vars => QueueInv'
<1>. SUFFICES ASSUME DataOK, DataOK', QueueInv, [Next]_vars PROVE QueueInv'
  BY DEF TypeOK
<1>. USE DEF QueueInv, Sorted
<1>0. /\ workQueue \in Seq(Messages) /\ workQueue' \in Seq(Messages)
      /\ requestQueue \in Seq(Messages) /\ requestQueue' \in Seq(Messages)
      /\ reqNo \in Nat /\ replyAddr \in 0..MaxConnections
  BY BoundsAssumption DEF DataOK
<1>1. ASSUME CloseSource PROVE QueueInv'
  <2>1. reqNo' = reqNo /\ requestQueue' = requestQueue /\ SendTaskStop
    BY <1>1 DEF CloseSource, brokerVars
  <2>2. Scans(requestQueue)' = Scans(requestQueue) /\ Scans(workQueue)' = Scans(workQueue')
    BY <2>1
  <2>. QED
    BY <2>1, <2>2, ClosePosts
<1>2. CASE SubmitTask
  <2>. DEFINE m == ScanMsg(reqNo + 1, preboundPort, 0)
  <2>1. m \in Messages /\ m.req = reqNo + 1 /\ reqNo \in Nat /\ reqNo' = reqNo + 1
        /\ workQueue' = Append(workQueue, m) /\ requestQueue' = requestQueue
    BY <1>2, MessageTypes, BoundsAssumption DEF SubmitTask, DataOK, Requests, ScanMsg,
       brokerVars
  <2>. HIDE DEF m
  <2>2. \A i \in Scans(workQueue') :
          \/ i \in Scans(workQueue) /\ i <= Len(workQueue) /\ workQueue'[i] = workQueue[i]
          \/ i = Len(workQueue) + 1 /\ workQueue'[i] = m
    <3>1. \A i \in Scans(Append(workQueue, m)) :
            \/ i \in Scans(workQueue) /\ i <= Len(workQueue) /\ Append(workQueue, m)[i] = workQueue[i]
            \/ i = Len(workQueue) + 1 /\ Append(workQueue, m)[i] = m
      <4>1. workQueue \in Seq(Messages) /\ m \in Messages
        BY <1>0, <2>1
      <4>. QED
        BY <4>1, AppendScans, Zenon
    <3>. QED
      BY <2>1, <3>1, Zenon
  <2>3. \A i \in Scans(workQueue) : i \in Nat /\ i <= Len(workQueue) /\ workQueue[i].req \in Nat
    BY ScanReqs, <1>0
  <2>4. \A i \in Scans(requestQueue) : requestQueue[i].req \in Nat
    BY ScanReqs, <1>0
  <2>5. Len(workQueue) \in Nat
    BY <1>0
  <2>6. m.req = reqNo + 1 /\ reqNo' = reqNo + 1 /\ requestQueue' = requestQueue
    BY <2>1
  <2>7. reqNo \in Nat
    BY <1>0
  <2>. QED
    <3>1. ASSUME NEW i \in Scans(workQueue'), NEW j \in Scans(workQueue'), i < j
          PROVE  workQueue'[i].req < workQueue'[j].req
      <4>1. i \in Scans(workQueue) /\ workQueue'[i] = workQueue[i]
        BY <2>2, <2>3, <2>5, <3>1
      <4>2. CASE j \in Scans(workQueue) /\ workQueue'[j] = workQueue[j]
        BY <3>1, <4>1, <4>2
      <4>3. CASE workQueue'[j] = m
        BY <2>3, <2>6, <2>7, <4>1, <4>3
      <4>. QED
        BY <2>2, <4>2, <4>3, Zenon
    <3>2. \A i \in Scans(requestQueue), j \in Scans(workQueue') :
            requestQueue[i].req < workQueue'[j].req
      BY <2>2, <2>3, <2>4, <2>6, <2>7
    <3>3. \A i \in Scans(workQueue') : workQueue'[i].req <= reqNo'
      BY <2>2, <2>3, <2>6, <2>7
    <3>4. \A i \in Scans(requestQueue) : requestQueue[i].req <= reqNo'
      BY <2>4, <2>6, <2>7
    <3>. QED
      BY <2>6, <3>1, <3>2, <3>3, <3>4
<1>3. CASE RunPosted
  <2>. DEFINE h == Head(workQueue)
              m == Stamped(h)
  <2>. HIDE DEF h, m
  <2>1. /\ workQueue # <<>> /\ workQueue' = Tail(workQueue) /\ reqNo' = reqNo
        /\ requestQueue' = Append(requestQueue, m) \/ requestQueue' = requestQueue
    BY <1>3 DEF RunPosted, sourceVars, h, m
  <2>2. /\ \A i \in Scans(workQueue') :
             i \in Nat /\ i + 1 \in Scans(workQueue) /\ workQueue'[i] = workQueue[i + 1]
        /\ h = workQueue[1] /\ h \in Messages
        /\ h.kind = "scan" => 1 \in Scans(workQueue)
    BY <2>1, TailScans, <1>0 DEF h
  <2>3. m \in Messages /\ m.kind = h.kind /\ m.req = h.req
    BY <2>2, <1>0, Restamp DEF m
  <2>4. \A i \in Scans(workQueue') : i \in Nat /\ i >= 1
    BY ScanReqs, <1>0
  <2>5. \A i \in Scans(requestQueue) :
          i \in Nat /\ i <= Len(requestQueue) /\ requestQueue[i].req \in Nat
    BY ScanReqs, <1>0
  <2>6. Len(requestQueue) \in Nat
    BY <1>0
  <2>0. reqNo' = reqNo
    BY <2>1
  <2>7. CASE requestQueue' = requestQueue
    BY <2>0, <2>2, <2>4, <2>7
  <2>8. CASE requestQueue' = Append(requestQueue, m)
    <3>0. \A i \in Scans(requestQueue') :
            \/ i \in Scans(requestQueue) /\ i <= Len(requestQueue)
               /\ requestQueue'[i] = requestQueue[i]
            \/ i = Len(requestQueue) + 1 /\ m.kind = "scan" /\ requestQueue'[i] = m
      <4>1. \A i \in Scans(Append(requestQueue, m)) :
              \/ i \in Scans(requestQueue) /\ i <= Len(requestQueue)
                 /\ Append(requestQueue, m)[i] = requestQueue[i]
              \/ i = Len(requestQueue) + 1 /\ m.kind = "scan" /\ Append(requestQueue, m)[i] = m
        BY <1>0, <2>3, AppendScans, Zenon
      <4>. QED
        BY <2>8, <4>1, Zenon
    <3>1. \A i \in Scans(requestQueue') :
            \/ i \in Scans(requestQueue) /\ i <= Len(requestQueue)
               /\ requestQueue'[i] = requestQueue[i]
            \/ i = Len(requestQueue) + 1 /\ 1 \in Scans(workQueue)
               /\ requestQueue'[i].req = workQueue[1].req
      BY <2>2, <2>3, <3>0
    <3>2. \A i \in Scans(workQueue') : 1 < i + 1
      BY <2>4
    <3>3. \A i \in Scans(requestQueue), j \in Scans(workQueue) :
            requestQueue[i].req < workQueue[j].req
      OBVIOUS
    <3>4. \A i \in Scans(workQueue') : 1 \in Scans(workQueue) =>
            workQueue[1].req < workQueue'[i].req
      BY <2>2, <3>2
    <3>5. \A i \in Scans(requestQueue'), j \in Scans(workQueue') :
            requestQueue'[i].req < workQueue'[j].req
      BY <2>2, <3>1, <3>3, <3>4, Zenon
    <3>6. Sorted(requestQueue')
      BY <2>5, <2>6, <3>1, <3>3
    <3>7. Sorted(workQueue') /\ \A i \in Scans(workQueue') : workQueue'[i].req <= reqNo'
      BY <2>0, <2>2, <2>4
    <3>8. \A i \in Scans(requestQueue') : requestQueue'[i].req <= reqNo'
      BY <2>0, <3>1
    <3>. QED
      BY <3>5, <3>6, <3>7, <3>8
  <2>. QED
    BY <2>1, <2>7, <2>8
<1>4. ASSUME requestQueue # <<>>, requestQueue' = Tail(requestQueue),
             UNCHANGED <<workQueue, reqNo>>
      PROVE  QueueInv'
  <2>1. \A i \in Scans(requestQueue') :
          /\ i \in Nat /\ i + 1 \in Scans(requestQueue)
          /\ requestQueue'[i] = requestQueue[i + 1]
    BY <1>4, TailScans, <1>0
  <2>2. UNCHANGED <<workQueue, reqNo>>
    BY <1>4
  <2>. QED
    BY <2>1, <2>2
<1>5. CASE AcceptTask
  BY <1>4, <1>5 DEF AcceptTask, sourceVars
<1>6. CASE RejectTask
  BY <1>4, <1>6 DEF RejectTask, sourceVars
<1>7. CASE StopTask
  BY <1>4, <1>7 DEF StopTask, sourceVars
<1>8. ASSUME UNCHANGED <<workQueue, requestQueue, reqNo>> PROVE QueueInv'
  BY <1>8 DEF Scans
<1>9. CASE DestroySource \/ OpenFailed \/ CloseAfterSweep
  BY <1>1, <1>9 DEF DestroySource, OpenFailed, CloseAfterSweep
<1>10. CASE \/ StopChannel \/ Start \/ StopScanner \/ StopSource \/ Join \/ OpenSource
            \/ ChannelNotReady
            \/ ExchangeTimesOut \/ TaskRejected \/ TaskAccepted \/ InnerTest \/ NextTest \/ Receive
            \/ HandleDwell \/ SweepExits \/ ConnectionOpens \/ OnReceiverOpen
            \/ OnTransportError \/ OnMessage \/ TaskEnds
            \/ UNCHANGED vars
  BY <1>8, <1>10, Zenon DEF Start, StopScanner, StopSource, Join, StopChannel, OpenSource,
     ChannelNotReady, ExchangeTimesOut, TaskRejected, TaskAccepted, InnerTest, NextTest,
     Receive, HandleDwell, SweepExits, ConnectionOpens, OnReceiverOpen, OnTransportError,
     OnMessage,
     TaskEnds, vars, mainVars, sourceVars, linkVars, pendingVars, brokerVars
<1>. QED
  BY <1>2, <1>3, <1>5, <1>6, <1>7, <1>9, <1>10, Zenon
     DEF Next, Main, Sweep, Proton, Controller, Finished
(* Where the scans on their way to the controller come from: a step posts at *)
(* most the next request, or moves one from the work queue to the broker.    *)
LEMMA ScanOrigins ==
  ASSUME DataOK, DataOK', [Next]_vars
  PROVE  /\ \A i \in Scans(workQueue') :
              \/ \E j \in Scans(workQueue) : workQueue'[i].req = workQueue[j].req
              \/ workQueue'[i].req = reqNo + 1
         /\ \A i \in Scans(requestQueue') :
              \/ \E j \in Scans(requestQueue) : requestQueue'[i].req = requestQueue[j].req
              \/ \E j \in Scans(workQueue) : requestQueue'[i].req = workQueue[j].req
<1>. DEFINE Goal == /\ \A i \in Scans(workQueue') :
                         \/ \E j \in Scans(workQueue) : workQueue'[i].req = workQueue[j].req
                         \/ workQueue'[i].req = reqNo + 1
                    /\ \A i \in Scans(requestQueue') :
                         \/ \E j \in Scans(requestQueue) :
                              requestQueue'[i].req = requestQueue[j].req
                         \/ \E j \in Scans(workQueue) : requestQueue'[i].req = workQueue[j].req
<1>. SUFFICES Goal
  OBVIOUS
<1>0. workQueue \in Seq(Messages) /\ requestQueue \in Seq(Messages)
      /\ replyAddr \in 0..MaxConnections
  BY DEF DataOK
<1>1. ASSUME CloseSource PROVE Goal
  <2>1. requestQueue' = requestQueue /\ SendTaskStop
    BY <1>1 DEF CloseSource, brokerVars
  <2>. QED
    BY <2>1, ClosePosts
<1>2. CASE SubmitTask
  <2>. DEFINE m == ScanMsg(reqNo + 1, preboundPort, 0)
  <2>1. m \in Messages /\ workQueue' = Append(workQueue, m) /\ requestQueue' = requestQueue
    BY <1>2, MessageTypes, BoundsAssumption DEF SubmitTask, DataOK, Requests, brokerVars
  <2>2. m.req = reqNo + 1
    BY DEF ScanMsg
  <2>. HIDE DEF m
  <2>3. \A i \in Scans(workQueue') :
          (i \in Scans(workQueue) /\ workQueue'[i] = workQueue[i]) \/ workQueue'[i] = m
    <3>1. \A i \in Scans(Append(workQueue, m)) :
            \/ i \in Scans(workQueue) /\ Append(workQueue, m)[i] = workQueue[i]
            \/ Append(workQueue, m)[i] = m
      BY <1>0, <2>1, AppendScans, Zenon
    <3>. QED
      BY <2>1, <3>1, Zenon
  <2>4. requestQueue' = requestQueue
    BY <2>1
  <2>. QED
    BY <2>2, <2>3, <2>4
<1>3. CASE RunPosted
  <2>. DEFINE h == Head(workQueue)
              m == Stamped(h)
  <2>. HIDE DEF h, m
  <2>1. /\ workQueue # <<>> /\ workQueue' = Tail(workQueue)
        /\ requestQueue' = Append(requestQueue, m) \/ requestQueue' = requestQueue
    BY <1>3 DEF RunPosted, h, m
  <2>2. /\ \A i \in Scans(workQueue') :
             i + 1 \in Scans(workQueue) /\ workQueue'[i] = workQueue[i + 1]
        /\ h = workQueue[1] /\ h \in Messages
        /\ h.kind = "scan" => 1 \in Scans(workQueue)
    BY <1>0, <2>1, TailScans DEF h
  <2>3. m \in Messages /\ m.kind = h.kind /\ m.req = h.req
    BY <1>0, <2>2, Restamp DEF m
  <2>4. CASE requestQueue' = requestQueue
    BY <2>2, <2>4
  <2>5. CASE requestQueue' = Append(requestQueue, m)
    <3>1. \A i \in Scans(requestQueue') :
            \/ i \in Scans(requestQueue) /\ requestQueue'[i] = requestQueue[i]
            \/ m.kind = "scan" /\ requestQueue'[i] = m
      BY <1>0, <2>3, <2>5, AppendScans
    <3>. QED
      BY <2>2, <2>3, <3>1
  <2>. QED
    BY <2>1, <2>4, <2>5
<1>4. ASSUME requestQueue # <<>>, requestQueue' = Tail(requestQueue), workQueue' = workQueue
      PROVE  Goal
  <2>1. \A i \in Scans(requestQueue') :
          i + 1 \in Scans(requestQueue) /\ requestQueue'[i] = requestQueue[i + 1]
    BY <1>0, <1>4, TailScans
  <2>2. workQueue' = workQueue
    BY <1>4
  <2>. QED
    BY <2>1, <2>2
<1>5. CASE AcceptTask \/ RejectTask \/ StopTask
  BY <1>4, <1>5 DEF AcceptTask, RejectTask, StopTask
<1>6. ASSUME UNCHANGED <<workQueue, requestQueue>> PROVE Goal
  BY <1>6
<1>7. CASE DestroySource \/ OpenFailed \/ CloseAfterSweep
  BY <1>1, <1>7 DEF DestroySource, OpenFailed, CloseAfterSweep
<1>8. CASE \/ Start \/ StopScanner \/ StopSource \/ Join \/ StopChannel \/ OpenSource
           \/ ChannelNotReady
           \/ ExchangeTimesOut \/ TaskRejected \/ TaskAccepted \/ InnerTest \/ NextTest \/ Receive
           \/ HandleDwell \/ SweepExits \/ ConnectionOpens \/ OnReceiverOpen
           \/ OnTransportError \/ OnMessage \/ TaskEnds
           \/ UNCHANGED vars
  BY <1>6, <1>8, Zenon DEF Start, StopScanner, StopSource, Join, StopChannel, OpenSource,
     ChannelNotReady, ExchangeTimesOut, TaskRejected, TaskAccepted, InnerTest, NextTest,
     Receive, HandleDwell, SweepExits, ConnectionOpens, OnReceiverOpen, OnTransportError,
     OnMessage,
     TaskEnds, vars, mainVars, sourceVars, linkVars, pendingVars, brokerVars
<1>. HIDE DEF Goal
<1>. QED
  BY <1>2, <1>3, <1>5, <1>7, <1>8, Zenon DEF Next, Main, Sweep, Proton, Controller,
     Finished

(* A request older than all the queued ones stays so. *)
LEMMA BeforeStays ==
  ASSUME DataOK, DataOK', [Next]_vars, NEW r \in Nat, r <= reqNo, Before(r)
  PROVE  Before(r)'
<1>1. /\ \A i \in Scans(workQueue') :
           \/ \E j \in Scans(workQueue) : workQueue'[i].req = workQueue[j].req
           \/ workQueue'[i].req = reqNo + 1
      /\ \A i \in Scans(requestQueue') :
           \/ \E j \in Scans(requestQueue) : requestQueue'[i].req = requestQueue[j].req
           \/ \E j \in Scans(workQueue) : requestQueue'[i].req = workQueue[j].req
  BY ScanOrigins
<1>2. reqNo \in Nat
  BY BoundsAssumption DEF DataOK
<1>. QED
  BY <1>1, <1>2 DEF Before

(* reqNo only grows, and AcceptTask gives a port to the oldest scan queued. *)
LEMMA RequestsGrow ==
  ASSUME DataOK, [Next]_vars
  PROVE  reqNo' = reqNo \/ (SubmitTask /\ reqNo' = reqNo + 1)
<1>. USE DEF vars, mainVars, sourceVars, linkVars, pendingVars, brokerVars
<1>1. CASE \/ Start \/ StopScanner \/ StopSource \/ Join \/ DestroySource \/ StopChannel
           \/ OpenSource \/ ChannelNotReady \/ ExchangeTimesOut \/ TaskRejected
           \/ TaskAccepted \/ OpenFailed \/ InnerTest \/ NextTest \/ Receive
           \/ HandleDwell \/ CloseAfterSweep \/ SweepExits \/ RunPosted \/ ConnectionOpens
           \/ OnReceiverOpen
           \/ OnTransportError \/ OnMessage \/ AcceptTask \/ RejectTask \/ StopTask
           \/ TaskEnds \/ UNCHANGED vars
  BY <1>1, Zenon DEF Start, StopScanner, StopSource, Join, DestroySource, StopChannel,
     OpenSource, ChannelNotReady, ExchangeTimesOut, TaskRejected, TaskAccepted,
     OpenFailed, InnerTest, NextTest, Receive, HandleDwell, CloseAfterSweep, SweepExits,
     RunPosted, ConnectionOpens, OnReceiverOpen, OnTransportError, OnMessage, AcceptTask,
     RejectTask,
     StopTask, TaskEnds, CloseSource
<1>2. CASE SubmitTask
  BY <1>2 DEF SubmitTask
<1>. QED
  BY <1>1, <1>2, Zenon DEF Next, Main, Sweep, Proton, Controller, Finished

(* Only an acceptance changes the port of a task. *)
LEMMA StreamPorts ==
  ASSUME DataOK, [Next]_vars
  PROVE  streamPort' = streamPort \/ AcceptTask
<1>. USE DEF vars, mainVars, sourceVars, linkVars, pendingVars, brokerVars
<1>1. CASE \/ Start \/ StopScanner \/ StopSource \/ Join \/ DestroySource \/ StopChannel
           \/ OpenSource \/ SubmitTask \/ ChannelNotReady \/ ExchangeTimesOut
           \/ TaskRejected \/ TaskAccepted \/ OpenFailed \/ InnerTest \/ NextTest
           \/ Receive \/ HandleDwell \/ CloseAfterSweep \/ SweepExits \/ RunPosted
           \/ ConnectionOpens \/ OnReceiverOpen \/ OnTransportError \/ OnMessage
           \/ RejectTask \/ StopTask
           \/ TaskEnds \/ UNCHANGED vars
  BY <1>1, Zenon DEF Start, StopScanner, StopSource, Join, DestroySource, StopChannel,
     OpenSource, SubmitTask, ChannelNotReady, ExchangeTimesOut, TaskRejected,
     TaskAccepted, OpenFailed, InnerTest, NextTest, Receive, HandleDwell, CloseAfterSweep,
     SweepExits, RunPosted, ConnectionOpens, OnReceiverOpen, OnTransportError, OnMessage,
     RejectTask,
     StopTask, TaskEnds, CloseSource
<1>2. CASE AcceptTask
  BY <1>2, Zenon
<1>. QED
  BY <1>1, <1>2, Zenon DEF Next, Main, Sweep, Proton, Controller, Finished

(* ... and never that of a request already answered. *)
LEMMA StreamStays ==
  ASSUME DataOK, [Next]_vars, NEW r \in Requests, Before(r)
  PROVE  streamPort'[r] = streamPort[r]
<1>1. CASE AcceptTask
  <2>. DEFINE h == Head(requestQueue)
  <2>1. requestQueue \in Seq(Messages) /\ requestQueue # <<>> /\ h.kind = "scan"
    BY <1>1 DEF DataOK, AcceptTask
  <2>2. h \in Messages /\ h = requestQueue[1] /\ 1 \in Scans(requestQueue)
    BY <2>1, TailScans
  <2>3. r < h.req /\ h.req \in Requests /\ r \in Nat /\ h.req \in Nat
    BY <2>2, MessageTypes, BoundsAssumption DEF Before, Requests
  <2>4. \E p : streamPort' = [streamPort EXCEPT ![h.req] = p]
    BY <1>1 DEF AcceptTask
  <2>. QED
    BY <2>3, <2>4 DEF DataOK
<1>. QED
  BY <1>1, StreamPorts

(* An answer stays genuine. *)
LEMMA AnswerStays ==
  ASSUME DataOK, DataOK', [Next]_vars, NEW m \in Responses, IsAnswer(m)
  PROVE  IsAnswer(m)'
<1>1. m.req \in Requests /\ m.req \in Nat /\ reqNo \in Nat
  <2>1. m.req \in Requests
    BY ResponseTypes, Zenon
  <2>2. reqNo \in Nat
    BY BoundsAssumption DEF DataOK
  <2>. QED
    BY <2>1, <2>2 DEF Requests
<1>2. Before(m.req)' /\ streamPort'[m.req] = streamPort[m.req]
  BY <1>1, BeforeStays, StreamStays DEF IsAnswer
<1>3. m.req <= reqNo'
  BY <1>1, RequestsGrow DEF IsAnswer
<1>. QED
  BY <1>2, <1>3 DEF IsAnswer
(* An answer on its way back is genuine: controller's view and answer agree.  *)
LEMMA ResponsesFrom ==
  ASSUME DataOK, [Next]_vars
  PROVE  responses' \subseteq responses \/ AcceptTask \/ RejectTask
<1>. USE DEF vars, mainVars, sourceVars, linkVars, pendingVars, brokerVars
<1>1. CASE \/ Start \/ StopScanner \/ StopSource \/ Join \/ DestroySource \/ OpenSource
           \/ SubmitTask \/ ChannelNotReady \/ ExchangeTimesOut \/ TaskRejected
           \/ TaskAccepted \/ OpenFailed \/ InnerTest \/ NextTest \/ Receive
           \/ HandleDwell \/ CloseAfterSweep \/ SweepExits \/ RunPosted \/ ConnectionOpens
           \/ OnReceiverOpen
           \/ StopTask \/ TaskEnds \/ UNCHANGED vars
  BY <1>1, Zenon DEF Start, StopScanner, StopSource, Join, DestroySource, OpenSource,
     SubmitTask, ChannelNotReady, ExchangeTimesOut, TaskRejected, TaskAccepted,
     OpenFailed, InnerTest, NextTest, Receive, HandleDwell, CloseAfterSweep, SweepExits,
     RunPosted, ConnectionOpens, OnReceiverOpen, StopTask, TaskEnds, CloseSource
<1>2. CASE AcceptTask
  BY <1>2, Zenon
<1>3. CASE RejectTask
  BY <1>3, Zenon
<1>4. CASE StopChannel
  BY <1>4, SMT DEF StopChannel
<1>5. CASE OnTransportError
  BY <1>5, SMT DEF OnTransportError
<1>6. CASE OnMessage
  BY <1>6, SMT DEF OnMessage
<1>. QED
  BY <1>1, <1>2, <1>3, <1>4, <1>5, <1>6, Zenon DEF Next, Main, Sweep, Proton, Controller,
     Finished

(* The request taken from the queue is older than the rest. *)
LEMMA HeadAnswered ==
  ASSUME DataOK, DataOK', QueueInv, requestQueue # <<>>, Head(requestQueue).kind = "scan",
         requestQueue' = Tail(requestQueue), UNCHANGED <<workQueue, reqNo>>
  PROVE  \E r \in Requests : r = Head(requestQueue).req /\ r <= reqNo' /\ Before(r)'
<1>. DEFINE h == Head(requestQueue)
<1>1. requestQueue \in Seq(Messages) /\ workQueue \in Seq(Messages)
  BY DEF DataOK
<1>2. h \in Messages /\ h = requestQueue[1] /\ 1 \in Scans(requestQueue)
  BY <1>1, TailScans
<1>3. \A i \in Scans(requestQueue') :
        /\ i \in Nat /\ i >= 1 /\ i + 1 \in Scans(requestQueue)
        /\ requestQueue'[i] = requestQueue[i + 1]
  BY <1>1, TailScans, ScanReqs DEF DataOK
<1>. HIDE DEF h
<1>4. h.req \in Requests /\ h.req <= reqNo
  BY <1>2, MessageTypes DEF QueueInv
<1>5. UNCHANGED <<workQueue, reqNo>>
  OBVIOUS
<1>6. \A i \in Scans(requestQueue') : 1 < i + 1
  BY <1>3
<1>7. PICK r \in Requests : r = h.req
  BY <1>4
<1>8. \A i \in Scans(requestQueue') : r < requestQueue'[i].req
  BY <1>2, <1>3, <1>6, <1>7 DEF QueueInv, Sorted
<1>9. \A i \in Scans(workQueue') : r < workQueue'[i].req
  BY <1>2, <1>5, <1>7 DEF QueueInv
<1>10. Before(r)'
  BY <1>8, <1>9 DEF Before
<1>. QED
  BY <1>4, <1>5, <1>7, <1>10 DEF h

(* All answers under way are genuine after any step. *)
LEMMA ResponsesStep ==
  ASSUME DataOK, DataOK', QueueInv, AnswerInv, [Next]_vars
  PROVE  (\A m \in responses : IsAnswer(m))'
<1>0. \A m \in responses : IsAnswer(m)'
  BY AnswerStays DEF DataOK, AnswerInv
<1>. DEFINE h == Head(requestQueue)
<1>1. CASE responses' \subseteq responses
  BY <1>0, <1>1
<1>2. ASSUME AcceptTask \/ RejectTask
      PROVE  \E r \in Requests : r = h.req /\ r <= reqNo' /\ Before(r)'
  BY <1>2, HeadAnswered DEF AcceptTask, RejectTask, sourceVars, DataOK
<1>3. CASE AcceptTask
  <2>0. PICK r \in Requests : r = h.req /\ r <= reqNo' /\ Before(r)'
    BY <1>2, <1>3
  <2>1. PICK p : /\ streamPort' = [streamPort EXCEPT ![r] = p]
                 /\ Answer(h, [req |-> r, status |-> "ACCEPTED", port |-> p])
    BY <1>3, <2>0 DEF AcceptTask
  <2>. DEFINE resp == [req |-> r, status |-> "ACCEPTED", port |-> p]
  <2>2. responses' \subseteq responses \cup {resp}
    BY <2>1 DEF Answer
  <2>3. streamPort'[r] = p
    BY <2>1 DEF DataOK
  <2>4. resp.req = r /\ resp.port = p
    OBVIOUS
  <2>. HIDE DEF resp
  <2>5. IsAnswer(resp)'
    BY <2>0, <2>3, <2>4 DEF IsAnswer
  <2>. QED
    BY <1>0, <2>2, <2>5
<1>4. CASE RejectTask
  <2>0. PICK r \in Requests : r = h.req /\ r <= reqNo' /\ Before(r)'
    BY <1>2, <1>4
  <2>. DEFINE resp == [req |-> r, status |-> "REJECTED", port |-> 0]
  <2>2. responses' \subseteq responses \cup {resp}
    BY <1>4, <2>0 DEF RejectTask, Answer
  <2>4. resp.req = r /\ resp.status # "ACCEPTED"
    OBVIOUS
  <2>. HIDE DEF resp
  <2>5. IsAnswer(resp)'
    BY <2>0, <2>4 DEF IsAnswer
  <2>. QED
    BY <1>0, <2>2, <2>5
<1>. QED
  BY <1>1, <1>3, <1>4, ResponsesFrom

(* Who changes the pending exchange. *)
LEMMA PendingFrom ==
  ASSUME [Next]_vars
  PROVE  UNCHANGED <<pendingCorr, pendingResult, reqNo>> \/ SubmitTask \/ (OnMessage /\ reqNo' = reqNo)
<1>. USE DEF vars, mainVars, sourceVars, linkVars, pendingVars, brokerVars
<1>1. CASE \/ Start \/ StopScanner \/ StopSource \/ Join \/ DestroySource \/ StopChannel
           \/ OpenSource \/ ChannelNotReady \/ ExchangeTimesOut \/ TaskRejected
           \/ TaskAccepted \/ OpenFailed \/ InnerTest \/ NextTest \/ Receive
           \/ HandleDwell \/ CloseAfterSweep \/ SweepExits \/ RunPosted \/ ConnectionOpens
           \/ OnReceiverOpen
           \/ OnTransportError \/ AcceptTask \/ RejectTask \/ StopTask \/ TaskEnds
           \/ UNCHANGED vars
  BY <1>1, Zenon DEF Start, StopScanner, StopSource, Join, DestroySource, StopChannel,
     OpenSource, ChannelNotReady, ExchangeTimesOut, TaskRejected, TaskAccepted,
     OpenFailed, InnerTest, NextTest, Receive, HandleDwell, CloseAfterSweep, SweepExits,
     RunPosted, ConnectionOpens, OnReceiverOpen, OnTransportError, AcceptTask, RejectTask,
     StopTask,
     TaskEnds, CloseSource
<1>2. CASE SubmitTask
  BY <1>2, Zenon
<1>3. CASE OnMessage
  BY <1>3, Zenon DEF OnMessage
<1>. QED
  BY <1>1, <1>2, <1>3, Zenon DEF Next, Main, Sweep, Proton, Controller, Finished

(* The pending answer is that of the latest request. *)
LEMMA PendingStep ==
  ASSUME DataOK, DataOK', QueueInv, AnswerInv, [Next]_vars
  PROVE  /\ pendingResult' # NoResult => pendingResult'.req = reqNo' /\ IsAnswer(pendingResult)'
         /\ pendingCorr' # 0 => pendingCorr' = reqNo'
<1>0. \A m \in Responses : IsAnswer(m) => IsAnswer(m)'
  BY AnswerStays
<1>1. CASE UNCHANGED <<pendingCorr, pendingResult, reqNo>>
  BY <1>0, <1>1 DEF AnswerInv, DataOK
<1>2. CASE SubmitTask
  BY <1>2 DEF SubmitTask
<1>3. CASE OnMessage /\ reqNo' = reqNo
  <2>1. CASE UNCHANGED pendingVars
    BY <1>1, <1>3, <2>1 DEF pendingVars
  <2>2. CASE \E m \in responses : Matches(m) /\ pendingResult' = m /\ pendingCorr' = 0
    BY <1>0, <1>3, <2>2 DEF AnswerInv, DataOK, Matches
  <2>. QED
    BY <1>3, <2>1, <2>2 DEF OnMessage
<1>. QED
  BY <1>1, <1>2, <1>3, PendingFrom

(* Who changes task_id_. *)
LEMMA TaskIdFrom ==
  ASSUME [Next]_vars
  PROVE  \/ UNCHANGED <<taskId, reqNo>>
         \/ taskId' = 0
         \/ SubmitTask /\ taskId' = taskId
         \/ TaskAccepted /\ reqNo' = reqNo
<1>. USE DEF vars, mainVars, sourceVars, linkVars, pendingVars, brokerVars
<1>1. CASE \/ Start \/ StopScanner \/ StopSource \/ Join \/ DestroySource \/ StopChannel
           \/ OpenSource \/ ChannelNotReady \/ ExchangeTimesOut \/ TaskRejected
           \/ OpenFailed \/ InnerTest \/ NextTest \/ Receive \/ HandleDwell
           \/ CloseAfterSweep \/ SweepExits \/ RunPosted \/ ConnectionOpens \/ OnReceiverOpen
           \/ OnTransportError \/ OnMessage \/ AcceptTask \/ RejectTask \/ StopTask
           \/ TaskEnds \/ UNCHANGED vars
  BY <1>1, Zenon DEF Start, StopScanner, StopSource, Join, DestroySource, StopChannel,
     OpenSource, ChannelNotReady, ExchangeTimesOut, TaskRejected, OpenFailed, InnerTest,
     NextTest, Receive, HandleDwell, CloseAfterSweep, SweepExits, RunPosted,
     ConnectionOpens, OnReceiverOpen, OnTransportError, OnMessage, AcceptTask, RejectTask,
     StopTask,
     TaskEnds, CloseSource, SendTaskStop
<1>2. CASE SubmitTask
  BY <1>2, Zenon DEF SubmitTask
<1>3. CASE TaskAccepted
  BY <1>3, Zenon DEF TaskAccepted
<1>. QED
  BY <1>1, <1>2, <1>3, Zenon DEF Next, Main, Sweep, Proton, Controller, Finished

(* task_id_ names the latest request. *)
LEMMA TaskIdStep ==
  ASSUME DataOK, DataOK', SocketInv, AnswerInv, [Next]_vars
  PROVE  (taskId # 0 => taskId = reqNo /\ Before(taskId))'
<1>0. reqNo \in Nat /\ taskId \in Nat
  BY BoundsAssumption DEF DataOK
<1>1. CASE UNCHANGED <<taskId, reqNo>>
  <2>1. PICK t \in Nat : t = taskId
    BY <1>0
  <2>2. t # 0 => t = reqNo /\ Before(t)'
    BY <1>0, <2>1, BeforeStays DEF AnswerInv
  <2>. QED
    BY <1>1, <2>1, <2>2 DEF Before
<1>2. CASE taskId' = 0
  BY <1>2
<1>3. CASE SubmitTask /\ taskId' = taskId
  BY <1>3 DEF SubmitTask, SocketInv
<1>4. CASE TaskAccepted /\ reqNo' = reqNo
  <2>1. taskId' = pendingResult.req /\ pendingResult # NoResult /\ pendingResult \in Responses
    BY <1>4, ResponseTypes DEF TaskAccepted, DataOK
  <2>2. PICK t \in Nat : t = reqNo
    BY <1>0
  <2>3. taskId' = t /\ Before(t)
    BY <2>1, <2>2 DEF AnswerInv, IsAnswer
  <2>4. Before(t)'
    BY <2>2, <2>3, BeforeStays
  <2>. QED
    BY <1>4, <2>2, <2>3, <2>4 DEF Before
<1>. QED
  BY <1>1, <1>2, <1>3, <1>4, TaskIdFrom

(* Who starts or goes on receiving. *)
LEMMA StreamFrom ==
  ASSUME ControlInv, [Next]_vars
  PROVE  \/ sweepPc' \notin {"inner", "next", "recv", "dwell"}
         \/ sweepPc \in {"inner", "next", "recv", "dwell"} /\ UNCHANGED <<taskId, reqNo, udpFd>>
         \/ TaskAccepted /\ reqNo' = reqNo /\ streamPort' = streamPort
<1>. USE DEF vars, mainVars, sourceVars, linkVars, pendingVars, brokerVars
<1>1. CASE \/ StopScanner \/ StopSource \/ Join \/ StopChannel \/ OpenSource \/ SubmitTask
           \/ ChannelNotReady \/ ExchangeTimesOut \/ TaskRejected \/ OpenFailed
           \/ CloseAfterSweep \/ SweepExits \/ RunPosted \/ ConnectionOpens \/ OnReceiverOpen
           \/ OnTransportError \/ OnMessage \/ AcceptTask \/ RejectTask \/ StopTask
           \/ TaskEnds \/ UNCHANGED vars
  BY <1>1, Zenon DEF StopScanner, StopSource, Join, StopChannel, OpenSource, SubmitTask,
     ChannelNotReady, ExchangeTimesOut, TaskRejected, OpenFailed, CloseAfterSweep,
     SweepExits, RunPosted, ConnectionOpens, OnReceiverOpen, OnTransportError, OnMessage,
     AcceptTask,
     RejectTask, StopTask, TaskEnds, CloseSource
<1>2. CASE TaskAccepted
  BY <1>2, Zenon DEF TaskAccepted
<1>3. CASE DestroySource
  BY <1>3, SMT DEF DestroySource, ControlInv
<1>4. CASE Start
  BY <1>4, SMT DEF Start
<1>5. CASE InnerTest
  BY <1>5, SMT DEF InnerTest
<1>6. CASE NextTest
  BY <1>6, SMT DEF NextTest
<1>7. CASE HandleDwell
  BY <1>7, SMT DEF HandleDwell
<1>8. CASE Receive
  BY <1>8, SMT DEF Receive
<1>. QED
  BY <1>1, <1>2, <1>3, <1>4, <1>5, <1>6, <1>7, <1>8, Zenon DEF Next, Main, Sweep, Proton,
     Controller, Finished

(* The receiving thread owns its stream. *)
LEMMA StreamStep ==
  ASSUME DataOK, DataOK', ControlInv, SocketInv, AnswerInv, [Next]_vars
  PROVE  (sweepPc \in {"inner", "next", "recv", "dwell"}
            => taskId # 0 /\ taskId = reqNo /\ streamPort[reqNo] = udpFd)'
<1>1. CASE sweepPc' \notin {"inner", "next", "recv", "dwell"}
  BY <1>1
<1>2. CASE sweepPc \in {"inner", "next", "recv", "dwell"} /\ UNCHANGED <<taskId, reqNo, udpFd>>
  <2>1. taskId = reqNo /\ streamPort[reqNo] = udpFd /\ udpFd # 0
    BY <1>2 DEF AnswerInv, SocketInv
  <2>2. PICK r \in Requests : r = reqNo
    BY <1>2, <2>1, BoundsAssumption DEF AnswerInv, DataOK, Requests
  <2>3. Before(r)
    BY <1>2, <2>1, <2>2 DEF AnswerInv, Before
  <2>. QED
    BY <1>2, <2>1, <2>2, <2>3, StreamStays DEF AnswerInv
<1>3. CASE TaskAccepted /\ reqNo' = reqNo /\ streamPort' = streamPort
  <2>1. CASE sweepPc' = "catch"
    BY <2>1
  <2>2. CASE sweepPc' # "catch"
    <3>1. pendingResult # NoResult /\ pendingResult.status = "ACCEPTED"
          /\ taskId' = pendingResult.req /\ OpenOn(pendingResult.port) /\ sweepPc = "await"
      BY <1>3, <2>2, ResponseTypes DEF TaskAccepted
    <3>2. pendingResult.req = reqNo /\ pendingResult.req # 0 /\ streamPort[reqNo] = pendingResult.port
      BY <3>1, ResponseTypes DEF AnswerInv, IsAnswer, DataOK, Requests
    <3>3. udpFd' = pendingResult.port
      BY <2>2, <3>1 DEF OpenOn, SocketInv
    <3>. QED
      BY <1>3, <3>1, <3>2, <3>3
  <2>. QED
    BY <2>1, <2>2
<1>. QED
  BY <1>1, <1>2, <1>3, StreamFrom

-----------------------------------------------------------------------------
(* The inductive invariant. *)
SafetyInv == ControlInv /\ SocketInv /\ QueueInv /\ AnswerInv

(* The invariant holds initially. *)
LEMMA InitSafety == Init => SafetyInv
<1>. SUFFICES ASSUME Init PROVE SafetyInv
  OBVIOUS
<1>1. ControlInv
  BY DEF Init, ControlInv
<1>2. SocketInv
  BY DEF Init, SocketInv
<1>3. Scans(<<>>) = {}
  BY DEF Scans
<1>4. QueueInv
  BY <1>3 DEF Init, QueueInv, Sorted
<1>5. AnswerInv
  BY DEF Init, AnswerInv
<1>. QED
  BY <1>1, <1>2, <1>4, <1>5 DEF SafetyInv

(* Every step keeps the invariant. *)
LEMMA SafetyStep == TypeOK /\ TypeOK' /\ SafetyInv /\ [Next]_vars => SafetyInv'
<1>. SUFFICES ASSUME TypeOK, TypeOK', SafetyInv, [Next]_vars PROVE SafetyInv'
  OBVIOUS
<1>. USE DEF SafetyInv
<1>1. ControlInv' /\ SocketInv' /\ QueueInv'
  BY ControlStep, SocketStep, QueueStep
<1>2. DataOK /\ DataOK'
  BY DEF TypeOK
<1>3. AnswerInv'
  BY <1>2, ResponsesStep, PendingStep, TaskIdStep, StreamStep DEF AnswerInv
<1>. QED
  BY <1>1, <1>3

(* The invariant of every step. *)
THEOREM SafetyCorrect == Spec => []SafetyInv
<1>. QED
  BY TypeCorrect, InitSafety, SafetyStep, PTL DEF Spec

(* Failed opens, re-binds and restarts of the sweep never leak a socket. *)
THEOREM NoSocketLeakCorrect == Spec => []NoSocketLeak
<1>1. SafetyInv => NoSocketLeak
  BY DEF SafetyInv, SocketInv, NoSocketLeak
<1>. QED
  BY <1>1, SafetyCorrect, PTL

(* stop() is never lost to the running_ = true at the end of open(). *)
THEOREM StopIsSeenCorrect == Spec => []StopIsSeen
<1>1. SafetyInv => StopIsSeen
  BY Zenon DEF SafetyInv, ControlInv, StopIsSeen
<1>. QED
  BY <1>1, SafetyCorrect, PTL

(* The sweep thread only receives where its own current task streams to. *)
THEOREM ReceivesItsOwnTaskCorrect == Spec => []ReceivesItsOwnTask
<1>1. SafetyInv => ReceivesItsOwnTask
  BY DEF SafetyInv, SocketInv, AnswerInv, ReceivesItsOwnTask
<1>. QED
  BY <1>1, SafetyCorrect, PTL

(* No late answer is taken for the answer to a later request. *)
THEOREM LateAnswerIsIgnoredCorrect == Spec => []LateAnswerIsIgnored
<1>1. SafetyInv => LateAnswerIsIgnored
  BY DEF SafetyInv, AnswerInv, LateAnswerIsIgnored
<1>. QED
  BY <1>1, SafetyCorrect, PTL

-----------------------------------------------------------------------------
(* The tasks of the controller.  The second inductive invariant, TasksInv,  *)
(* follows a task that has not been given up from its request on the way    *)
(* to the controller to its TASK_STOP on the same way: both queues are      *)
(* first in, first out, so the stop of a task comes ahead of the next       *)
(* request.                                                                 *)

Kept(r)     == r \notin abandoned
Stops(q, r) == {i \in 1..Len(q) : q[i].kind = "stop" /\ q[i].req = r}

\* A task is started when its request reaches the controller and not before, the
\* answers tell the truth about it, and only a started task is held or stopped.
Started(r) == task[r] # "none"
StartedOK ==
  /\ \A r \in Requests : r > reqNo => ~Started(r)
  /\ \A i \in Scans(workQueue) : ~Started(workQueue[i].req)
  /\ \A i \in Scans(requestQueue) : ~Started(requestQueue[i].req)
  /\ \A m \in responses \cup {pendingResult} : /\ m.status = "ACCEPTED" => Started(m.req)
                                               /\ m.status = "REJECTED" => ~Started(m.req)
  /\ taskId # 0 => Started(taskId)
  /\ \A r \in Requests : StopPosted(r) => Started(r)

\* A kept request on its way is the one open() waits for.
WaitedFor(r) == Kept(r) => r = reqNo /\ sweepPc = "await"
WaitOK ==
  /\ \A i \in Scans(workQueue) : WaitedFor(workQueue[i].req)
  /\ \A i \in Scans(requestQueue) : WaitedFor(requestQueue[i].req)

\* A task has at most one TASK_STOP under way, and none while it is held or waited for.
SingleStop(q, r) == \A i, j \in Stops(q, r) : i = j
OneStop(r) == /\ SingleStop(workQueue, r) /\ SingleStop(requestQueue, r)
              /\ Stops(workQueue, r) = {} \/ Stops(requestQueue, r) = {}
LetGo(r)   == StopPosted(r) => /\ taskId # r /\ r <= reqNo
                               /\ r = reqNo => sweepPc # "await"
ReturnsOK  == \A r \in Requests : OneStop(r) /\ LetGo(r)

\* Ahead of a kept request there is the stop of every kept task that lives.
StopsFirst == \A r \in Requests : task[r] = "live" /\ Kept(r) =>
  /\ \A j \in Scans(requestQueue) : Kept(requestQueue[j].req) =>
       \E i \in Stops(requestQueue, r) : i < j
  /\ \A j \in Scans(workQueue) : Kept(workQueue[j].req) =>
       Stops(requestQueue, r) # {} \/ \E i \in Stops(workQueue, r) : i < j

TasksInv == /\ StartedOK /\ WaitOK /\ ReturnsOK
            /\ OrphansWereAbandoned /\ StopsFirst /\ AtMostOneLiveTask

(* Appending a message keeps the stops, and adds its own. *)
LEMMA AppendStops ==
  ASSUME NEW q \in Seq(Messages), NEW m \in Messages, NEW r
  PROVE  /\ \A i \in Stops(q, r) : i \in Nat /\ i <= Len(q) /\ i \in Stops(Append(q, m), r)
         /\ m.kind = "stop" /\ m.req = r => Len(q) + 1 \in Stops(Append(q, m), r)
         /\ Len(q) \in Nat
  BY DEF Stops

(* Dropping the head shifts the stops by one, unless it is one of them. *)
LEMMA TailStops ==
  ASSUME NEW q \in Seq(Messages), q # <<>>, NEW r
  PROVE  \A i \in Stops(q, r) :
           \/ i = 1 /\ Head(q).kind = "stop" /\ Head(q).req = r
           \/ i \in Nat /\ i > 1 /\ i - 1 \in Stops(Tail(q), r)
  BY DEF Stops

LEMMA PostedStops ==
  ASSUME NEW r
  PROVE  /\ StopPosted(r) <=> Stops(workQueue, r) # {} \/ Stops(requestQueue, r) # {}
         /\ StopPosted(r)' <=> Stops(workQueue', r) # {} \/ Stops(requestQueue', r) # {}
  BY DEF StopPosted, Stops

(* Only the controller's acceptance makes a task live. *)
LEMMA LiveFrom ==
  ASSUME DataOK, [Next]_vars, NEW r \in Requests, task'[r] = "live"
  PROVE  task[r] = "live" \/ (AcceptTask /\ r = Head(requestQueue).req)
<1>. USE DEF vars, mainVars, sourceVars, linkVars, pendingVars, brokerVars
<1>1. CASE \/ Start \/ StopScanner \/ StopSource \/ Join \/ DestroySource \/ StopChannel
           \/ OpenSource \/ SubmitTask \/ ChannelNotReady \/ ExchangeTimesOut \/ TaskRejected
           \/ TaskAccepted \/ OpenFailed \/ InnerTest \/ NextTest \/ Receive
           \/ HandleDwell \/ CloseAfterSweep \/ SweepExits \/ RunPosted \/ ConnectionOpens
           \/ OnReceiverOpen
           \/ OnTransportError \/ OnMessage \/ RejectTask \/ UNCHANGED vars
  <2>1. task' = task
    BY <1>1, Zenon DEF Start, StopScanner, StopSource, Join, DestroySource, StopChannel, OpenSource,
       SubmitTask, ChannelNotReady, ExchangeTimesOut, TaskRejected, TaskAccepted, OpenFailed,
       InnerTest, NextTest, Receive, HandleDwell, CloseAfterSweep, SweepExits, RunPosted,
       ConnectionOpens, OnReceiverOpen, OnTransportError, OnMessage, RejectTask, CloseSource
  <2>. QED
    BY <2>1
<1>2. CASE AcceptTask
  BY <1>2 DEF AcceptTask, DataOK
<1>3. CASE StopTask \/ TaskEnds
  BY <1>3 DEF StopTask, TaskEnds, DataOK
<1>. QED
  BY <1>1, <1>2, <1>3, Zenon DEF Next, Main, Sweep, Proton, Controller, Finished

(* Nothing that was given up is taken back. *)
LEMMA AbandonedGrows == ASSUME [Next]_vars PROVE abandoned \subseteq abandoned'
<1>. USE DEF vars, mainVars, sourceVars, linkVars, pendingVars, brokerVars
<1>1. CASE \/ Start \/ StopScanner \/ StopSource \/ Join \/ StopChannel
           \/ OpenSource \/ SubmitTask \/ ChannelNotReady \/ TaskRejected
           \/ TaskAccepted \/ InnerTest \/ NextTest \/ Receive
           \/ HandleDwell \/ SweepExits \/ ConnectionOpens \/ OnReceiverOpen
           \/ OnTransportError \/ OnMessage
           \/ AcceptTask \/ RejectTask \/ StopTask \/ TaskEnds \/ UNCHANGED vars
  <2>1. abandoned' = abandoned
    BY <1>1, Zenon DEF Start, StopScanner, StopSource, Join, StopChannel, OpenSource,
       SubmitTask, ChannelNotReady, TaskRejected, TaskAccepted,
       InnerTest, NextTest, Receive, HandleDwell, SweepExits,
       ConnectionOpens, OnReceiverOpen, OnTransportError, OnMessage, AcceptTask, RejectTask,
       StopTask, TaskEnds
  <2>. QED
    BY <2>1
<1>2. CASE DestroySource \/ OpenFailed \/ CloseAfterSweep
  BY <1>2 DEF DestroySource, OpenFailed, CloseAfterSweep, CloseSource, SendTaskStop
<1>3. CASE ExchangeTimesOut
  BY <1>3 DEF ExchangeTimesOut
<1>4. CASE RunPosted
  BY <1>4 DEF RunPosted
<1>. QED
  BY <1>1, <1>2, <1>3, <1>4, Zenon DEF Next, Main, Sweep, Proton, Controller, Finished

(* open() goes on waiting, or has been answered, or gives up. *)
LEMMA WaitFrom ==
  ASSUME ControlInv, [Next]_vars
  PROVE  \/ SubmitTask \/ ExchangeTimesOut \/ TaskRejected \/ TaskAccepted
         \/ reqNo' = reqNo /\ (sweepPc = "await" <=> sweepPc' = "await")
<1>. USE DEF vars, mainVars, sourceVars, linkVars, pendingVars, brokerVars
<1>1. CASE \/ StopScanner \/ StopSource \/ Join \/ DestroySource \/ StopChannel \/ RunPosted
           \/ ConnectionOpens \/ OnReceiverOpen \/ OnTransportError \/ OnMessage
           \/ AcceptTask \/ RejectTask \/ StopTask \/ TaskEnds \/ UNCHANGED vars
  <2>1. UNCHANGED <<reqNo, sweepPc>>
    BY <1>1, Zenon DEF StopScanner, StopSource, Join, DestroySource, StopChannel, RunPosted,
       ConnectionOpens, OnReceiverOpen, OnTransportError, OnMessage, AcceptTask, RejectTask,
       StopTask, TaskEnds,
       CloseSource
  <2>. QED
    BY <2>1
<1>2. CASE OpenFailed \/ CloseAfterSweep
  BY <1>2 DEF OpenFailed, CloseAfterSweep, CloseSource
<1>3. CASE \/ OpenSource \/ ChannelNotReady \/ InnerTest \/ NextTest \/ Receive \/ HandleDwell
           \/ SweepExits
  BY <1>3 DEF OpenSource, ChannelNotReady, InnerTest, NextTest, Receive, HandleDwell, SweepExits
<1>4. CASE Start
  BY <1>4 DEF Start, ControlInv
<1>. QED
  BY <1>1, <1>2, <1>3, <1>4, Zenon DEF Next, Main, Sweep, Proton, Controller, Finished

(* An answer at hand means that no request is on its way. *)
LEMMA AnsweredAlone ==
  ASSUME DataOK, QueueInv, AnswerInv, pendingResult # NoResult
  PROVE  Scans(workQueue) = {} /\ Scans(requestQueue) = {}
<1>1. PICK n \in Nat : n = reqNo /\ Before(n)
  BY BoundsAssumption DEF AnswerInv, IsAnswer, DataOK
<1>2. /\ \A i \in Scans(workQueue) : workQueue[i].req \in Nat
      /\ \A i \in Scans(requestQueue) : requestQueue[i].req \in Nat
  BY ScanReqs DEF DataOK
<1>. QED
  BY <1>1, <1>2 DEF Before, QueueInv

(* What the controller takes is older than what is still on its way. *)
LEMMA HeadFirst ==
  ASSUME DataOK, DataOK', QueueInv, AcceptTask
  PROVE  LET h == Head(requestQueue) IN
         /\ h.req \in Requests /\ h.req <= reqNo /\ 1 \in Scans(requestQueue) /\ h = requestQueue[1]
         /\ \A i \in Scans(workQueue') : h.req # workQueue'[i].req
         /\ \A i \in Scans(requestQueue') : h.req # requestQueue'[i].req
<1>. DEFINE h == Head(requestQueue)
<1>1. /\ requestQueue # <<>> /\ h.kind = "scan" /\ requestQueue' = Tail(requestQueue)
      /\ UNCHANGED <<workQueue, reqNo>>
  BY DEF AcceptTask, sourceVars
<1>2. PICK r \in Requests : r = h.req /\ r <= reqNo' /\ Before(r)'
  BY <1>1, HeadAnswered
<1>3. 1 \in Scans(requestQueue) /\ h = requestQueue[1]
  BY <1>1, TailScans DEF DataOK
<1>4. /\ \A i \in Scans(workQueue') : r # workQueue'[i].req
      /\ \A i \in Scans(requestQueue') : r # requestQueue'[i].req
  <2>1. workQueue' \in Seq(Messages) /\ requestQueue' \in Seq(Messages)
    BY <1>1, TailScans DEF DataOK
  <2>2. r \in Nat
    BY DEF Requests
  <2>3. /\ \A i \in Scans(workQueue') : r < workQueue'[i].req
        /\ \A i \in Scans(requestQueue') : r < requestQueue'[i].req
    BY <1>2, Zenon DEF Before
  <2>4. \A i \in Scans(workQueue') : r # workQueue'[i].req
    BY <2>1, <2>2, <2>3, NotBefore, Zenon
  <2>5. \A i \in Scans(requestQueue') : r # requestQueue'[i].req
    BY <2>1, <2>2, <2>3, NotBefore, Zenon
  <2>. QED
    BY <2>4, <2>5
<1>. QED
  BY <1>1, <1>2, <1>3, <1>4

LEMMA WaitStep ==
  ASSUME DataOK, DataOK', ControlInv, QueueInv, QueueInv', AnswerInv, WaitOK, [Next]_vars
  PROVE  WaitOK'
<1>. DEFINE OldWork(r) == \E j \in Scans(workQueue) : r = workQueue[j].req
            OldAsked(r) == \E j \in Scans(requestQueue) : r = requestQueue[j].req
<1>1. /\ \A i \in Scans(workQueue') :
           OldWork(workQueue'[i].req) \/ workQueue'[i].req = reqNo + 1
      /\ \A i \in Scans(requestQueue') :
           OldAsked(requestQueue'[i].req) \/ OldWork(requestQueue'[i].req)
  BY ScanOrigins
<1>2. \A r : OldWork(r) \/ OldAsked(r) => WaitedFor(r)
  BY DEF WaitOK
<1>3. \A r : Kept(r)' => Kept(r)
  BY AbandonedGrows DEF Kept
<1>4. reqNo \in Nat
  BY BoundsAssumption DEF DataOK
<1>5. CASE SubmitTask
  <2>1. reqNo' = reqNo + 1 /\ sweepPc = "submit" /\ sweepPc' = "await"
    BY <1>5 DEF SubmitTask
  <2>2. \A r : OldWork(r) \/ OldAsked(r) => ~Kept(r)
    BY <1>2, <2>1 DEF WaitedFor
  <2>. HIDE DEF OldWork, OldAsked
  <2>. QED
    BY <1>1, <1>3, <2>1, <2>2 DEF WaitOK, WaitedFor
<1>6. ASSUME ~SubmitTask
      PROVE  /\ \A i \in Scans(workQueue') : OldWork(workQueue'[i].req)
             /\ \A i \in Scans(requestQueue') :
                  OldAsked(requestQueue'[i].req) \/ OldWork(requestQueue'[i].req)
  <2>1. reqNo' = reqNo
    BY <1>6, WaitFrom DEF ExchangeTimesOut, TaskRejected, TaskAccepted, sourceVars
  <2>2. \A i \in Scans(workQueue') : workQueue'[i].req <= reqNo' /\ workQueue'[i].req # reqNo + 1
    <3>1. \A i \in Scans(workQueue') : workQueue'[i].req \in Nat
      BY ScanReqs, Zenon DEF DataOK
    <3>2. \A i \in Scans(workQueue') : workQueue'[i].req <= reqNo'
      BY Zenon DEF QueueInv
    <3>. QED
      BY <1>4, <2>1, <3>1, <3>2
  <2>. QED
    BY <1>1, <2>2
<1>7. CASE ExchangeTimesOut
  <2>1. reqNo' = reqNo /\ abandoned' = abandoned \cup {reqNo} /\ ~SubmitTask
    BY <1>7 DEF ExchangeTimesOut, SubmitTask, sourceVars
  <2>2. \A r : OldWork(r) \/ OldAsked(r) => r \in abandoned'
    BY <1>2, <2>1 DEF WaitedFor, Kept
  <2>. HIDE DEF OldWork, OldAsked
  <2>. QED
    BY <1>6, <2>1, <2>2 DEF WaitOK, WaitedFor, Kept
<1>8. CASE TaskRejected \/ TaskAccepted
  <2>1. pendingResult # NoResult /\ ~SubmitTask
    BY <1>8, ResponseTypes DEF TaskRejected, TaskAccepted, SubmitTask
  <2>2. \A r : ~OldWork(r) /\ ~OldAsked(r)
    BY <2>1, AnsweredAlone
  <2>. HIDE DEF OldWork, OldAsked
  <2>. QED
    BY <1>6, <2>1, <2>2 DEF WaitOK
<1>9. CASE ~SubmitTask /\ reqNo' = reqNo /\ (sweepPc = "await" <=> sweepPc' = "await")
  <2>. HIDE DEF OldWork, OldAsked
  <2>. QED
    BY <1>2, <1>3, <1>6, <1>9 DEF WaitOK, WaitedFor
<1>. QED
  BY <1>5, <1>7, <1>8, <1>9, WaitFrom

(* How the two queues move. *)
LEMMA QueueMoves ==
  ASSUME [Next]_vars
  PROVE  \/ UNCHANGED <<workQueue, requestQueue>>
         \/ SendTaskStop /\ UNCHANGED <<requestQueue, task>>
         \/ SubmitTask \/ RunPosted \/ AcceptTask \/ RejectTask \/ StopTask
<1>. USE DEF vars, mainVars, sourceVars, linkVars, pendingVars, brokerVars
<1>1. CASE \/ StopChannel \/ Start \/ StopScanner \/ StopSource \/ Join \/ OpenSource
           \/ ChannelNotReady
           \/ ExchangeTimesOut \/ TaskRejected \/ TaskAccepted \/ InnerTest \/ NextTest \/ Receive
           \/ HandleDwell \/ SweepExits \/ ConnectionOpens \/ OnReceiverOpen
           \/ OnTransportError \/ OnMessage \/ TaskEnds
           \/ UNCHANGED vars
  BY <1>1, Zenon DEF Start, StopScanner, StopSource, Join, StopChannel, OpenSource,
     ChannelNotReady, ExchangeTimesOut, TaskRejected, TaskAccepted, InnerTest, NextTest,
     Receive, HandleDwell, SweepExits, ConnectionOpens, OnReceiverOpen, OnTransportError,
     OnMessage, TaskEnds
<1>2. CASE DestroySource \/ OpenFailed \/ CloseAfterSweep
  BY <1>2, Zenon DEF DestroySource, OpenFailed, CloseAfterSweep, CloseSource
<1>. QED
  BY <1>1, <1>2, Zenon DEF Next, Main, Sweep, Proton, Controller, Finished

(* Closing the source keeps the stops posted, and posts or gives up its own. *)
LEMMA CloseKeepsStops ==
  ASSUME DataOK, SendTaskStop
  PROVE  /\ \A r : \A i \in Stops(workQueue, r) :
              i \in Nat /\ i <= Len(workQueue) /\ i \in Stops(workQueue', r)
         /\ taskId # 0 => taskId \in abandoned' \/ Stops(workQueue', taskId) # {}
<1>. workQueue \in Seq(Messages)
  BY DEF DataOK
<1>1. CASE workQueue' = workQueue
  <2>1. taskId # 0 => taskId \in abandoned'
    <3>1. ASSUME taskId # 0, ready PROVE FALSE
      <4>1. workQueue' = Append(workQueue, StopMsg(taskId))
        BY <3>1, Zenon DEF SendTaskStop
      <4>2. StopMsg(taskId) \in Messages
        BY <3>1, MessageTypes DEF DataOK, Requests
      <4>. HIDE DEF StopMsg
      <4>. QED
        BY <1>1, <4>1, <4>2
    <3>2. taskId # 0 /\ ~ready => abandoned' = abandoned \cup {taskId}
      BY Zenon DEF SendTaskStop
    <3>. QED
      BY <3>1, <3>2
  <2>. QED
    BY <1>1, <2>1 DEF Stops
<1>2. CASE taskId # 0 /\ workQueue' = Append(workQueue, StopMsg(taskId))
  <2>1. StopMsg(taskId) \in Messages /\ StopMsg(taskId).kind = "stop" /\ StopMsg(taskId).req = taskId
    BY <1>2, MessageTypes DEF DataOK, Requests, StopMsg
  <2>. HIDE DEF StopMsg
  <2>. QED
    BY <1>2, <2>1, AppendStops
<1>. QED
  BY <1>1, <1>2 DEF SendTaskStop

(* A posted closure that runs takes its stop to the controller or gives it up. *)
LEMMA RunKeepsStops ==
  ASSUME DataOK, RunPosted
  PROVE  /\ \A r : \A i \in Stops(requestQueue, r) :
              i \in Nat /\ i <= Len(requestQueue) /\ i \in Stops(requestQueue', r)
         /\ \A r : \A i \in Stops(workQueue, r) :
              \/ i = 1 /\ (r \in abandoned' \/ Stops(requestQueue', r) # {})
              \/ i \in Nat /\ i > 1 /\ i - 1 \in Stops(workQueue', r)
<1>. DEFINE h == Head(workQueue)
            m == Stamped(h)
<1>1. /\ workQueue # <<>> /\ workQueue' = Tail(workQueue)
      /\ \/ requestQueue' = Append(requestQueue, m)
         \/ requestQueue' = requestQueue /\ (h.kind = "stop" => abandoned' = abandoned \cup {h.req})
  BY DEF RunPosted
<1>2. /\ workQueue \in Seq(Messages) /\ requestQueue \in Seq(Messages)
      /\ replyAddr \in 0..MaxConnections
  BY DEF DataOK
<1>3. h \in Messages
  BY <1>1, <1>2, TailScans
<1>4. m \in Messages /\ m.kind = h.kind /\ m.req = h.req
  BY <1>2, <1>3, Restamp
<1>5. \A r : \A i \in Stops(workQueue, r) :
        \/ i = 1 /\ h.kind = "stop" /\ h.req = r
        \/ i \in Nat /\ i > 1 /\ i - 1 \in Stops(workQueue', r)
  BY <1>1, <1>2, TailStops
<1>. HIDE DEF h, m
<1>6. CASE requestQueue' = Append(requestQueue, m)
  <2>1. \A r : /\ \A i \in Stops(requestQueue, r) :
                    i \in Nat /\ i <= Len(requestQueue) /\ i \in Stops(requestQueue', r)
               /\ h.kind = "stop" /\ h.req = r => Stops(requestQueue', r) # {}
    BY <1>2, <1>4, <1>6, AppendStops
  <2>. QED
    BY <1>5, <2>1
<1>7. CASE requestQueue' = requestQueue /\ (h.kind = "stop" => abandoned' = abandoned \cup {h.req})
  <2>1. \A r : \A i \in Stops(requestQueue, r) :
          i \in Nat /\ i <= Len(requestQueue) /\ i \in Stops(requestQueue', r)
    BY <1>2, <1>7 DEF Stops
  <2>2. \A r : h.kind = "stop" /\ h.req = r => r \in abandoned'
    BY <1>7
  <2>. QED
    BY <1>5, <2>1, <2>2
<1>. QED
  BY <1>1, <1>6, <1>7 DEF h

(* The controller takes a stop only to end its task. *)
LEMMA TakeKeepsStops ==
  ASSUME DataOK, AcceptTask \/ RejectTask \/ StopTask
  PROVE  \A r \in Requests : \A i \in Stops(requestQueue, r) :
           \/ i = 1 /\ task'[r] # "live"
           \/ i \in Nat /\ i > 1 /\ i - 1 \in Stops(requestQueue', r)
<1>1. requestQueue # <<>> /\ requestQueue' = Tail(requestQueue) /\ requestQueue \in Seq(Messages)
  BY DEF AcceptTask, RejectTask, StopTask, DataOK
<1>2. \A r : \A i \in Stops(requestQueue, r) :
        \/ i = 1 /\ Head(requestQueue).kind = "stop" /\ Head(requestQueue).req = r
        \/ i \in Nat /\ i > 1 /\ i - 1 \in Stops(requestQueue', r)
  BY <1>1, TailStops
<1>3. ASSUME NEW r \in Requests, Head(requestQueue).kind = "stop", Head(requestQueue).req = r
      PROVE  task'[r] # "live"
  BY <1>3 DEF AcceptTask, RejectTask, StopTask, DataOK
<1>. QED
  BY <1>2, <1>3

(* A stop that is posted stays so until its task has ended or it is given up. *)
LEMMA PostedStays ==
  ASSUME DataOK, DataOK', [Next]_vars, NEW r \in Requests, StopPosted(r), task'[r] = "live", Kept(r)'
  PROVE  StopPosted(r)'
<1>1. CASE UNCHANGED <<workQueue, requestQueue>>
  BY <1>1, PostedStops
<1>2. CASE SendTaskStop /\ UNCHANGED <<requestQueue, task>>
  BY <1>2, PostedStops, CloseKeepsStops
<1>3. CASE SubmitTask
  <2>. DEFINE m == ScanMsg(reqNo + 1, preboundPort, 0)
  <2>1. m \in Messages /\ workQueue' = Append(workQueue, m) /\ requestQueue' = requestQueue
    BY <1>3, MessageTypes, BoundsAssumption DEF SubmitTask, DataOK, Requests, brokerVars
  <2>2. workQueue \in Seq(Messages)
    BY DEF DataOK
  <2>. HIDE DEF m
  <2>. QED
    BY <2>1, <2>2, PostedStops, AppendStops
<1>4. CASE RunPosted
  BY <1>4, PostedStops, RunKeepsStops DEF Kept
<1>5. CASE AcceptTask \/ RejectTask \/ StopTask
  <2>1. workQueue' = workQueue
    BY <1>5 DEF AcceptTask, RejectTask, StopTask
  <2>. QED
    BY <1>5, <2>1, PostedStops, TakeKeepsStops
<1>. QED
  BY <1>1, <1>2, <1>3, <1>4, <1>5, QueueMoves

-----------------------------------------------------------------------------
(* Tasks start, and stops are posted, in the order StartedOK and ReturnsOK  *)
(* tell.                                                                    *)

(* Who changes a task. *)
LEMMA TaskFrom ==
  ASSUME [Next]_vars
  PROVE  task' = task \/ AcceptTask \/ StopTask \/ TaskEnds
<1>. USE DEF vars, mainVars, sourceVars, linkVars, pendingVars, brokerVars
<1>1. CASE \/ Start \/ StopScanner \/ StopSource \/ Join \/ DestroySource \/ StopChannel
           \/ OpenSource \/ SubmitTask \/ ChannelNotReady \/ ExchangeTimesOut \/ TaskRejected
           \/ TaskAccepted \/ OpenFailed \/ InnerTest \/ NextTest \/ Receive
           \/ HandleDwell \/ CloseAfterSweep \/ SweepExits \/ RunPosted \/ ConnectionOpens
           \/ OnReceiverOpen
           \/ OnTransportError \/ OnMessage \/ RejectTask \/ UNCHANGED vars
  BY <1>1, Zenon DEF Start, StopScanner, StopSource, Join, DestroySource, StopChannel, OpenSource,
     SubmitTask, ChannelNotReady, ExchangeTimesOut, TaskRejected, TaskAccepted, OpenFailed,
     InnerTest, NextTest, Receive, HandleDwell, CloseAfterSweep, SweepExits, RunPosted,
     ConnectionOpens, OnReceiverOpen, OnTransportError, OnMessage, RejectTask, CloseSource
<1>. QED
  BY <1>1, Zenon DEF Next, Main, Sweep, Proton, Controller, Finished

(* A queue whose head is a stop holds a stop of that request. *)
LEMMA HeadStop ==
  ASSUME NEW q \in Seq(Messages), q # <<>>, Head(q).kind = "stop"
  PROVE  Head(q).req \in Requests /\ 1 \in Stops(q, Head(q).req)
<1>1. Head(q) \in Messages /\ Head(q) = q[1] /\ 1 \in 1..Len(q)
  OBVIOUS
<1>. QED
  BY <1>1, MessageTypes DEF Stops

(* Only the acceptance of its request starts a task; nothing undoes that. *)
LEMMA StartFrom ==
  ASSUME DataOK, \A s \in Requests : StopPosted(s) => Started(s), [Next]_vars, NEW r \in Requests
  PROVE  /\ Started(r) => Started(r)'
         /\ Started(r)' => Started(r) \/ (AcceptTask /\ r = Head(requestQueue).req)
         /\ AcceptTask /\ r = Head(requestQueue).req => Started(r)'
<1>1. CASE task' = task
  <2>1. ~AcceptTask \/ r # Head(requestQueue).req \/ Started(r)
    BY <1>1 DEF AcceptTask, Started, DataOK
  <2>. QED
    BY <1>1, <2>1 DEF Started
<1>2. CASE AcceptTask
  BY <1>2 DEF AcceptTask, Started, DataOK
<1>3. CASE StopTask
  <2>1. requestQueue # <<>> /\ Head(requestQueue).kind = "stop" /\ requestQueue \in Seq(Messages)
    BY <1>3 DEF StopTask, DataOK
  <2>2. PICK s \in Requests : s = Head(requestQueue).req /\ 1 \in Stops(requestQueue, s)
    BY <2>1, HeadStop
  <2>3. Started(s) /\ task' = [task EXCEPT ![s] = "ended"]
    BY <1>3, <2>2, PostedStops DEF StopTask
  <2>4. ~AcceptTask
    BY <2>1 DEF AcceptTask
  <2>. QED
    BY <2>3, <2>4 DEF Started, DataOK
<1>4. CASE TaskEnds
  <2>1. PICK s \in Requests : task[s] = "live" /\ task' = [task EXCEPT ![s] = "ended"]
    BY <1>4 DEF TaskEnds
  <2>2. requestQueue' = requestQueue
    BY <1>4 DEF TaskEnds
  <2>3. ~AcceptTask
    <3>1. ASSUME AcceptTask PROVE FALSE
      <4>1. requestQueue # <<>> /\ requestQueue' = Tail(requestQueue) /\ requestQueue \in Seq(Messages)
        BY <3>1 DEF AcceptTask, DataOK
      <4>. QED
        BY <2>2, <4>1
    <3>. QED
      BY <3>1
  <2>. QED
    BY <2>1, <2>3 DEF Started, DataOK
<1>. QED
  BY <1>1, <1>2, <1>3, <1>4, TaskFrom

(* What appending a message and dropping the head do to the stops. *)
IsStop(m, r) == m.kind = "stop" /\ m.req = r

LEMMA AppendReturn ==
  ASSUME NEW q \in Seq(Messages), NEW m \in Messages, NEW r
  PROVE  /\ ~IsStop(m, r) => Stops(Append(q, m), r) = Stops(q, r)
         /\ IsStop(m, r) => Stops(Append(q, m), r) = Stops(q, r) \cup {Len(q) + 1}
  BY DEF Stops, IsStop

LEMMA TailReturn ==
  ASSUME NEW q \in Seq(Messages), q # <<>>, NEW r
  PROVE  /\ SingleStop(q, r) => SingleStop(Tail(q), r)
         /\ ~IsStop(Head(q), r) => (Stops(Tail(q), r) = {} <=> Stops(q, r) = {})
         /\ IsStop(Head(q), r) => Stops(q, r) # {} /\ (SingleStop(q, r) => Stops(Tail(q), r) = {})
<1>1. \A i \in Stops(Tail(q), r) : i \in Nat /\ i > 0 /\ i + 1 \in Stops(q, r)
  BY DEF Stops
<1>2. \A i \in Stops(q, r) :
        (i = 1 /\ IsStop(Head(q), r)) \/ (i \in Nat /\ i > 1 /\ i - 1 \in Stops(Tail(q), r))
  BY TailStops DEF IsStop
<1>3. IsStop(Head(q), r) => 1 \in Stops(q, r)
  BY DEF Stops, IsStop
<1>4. SingleStop(q, r) => SingleStop(Tail(q), r)
  BY <1>1 DEF SingleStop
<1>5. ~IsStop(Head(q), r) => (Stops(Tail(q), r) = {} <=> Stops(q, r) = {})
  BY <1>1, <1>2
<1>6. IsStop(Head(q), r) /\ SingleStop(q, r) => Stops(Tail(q), r) = {}
  BY <1>1, <1>3 DEF SingleStop
<1>. QED
  BY <1>3, <1>4, <1>5, <1>6

(* Closing the source posts the one stop of the task it held. *)
LEMMA CloseReturns ==
  ASSUME DataOK, ReturnsOK, SendTaskStop, requestQueue' = requestQueue, NEW r \in Requests
  PROVE  /\ OneStop(r)'
         /\ StopPosted(r)' <=> StopPosted(r) \/ (r = taskId /\ ready)
<1>0. workQueue \in Seq(Messages) /\ r # 0
  BY BoundsAssumption DEF DataOK, Requests
<1>1. CASE workQueue' = workQueue /\ ~(taskId # 0 /\ ready)
  BY <1>0, <1>1, PostedStops DEF ReturnsOK, OneStop
<1>2. CASE taskId # 0 /\ ready /\ workQueue' = Append(workQueue, StopMsg(taskId))
  <2>1. StopMsg(taskId) \in Messages /\ (IsStop(StopMsg(taskId), r) <=> r = taskId)
    BY <1>2, MessageTypes DEF DataOK, Requests, StopMsg, IsStop
  <2>. HIDE DEF StopMsg
  <2>2. CASE r = taskId
    <3>1. Stops(workQueue, r) = {} /\ Stops(requestQueue, r) = {}
      BY <2>2, PostedStops DEF ReturnsOK, LetGo
    <3>2. Stops(workQueue', r) = {Len(workQueue) + 1}
      BY <1>0, <1>2, <2>1, <2>2, <3>1, AppendReturn
    <3>. QED
      BY <1>2, <2>2, <3>1, <3>2, PostedStops DEF OneStop, SingleStop
  <2>3. CASE r # taskId
    <3>1. Stops(workQueue', r) = Stops(workQueue, r)
      BY <1>0, <1>2, <2>1, <2>3, AppendReturn
    <3>. QED
      BY <2>3, <3>1, PostedStops DEF ReturnsOK, OneStop, SingleStop
  <2>. QED
    BY <2>2, <2>3
<1>. QED
  BY <1>1, <1>2 DEF SendTaskStop

(* A new request posts no stop. *)
LEMMA SubmitReturns ==
  ASSUME DataOK, ReturnsOK, SubmitTask, NEW r \in Requests
  PROVE  OneStop(r)' /\ (StopPosted(r)' <=> StopPosted(r))
<1>. DEFINE m == ScanMsg(reqNo + 1, preboundPort, 0)
<1>1. m \in Messages /\ workQueue' = Append(workQueue, m) /\ requestQueue' = requestQueue
  BY MessageTypes, BoundsAssumption DEF SubmitTask, DataOK, Requests, brokerVars
<1>2. ~IsStop(m, r) /\ workQueue \in Seq(Messages)
  BY DEF IsStop, ScanMsg, DataOK
<1>. HIDE DEF m
<1>3. Stops(workQueue', r) = Stops(workQueue, r)
  BY <1>1, <1>2, AppendReturn
<1>. QED
  BY <1>1, <1>3, PostedStops DEF ReturnsOK, OneStop, SingleStop

\* A stop dropped by a channel that is down.
Dropped(r) == IsStop(Head(workQueue), r) /\ requestQueue' = requestQueue

(* A posted closure takes its stop to the broker, or drops it. *)
LEMMA RunReturns ==
  ASSUME DataOK, ReturnsOK, RunPosted, NEW r \in Requests
  PROVE  /\ OneStop(r)'
         /\ StopPosted(r)' <=> StopPosted(r) /\ ~Dropped(r)
         /\ Dropped(r) => StopPosted(r) /\ abandoned' = abandoned \cup {r}
<1>. DEFINE h == Head(workQueue)
            m == Stamped(h)
<1>1. /\ workQueue # <<>> /\ workQueue' = Tail(workQueue)
      /\ \/ requestQueue' = Append(requestQueue, m)
         \/ requestQueue' = requestQueue /\ (h.kind = "stop" => abandoned' = abandoned \cup {h.req})
  BY DEF RunPosted
<1>2. /\ workQueue \in Seq(Messages) /\ requestQueue \in Seq(Messages)
      /\ replyAddr \in 0..MaxConnections
  BY DEF DataOK
<1>3. h \in Messages
  BY <1>1, <1>2, TailScans
<1>4. m \in Messages /\ (IsStop(m, r) <=> IsStop(h, r))
  BY <1>2, <1>3, Restamp DEF IsStop
<1>5. /\ SingleStop(workQueue', r)
      /\ ~IsStop(h, r) => (Stops(workQueue', r) = {} <=> Stops(workQueue, r) = {})
      /\ IsStop(h, r) => Stops(workQueue, r) # {} /\ Stops(workQueue', r) = {}
  BY <1>1, <1>2, TailReturn DEF ReturnsOK, OneStop
<1>. HIDE DEF h, m
<1>6. CASE requestQueue' = Append(requestQueue, m)
  <2>1. requestQueue' # requestQueue
    BY <1>2, <1>4, <1>6
  <2>2. CASE IsStop(h, r)
    <3>1. Stops(requestQueue, r) = {}
      BY <1>5, <2>2 DEF ReturnsOK, OneStop
    <3>2. Stops(requestQueue', r) = {Len(requestQueue) + 1}
      BY <1>2, <1>4, <1>6, <2>2, <3>1, AppendReturn
    <3>. QED
      BY <1>5, <2>1, <2>2, <3>2, PostedStops DEF OneStop, SingleStop, Dropped
  <2>3. CASE ~IsStop(h, r)
    <3>1. Stops(requestQueue', r) = Stops(requestQueue, r)
      BY <1>2, <1>4, <1>6, <2>3, AppendReturn
    <3>. QED
      BY <1>5, <2>1, <2>3, <3>1, PostedStops DEF ReturnsOK, OneStop, SingleStop, Dropped
  <2>. QED
    BY <2>2, <2>3
<1>7. CASE requestQueue' = requestQueue /\ (h.kind = "stop" => abandoned' = abandoned \cup {h.req})
  <2>1. IsStop(h, r) => Stops(requestQueue, r) = {} /\ abandoned' = abandoned \cup {r}
    BY <1>5, <1>7 DEF ReturnsOK, OneStop, IsStop
  <2>2. Dropped(r) <=> IsStop(h, r)
    BY <1>7 DEF Dropped, h
  <2>. QED
    BY <1>5, <1>7, <2>1, <2>2, PostedStops DEF ReturnsOK, OneStop, SingleStop
<1>. QED
  BY <1>1, <1>6, <1>7

(* What the controller takes is a stop it obeys, or no stop. *)
LEMMA TakeReturns ==
  ASSUME DataOK, ReturnsOK, AcceptTask \/ RejectTask \/ StopTask, NEW r \in Requests
  PROVE  /\ OneStop(r)'
         /\ StopPosted(r)' <=> StopPosted(r) /\ ~IsStop(Head(requestQueue), r)
         /\ IsStop(Head(requestQueue), r) => StopPosted(r)
<1>1. /\ requestQueue # <<>> /\ requestQueue' = Tail(requestQueue) /\ workQueue' = workQueue
      /\ requestQueue \in Seq(Messages)
  BY DEF AcceptTask, RejectTask, StopTask, DataOK
<1>. DEFINE h == Head(requestQueue)
<1>2. /\ SingleStop(requestQueue', r)
      /\ ~IsStop(h, r) => (Stops(requestQueue', r) = {} <=> Stops(requestQueue, r) = {})
      /\ IsStop(h, r) => Stops(requestQueue, r) # {} /\ Stops(requestQueue', r) = {}
  BY <1>1, TailReturn DEF ReturnsOK, OneStop
<1>. HIDE DEF h
<1>3. IsStop(h, r) => Stops(workQueue, r) = {}
  BY <1>2 DEF ReturnsOK, OneStop
<1>4. OneStop(r)'
  BY <1>1, <1>2 DEF ReturnsOK, OneStop, SingleStop
<1>5. StopPosted(r)' <=> StopPosted(r) /\ ~IsStop(h, r)
  BY <1>1, <1>2, <1>3, PostedStops
<1>6. IsStop(h, r) => StopPosted(r)
  BY <1>2, PostedStops
<1>. QED
  BY <1>4, <1>5, <1>6 DEF h

(* The stops of a step are old, or the one of the task let go. *)
LEMMA ReturnsFrom ==
  ASSUME DataOK, ReturnsOK, [Next]_vars, NEW r \in Requests
  PROVE  /\ OneStop(r)'
         /\ StopPosted(r)' => StopPosted(r) \/ (SendTaskStop /\ requestQueue' = requestQueue /\ r = taskId)
<1>1. CASE UNCHANGED <<workQueue, requestQueue>>
  BY <1>1, PostedStops DEF ReturnsOK, OneStop
<1>2. CASE SendTaskStop /\ UNCHANGED <<requestQueue, task>>
  BY <1>2, CloseReturns
<1>3. CASE SubmitTask
  BY <1>3, SubmitReturns
<1>4. CASE RunPosted
  BY <1>4, RunReturns
<1>5. CASE AcceptTask \/ RejectTask \/ StopTask
  BY <1>5, TakeReturns
<1>. QED
  BY <1>1, <1>2, <1>3, <1>4, <1>5, QueueMoves

(* Where the answers of a step come from. *)
LEMMA AnswersFrom ==
  ASSUME DataOK, [Next]_vars, NEW m \in responses' \cup {pendingResult'}
  PROVE  \/ m \in responses \cup {pendingResult} \/ m = NoResult
         \/ AcceptTask /\ m.req = Head(requestQueue).req /\ m.status = "ACCEPTED"
         \/ RejectTask /\ m.req = Head(requestQueue).req /\ m.status = "REJECTED"
<1>. DEFINE h == Head(requestQueue)
<1>1. m \in responses \cup {pendingResult, NoResult} \/ m \in responses'
  BY PendingFrom DEF SubmitTask, OnMessage, pendingVars
<1>2. CASE responses' \subseteq responses
  BY <1>1, <1>2
<1>3. CASE AcceptTask
  <2>1. PICK p : responses' \subseteq responses \cup {[req |-> h.req, status |-> "ACCEPTED", port |-> p]}
    BY <1>3 DEF AcceptTask, Answer
  <2>. QED
    BY <1>1, <1>3, <2>1
<1>4. CASE RejectTask
  <2>1. responses' \subseteq responses \cup {[req |-> h.req, status |-> "REJECTED", port |-> 0]}
    BY <1>4 DEF RejectTask, Answer
  <2>. QED
    BY <1>1, <1>4, <2>1
<1>. QED
  BY <1>2, <1>3, <1>4, ResponsesFrom

(* The scan the controller takes asked for a task that has not started. *)
LEMMA HeadNotStarted ==
  ASSUME DataOK, StartedOK, AcceptTask \/ RejectTask
  PROVE  Head(requestQueue).req \in Requests /\ ~Started(Head(requestQueue).req)
<1>1. 1 \in Scans(requestQueue) /\ Head(requestQueue) = requestQueue[1] /\ Head(requestQueue) \in Messages
  BY TailScans DEF AcceptTask, RejectTask, DataOK
<1>. QED
  BY <1>1, MessageTypes DEF StartedOK

(* An answered request is not the one the controller takes. *)
LEMMA AnsweredBefore ==
  ASSUME DataOK, DataOK', QueueInv, AcceptTask, NEW m \in Responses, IsAnswer(m)
  PROVE  m.req # Head(requestQueue).req
<1>1. m.req \in Nat /\ \A i \in Scans(requestQueue) : m.req < requestQueue[i].req
  BY ResponseTypes, BoundsAssumption DEF IsAnswer, Before, Requests
<1>2. 1 \in Scans(requestQueue) /\ Head(requestQueue) = requestQueue[1]
  BY HeadFirst
<1>3. \A i \in Scans(requestQueue) : m.req # requestQueue[i].req
  BY <1>1, NotBefore, Zenon DEF DataOK
<1>. QED
  BY <1>2, <1>3

LEMMA StartedStep ==
  ASSUME DataOK, DataOK', QueueInv, AnswerInv, StartedOK, ReturnsOK, [Next]_vars
  PROVE  StartedOK'
<1>. DEFINE Taken(r) == AcceptTask /\ r = Head(requestQueue).req
<1>1. reqNo <= reqNo' /\ reqNo \in Nat /\ reqNo' \in Nat
  BY RequestsGrow, BoundsAssumption DEF DataOK
<1>2. \A r \in Requests : /\ Started(r) => Started(r)'
                          /\ Started(r)' => Started(r) \/ Taken(r)
                          /\ Taken(r) => Started(r)'
  BY StartFrom DEF StartedOK
<1>3. \A r \in Requests : Taken(r) => r <= reqNo
  BY HeadFirst
<1>4. /\ \A i \in Scans(workQueue') : ~Taken(workQueue'[i].req)
      /\ \A i \in Scans(requestQueue') : ~Taken(requestQueue'[i].req)
  BY HeadFirst
<1>5. /\ \A i \in Scans(workQueue') : workQueue'[i].req \in Requests
      /\ \A i \in Scans(requestQueue') : requestQueue'[i].req \in Requests
  <2>1. workQueue' \in Seq(Messages) /\ requestQueue' \in Seq(Messages)
    BY Zenon DEF DataOK
  <2>. QED
    BY <2>1, ScanRequests, Zenon
<1>6. \A m \in Responses : IsAnswer(m) => ~Taken(m.req)
  BY AnsweredBefore
<1>7. AcceptTask => Taken(Head(requestQueue).req) /\ Head(requestQueue).req \in Requests
  BY HeadNotStarted
<1>. HIDE DEF Taken
<1>8. \A r \in Requests : r > reqNo' => ~Started(r)'
  BY <1>1, <1>2, <1>3, BoundsAssumption DEF StartedOK, Requests
<1>9. /\ \A i \in Scans(workQueue') : ~Started(workQueue'[i].req)
      /\ \A i \in Scans(requestQueue') : ~Started(requestQueue'[i].req)
  <2>1. ASSUME reqNo + 1 \in Requests PROVE ~Started(reqNo + 1)
    BY <1>1, <2>1 DEF StartedOK
  <2>. QED
    BY <1>5, <2>1, ScanOrigins DEF StartedOK
<1>10. /\ \A i \in Scans(workQueue') : task'[workQueue'[i].req] = "none"
       /\ \A i \in Scans(requestQueue') : task'[requestQueue'[i].req] = "none"
  BY <1>2, <1>4, <1>5, <1>9 DEF Started
<1>11. ASSUME NEW m \in responses' \cup {pendingResult'}
       PROVE  /\ m.status = "ACCEPTED" => task'[m.req] # "none"
              /\ m.status = "REJECTED" => task'[m.req] = "none"
  <2>1. CASE m = NoResult
    BY <2>1, ResponseTypes
  <2>2. CASE m # NoResult /\ m \in responses \cup {pendingResult}
    <3>1. IsAnswer(m) /\ m \in Responses
      BY <2>2 DEF AnswerInv, DataOK
    <3>2. m.req \in Requests /\ ~Taken(m.req)
      BY <1>6, <3>1, ResponseTypes
    <3>. QED
      BY <1>2, <2>2, <3>2 DEF StartedOK, Started
  <2>3. CASE AcceptTask /\ m.req = Head(requestQueue).req /\ m.status = "ACCEPTED"
    BY <1>2, <1>7, <2>3 DEF Started
  <2>4. CASE RejectTask /\ m.req = Head(requestQueue).req /\ m.status = "REJECTED"
    <3>1. task' = task
      BY <2>4 DEF RejectTask
    <3>. QED
      BY <2>4, <3>1, HeadNotStarted DEF Started
  <2>. QED
    BY <2>1, <2>2, <2>3, <2>4, AnswersFrom
<1>12. taskId' # 0 => task'[taskId'] # "none"
  <2>1. ASSUME taskId' # 0 PROVE taskId' \in Requests /\ Started(taskId')
    <3>1. taskId' \in Requests
      BY <2>1, BoundsAssumption DEF DataOK, Requests
    <3>2. taskId' = taskId \/ TaskAccepted
      BY <2>1, TaskIdFrom
    <3>3. CASE taskId' = taskId
      BY <2>1, <3>1, <3>3 DEF StartedOK, Started
    <3>4. CASE TaskAccepted
      BY <3>1, <3>4 DEF StartedOK, Started, TaskAccepted
    <3>. QED
      BY <3>1, <3>2, <3>3, <3>4
  <2>. QED
    BY <1>2, <2>1 DEF Started
<1>13. ASSUME NEW r \in Requests, StopPosted(r)' PROVE task'[r] # "none"
  <2>1. Started(r)
    <3>1. r # 0
      BY BoundsAssumption DEF Requests
    <3>. QED
      BY <1>13, <3>1, ReturnsFrom DEF StartedOK
  <2>. QED
    BY <1>2, <2>1 DEF Started
<1>. QED
  BY <1>8, <1>10, <1>11, <1>12, <1>13 DEF StartedOK, Started

(* Who lets the task go while nobody waits for an answer. *)
LEMMA ClosesFrom ==
  ASSUME ControlInv, [Next]_vars, ~UNCHANGED workQueue, ~SubmitTask, ~RunPosted
  PROVE  (DestroySource \/ OpenFailed \/ CloseAfterSweep) /\ taskId' = 0 /\ sweepPc' # "await"
         /\ sweepPc # "await"
<1>1. CASE DestroySource
  BY <1>1, SMT DEF DestroySource, CloseSource, SendTaskStop, ControlInv
<1>2. CASE OpenFailed \/ CloseAfterSweep
  BY <1>2, SMT DEF OpenFailed, CloseAfterSweep, CloseSource, SendTaskStop
<1>3. CASE \/ StopChannel \/ Start \/ StopScanner \/ StopSource \/ Join \/ OpenSource
           \/ ChannelNotReady \/ ExchangeTimesOut \/ TaskRejected \/ TaskAccepted
           \/ InnerTest \/ NextTest \/ Receive \/ HandleDwell \/ SweepExits
           \/ ConnectionOpens \/ OnReceiverOpen \/ OnTransportError \/ OnMessage
           \/ Controller \/ UNCHANGED vars
  BY <1>3, Zenon DEF Start, StopScanner, StopSource, Join, StopChannel, OpenSource,
     ChannelNotReady, ExchangeTimesOut, TaskRejected, TaskAccepted, InnerTest, NextTest,
     Receive, HandleDwell, SweepExits, ConnectionOpens, OnReceiverOpen, OnTransportError,
     OnMessage,
     Controller, AcceptTask, RejectTask, StopTask, TaskEnds, vars
<1>. QED
  BY <1>1, <1>2, <1>3, Zenon DEF Next, Main, Sweep, Proton, Finished

LEMMA ReturnsStep ==
  ASSUME DataOK, DataOK', ControlInv, SocketInv, AnswerInv, ReturnsOK, [Next]_vars
  PROVE  ReturnsOK'
<1>. SUFFICES ASSUME NEW r \in Requests, StopPosted(r)' PROVE LetGo(r)'
  BY ReturnsFrom DEF ReturnsOK, LetGo
<1>0. r \in Nat /\ r # 0 /\ reqNo \in Nat
  BY BoundsAssumption DEF Requests, DataOK
<1>1. CASE StopPosted(r)
  <2>1. taskId # r /\ r <= reqNo /\ (r = reqNo => sweepPc # "await")
    BY <1>1 DEF ReturnsOK, LetGo
  <2>2. taskId' # r
    <3>1. CASE TaskAccepted
      BY <2>1, <3>1, ResponseTypes DEF TaskAccepted, AnswerInv
    <3>. QED
      BY <1>0, <2>1, <3>1, TaskIdFrom
  <2>3. r <= reqNo' /\ (r = reqNo' => sweepPc' # "await")
    <3>1. CASE SubmitTask
      BY <1>0, <2>1, <3>1 DEF SubmitTask
    <3>2. CASE ExchangeTimesOut \/ TaskRejected \/ TaskAccepted
      BY <2>1, <3>2 DEF ExchangeTimesOut, TaskRejected, TaskAccepted, sourceVars
    <3>. QED
      BY <2>1, <3>1, <3>2, WaitFrom
  <2>. QED
    BY <2>2, <2>3 DEF LetGo
<1>2. CASE ~StopPosted(r)
  <2>1. SendTaskStop /\ requestQueue' = requestQueue /\ r = taskId
    BY <1>2, ReturnsFrom
  <2>2. ~UNCHANGED workQueue /\ ~SubmitTask /\ ~RunPosted
    <3>1. ~UNCHANGED workQueue
      BY <1>2, <2>1, PostedStops
    <3>2. ~SubmitTask
      BY <1>2, SubmitReturns
    <3>3. ~RunPosted
      BY <1>2, RunReturns
    <3>. QED
      BY <3>1, <3>2, <3>3
  <2>3. taskId' = 0 /\ sweepPc' # "await" /\ r = reqNo
    BY <1>0, <2>1, <2>2, ClosesFrom DEF AnswerInv
  <2>4. r <= reqNo'
    BY <1>0, <2>3, RequestsGrow
  <2>. QED
    BY <1>0, <2>3, <2>4 DEF LetGo
<1>. QED
  BY <1>1, <1>2

LEMMA OrphanStep ==
  ASSUME DataOK, DataOK', ControlInv, SocketInv, AnswerInv, WaitOK, StartedOK,
         OrphansWereAbandoned, [Next]_vars
  PROVE  OrphansWereAbandoned'
<1>. DEFINE Cared(r)  == taskId = r \/ StopPosted(r) \/ (r = reqNo /\ sweepPc = "await")
<1>. SUFFICES ASSUME NEW r \in Requests, task'[r] = "live", Kept(r)'
              PROVE  Cared(r)'
  BY DEF OrphansWereAbandoned, Orphan, Kept
<1>0. r \in Nat \ {0}
  BY BoundsAssumption DEF Requests
<1>1. Kept(r)
  BY AbandonedGrows DEF Kept
<1>2. Cared(r)
  <2>1. CASE task[r] = "live"
    BY <1>1, <2>1 DEF OrphansWereAbandoned, Orphan, Kept
  <2>2. CASE AcceptTask /\ r = Head(requestQueue).req
    <3>1. 1 \in Scans(requestQueue) /\ Head(requestQueue) = requestQueue[1]
      BY <2>2, TailScans DEF AcceptTask, DataOK
    <3>. QED
      BY <1>1, <2>2, <3>1 DEF WaitOK, WaitedFor
  <2>. QED
    BY <2>1, <2>2, LiveFrom
<1>3. CASE StopPosted(r)
  BY <1>3, PostedStays
<1>4. CASE taskId = r
  <2>1. CASE SendTaskStop
    BY <1>0, <1>4, <2>1, CloseKeepsStops, PostedStops DEF Kept
  <2>2. CASE TaskAccepted
    BY <1>0, <1>4, <2>2 DEF TaskAccepted, SocketInv
  <2>3. UNCHANGED taskId \/ SendTaskStop \/ TaskAccepted
    <3>. USE DEF vars, mainVars, sourceVars
    <3>1. CASE \/ Start \/ StopScanner \/ StopSource \/ Join \/ StopChannel
               \/ OpenSource \/ SubmitTask \/ ChannelNotReady \/ ExchangeTimesOut \/ TaskRejected
               \/ InnerTest \/ NextTest \/ Receive \/ HandleDwell
               \/ SweepExits \/ RunPosted \/ ConnectionOpens \/ OnReceiverOpen
               \/ OnTransportError \/ OnMessage \/ Controller \/ UNCHANGED vars
      BY <3>1, Zenon DEF Start, StopScanner, StopSource, Join, StopChannel,
         OpenSource, SubmitTask, ChannelNotReady, ExchangeTimesOut, TaskRejected, InnerTest,
         NextTest, Receive, HandleDwell, SweepExits, RunPosted, ConnectionOpens, OnReceiverOpen,
         OnTransportError, OnMessage, Controller, AcceptTask, RejectTask, StopTask, TaskEnds
    <3>2. CASE DestroySource \/ OpenFailed \/ CloseAfterSweep
      BY <3>2, Zenon DEF DestroySource, OpenFailed, CloseAfterSweep, CloseSource
    <3>. QED
      BY <3>1, <3>2, Zenon DEF Next, Main, Sweep, Proton, Finished
  <2>. QED
    BY <1>4, <2>1, <2>2, <2>3
<1>5. CASE r = reqNo /\ sweepPc = "await"
  <2>1. CASE SubmitTask
    BY <1>5, <2>1 DEF SubmitTask
  <2>2. CASE ExchangeTimesOut
    BY <1>5, <2>2 DEF ExchangeTimesOut, Kept
  <2>3. CASE TaskRejected
    <3>1. pendingResult # NoResult /\ task' = task /\ pendingResult.status = "REJECTED"
      BY <2>3, ResponseTypes DEF TaskRejected, brokerVars
    <3>. QED
      BY <1>5, <3>1 DEF StartedOK, Started, AnswerInv
  <2>4. CASE TaskAccepted
    <3>1. pendingResult # NoResult /\ taskId' = pendingResult.req
      BY <2>4, ResponseTypes DEF TaskAccepted
    <3>. QED
      BY <1>5, <3>1 DEF AnswerInv
  <2>. QED
    BY <1>5, <2>1, <2>2, <2>3, <2>4, WaitFrom
<1>. QED
  BY <1>2, <1>3, <1>4, <1>5

LEMMA OneLiveStep ==
  ASSUME DataOK, DataOK', QueueInv, StopsFirst, AtMostOneLiveTask, [Next]_vars
  PROVE  AtMostOneLiveTask'
<1>1. \A r \in Requests : Kept(r)' => Kept(r)
  BY AbandonedGrows DEF Kept
<1>2. CASE AcceptTask
  <2>. DEFINE h == Head(requestQueue)
  <2>1. 1 \in Scans(requestQueue) /\ h = requestQueue[1]
    BY <1>2, HeadFirst
  <2>. HIDE DEF h
  <2>2. ASSUME NEW r \in Requests, task[r] = "live", Kept(r), Kept(h.req) PROVE FALSE
    <3>1. PICK i \in Stops(requestQueue, r) : i < 1
      BY <2>1, <2>2 DEF StopsFirst
    <3>. QED
      BY <3>1 DEF Stops
  <2>. QED
    BY <1>1, <1>2, <2>2, LiveFrom DEF AtMostOneLiveTask, Kept, h
<1>3. CASE ~AcceptTask
  BY <1>1, <1>3, LiveFrom DEF AtMostOneLiveTask, Kept
<1>. QED
  BY <1>2, <1>3

LEMMA StopsStep ==
  ASSUME DataOK, DataOK', QueueInv, SocketInv, WaitOK, OrphansWereAbandoned, StopsFirst, [Next]_vars
  PROVE  StopsFirst'
<1>. SUFFICES ASSUME NEW r \in Requests, task'[r] = "live", r \notin abandoned'
              PROVE  /\ \A j \in Scans(requestQueue') : requestQueue'[j].req \notin abandoned' =>
                          \E i \in Stops(requestQueue', r) : i < j
                     /\ \A j \in Scans(workQueue') : workQueue'[j].req \notin abandoned' =>
                          Stops(requestQueue', r) # {} \/ \E i \in Stops(workQueue', r) : i < j
  BY Zenon DEF StopsFirst, Kept
<1>0. /\ workQueue \in Seq(Messages) /\ requestQueue \in Seq(Messages)
      /\ \A j \in Scans(workQueue') : j \in Nat /\ j >= 1
      /\ \A j \in Scans(requestQueue') : j \in Nat /\ j >= 1
  BY ScanReqs DEF DataOK
<1>1. abandoned \subseteq abandoned'
  BY AbandonedGrows
<1>2. CASE AcceptTask /\ r = Head(requestQueue).req
  (* The other requests on their way are younger than r, and have been given up. *)
  <2>1. r = reqNo
    <3>1. 1 \in Scans(requestQueue) /\ Head(requestQueue) = requestQueue[1]
      BY <1>2, HeadFirst
    <3>. QED
      BY <1>1, <1>2, <3>1 DEF WaitOK, WaitedFor, Kept
  <2>2. /\ \A i \in Scans(workQueue') : r # workQueue'[i].req
        /\ \A i \in Scans(requestQueue') : r # requestQueue'[i].req
    BY <1>2, HeadFirst
  <2>3. requestQueue # <<>> /\ requestQueue' = Tail(requestQueue) /\ workQueue' = workQueue
    BY <1>2 DEF AcceptTask
  <2>4. \A i \in Scans(requestQueue') :
          i + 1 \in Scans(requestQueue) /\ requestQueue'[i] = requestQueue[i + 1]
    BY <1>0, <2>3, TailScans
  <2>5. \A i \in Scans(requestQueue') : requestQueue'[i].req \in abandoned
    BY <2>1, <2>2, <2>4 DEF WaitOK, WaitedFor, Kept
  <2>6. \A i \in Scans(workQueue') : workQueue'[i].req \in abandoned
    BY <2>1, <2>2, <2>3 DEF WaitOK, WaitedFor, Kept
  <2>. QED
    BY <1>1, <2>5, <2>6
<1>3. CASE task[r] = "live"
  <2>0. /\ \A j \in Scans(requestQueue) : requestQueue[j].req \notin abandoned =>
             \E i \in Stops(requestQueue, r) : i < j
        /\ \A j \in Scans(workQueue) : workQueue[j].req \notin abandoned =>
             Stops(requestQueue, r) # {} \/ \E i \in Stops(workQueue, r) : i < j
    BY <1>1, <1>3, Zenon DEF StopsFirst, Kept
  <2>1. CASE UNCHANGED <<workQueue, requestQueue>>
    BY <1>1, <2>0, <2>1
  <2>2. CASE SendTaskStop /\ UNCHANGED <<requestQueue, task>>
    BY <1>1, <2>0, <2>2, ClosePosts, CloseKeepsStops
  <2>3. CASE SubmitTask
    <3>. DEFINE m == ScanMsg(reqNo + 1, preboundPort, 0)
    <3>1. m \in Messages /\ workQueue' = Append(workQueue, m) /\ requestQueue' = requestQueue
      BY <2>3, MessageTypes, BoundsAssumption DEF SubmitTask, DataOK, Requests, brokerVars
    <3>. HIDE DEF m
    <3>2. Stops(workQueue, r) # {} \/ Stops(requestQueue, r) # {}
      <4>1. taskId # r /\ sweepPc = "submit"
        BY <2>3, BoundsAssumption DEF SubmitTask, SocketInv, Requests
      <4>. QED
        BY <1>1, <1>3, <4>1, PostedStops DEF OrphansWereAbandoned, Orphan
    <3>3. \A j \in Scans(workQueue') :
            \/ j \in Scans(workQueue) /\ workQueue'[j] = workQueue[j]
            \/ j = Len(workQueue) + 1
      BY <1>0, <3>1, AppendScans
    <3>4. /\ \A i \in Stops(workQueue, r) :
               i \in Nat /\ i <= Len(workQueue) /\ i \in Stops(workQueue', r)
          /\ Len(workQueue) \in Nat
      BY <1>0, <3>1, AppendStops
    <3>5. ASSUME NEW j \in Scans(workQueue'), workQueue'[j].req \notin abandoned'
          PROVE  Stops(requestQueue', r) # {} \/ \E i \in Stops(workQueue', r) : i < j
      <4>1. CASE j \in Scans(workQueue) /\ workQueue'[j] = workQueue[j]
        BY <1>1, <2>0, <3>1, <3>4, <3>5, <4>1
      <4>2. CASE j = Len(workQueue) + 1
        BY <3>1, <3>2, <3>4, <4>2
      <4>. QED
        BY <3>3, <4>1, <4>2
    <3>. QED
      BY <1>1, <2>0, <3>1, <3>5
  <2>4. CASE RunPosted
    <3>. DEFINE h == Head(workQueue)
                m == Stamped(h)
    <3>1. /\ workQueue # <<>> /\ workQueue' = Tail(workQueue)
          /\ requestQueue' = Append(requestQueue, m) \/ requestQueue' = requestQueue
      BY <2>4 DEF RunPosted
    <3>2. h \in Messages /\ h = workQueue[1] /\ (h.kind = "scan" => 1 \in Scans(workQueue))
      BY <1>0, <3>1, TailScans
    <3>3. m \in Messages /\ m.kind = h.kind /\ m.req = h.req
      BY <3>2, Restamp DEF DataOK
    <3>. HIDE DEF h, m
    <3>4. \A j \in Scans(requestQueue') :
            \/ j \in Scans(requestQueue) /\ requestQueue'[j] = requestQueue[j]
            \/ /\ j = Len(requestQueue) + 1 /\ 1 \in Scans(workQueue)
               /\ requestQueue'[j].req = workQueue[1].req
      <4>1. CASE requestQueue' = Append(requestQueue, m)
        <5>1. \A j \in Scans(requestQueue') :
                \/ j \in Scans(requestQueue) /\ requestQueue'[j] = requestQueue[j]
                \/ j = Len(requestQueue) + 1 /\ m.kind = "scan" /\ requestQueue'[j] = m
          BY <1>0, <3>3, <4>1, AppendScans
        <5>. QED
          BY <3>2, <3>3, <5>1
      <4>2. CASE requestQueue' = requestQueue
        BY <4>2
      <4>. QED
        BY <3>1, <4>1, <4>2
    <3>5. \A j \in Scans(workQueue') :
            j + 1 \in Scans(workQueue) /\ workQueue'[j] = workQueue[j + 1]
      BY <1>0, <3>1, TailScans
    <3>6. /\ \A i \in Stops(requestQueue, r) :
               i \in Nat /\ i <= Len(requestQueue) /\ i \in Stops(requestQueue', r)
          /\ \A i \in Stops(workQueue, r) :
               \/ i = 1 /\ Stops(requestQueue', r) # {}
               \/ i \in Nat /\ i > 1 /\ i - 1 \in Stops(workQueue', r)
          /\ Len(requestQueue) \in Nat
      BY <1>0, <2>4, RunKeepsStops
    <3>7. ASSUME NEW j \in Scans(requestQueue'), requestQueue'[j].req \notin abandoned'
          PROVE  \E i \in Stops(requestQueue', r) : i < j
      <4>1. CASE j \in Scans(requestQueue) /\ requestQueue'[j] = requestQueue[j]
        BY <1>1, <2>0, <3>6, <3>7, <4>1
      <4>2. CASE /\ j = Len(requestQueue) + 1 /\ 1 \in Scans(workQueue)
                 /\ requestQueue'[j].req = workQueue[1].req
        <5>1. Stops(requestQueue, r) # {} \/ \E i \in Stops(workQueue, r) : i < 1
          BY <1>1, <2>0, <3>7, <4>2
        <5>. QED
          BY <3>6, <4>2, <5>1
      <4>. QED
        BY <3>4, <4>1, <4>2
    <3>8. ASSUME NEW j \in Scans(workQueue'), workQueue'[j].req \notin abandoned'
          PROVE  Stops(requestQueue', r) # {} \/ \E i \in Stops(workQueue', r) : i < j
      <4>1. Stops(requestQueue, r) # {} \/ \E i \in Stops(workQueue, r) : i < j + 1
        BY <1>1, <2>0, <3>5, <3>8
      <4>. QED
        BY <1>0, <3>6, <4>1
    <3>. QED
      BY <3>7, <3>8
  <2>5. CASE AcceptTask \/ RejectTask \/ StopTask
    <3>1. requestQueue # <<>> /\ requestQueue' = Tail(requestQueue) /\ workQueue' = workQueue
      BY <2>5 DEF AcceptTask, RejectTask, StopTask
    <3>2. \A j \in Scans(requestQueue') :
            j + 1 \in Scans(requestQueue) /\ requestQueue'[j] = requestQueue[j + 1]
      BY <1>0, <3>1, TailScans
    <3>3. \A i \in Stops(requestQueue, r) : i \in Nat /\ i > 1 /\ i - 1 \in Stops(requestQueue', r)
      BY <2>5, TakeKeepsStops
    <3>4. ASSUME NEW j \in Scans(requestQueue'), requestQueue'[j].req \notin abandoned'
          PROVE  \E i \in Stops(requestQueue', r) : i < j
      <4>1. \E i \in Stops(requestQueue, r) : i < j + 1
        BY <1>1, <2>0, <3>2, <3>4
      <4>. QED
        BY <1>0, <3>3, <4>1
    <3>. QED
      BY <1>1, <2>0, <3>1, <3>3, <3>4
  <2>. QED
    BY <2>1, <2>2, <2>3, <2>4, <2>5, QueueMoves
<1>. QED
  BY <1>2, <1>3, LiveFrom

-----------------------------------------------------------------------------
(* The invariant of the tasks. *)
THEOREM TasksCorrect == Spec => []TasksInv
<1>1. Init => TasksInv
  <2>. SUFFICES ASSUME Init PROVE TasksInv
    OBVIOUS
  <2>1. Scans(<<>>) = {} /\ \A r : Stops(<<>>, r) = {}
    BY DEF Scans, Stops
  <2>2. \A r \in Requests : task[r] = "none"
    BY DEF Init
  <2>3. \A r : ~StopPosted(r) /\ OneStop(r)
    BY <2>1, PostedStops DEF Init, OneStop, SingleStop
  <2>4. StartedOK /\ WaitOK
    BY <2>1, <2>2, <2>3, ResponseTypes DEF Init, StartedOK, Started, WaitOK
  <2>5. ReturnsOK
    BY <2>3 DEF ReturnsOK, LetGo
  <2>6. OrphansWereAbandoned /\ StopsFirst /\ AtMostOneLiveTask
    BY <2>2 DEF OrphansWereAbandoned, Orphan, StopsFirst, AtMostOneLiveTask
  <2>. QED
    BY <2>4, <2>5, <2>6 DEF TasksInv
<1>2. /\ TypeOK /\ SafetyInv /\ TasksInv /\ [Next]_vars /\ TypeOK' /\ SafetyInv'
      => TasksInv'
  <2>. SUFFICES ASSUME DataOK, DataOK', SafetyInv, SafetyInv', TasksInv, [Next]_vars
                PROVE  TasksInv'
    BY DEF TypeOK
  <2>. USE DEF SafetyInv, TasksInv
  <2>1. StartedOK' /\ WaitOK' /\ ReturnsOK'
    BY StartedStep, WaitStep, ReturnsStep
  <2>2. OrphansWereAbandoned'
    BY OrphanStep
  <2>3. StopsFirst' /\ AtMostOneLiveTask'
    BY StopsStep, OneLiveStep
  <2>. QED
    BY <2>1, <2>2, <2>3
<1>. QED
  BY <1>1, <1>2, TypeCorrect, SafetyCorrect, PTL DEF Spec

(* A task is left running only if its request was given up or its stop lost. *)
THEOREM OrphansWereAbandonedCorrect == Spec => []OrphansWereAbandoned
<1>1. TasksInv => OrphansWereAbandoned
  BY DEF TasksInv
<1>. QED
  BY <1>1, TasksCorrect, PTL

(* The controller never runs two tasks of this scanner that were not given up. *)
THEOREM AtMostOneLiveTaskCorrect == Spec => []AtMostOneLiveTask
<1>1. TasksInv => AtMostOneLiveTask
  BY DEF TasksInv
<1>. QED
  BY <1>1, TasksCorrect, PTL

(* No task is stopped twice: a TASK_STOP under way is the only one of its task,  *)
(* which was started and which the scanner neither holds nor waits for.          *)
THEOREM StoppedOnce ==
  Spec => [](\A r \in Requests : StopPosted(r) =>
               /\ OneStop(r) /\ task[r] # "none" /\ taskId # r
               /\ ~(r = reqNo /\ sweepPc = "await"))
<1>1. TasksInv => (\A r \in Requests : StopPosted(r) =>
                     /\ OneStop(r) /\ task[r] # "none" /\ taskId # r
                     /\ ~(r = reqNo /\ sweepPc = "await"))
  BY DEF TasksInv, ReturnsOK, LetGo, StartedOK, Started
<1>. QED
  BY <1>1, TasksCorrect, PTL

-----------------------------------------------------------------------------
(* The refinement: every step of the session is one of the lease, or leaves  *)
(* the lease alone.                                                          *)

(* Who holds or waits, after a step that neither begins nor ends a wait. *)
LEMMA HolderViews ==
  /\ sweepPc = "await" => Holder = "waiting"
  /\ sweepPc # "await" => Holder = (IF taskId # 0 THEN "holding" ELSE "idle")
  /\ sweepPc' = "await" => Holder' = "waiting"
  /\ sweepPc' # "await" => Holder' = (IF taskId' # 0 THEN "holding" ELSE "idle")
  BY DEF Holder

(* What a change of one task does to the tasks that run and that have ended. *)
LEMMA TaskViews ==
  ASSUME DataOK
  PROVE  /\ task' = task => LiveTasks' = LiveTasks /\ EndedTasks' = EndedTasks
         /\ \A r \in Requests : task' = [task EXCEPT ![r] = "live"] =>
              LiveTasks' = LiveTasks \cup {r} /\ EndedTasks' = EndedTasks \ {r}
         /\ \A r \in Requests : task' = [task EXCEPT ![r] = "ended"] =>
              LiveTasks' = LiveTasks \ {r} /\ EndedTasks' = EndedTasks \cup {r}
         /\ \A r \in Requests : Started(r) <=> r \in LiveTasks \cup EndedTasks
  BY DEF LiveTasks, EndedTasks, Started, DataOK

(* Which stops are under way, read off the stops of each request. *)
LEMMA ReturningViews ==
  /\ \A r \in Requests : r \in Returning <=> StopPosted(r)
  /\ (\A r \in Requests : StopPosted(r)' <=> StopPosted(r)) => Returning' = Returning
  /\ \A s \in Requests : (\A r \in Requests : StopPosted(r)' <=> StopPosted(r) \/ r = s)
       => Returning' = Returning \cup {s}
  /\ \A s \in Requests : (\A r \in Requests : StopPosted(r)' <=> StopPosted(r) /\ r # s)
       => Returning' = Returning \ {s}
  BY DEF Returning

LEMMA LeaseStutters ==
  ASSUME DataOK, sweepPc = "await" <=> sweepPc' = "await",
         UNCHANGED <<reqNo, taskId, task, workQueue, requestQueue, abandoned>>
  PROVE  UNCHANGED Lease!lease
<1>1. Holder' = Holder
  BY HolderViews
<1>2. Returning' = Returning
  BY PostedStops, ReturningViews
<1>. QED
  BY <1>1, <1>2, TaskViews DEF Lease!lease

(* Most steps leave the lease alone. *)
LEMMA QuietSteps ==
  ASSUME DataOK, ControlInv,
         \/ Start \/ StopScanner \/ StopSource \/ Join \/ StopChannel \/ OpenSource
         \/ ChannelNotReady \/ InnerTest \/ NextTest \/ Receive \/ HandleDwell \/ SweepExits
         \/ ConnectionOpens \/ OnReceiverOpen \/ OnTransportError \/ OnMessage \/ UNCHANGED vars
  PROVE  UNCHANGED Lease!lease
<1>1. UNCHANGED <<reqNo, taskId, task, workQueue, requestQueue, abandoned>>
  BY Zenon DEF Start, StopScanner, StopSource, Join, StopChannel, OpenSource,
     ChannelNotReady, InnerTest, NextTest, Receive, HandleDwell, SweepExits,
     ConnectionOpens, OnReceiverOpen, OnTransportError, OnMessage, vars, mainVars, sourceVars,
     linkVars,
     pendingVars, brokerVars
<1>2. sweepPc = "await" <=> sweepPc' = "await"
  <2>1. CASE \/ StopScanner \/ StopSource \/ Join \/ StopChannel \/ ConnectionOpens
             \/ OnReceiverOpen
             \/ OnTransportError \/ OnMessage \/ UNCHANGED vars
    BY <2>1, Zenon DEF StopScanner, StopSource, Join, StopChannel, ConnectionOpens,
       OnReceiverOpen,
       OnTransportError, OnMessage, vars
  <2>2. CASE Start
    BY <2>2 DEF Start, ControlInv
  <2>3. CASE OpenSource \/ ChannelNotReady \/ InnerTest \/ NextTest
    BY <2>3 DEF OpenSource, ChannelNotReady, InnerTest, NextTest
  <2>4. CASE Receive \/ HandleDwell \/ SweepExits
    BY <2>4 DEF Receive, HandleDwell, SweepExits
  <2>. QED
    BY <2>1, <2>2, <2>3, <2>4
<1>. QED
  BY <1>1, <1>2, LeaseStutters

LEMMA SubmitAsks ==
  ASSUME DataOK, SocketInv, ReturnsOK, SubmitTask
  PROVE  Lease!Ask
<1>1. /\ sweepPc = "submit" /\ sweepPc' = "await" /\ reqNo' = reqNo + 1
      /\ UNCHANGED <<task, abandoned>>
  BY DEF SubmitTask, brokerVars
<1>2. Holder = "idle" /\ Holder' = "waiting"
  BY <1>1, HolderViews DEF SocketInv
<1>3. reqNo < MaxRequests
  BY <1>1, BoundsAssumption DEF DataOK
<1>4. Returning' = Returning
  BY SubmitReturns, ReturningViews
<1>. QED
  BY <1>1, <1>2, <1>3, <1>4, TaskViews DEF Lease!Ask

(* The three ends of a wait. *)
LEMMA WaitEnds ==
  ASSUME DataOK, SocketInv, AnswerInv, StartedOK
  PROVE  /\ ExchangeTimesOut => Lease!GiveUp
         /\ TaskRejected => Lease!Refused
         /\ TaskAccepted => Lease!Hold
<1>1. ASSUME ExchangeTimesOut \/ TaskRejected \/ TaskAccepted
      PROVE  /\ Holder = "waiting" /\ sweepPc' # "await" /\ taskId = 0
             /\ UNCHANGED <<reqNo, LiveTasks, EndedTasks, Returning>>
  <2>1. /\ sweepPc = "await" /\ UNCHANGED <<reqNo, task, workQueue, requestQueue>>
    BY <1>1 DEF ExchangeTimesOut, TaskRejected, TaskAccepted, sourceVars, brokerVars
  <2>2. sweepPc' # "await"
    BY <1>1 DEF ExchangeTimesOut, TaskRejected, TaskAccepted, OpenOn
  <2>3. Returning' = Returning
    BY <2>1, PostedStops, ReturningViews
  <2>. QED
    BY <2>1, <2>2, <2>3, HolderViews, TaskViews DEF SocketInv
<1>2. ASSUME ExchangeTimesOut PROVE Lease!GiveUp
  <2>1. taskId' = taskId /\ abandoned' = abandoned \cup {reqNo}
    BY <1>2 DEF ExchangeTimesOut, sourceVars
  <2>. QED
    BY <1>1, <1>2, <2>1, HolderViews DEF Lease!GiveUp
<1>3. ASSUME TaskRejected \/ TaskAccepted
      PROVE  /\ pendingResult.req = reqNo /\ reqNo \in Requests /\ abandoned' = abandoned
  <2>1. pendingResult # NoResult /\ abandoned' = abandoned
    BY <1>3, ResponseTypes DEF TaskRejected, TaskAccepted
  <2>. QED
    BY <2>1, ResponseTypes DEF AnswerInv, DataOK
<1>4. ASSUME TaskRejected PROVE Lease!Refused
  <2>1. taskId' = taskId /\ ~Started(reqNo)
    BY <1>3, <1>4 DEF TaskRejected, sourceVars, StartedOK
  <2>. QED
    BY <1>1, <1>3, <1>4, <2>1, HolderViews, TaskViews DEF Lease!Refused
<1>5. ASSUME TaskAccepted PROVE Lease!Hold
  <2>1. taskId' = reqNo /\ reqNo # 0 /\ Started(reqNo)
    BY <1>3, <1>5, BoundsAssumption DEF TaskAccepted, StartedOK, Requests
  <2>. QED
    BY <1>1, <1>3, <1>5, <2>1, HolderViews, TaskViews DEF Lease!Hold
<1>. QED
  BY <1>2, <1>4, <1>5

(* close() gives the task back if there is one. *)
LEMMA CloseGivesBack ==
  ASSUME DataOK, ControlInv, SocketInv, AnswerInv, ReturnsOK,
         DestroySource \/ OpenFailed \/ CloseAfterSweep
  PROVE  Lease!Return \/ UNCHANGED Lease!lease
<1>1. /\ SendTaskStop /\ requestQueue' = requestQueue /\ task' = task /\ reqNo' = reqNo
      /\ taskId' = 0
  BY DEF DestroySource, OpenFailed, CloseAfterSweep, CloseSource, brokerVars, SendTaskStop
<1>2. sweepPc # "await" /\ sweepPc' # "await"
  <2>1. CASE DestroySource
    BY <2>1 DEF DestroySource, ControlInv
  <2>2. CASE OpenFailed \/ CloseAfterSweep
    BY <2>2 DEF OpenFailed, CloseAfterSweep
  <2>. QED
    BY <2>1, <2>2
<1>3. LiveTasks' = LiveTasks /\ EndedTasks' = EndedTasks
  BY <1>1, TaskViews
<1>4. Holder' = "idle"
  BY <1>1, <1>2, HolderViews
<1>5. \A r \in Requests : StopPosted(r)' <=> StopPosted(r) \/ (r = taskId /\ ready)
  BY <1>1, CloseReturns
<1>6. CASE taskId = 0
  <2>1. Holder = "idle" /\ abandoned' = abandoned
    BY <1>1, <1>2, <1>6, HolderViews DEF SendTaskStop
  <2>2. \A r \in Requests : StopPosted(r)' <=> StopPosted(r)
    BY <1>5, <1>6, BoundsAssumption DEF Requests
  <2>. QED
    BY <1>1, <1>3, <1>4, <2>1, <2>2, ReturningViews DEF Lease!lease
<1>7. CASE taskId # 0
  <2>1. Holder = "holding" /\ taskId = reqNo /\ reqNo \in Requests
    BY <1>2, <1>7, HolderViews, BoundsAssumption DEF AnswerInv, DataOK, Requests
  <2>2. reqNo \notin Returning
    BY <2>1, ReturningViews DEF ReturnsOK, LetGo
  <2>3. CASE ready
    <3>1. abandoned' = abandoned
      BY <1>1, <2>3 DEF SendTaskStop
    <3>2. \A r \in Requests : StopPosted(r)' <=> StopPosted(r) \/ r = reqNo
      BY <1>5, <2>1, <2>3, Zenon
    <3>3. Returning' = Returning \cup {reqNo}
      BY <2>1, <3>2, ReturningViews, Zenon
    <3>. QED
      BY <1>1, <1>3, <1>4, <2>1, <2>2, <3>1, <3>3 DEF Lease!Return
  <2>4. CASE ~ready
    <3>1. abandoned' = abandoned \cup {reqNo}
      BY <1>1, <1>7, <2>1, <2>4 DEF SendTaskStop
    <3>2. \A r \in Requests : StopPosted(r)' <=> StopPosted(r)
      BY <1>5, <2>4, Zenon
    <3>3. Returning' = Returning
      BY <3>2, ReturningViews, Zenon
    <3>. QED
      BY <1>1, <1>3, <1>4, <2>1, <2>2, <3>1, <3>3 DEF Lease!Return
  <2>. QED
    BY <2>3, <2>4
<1>. QED
  BY <1>6, <1>7

(* A posted closure that runs loses at most its own stop. *)
LEMMA RunLoses ==
  ASSUME DataOK, ReturnsOK, RunPosted
  PROVE  (\E r \in Requests : Lease!Lose(r)) \/ UNCHANGED Lease!lease
<1>1. UNCHANGED <<sweepPc, reqNo, taskId, task>>
  BY DEF RunPosted, sourceVars
<1>2. UNCHANGED <<Holder, LiveTasks, EndedTasks>>
  BY <1>1, HolderViews, TaskViews
<1>3. \A r \in Requests : /\ StopPosted(r)' <=> StopPosted(r) /\ ~Dropped(r)
                          /\ Dropped(r) => StopPosted(r) /\ abandoned' = abandoned \cup {r}
  BY RunReturns
<1>4. CASE \E s \in Requests : Dropped(s)
  <2>1. PICK s \in Requests : Dropped(s)
    BY <1>4
  <2>2. \A r \in Requests : Dropped(r) <=> r = s
    BY <2>1 DEF Dropped, IsStop
  <2>3. \A r \in Requests : StopPosted(r)' <=> StopPosted(r) /\ r # s
    BY <1>3, <2>2, Zenon
  <2>4. Returning' = Returning \ {s} /\ s \in Returning /\ abandoned' = abandoned \cup {s}
    BY <1>3, <2>1, <2>3, ReturningViews, Zenon
  <2>. QED
    BY <1>1, <1>2, <2>4 DEF Lease!Lose
<1>5. CASE \A s \in Requests : ~Dropped(s)
  <2>1. \A r \in Requests : StopPosted(r)' <=> StopPosted(r)
    BY <1>3, <1>5, Zenon
  <2>2. Returning' = Returning
    BY <2>1, ReturningViews, Zenon
  <2>3. abandoned' = abandoned
    <3>1. ASSUME requestQueue' = requestQueue, Head(workQueue).kind = "stop" PROVE FALSE
      <4>1. Head(workQueue).req \in Requests
        BY <3>1, HeadStop DEF RunPosted, DataOK
      <4>. QED
        BY <1>5, <3>1, <4>1 DEF Dropped, IsStop
    <3>. QED
      BY <3>1 DEF RunPosted
  <2>. QED
    BY <1>1, <1>2, <2>2, <2>3 DEF Lease!lease
<1>. QED
  BY <1>4, <1>5

(* The controller starts, refuses, stops and ends tasks. *)
LEMMA AcceptStarts ==
  ASSUME DataOK, DataOK', QueueInv, StartedOK, WaitOK, ReturnsOK, StopsFirst, AcceptTask
  PROVE  \E r \in Requests : Lease!Start(r)
<1>. DEFINE h == Head(requestQueue)
<1>1. PICK s \in Requests : s = h.req /\ s <= reqNo
  BY HeadFirst
<1>2. 1 \in Scans(requestQueue) /\ h = requestQueue[1] /\ ~Started(s)
  BY <1>1, HeadFirst, HeadNotStarted
<1>3. /\ UNCHANGED <<sweepPc, reqNo, taskId, abandoned>> /\ task' = [task EXCEPT ![s] = "live"]
      /\ h.kind = "scan"
  BY <1>1 DEF AcceptTask, sourceVars
<1>. HIDE DEF h
<1>4. s \notin LiveTasks \cup EndedTasks
  BY <1>2, TaskViews
<1>5. LiveTasks' = LiveTasks \cup {s} /\ EndedTasks' = EndedTasks \ {s} /\ EndedTasks \ {s} = EndedTasks
  BY <1>3, <1>4, TaskViews
<1>6. Holder' = Holder
  BY <1>3, HolderViews
<1>7. Returning' = Returning
  <2>1. \A r \in Requests : ~IsStop(h, r)
    BY <1>3 DEF IsStop
  <2>2. \A r \in Requests : StopPosted(r)' <=> StopPosted(r)
    BY <2>1, TakeReturns DEF h
  <2>. QED
    BY <2>2, ReturningViews, Zenon
<1>8. s \in abandoned \/ (s = reqNo /\ Holder = "waiting" /\ LiveTasks \subseteq abandoned)
  <2>. SUFFICES ASSUME s \notin abandoned
                PROVE  s = reqNo /\ Holder = "waiting" /\ LiveTasks \subseteq abandoned
    OBVIOUS
  <2>1. s = reqNo /\ sweepPc = "await"
    BY <1>1, <1>2 DEF WaitOK, WaitedFor, Kept
  <2>2. ASSUME NEW r \in Requests, task[r] = "live", r \notin abandoned PROVE FALSE
    <3>1. PICK i \in Stops(requestQueue, r) : i < 1
      BY <1>1, <1>2, <2>2 DEF StopsFirst, Kept
    <3>. QED
      BY <3>1 DEF Stops
  <2>3. LiveTasks \subseteq abandoned
    BY <2>2 DEF LiveTasks
  <2>. QED
    BY <2>1, <2>3, HolderViews
<1>9. Lease!Start(s)
  BY <1>1, <1>3, <1>4, <1>5, <1>6, <1>7, <1>8 DEF Lease!Start
<1>. QED
  BY <1>9

LEMMA RejectStutters ==
  ASSUME DataOK, ReturnsOK, RejectTask
  PROVE  UNCHANGED Lease!lease
<1>1. UNCHANGED <<sweepPc, reqNo, taskId, task, abandoned>> /\ Head(requestQueue).kind = "scan"
  BY DEF RejectTask, sourceVars
<1>2. \A r \in Requests : StopPosted(r)' <=> StopPosted(r)
  BY <1>1, TakeReturns DEF IsStop
<1>3. Returning' = Returning
  BY <1>2, ReturningViews, Zenon
<1>. QED
  BY <1>1, <1>3, HolderViews, TaskViews DEF Lease!lease

LEMMA StopStops ==
  ASSUME DataOK, StartedOK, ReturnsOK, StopTask
  PROVE  \E r \in Requests : Lease!Stopped(r)
<1>. DEFINE h == Head(requestQueue)
<1>1. PICK s \in Requests : s = h.req
  BY HeadStop DEF StopTask, DataOK
<1>2. /\ UNCHANGED <<sweepPc, reqNo, taskId, abandoned>> /\ task' = [task EXCEPT ![s] = "ended"]
      /\ h.kind = "stop"
  BY <1>1 DEF StopTask, sourceVars
<1>. HIDE DEF h
<1>3. \A r \in Requests : IsStop(h, r) <=> r = s
  BY <1>1, <1>2 DEF IsStop
<1>4. \A r \in Requests : /\ StopPosted(r)' <=> StopPosted(r) /\ ~IsStop(h, r)
                          /\ IsStop(h, r) => StopPosted(r)
  BY TakeReturns DEF h
<1>5. \A r \in Requests : StopPosted(r)' <=> StopPosted(r) /\ r # s
  BY <1>3, <1>4, Zenon
<1>6. Returning' = Returning \ {s} /\ s \in Returning
  BY <1>3, <1>4, <1>5, ReturningViews, Zenon
<1>7. s \in LiveTasks \cup EndedTasks
  BY <1>3, <1>4, TaskViews DEF StartedOK
<1>8. LiveTasks' = LiveTasks \ {s} /\ EndedTasks' = EndedTasks \cup {s} /\ Holder' = Holder
  <2>1. task' = [task EXCEPT ![s] = "ended"] /\ UNCHANGED <<sweepPc, taskId>>
    BY <1>2
  <2>2. LiveTasks' = LiveTasks \ {s} /\ EndedTasks' = EndedTasks \cup {s}
    BY <2>1, TaskViews, Zenon
  <2>3. Holder' = Holder
    BY <2>1 DEF Holder
  <2>. QED
    BY <2>2, <2>3
<1>9. Lease!Stopped(s)
  BY <1>2, <1>6, <1>7, <1>8 DEF Lease!Stopped
<1>. QED
  BY <1>9

LEMMA TaskEndEnds ==
  ASSUME DataOK, TaskEnds
  PROVE  \E r \in Requests : Lease!End(r)
<1>1. PICK s \in Requests : task[s] = "live" /\ task' = [task EXCEPT ![s] = "ended"]
  BY DEF TaskEnds
<1>2. UNCHANGED <<sweepPc, reqNo, taskId, workQueue, requestQueue, abandoned>>
  BY DEF TaskEnds, sourceVars
<1>3. Returning' = Returning
  BY <1>2, PostedStops, ReturningViews
<1>4. s \in LiveTasks
  BY <1>1 DEF LiveTasks
<1>5. LiveTasks' = LiveTasks \ {s} /\ EndedTasks' = EndedTasks \cup {s}
  BY <1>1, TaskViews, Zenon
<1>6. Holder' = Holder
  BY <1>2 DEF Holder
<1>7. Lease!End(s)
  BY <1>2, <1>3, <1>4, <1>5, <1>6 DEF Lease!End
<1>. QED
  BY <1>7

(* Tasks are asked for one at a time, held only when started, stopped once; the *)
(* next one starts only after: the session implements the lease.                *)
THEOREM Refinement == Spec => ImplementsTaskLease
<1>1. Init => Lease!Init
  <2>. SUFFICES ASSUME Init PROVE Lease!Init
    OBVIOUS
  <2>1. LiveTasks = {} /\ EndedTasks = {} /\ Holder = "idle"
    BY DEF Init, LiveTasks, EndedTasks, Holder
  <2>2. Returning = {}
    BY DEF Init, Returning, StopPosted
  <2>. QED
    BY <2>1, <2>2 DEF Init, Lease!Init
<1>2. TypeOK /\ TypeOK' /\ SafetyInv /\ TasksInv /\ [Next]_vars => [Lease!Next]_(Lease!lease)
  <2>. SUFFICES ASSUME DataOK, DataOK', SafetyInv, TasksInv, [Next]_vars
                PROVE  [Lease!Next]_(Lease!lease)
    BY DEF TypeOK
  <2>. USE DEF SafetyInv, TasksInv
  <2>1. CASE \/ Start \/ StopScanner \/ StopSource \/ Join \/ StopChannel \/ OpenSource
             \/ ChannelNotReady \/ InnerTest \/ NextTest \/ Receive \/ HandleDwell \/ SweepExits
             \/ ConnectionOpens \/ OnReceiverOpen \/ OnTransportError \/ OnMessage
             \/ UNCHANGED vars
    BY <2>1, QuietSteps, Zenon
  <2>2. CASE SubmitTask
    BY <2>2, SubmitAsks DEF Lease!Next
  <2>3. CASE ExchangeTimesOut \/ TaskRejected \/ TaskAccepted
    BY <2>3, WaitEnds DEF Lease!Next
  <2>4. CASE DestroySource \/ OpenFailed \/ CloseAfterSweep
    BY <2>4, CloseGivesBack DEF Lease!Next
  <2>5. CASE RunPosted
    BY <2>5, RunLoses DEF Lease!Next, Requests
  <2>6. CASE AcceptTask
    BY <2>6, AcceptStarts DEF Lease!Next, Requests
  <2>7. CASE RejectTask
    BY <2>7, RejectStutters
  <2>8. CASE StopTask
    BY <2>8, StopStops DEF Lease!Next, Requests
  <2>9. CASE TaskEnds
    BY <2>9, TaskEndEnds DEF Lease!Next, Requests
  <2>. QED
    BY <2>1, <2>2, <2>3, <2>4, <2>5, <2>6, <2>7, <2>8, <2>9, Zenon
       DEF Next, Main, Sweep, Proton, Controller, Finished
<1>. QED
  BY <1>1, <1>2, TypeCorrect, SafetyCorrect, TasksCorrect, PTL DEF Spec, ImplementsTaskLease, Lease!Spec
=============================================================================
